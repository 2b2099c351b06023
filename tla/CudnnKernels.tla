----------------------------- MODULE CudnnKernels -----------------------------
(***************************************************************************)
(* The index arithmetic of the CUDA kernels (neural/cuda/common_kernels.cu)*)
(* and of the conversion of weights (neural/cuda/layers.cc).  A kernel is  *)
(* a set of <<element written, what it is made of>>, one for each thread   *)
(* that writes; elements and threads are counted from 0.  The size of a    *)
(* board, 64 squares in the code, and of a block of threads, 256, are      *)
(* parameters.                                                             *)
(***************************************************************************)
EXTENDS Integers, Sequences, FiniteSets

CONSTANTS Plane, BlockSize

DivUp(a, b) == (a + b - 1) \div b
Below(n) == 0..n - 1

(* The threads of as many blocks as n elements need. *)
Threads(n) == Below(DivUp(n, BlockSize) * BlockSize)

(* Where channel c of square sq of sample n is, of C channels. *)
NCHW(n, c, sq, C) == (n * C + c) * Plane + sq
NHWC(n, c, sq, C) == (n * Plane + sq) * C + c
At(nhwc, n, c, sq, C) == IF nhwc THEN NHWC(n, c, sq, C) ELSE NCHW(n, c, sq, C)

(* The first threads of a block load the planes for all of it. *)
expandPlanes_NCHW(N, P) ==
  LET planes == N * P
      block(i) == i \div BlockSize
      shared(i, k) == ((block(i) * BlockSize + k) \div Plane) + k
  IN {<<i, [plane |-> shared(i, (i % BlockSize) \div Plane), sq |-> i % Plane]>> :
        i \in {j \in Threads(planes * Plane) : j \div Plane < planes}}

(* Mutant: squares before planes, as in the other layout. *)
expandPlanes_NHWCSquaresFirst(N, P) ==
  {<<i, [plane |-> (i \div (P * Plane)) * P + ((i \div Plane) % P),
         sq |-> i % Plane]>> :
     i \in {j \in Threads(N * P * Plane) : j < N * P * Plane}}

expandPlanes_NHWC(N, P) ==
  {<<i, [plane |-> (i \div (P * Plane)) * P + (i % P),
         sq |-> (i \div P) % Plane]>> :
     i \in {j \in Threads(N * P * Plane) : j < N * P * Plane}}

fp32NCHWtofp16NHWC(N, C) ==
  {<<t, NCHW(t \div (C * Plane), t % C, (t \div C) % Plane, C)>> :
     t \in {u \in Threads(N * C * Plane) : u < N * C * Plane}}

(* c[i] = a[i % asize] + b[i % bsize], as a fully connected layer uses it. *)
addVectors(size, asize, bsize) ==
  {<<i, [a |-> i % asize, b |-> i % bsize]>> : i \in {t \in Threads(size) : t < size}}

addBias_NCHW(N, C) ==
  {<<i, (i \div Plane) % C>> :
     i \in {t \in Threads(N * C * Plane) : t < N * C * Plane}}

(* The thread with number inputSize is let through. *)
globalScale(N, C, nhwc) ==
  LET inputSize == N * C * Plane
      n(t) == IF nhwc THEN t \div (Plane * C) ELSE (t \div Plane) \div C
      c(t) == IF nhwc THEN t % C ELSE (t \div Plane) % C
  IN {<<t, [scale |-> n(t) * 2 * C + c(t), add |-> n(t) * 2 * C + C + c(t)]>> :
        t \in {u \in Threads(inputSize) : u <= inputSize}}

(* N blocks of C threads, or a warp for each plane: the elements summed. *)
globalAvgPool(N, C, nhwc) ==
  IF nhwc
  THEN {<<b * C + c, {b * C * Plane + i * C + c : i \in Below(Plane)}>> :
          b \in Below(N), c \in Below(C)}
  ELSE {<<w, {w * Plane + i : i \in Below(Plane)}>> : w \in Below(N * C)}

(* LoadWeights() of the policy map: used channels of the Cin of the layer  *)
(* before; -1 is no move.                                                  *)
PolicyMapWeights(weights, used, Cin, nhwc) ==
  IF nhwc
  THEN [i \in Below(Cin * Plane) |->
          IF i % Cin < used THEN weights[(i % Cin) * Plane + (i \div Cin)] ELSE -1]
  ELSE [i \in Below(used * Plane) |-> weights[i]]

(* <<element of the policy, element of the tensor>> *)
PolicyMapKernel(N, indices, Cin, outputs) ==
  LET used == Cardinality(DOMAIN indices)
  IN {<<(t \div used) * outputs + indices[t % used],
        (t \div used) * Cin * Plane + (t % used)>> :
        t \in {u \in Threads(N * used) : u \div used < N /\ indices[u % used] >= 0}}

(* cpuTranspose(), and how the fused kernel reads the result. *)
cpuTranspose(rows, cols) ==
  [at \in Below(rows * cols) |->
     LET j == at \div rows
         i == at % rows
     IN i * cols + j]
readw1(row, col, K) == row * K + col
readw2(row, col, C) == row * 2 * C + col

-----------------------------------------------------------------------------
(* Every kernel writes each element of its output once, nothing else, and  *)
(* of what lies at the same place of the same sample in the layout it      *)
(* reads.                                                                  *)
KernelsKeepLayouts(N, C) ==
  LET places == Below(N) \X Below(C) \X Below(Plane)
      moves == [i \in Below(C * Plane) |-> IF i % 2 = 0 THEN i \div 2 ELSE -1]
  IN \A nhwc \in BOOLEAN :
     LET at(p) == At(nhwc, p[1], p[2], p[3], C)
         expanded == {<<at(p), [plane |-> p[1] * C + p[2], sq |-> p[3]]>> : p \in places}
         scaled == {<<at(p), [scale |-> p[1] * 2 * C + p[2],
                              add |-> p[1] * 2 * C + C + p[2]]>> : p \in places}
         pooled == {<<n * C + c, {at(<<n, c, sq>>) : sq \in Below(Plane)}>> :
                      n \in Below(N), c \in Below(C)}
         (* One channel more is padding. *)
         padded == C + 1
         mapped == {<<p[1] * C * Plane + moves[p[2] * Plane + p[3]],
                      At(nhwc, p[1], p[2], p[3], padded)>> :
                      p \in {q \in places : moves[q[2] * Plane + q[3]] >= 0}}
     IN /\ expanded = IF nhwc THEN expandPlanes_NHWC(N, C) ELSE expandPlanes_NCHW(N, C)
        /\ globalScale(N, C, nhwc) = scaled
        /\ globalAvgPool(N, C, nhwc) = pooled
        /\ PolicyMapKernel(N, PolicyMapWeights(moves, C, padded, nhwc), padded, C * Plane) = mapped

ConversionsKeepWeights(N, C, K) ==
  LET places == Below(N) \X Below(C) \X Below(Plane) IN
  /\ fp32NCHWtofp16NHWC(N, C) =
       {<<NHWC(p[1], p[2], p[3], C), NCHW(p[1], p[2], p[3], C)>> : p \in places}
  /\ addBias_NCHW(N, C) = {<<NCHW(p[1], p[2], p[3], C), p[2]>> : p \in places}
  /\ addVectors(N * K, K, N * K) =
       {<<n * K + k, [a |-> k, b |-> n * K + k]>> : n \in Below(N), k \in Below(K)}
  /\ \A c \in Below(C), k \in Below(K) : cpuTranspose(K, C)[readw1(c, k, K)] = k * C + c
  /\ \A c \in Below(2 * C), k \in Below(K) :
       cpuTranspose(2 * C, K)[readw2(k, c, C)] = c * K + k
=============================================================================
