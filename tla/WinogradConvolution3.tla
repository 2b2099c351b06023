------------------------- MODULE WinogradConvolution3 -------------------------
(***************************************************************************)
(* The 3x3 convolution of the BLAS backend by Winograd's F(2x2, 3x3)       *)
(* (neural/blas/winograd_convolution3.cc, neural/shared/winograd_filter.cc)*)
(* over integers, with the filter transform multiplied by 4 so that its    *)
(* halves are integers too.  All arrays are functions of their index,      *)
(* which counts from 0, as in the code.                                    *)
(***************************************************************************)
EXTENDS Integers, Sequences, FiniteSetsExt, TLC

kWidth == 8
kWtiles == 4
kTiles == 16

Upto(n) == 0..n - 1
SumOver(S, f(_)) == MapThenSumSet(f, S)

InStep(v) ==
  (0 :> v[0] - v[2]) @@ (1 :> v[1] + v[2]) @@ (2 :> v[2] - v[1]) @@ (3 :> v[1] - v[3])

(* A 4x4 tile is transformed row by row and column by column. *)
BothWays(x) ==
  LET rows == [i \in Upto(4) |-> InStep([j \in Upto(4) |-> x[j][i]])]
  IN [i \in Upto(4) |-> InStep([j \in Upto(4) |-> rows[j][i]])]

(* WinogradFilterTransformF(): G f transpose(G), transposed for sgemm. *)
G == <<<<2, 0, 0>>, <<1, 1, 1>>, <<1, -1, 1>>, <<0, 0, 2>>>>

FilterTransformF(f, outputs, channels) ==
  LET temp(o, c, i, j) ==
        SumOver(Upto(3), LAMBDA k : G[i + 1][k + 1] * f[o * channels * 9 + c * 9 + k * 3 + j])
      size == outputs * channels
  IN [at \in Upto(16 * size) |->
        LET xi == at \div (4 * size)
            nu == (at \div size) % 4
            c == (at % size) \div outputs
            o == at % outputs
        IN SumOver(Upto(3), LAMBDA k : temp(o, c, xi, k) * G[nu + 1][k + 1])]

(* Tiles overlap by 2, and there is nothing beyond the border. *)
Tile(input, base, block_y, block_x) ==
  [i \in Upto(4) |-> [j \in Upto(4) |->
     LET y == 2 * block_y - 1 + i x == 2 * block_x - 1 + j
     IN IF y \in Upto(8) /\ x \in Upto(8) THEN input[base + y * kWidth + x] ELSE 0]]

TransformIn(batch_size, input, channels) ==
  LET R == [b \in Upto(batch_size), c \in Upto(channels), t \in Upto(kTiles) |->
              BothWays(Tile(input, (b * channels + c) * 64, t \div kWtiles, t % kWtiles))]
      incr == channels * kTiles * batch_size
  IN [at \in Upto(16 * incr) |->
        LET i == at \div incr
            b == (at % incr) \div (channels * kTiles)
            t == (at \div channels) % kTiles
            c == at % channels
        IN R[b, c, t][i \div 4][i % 4]]

(* Sixteen products of matrices, stored by columns. *)
Sgemm(batch_size, weights, V, channels, outputs) ==
  LET tiles == batch_size * kTiles
  IN [at \in Upto(16 * outputs * tiles) |->
        LET b == at \div (outputs * tiles)
            col == (at \div outputs) % tiles
            o == at % outputs
        IN SumOver(Upto(channels), LAMBDA c :
             weights[b * outputs * channels + c * outputs + o]
               * V[b * batch_size * channels * kTiles + col * channels + c])]

(* transpose(A) m A *)
OutStep(v, k) == IF k = 0 THEN v[0] + v[1] + v[2] ELSE v[1] - v[2] - v[3]

TransformOut(batch_size, M, channels) ==
  LET incr == channels * kTiles * batch_size
  IN [at \in Upto(batch_size * channels * 64) |->
        LET b == at \div (channels * 64)
            c == (at \div 64) % channels
            y == (at \div 8) % 8
            x == at % 8
            tile == (y \div 2) * kWtiles + x \div 2
            m(w) == M[channels * kTiles * b + c + channels * tile + w * incr]
            row(i) == OutStep([j \in Upto(4) |-> m(i * 4 + j)], x % 2)
        IN OutStep([i \in Upto(4) |-> row(i)], y % 2)]

Forward(batch_size, channels, outputs, input, weights) ==
  TransformOut(batch_size,
               Sgemm(batch_size, weights, TransformIn(batch_size, input, channels),
                     channels, outputs),
               outputs)

-----------------------------------------------------------------------------
(* Forward() with transformed filters is the 3x3 convolution, with zeros   *)
(* around the board.                                                       *)
Convolution(batch_size, channels, outputs, input, f) ==
  [at \in Upto(batch_size * outputs * 64) |->
     LET b == at \div (outputs * 64)
         o == (at \div 64) % outputs
         y == (at \div 8) % 8
         x == at % 8
     IN SumOver(Upto(channels), LAMBDA c :
          SumOver({d \in (-1..1) \X (-1..1) : y + d[1] \in Upto(8) /\ x + d[2] \in Upto(8)},
                  LAMBDA d : f[(o * channels + c) * 9 + (d[1] + 1) * 3 + d[2] + 1]
                    * input[(b * channels + c) * 64 + (y + d[1]) * 8 + x + d[2]]))]

IsConvolution(batch_size, channels, outputs, input, f) ==
  \A r \in {Forward(batch_size, channels, outputs, input,
                    FilterTransformF(f, outputs, channels))},
     s \in {Convolution(batch_size, channels, outputs, input, f)} :
    \A at \in DOMAIN s : r[at] = 4 * s[at]
=============================================================================
