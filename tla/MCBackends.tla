------------------------------ MODULE MCBackends ------------------------------
(* Constants for checking Backends with TLC. *)
EXTENDS Backends

(* Two inputs fit into a batch. *)
MCMaxBatch == [w \in Workers |-> 2]

(* Differences within either tolerance, within both and within none. *)
MCOutputs ==
  LET values == {-1, 0, 2, 4, NaN}
  IN {[q |-> x, p |-> x] : x \in values} \cup {[q |-> x, p |-> 0] : x \in values}

Network(filters, se, seOutputs, convPolicy, wdl) ==
  [filters |-> filters, se |-> se, seOutputs |-> seOutputs,
   convPolicy |-> convPolicy, policyChannels |-> IF convPolicy THEN 80 ELSE 32,
   valueChannels |-> 32, hidden |-> 128, wdl |-> wdl]

(* Without units and with them: those that the fused kernel computes, that *)
(* it declines and that it throws at; few filters and many.                *)
MCCudnnNets ==
  {Network(64, <<FALSE, FALSE>>, 0, FALSE, FALSE),
   Network(64, <<TRUE, TRUE>>, 32, TRUE, TRUE),
   Network(96, <<TRUE, TRUE>>, 16, TRUE, TRUE),
   Network(32, <<FALSE>>, 0, TRUE, TRUE),
   Network(384, <<TRUE>>, 32, FALSE, TRUE)}

(* Single precision, with an old cuDNN, and half precision in either       *)
(* layout; NHWC is for half precision only.                                *)
Option(half, nhwc, cudnn70) == [half |-> half, nhwc |-> nhwc, cudnn70 |-> cudnn70]
MCCudnnOptions ==
  {Option(FALSE, FALSE, FALSE), Option(FALSE, FALSE, TRUE),
   Option(TRUE, FALSE, FALSE), Option(TRUE, TRUE, FALSE)}

(* Where the three buffers change places, either there are at least as     *)
(* many filters as input planes or they are back when the next chunk       *)
(* begins.                                                                 *)
MCBlasNets ==
  {Network(64, <<FALSE, FALSE>>, 0, FALSE, FALSE),
   Network(64, <<TRUE, TRUE, TRUE>>, 32, TRUE, TRUE),
   Network(128, <<TRUE, TRUE>>, 16, TRUE, TRUE),
   Network(128, <<TRUE, FALSE>>, 16, TRUE, FALSE),
   Network(32, <<FALSE>>, 0, TRUE, TRUE)}

(* Two blocks with units and few filters. *)
SmallSeNets == {Network(64, <<TRUE, TRUE>>, 32, TRUE, TRUE)}

(* Outputs of a part of a warp and of a whole one, as in units of 16 and   *)
(* 32, and of two warps, of all there are and of some, as in units of 64.  *)
WideUnits == {[channels |-> 4, outputs |-> 4], [channels |-> 6, outputs |-> 4]}
MCUnits == {[channels |-> 4, outputs |-> 1], [channels |-> 4, outputs |-> 2],
            [channels |-> 6, outputs |-> 2]} \cup WideUnits

MCKernelShapes == {<<1, 4, 1>>, <<2, 4, 3>>, <<3, 4, 2>>, <<2, 8, 5>>}

(* Some numbers, all different enough. *)
Numbers(n, s) == [i \in 0..n - 1 |-> ((i * i * 7 + i * s * 13 + s) % 11) - 5]
MCConvolutionShapes ==
  {<<n[1], n[2], n[3], Numbers(n[1] * n[2] * 64, n[4]), Numbers(n[2] * n[3] * 9, n[4] + 3)>> :
     n \in {<<1, 1, 1, 1>>, <<2, 2, 3, 2>>, <<2, 3, 1, 5>>}}
=============================================================================
