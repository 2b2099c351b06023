-------------------------- MODULE MCSearchLifecycle --------------------------
(* Limits and bounds for checking SearchLifecycle with TLC. *)
EXTENDS SearchLifecycle

NoLimit == [infinite |-> FALSE, playouts |-> -1, visits |-> -1,
            timed |-> FALSE, depth |-> FALSE, kld |-> FALSE]

(* `go nodes`, self-play playouts, `go movetime`, `go depth` with a KLD    *)
(* gain threshold, and `go ponder` with limits that are reached.           *)
MCLimits ==
  { [NoLimit EXCEPT !.visits = 2],
    [NoLimit EXCEPT !.playouts = 2],
    [NoLimit EXCEPT !.timed = TRUE],
    [NoLimit EXCEPT !.depth = TRUE, !.kld = TRUE],
    [NoLimit EXCEPT !.infinite = TRUE, !.timed = TRUE, !.playouts = 1] }
=============================================================================
