----------------------------- MODULE MCSearchTree -----------------------------
(* Small game trees for checking SearchTree with TLC. *)
EXTENDS SearchTree, TLC

CONSTANTS g, a, b, a1, a2, a11

(* Two moves at the root; a has two final replies. *)
WideNodes == {g, a, b, a1, a2}
WideParent == [y \in WideNodes \ {g} |-> IF y \in {a, b} THEN g ELSE a]
WidePath ==
  [y \in WideNodes |->
     CASE y = g -> {g}
       [] y \in {a, b} -> {g, y}
       [] OTHER -> {g, a, y}]
WideOutcomes == [{b, a1, a2} -> Values]

(* A line of play three moves deep: a conversion can climb two levels.  In *)
(* the three games a is won (both replies lose), lost through the longer   *)
(* reply, and not decided by its replies.                                  *)
DeepNodes == {g, a, a1, a2, a11}
DeepParent ==
  [y \in DeepNodes \ {g} |-> CASE y = a -> g [] y = a11 -> a1 [] OTHER -> a]
DeepPath ==
  [y \in DeepNodes |->
     CASE y = g -> {g}
       [] y = a -> {g, a}
       [] y = a11 -> {g, a, a1, a11}
       [] OTHER -> {g, a, y}]
DeepOutcomes ==
  {a2 :> p[1] @@ a11 :> p[2] : p \in {<<-1, 1>>, <<-1, -1>>, <<0, 1>>}}
=============================================================================
