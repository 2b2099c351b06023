----------------------------- MODULE CheckNetwork -----------------------------
(***************************************************************************)
(* The "check" backend (src/neural/network_check.cc): some computations    *)
(* are done by two networks, and what their outputs differ by is reported; *)
(* the search reads those of the first.  Outputs are integers, with an     *)
(* absolute tolerance of 1 and a relative one of 1/2; NaN is an output     *)
(* that compares with nothing.                                             *)
(***************************************************************************)
EXTENDS Integers, Sequences

CONSTANTS
  NaN,
  Outputs,   \* of a sample: [q, p], integers or NaN
  Lengths,   \* batch sizes
  Modes      \* values of "mode"

(* Networks assumes it of the constants this module is instantiated with. *)
OutputAssumption ==
  /\ NaN \notin Int
  /\ Outputs \subseteq [q : Int \cup {NaN}, p : Int \cup {NaN}]
  /\ Lengths \subseteq Nat

VARIABLES
  mode,
  work,       \* the outputs of work_comp_; one entry of the policy stands
              \* for kNumOutputPolicies of them
  reference,  \* those of check_comp_
  report      \* what is written to the log

checkVars == <<mode, work, reference, report>>

Nothing == <<>>

Init ==
  /\ mode \in Modes
  /\ \E n \in Lengths : work \in [1..n -> Outputs] /\ reference \in [1..n -> Outputs]
  /\ report = Nothing

IsNumber(a, b) == NaN \notin {a, b}
AbsoluteError(a, b) == IF a < b THEN b - a ELSE a - b
Greater(a, b) == IF a < b THEN b ELSE a
Magnitude(a, b) == Greater(AbsoluteError(a, 0), AbsoluteError(b, 0))

(* Mutant: "not beyond the tolerance" instead of "within". *)
IsAlmostEqualNegated(a, b) ==
  ~(IsNumber(a, b)
      /\ 2 * AbsoluteError(a, b) > Greater(Magnitude(a, b), 2))

IsAlmostEqual(a, b) ==
  /\ IsNumber(a, b)
  /\ 2 * AbsoluteError(a, b) <= Greater(Magnitude(a, b), 2)

Pairs(f) == {<<work[i][f], reference[i][f]>> : i \in DOMAIN work}

(* The loops give up at the first sample that differs; the policy is       *)
(* looked at even when a value differs.                                    *)
CheckOnly ==
  [value |-> \A x \in Pairs("q") : IsAlmostEqual(x[1], x[2]),
   policy |-> \A x \in Pairs("p") : IsAlmostEqual(x[1], x[2])]

(* MaximumError::Add: an error that is not a number is not larger than the *)
(* maximum so far.  Relative errors are fractions, 0/1 of zeros.           *)
AddError(max, x) ==
  IF ~IsNumber(x[1], x[2]) THEN max
  ELSE LET abs == AbsoluteError(x[1], x[2])
           mag == Greater(Magnitude(x[1], x[2]), IF x = <<0, 0>> THEN 1 ELSE 0)
       IN [absolute |-> Greater(max.absolute, abs),
           relative |-> IF abs * max.relative[2] > max.relative[1] * mag
                        THEN <<abs, mag>> ELSE max.relative]

MaximumError(f) ==
  LET maximum[n \in 0 .. Len(work)] ==
        IF n = 0 THEN [absolute |-> 0, relative |-> <<0, 1>>]
        ELSE AddError(maximum[n - 1], <<work[n][f], reference[n][f]>>)
  IN maximum[Len(work)]

(* An unknown mode is "check". *)
ComputeBlocking ==
  /\ report = Nothing
  /\ report' = CASE mode = "display" -> [value |-> MaximumError("q"),
                                         policy |-> MaximumError("p")]
                 [] mode = "histo" -> [total |-> 2 * Len(work)]
                 [] OTHER -> CheckOnly
  /\ UNCHANGED <<mode, work, reference>>

Next == ComputeBlocking

-----------------------------------------------------------------------------
(* A check passes only if every output of both is a number and within the  *)
(* tolerances; the errors displayed are attained by some output and        *)
(* exceeded by none that is a number.                                      *)
Within(x) ==
  /\ IsNumber(x[1], x[2])
  /\ \/ x[1] - x[2] \in -1..1
     \/ \E y \in {x[1], x[2], -x[1], -x[2]} :
          2 * (x[1] - x[2]) <= y /\ 2 * (x[2] - x[1]) <= y

ErrorsAre(max, pairs) ==
  LET numbers == {x \in pairs : IsNumber(x[1], x[2])} IN
  /\ \A x \in numbers : max.absolute >= x[1] - x[2] /\ max.absolute >= x[2] - x[1]
  /\ max.absolute = 0 \/ \E x \in numbers : x[1] - x[2] \in {max.absolute, -max.absolute}
  /\ \A x \in numbers :
       max.relative[2] * AbsoluteError(x[1], x[2]) <= max.relative[1] * Magnitude(x[1], x[2])

ReportIsTrue ==
  report # Nothing =>
    CASE mode = "display" -> /\ ErrorsAre(report.value, Pairs("q"))
                             /\ ErrorsAre(report.policy, Pairs("p"))
      [] mode = "histo" -> report.total = Len(work) + Len(reference)
      [] OTHER -> /\ report.value = (\A x \in Pairs("q") : Within(x))
                  /\ report.policy = (\A x \in Pairs("p") : Within(x))
=============================================================================
