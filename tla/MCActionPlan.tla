---------------------------- MODULE MCActionPlan ----------------------------
EXTENDS ActionPlan

CONSTANTS a, b

App(v, order, update, treatFailure, rerun) ==
  [version |-> v, order |-> order, update |-> update, treatFailure |-> treatFailure,
   rerun |-> rerun]

Profile(forA, forB) == [x \in {a, b} |-> IF x = a THEN forA ELSE forB]

(* Two applications. a has order 1, in two versions; b has order 2 or none, *)
(* with or without an update command. Each may be absent.                  *)
OrderProfiles ==
  { Profile(f, g) :
      f \in {None, App(1, 1, TRUE, TRUE, FALSE), App(2, None, FALSE, FALSE, FALSE)},
      g \in {None, App(1, 2, TRUE, FALSE, FALSE), App(2, 2, TRUE, TRUE, FALSE)} }

(* Commands that reboot the machine: a reruns after a reboot, b in its     *)
(* second version does not, and is of a higher order than a. a changes its *)
(* version, b comes, changes its version and goes.                         *)
RebootProfiles ==
  LET a1 == App(1, 1, TRUE, TRUE, TRUE)
      a2 == App(2, 1, TRUE, TRUE, TRUE)
      b1 == App(1, 2, FALSE, FALSE, TRUE)
      b2 == App(2, 2, FALSE, FALSE, FALSE)
  IN {Profile(a1, None), Profile(a1, b1), Profile(a2, b1), Profile(a2, b2)}

(* Versions are taken up to AreVersionsEqual (actionplan.go:189). Its       *)
(* module is checked here on all versions of up to three texts, two of     *)
(* which are the same number.                                              *)
AtoiOf(text) == CASE text = "0" -> 0 [] text \in {"1", "01"} -> 1 [] OTHER -> None
Strings == INSTANCE VersionStrings WITH Atoi <- AtoiOf, NotANumber <- None
SomeStrings == UNION {[1..n -> {"0", "1", "01", "x"}] : n \in 1..3}
Same(v, w) ==
  \/ v = w
  \/ /\ Strings!Numeric(v) /\ Strings!Numeric(w)
     /\ \A i \in 1..3 : Strings!Number(v, i) = Strings!Number(w, i)

ASSUME ComparisonAssumption ==
  \A v, w \in SomeStrings : Strings!AreVersionsEqual(v, w) <=> Same(v, w)
=============================================================================
