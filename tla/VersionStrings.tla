--------------------------- MODULE VersionStrings ---------------------------
(***************************************************************************)
(* pkg/utils/versionstringutils.go: when two version strings stand for the *)
(* same version. A version string is the sequence of the texts between its *)
(* dots; a number can be written in several ways ("1", "01"), and what     *)
(* comes from the settings need not be a number. Callers pass no nil, and  *)
(* only ask whether versions are equal: the sign of CompareVersion is left *)
(* out.                                                                    *)
(***************************************************************************)
EXTENDS Integers, Sequences

CONSTANTS
  Atoi(_),     \* strconv.Atoi of a text: a number, or
  NotANumber   \* its error

First(S) == CHOOSE i \in S : \A j \in S : i <= j

(* Positions that both have, and that decide: an error, or different numbers. *)
Deciding(v, w) ==
  {i \in 1..Len(v) \cap 1..Len(w) :
     NotANumber \in {Atoi(v[i]), Atoi(w[i])} \/ Atoi(v[i]) # Atoi(w[i])}

(* Positions of v from start that are not 0.                               *)
NonZeros(v, start) == {i \in start..Len(v) : Atoi(v[i]) # 0}

findNonZeroVersionNumber(v, start) ==
  IF NonZeros(v, start) = {} THEN 0 ELSE Atoi(v[First(NonZeros(v, start))])

(* What the longer one has beyond the other: 1.2.0.0 is the same as 1.2.   *)
Remaining(v, w) ==
  IF Len(v) > Len(w) THEN findNonZeroVersionNumber(v, Len(w) + 1)
  ELSE findNonZeroVersionNumber(w, Len(v) + 1)

CompareVersion(v, w) ==
  IF Deciding(v, w) # {}
  THEN LET i == First(Deciding(v, w)) IN
       IF NotANumber \in {Atoi(v[i]), Atoi(w[i])} THEN "error" ELSE "different"
  ELSE CASE Remaining(v, w) = NotANumber -> "error"
         [] Remaining(v, w) = 0 -> "equal"
         [] OTHER -> "different"

AreVersionsEqual(v, w) ==
  IF CompareVersion(v, w) = "error" THEN v = w ELSE CompareVersion(v, w) = "equal"

-----------------------------------------------------------------------------
(* The reference: the same text, or the same numbers, those that are       *)
(* missing at the end being 0.                                             *)
Numeric(v) == \A i \in 1..Len(v) : Atoi(v[i]) # NotANumber
Number(v, i) == IF i <= Len(v) THEN Atoi(v[i]) ELSE 0
SameNumbers(v, w) ==
  /\ Numeric(v)
  /\ Numeric(w)
  /\ \A i \in Nat \ {0} : Number(v, i) = Number(w, i)
SameVersion(v, w) == v = w \/ SameNumbers(v, w)
=============================================================================
