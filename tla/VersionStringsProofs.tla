------------------------ MODULE VersionStringsProofs ------------------------
(***************************************************************************)
(* AreVersionsEqual decides the relation it is meant to decide, and that   *)
(* relation is an equivalence: ActionPlan may take versions up to it. The  *)
(* texts and what Atoi makes of them are arbitrary.                        *)
(***************************************************************************)
EXTENDS VersionStrings, NaturalsInduction, WellFoundedInduction, TLAPS

(* A set of positions has a first one.                                     *)
LEMMA FirstIsFirst ==
  ASSUME NEW S \in SUBSET Nat, S # {}
  PROVE  First(S) \in S /\ \A j \in S : First(S) <= j
<1>1. IsWellFoundedOn(OpToRel(<, Nat), Nat)
  BY NatLessThanWellFounded
<1>2. PICK i \in S : \A j \in S : ~(<<j, i>> \in OpToRel(<, Nat))
  BY <1>1, WFMin
<1>3. \A j \in S : ~(j < i)
  BY <1>2, Zenon DEF OpToRel
<1>4. \A j \in S : i <= j
  BY <1>3
<1> QED
  BY <1>4 DEF First

(* The numbers that findNonZeroVersionNumber finds are not 0.              *)
LEMMA RemainingIsZero ==
  ASSUME NEW T, NEW v \in Seq(T), NEW n \in Nat \ {0}
  PROVE  findNonZeroVersionNumber(v, n) = 0 <=> \A i \in n..Len(v) : Atoi(v[i]) = 0
<1>1. CASE NonZeros(v, n) = {}
  BY <1>1 DEF findNonZeroVersionNumber, NonZeros
<1>2. CASE NonZeros(v, n) # {}
  <2>1. NonZeros(v, n) \in SUBSET Nat
    BY DEF NonZeros
  <2>2. First(NonZeros(v, n)) \in NonZeros(v, n)
    BY <1>2, <2>1, FirstIsFirst
  <2> QED
    BY <1>2, <2>2 DEF findNonZeroVersionNumber, NonZeros
<1> QED
  BY <1>1, <1>2

(* Two versions compare as equal when they have the same numbers.          *)
LEMMA EqualMeansSameNumbers ==
  ASSUME NEW T, NEW v \in Seq(T), NEW w \in Seq(T), NotANumber # 0
  PROVE  CompareVersion(v, w) = "equal" <=> SameNumbers(v, w)
<1>1. CASE Deciding(v, w) # {}
  <2>1. CompareVersion(v, w) # "equal"
    BY <1>1 DEF CompareVersion
  <2>2. ~SameNumbers(v, w)
    BY <1>1 DEF Deciding, SameNumbers, Numeric, Number
  <2> QED
    BY <2>1, <2>2
<1>2. CASE Deciding(v, w) = {}
  <2>1. CompareVersion(v, w) = "equal" <=> Remaining(v, w) = 0
    BY <1>2 DEF CompareVersion
  <2>2. Remaining(v, w) = 0 <=>
          /\ Len(v) > Len(w) => \A i \in Len(w) + 1 .. Len(v) : Atoi(v[i]) = 0
          /\ ~(Len(v) > Len(w)) => \A i \in Len(v) + 1 .. Len(w) : Atoi(w[i]) = 0
    BY RemainingIsZero DEF Remaining
  <2>3. \A i \in 1..Len(v) \cap 1..Len(w) :
          /\ Atoi(v[i]) # NotANumber /\ Atoi(w[i]) # NotANumber
          /\ Atoi(v[i]) = Atoi(w[i])
    BY <1>2 DEF Deciding
  <2>4. ASSUME Remaining(v, w) = 0 PROVE SameNumbers(v, w)
    BY <2>2, <2>3, <2>4 DEF SameNumbers, Numeric, Number
  <2>5. ASSUME SameNumbers(v, w) PROVE Remaining(v, w) = 0
    BY <2>2, <2>5 DEF SameNumbers, Number
  <2> QED
    BY <2>1, <2>4, <2>5
<1> QED
  BY <1>1, <1>2

(* A version that has a text that is no number is compared as a text, with *)
(* itself.                                                                 *)
LEMMA EqualToItself ==
  ASSUME NEW T, NEW v \in Seq(T), NotANumber # 0
  PROVE  AreVersionsEqual(v, v)
<1>1. CASE Deciding(v, v) # {}
  <2>0. Deciding(v, v) \in SUBSET Nat
    BY DEF Deciding
  <2>1. First(Deciding(v, v)) \in Deciding(v, v)
    BY <1>1, <2>0, FirstIsFirst
  <2>2. CompareVersion(v, v) = "error"
    BY <1>1, <2>1 DEF CompareVersion, Deciding
  <2> QED
    BY <2>2 DEF AreVersionsEqual
<1>2. CASE Deciding(v, v) = {}
  <2>1. SameNumbers(v, v)
    BY <1>2 DEF Deciding, SameNumbers, Numeric
  <2> QED
    BY <2>1, EqualMeansSameNumbers DEF AreVersionsEqual
<1> QED
  BY <1>1, <1>2

(* The comparison of the code, with its early returns, errors and missing  *)
(* numbers, decides the reference relation.                                *)
THEOREM EqualIsSameVersion ==
  ASSUME NEW T, NEW v \in Seq(T), NEW w \in Seq(T), NotANumber # 0
  PROVE  AreVersionsEqual(v, w) <=> SameVersion(v, w)
<1>1. AreVersionsEqual(v, w) => SameVersion(v, w)
  BY EqualMeansSameNumbers DEF AreVersionsEqual, SameVersion
<1>2. SameNumbers(v, w) => AreVersionsEqual(v, w)
  BY EqualMeansSameNumbers DEF AreVersionsEqual
<1>3. v = w => AreVersionsEqual(v, w)
  BY EqualToItself
<1> QED
  BY <1>1, <1>2, <1>3 DEF SameVersion

(* AreVersionsEqual is an equivalence: an application is not updated back  *)
(* and forth between texts of one version (actionplan.go:189).             *)
THEOREM EqualIsEquivalence ==
  ASSUME NEW T, NEW u \in Seq(T), NEW v \in Seq(T), NEW w \in Seq(T), NotANumber # 0
  PROVE  /\ AreVersionsEqual(v, v)
         /\ AreVersionsEqual(v, w) => AreVersionsEqual(w, v)
         /\ AreVersionsEqual(u, v) /\ AreVersionsEqual(v, w) => AreVersionsEqual(u, w)
<1>1. SameVersion(v, w) => SameVersion(w, v)
  BY DEF SameVersion, SameNumbers
<1>2. SameVersion(u, v) /\ SameVersion(v, w) => SameVersion(u, w)
  BY DEF SameVersion, SameNumbers
<1> QED
  BY <1>1, <1>2, EqualToItself, EqualIsSameVersion
=============================================================================
