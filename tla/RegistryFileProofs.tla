------------------------- MODULE RegistryFileProofs -------------------------
(***************************************************************************)
(* Proofs about RegistryFile, for any set of registries and any number of  *)
(* saves, errors and kills: its invariants, and that the file operations   *)
(* of WriteToDisk implement the cell of RegistryStore.                     *)
(***************************************************************************)
EXTENDS RegistryFile, TLAPS

(* What the file system holds between two file operations of WriteToDisk.  *)
Saving ==
  /\ pc = "rename" => before = Reading(active)
  /\ pc = "truncate" => active = Missing
  /\ pc = "write" => active = Empty
  /\ pc \in {"rename", "truncate", "write"} => ~writeFailed
  /\ pc = "remove" /\ ~writeFailed => active = pending
  /\ pc = "remove" /\ writeFailed => IOErrors /\ active \in {Missing, Empty, Partial}

(* The registry that could be read before the call is in the backup once   *)
(* it was renamed.                                                         *)
Covered ==
  pc \in {"truncate", "write", "remove"} => before \in {NoPackages, Unreadable, backup}

Fresh == {committed, NoPackages, Unreadable} \cup attempted

Inv ==
  /\ TypeOK /\ Saving /\ Covered
  /\ (IF pc = "idle" THEN Reading(active) ELSE before) \in Fresh

LEMMA ReadingCases ==
  /\ \A file \in {Missing, Empty} : Reading(file) = NoPackages
  /\ Reading(Partial) = Unreadable
  /\ \A file \in Contents : Reading(file) = file
  /\ \A file \in FileStates : Reading(file) \in Contents \cup {Unreadable}
BY ContentsAssumption DEF Reading, Missing, Empty, Partial, Unreadable, FileStates

LEMMA InitInv == Init => Inv
<1> SUFFICES ASSUME Init PROVE Inv
  OBVIOUS
<1>1. Reading(active) = NoPackages
  BY ReadingCases DEF Init
<1>2. TypeOK
  BY <1>1, ContentsAssumption DEF Init, TypeOK, FileStates
<1>3. QED
  BY <1>1, <1>2 DEF Init, Inv, Saving, Covered, Fresh

LEMMA NextInv == Inv /\ [Next]_vars => Inv'
<1> SUFFICES ASSUME Inv, [Next]_vars PROVE Inv'
  OBVIOUS
<1>i. TypeOK /\ Saving /\ Covered /\ (IF pc = "idle" THEN Reading(active) ELSE before) \in Fresh
  BY DEF Inv
<1>1. CASE UNCHANGED vars
  BY <1>i, <1>1 DEF vars, Inv, TypeOK, Saving, Covered, Fresh, Reading
<1>2. ASSUME NEW new \in Contents, CallWriteToDisk(new) PROVE Inv'
  <2>1. Reading(active) \in Contents \cup {Unreadable}
    BY <1>i, ReadingCases DEF TypeOK
  <2>2. TypeOK'
    <3>1. before' \in Contents \cup {Unreadable}
      BY <1>2, <2>1 DEF CallWriteToDisk
    <3>2. writes' \in Nat
      BY <1>2, <1>i DEF CallWriteToDisk, TypeOK
    <3>3. view' \in Contents \cup {Unreadable} /\ pending' \in Contents
      BY <1>2 DEF CallWriteToDisk
    <3>4. QED
      BY <1>i, <1>2, <3>1, <3>2, <3>3 DEF CallWriteToDisk, TypeOK
  <2>3. Saving' /\ Covered'
    BY <1>2 DEF CallWriteToDisk, Saving, Covered, Reading
  <2>4. QED
    BY <1>i, <1>2, <2>2, <2>3 DEF CallWriteToDisk, Inv, Fresh
<1>3. CASE RenameToBackup
  <2>1. Reading(active) \in {NoPackages, Unreadable, active}
    BY ReadingCases DEF Reading
  <2>2. CASE pc' = "truncate" /\ active' = Missing /\ UNCHANGED <<attempted, outcome>>
    <3>1. before \in {NoPackages, Unreadable, backup'}
      <4>1. active = Missing \/ backup' = active
        BY <1>3, <2>2 DEF RenameToBackup
      <4>2. before = Reading(active)
        BY <1>3, <1>i DEF RenameToBackup, Saving
      <4>3. QED
        BY <2>1, <4>1, <4>2, ReadingCases
    <3>2. TypeOK'
      BY <1>3, <1>i, <2>2 DEF RenameToBackup, TypeOK, FileStates
    <3>3. QED
      BY <1>3, <1>i, <2>2, <3>1, <3>2
         DEF RenameToBackup, Inv, Saving, Covered, Fresh, Reading
  <2>3. CASE /\ pc' = "idle" /\ UNCHANGED <<active, backup, hadFile>>
             /\ attempted' = attempted \cup {pending} /\ outcome' = "error"
    <3>1. TypeOK'
      BY <1>3, <1>i, <2>3 DEF RenameToBackup, TypeOK
    <3>2. before = Reading(active) /\ Reading(active') = Reading(active)
      BY <1>3, <1>i, <2>3 DEF RenameToBackup, Saving, Reading
    <3>3. QED
      BY <1>3, <1>i, <2>3, <3>1, <3>2 DEF RenameToBackup, Inv, Saving, Covered, Fresh
  <2>4. QED
    BY <1>3, <2>2, <2>3 DEF RenameToBackup
<1>4. CASE TruncateActive
  <2>1. TypeOK'
    BY <1>4, <1>i DEF TruncateActive, TypeOK, FileStates
  <2>2. QED
    BY <1>4, <1>i, <2>1 DEF TruncateActive, Inv, Saving, Covered, Fresh, Reading
<1>5. CASE WriteActive
  <2>1. writeFailed = FALSE \/ writeFailed = TRUE
    BY <1>i DEF TypeOK
  <2>2. TypeOK'
    BY <1>5, <1>i DEF WriteActive, TypeOK, FileStates
  <2>3. QED
    BY <1>5, <1>i, <2>2 DEF WriteActive, Inv, Saving, Covered, Fresh, Reading
<1>6. CASE RemoveBackup
  <2>1. PICK returnsError \in BOOLEAN :
          /\ backup' \in {backup, Missing}
          /\ committed' = IF returnsError THEN committed ELSE pending
          /\ attempted' = IF returnsError THEN attempted \cup {pending} ELSE {}
          /\ outcome' = IF returnsError THEN "error" ELSE "saved"
    BY <1>6, <1>i, ContentsAssumption DEF RemoveBackup, TypeOK
  <2>2. TypeOK'
    BY <1>6, <1>i, <2>1 DEF RemoveBackup, TypeOK, FileStates
  <2>3. Reading(active) \in {pending, NoPackages, Unreadable} /\ active' = active
    BY <1>6, <1>i, ReadingCases DEF RemoveBackup, Saving, TypeOK
  <2>4. QED
    BY <1>6, <1>i, <2>1, <2>2, <2>3 DEF RemoveBackup, Inv, Saving, Covered, Fresh, Reading
<1>7. CASE KillAndRestart
  <2>1. active' \in FileStates /\ Reading(active') \in Contents \cup {Unreadable}
    BY <1>7, <1>i, ReadingCases DEF KillAndRestart, TypeOK, FileStates
  <2>2. TypeOK'
    BY <1>7, <1>i, <2>1 DEF KillAndRestart, TypeOK, Reading
  <2>3. pc # "idle" => Reading(active') \in {before, pending, NoPackages, Unreadable}
    BY <1>7, <1>i, ReadingCases DEF KillAndRestart, Saving, TypeOK
  <2>4. QED
    BY <1>7, <1>i, <2>2, <2>3 DEF KillAndRestart, Inv, Saving, Covered, Fresh, Reading
<1>8. CASE Read
  <2>1. Reading(active) \in Contents \cup {Unreadable}
    BY <1>i, ReadingCases DEF TypeOK
  <2>2. QED
    BY <1>8, <1>i, <2>1 DEF Read, Inv, TypeOK, Saving, Covered, Fresh, Reading
<1>9. QED
  BY <1>1, <1>2, <1>3, <1>4, <1>5, <1>6, <1>7, <1>8 DEF Next

(* Inv holds in every reachable state.                                     *)
THEOREM Invariance == Spec => []Inv
BY InitInv, NextInv, PTL DEF Spec

(* Every variable keeps its type: a reader gets a registry or an error.    *)
THEOREM TypeCorrectness == Spec => []TypeOK
<1>1. Inv => TypeOK
  BY DEF Inv
<1>2. QED
  BY <1>1, Invariance, PTL

(* A complete copy of the registry exists at every moment of WriteToDisk.  *)
THEOREM BackupCovers == Spec => []BackupCoversSave
<1>1. Inv => BackupCoversSave
  <2> SUFFICES ASSUME Inv, pc # "idle"
               PROVE  \/ before \in {NoPackages, Unreadable}
                      \/ before \in {active, backup}
                      \/ active = pending
    BY DEF BackupCoversSave
  <2>1. CASE pc = "rename"
    BY <2>1 DEF Inv, Saving, Reading
  <2>2. CASE pc \in {"truncate", "write", "remove"}
    BY <2>2 DEF Inv, Covered
  <2>3. QED
    BY <2>1, <2>2 DEF Inv, TypeOK
<1>2. QED
  BY <1>1, Invariance, PTL

(* No reader ever gets a registry older than the last one saved.           *)
THEOREM NothingIsRevived == Spec => []NothingRevived
<1>1. Inv => NothingRevived
  BY DEF Inv, NothingRevived, Fresh
<1>2. QED
  BY <1>1, Invariance, PTL

-----------------------------------------------------------------------------
LEMMA FaultyOutcomes ==
  \A old, new :
    /\ \E o \in Store!FaultyWrites(old, new) : o.left = old /\ o.failed = TRUE
    /\ \E o \in Store!FaultyWrites(old, new) : o.left = new /\ o.failed = TRUE
    /\ \A f \in BOOLEAN, left \in {NoPackages, Unreadable} :
         \E o \in Store!FaultyWrites(old, new) : o.left = left /\ o.failed = f
<1> SUFFICES ASSUME NEW old, NEW new
             PROVE  /\ \E o \in Store!FaultyWrites(old, new) : o.left = old /\ o.failed = TRUE
                    /\ \E o \in Store!FaultyWrites(old, new) : o.left = new /\ o.failed = TRUE
                    /\ \A f \in BOOLEAN, left \in {NoPackages, Unreadable} :
                         \E o \in Store!FaultyWrites(old, new) : o.left = left /\ o.failed = f
  OBVIOUS
<1>1. [failed |-> TRUE, left |-> old] \in Store!FaultyWrites(old, new)
  BY DEF Store!FaultyWrites
<1>2. [failed |-> TRUE, left |-> new] \in Store!FaultyWrites(old, new)
  BY DEF Store!FaultyWrites
<1>3. \A f \in BOOLEAN, left \in {NoPackages, Unreadable} :
        [failed |-> f, left |-> left] \in Store!FaultyWrites(old, new)
  BY DEF Store!FaultyWrites
<1>4. QED
  BY <1>1, <1>2, <1>3

(* The file operations implement the cell: RemoveBackup, a failing rename  *)
(* and a kill end a save of the cell; every other operation is no step.    *)
LEMMA NextImplementsStore ==
  Inv /\ [Next]_vars =>
    [Store!StoreNext]_<<IF pc = "idle" THEN Reading(active) ELSE before,
                        IF pc = "idle" THEN "idle" ELSE pending, outcome>>
<1> DEFINE value  == IF pc = "idle" THEN Reading(active) ELSE before
           saving == IF pc = "idle" THEN "idle" ELSE pending
<1> SUFFICES ASSUME Inv, [Next]_vars
             PROVE  Store!StoreNext \/ UNCHANGED <<value, saving, outcome>>
  OBVIOUS
<1>i. TypeOK /\ Saving /\ pending # "idle"
  BY ContentsAssumption DEF Inv, TypeOK
<1>1. CASE UNCHANGED vars
  BY <1>1 DEF vars, Reading
<1>2. ASSUME NEW new \in Contents, CallWriteToDisk(new)
      PROVE  Store!StoreNext
  <2>1. Store!Call(new)
    BY <1>2 DEF CallWriteToDisk, Store!Call
  <2>2. QED
    BY <2>1 DEF Store!StoreNext
<1>3. CASE RenameToBackup
  <2>1. CASE pc' = "truncate"
    BY <1>3, <2>1 DEF RenameToBackup
  <2>2. CASE pc' # "truncate"
    <3>1. IOErrors /\ pc = "rename" /\ pc' = "idle" /\ outcome' = "error" /\ active' = active
      BY <1>3, <2>2 DEF RenameToBackup
    <3>2. value' = value /\ saving # "idle" /\ saving' = "idle"
      BY <1>i, <3>1 DEF Saving, Reading
    <3>3. PICK o \in Store!FaultyWrites(value, saving) : o.left = value /\ o.failed = TRUE
      BY FaultyOutcomes
    <3>4. Store!Return
      BY <3>1, <3>2, <3>3 DEF Store!Return
    <3>5. QED
      BY <3>4 DEF Store!StoreNext
  <2>3. QED
    BY <2>1, <2>2
<1>4. CASE TruncateActive
  BY <1>4 DEF TruncateActive
<1>5. CASE WriteActive
  BY <1>5 DEF WriteActive
<1>6. CASE RemoveBackup
  <2>1. pc = "remove" /\ pc' = "idle" /\ active' = active /\ pending \in Contents
    BY <1>6, <1>i DEF RemoveBackup, TypeOK
  <2>2. saving = pending /\ saving # "idle" /\ saving' = "idle" /\ value' = Reading(active)
    BY <1>i, <2>1 DEF Reading
  <2>3. PICK returnsError \in BOOLEAN :
          /\ returnsError => IOErrors \/ writeFailed
          /\ outcome' = IF returnsError THEN "error" ELSE "saved"
    <3>1. PICK removeFailed \in IF hadFile THEN {FALSE, IOErrors} ELSE {FALSE} :
            outcome' = IF (IF hadFile THEN removeFailed ELSE writeFailed)
                       THEN "error" ELSE "saved"
      BY <1>6 DEF RemoveBackup
    <3>2. CASE hadFile
      BY <3>1, <3>2, ContentsAssumption
    <3>3. CASE ~hadFile
      BY <1>i, <3>1, <3>3 DEF TypeOK
    <3>4. QED
      BY <3>2, <3>3
  <2>4. \/ value' = saving /\ ~returnsError
        \/ /\ IOErrors
           /\ \E o \in Store!FaultyWrites(value, saving) :
                value' = o.left /\ o.failed = returnsError
    <3>1. CASE writeFailed
      <4>1. IOErrors /\ value' \in {NoPackages, Unreadable}
        BY <1>i, <2>1, <2>2, <3>1, ReadingCases DEF Saving
      <4>2. PICK o \in Store!FaultyWrites(value, saving) :
              o.left = value' /\ o.failed = returnsError
        BY <4>1, FaultyOutcomes
      <4>3. QED
        BY <4>1, <4>2
    <3>2. CASE ~writeFailed
      <4>1. value' = saving
        BY <1>i, <2>1, <2>2, <3>2, ReadingCases DEF Saving
      <4>2. PICK o \in Store!FaultyWrites(value, saving) : o.left = saving /\ o.failed = TRUE
        BY FaultyOutcomes
      <4>3. QED
        BY <2>3, <3>2, <4>1, <4>2
    <3>3. QED
      BY <3>1, <3>2
  <2>5. Store!Return
    BY <2>2, <2>3, <2>4 DEF Store!Return
  <2>6. QED
    BY <2>5 DEF Store!StoreNext
<1>7. CASE KillAndRestart
  <2>1. pc' = "idle" /\ outcome' = IF pc = "idle" THEN outcome ELSE "killed"
    BY <1>7 DEF KillAndRestart
  <2>2. CASE pc = "idle"
    BY <1>7, <2>2 DEF KillAndRestart, Reading
  <2>3. CASE pc # "idle"
    <3>1. Reading(active') \in {before, pending, NoPackages, Unreadable}
      BY <1>7, <1>i, <2>3, ReadingCases DEF KillAndRestart, Saving, TypeOK
    <3>2. value' = Reading(active')
      BY <2>1 DEF Reading
    <3>3. Store!KilledSave
      BY <1>i, <2>1, <2>3, <3>1, <3>2 DEF Store!KilledSave, Store!KilledWrites
    <3>4. QED
      BY <3>3 DEF Store!StoreNext
  <2>4. QED
    BY <2>2, <2>3
<1>8. CASE Read
  BY <1>8 DEF Read, Reading
<1>9. QED
  BY <1>1, <1>2, <1>3, <1>4, <1>5, <1>6, <1>7, <1>8 DEF Next

(* WriteToDisk, its errors and kills included, implements RegistryStore.   *)
THEOREM StoreRefinement == Spec => ImplementsStore
<1>1. Init => Store!StoreInit
  BY ReadingCases DEF Init, Store!StoreInit
<1>2. QED
  BY <1>1, NextImplementsStore, Invariance, PTL DEF Spec, ImplementsStore, Store!StoreSpec
=============================================================================
