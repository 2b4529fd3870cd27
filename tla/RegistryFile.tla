---------------------------- MODULE RegistryFile ----------------------------
(***************************************************************************)
(* The package registry on disk (internal/packageregistry): the file       *)
(* applicationRegistry.active, its backup, the four file operations that   *)
(* WriteToDisk performs one after the other, the read of                   *)
(* GetExistingPackages, and a process that may be killed between any two.  *)
(* One process holds the registry lock at a time (packageregistry.New), so *)
(* there is one writer.                                                    *)
(***************************************************************************)
EXTENDS Integers

CONSTANTS
  Contents,      \* the registries the extension may want to save
  NoPackages,    \* the registry without entries, one of Contents
  IOErrors,      \* TRUE: a file operation may return an error
  MaxWrites,     \* bound: calls of WriteToDisk
  MaxKills       \* bound: kills of the process

(* States of a file that holds no complete registry: not there, created or *)
(* truncated to length zero, cut in the middle of the JSON text.           *)
Missing == "missing"
Empty   == "empty"
Partial == "partial"

(* What GetExistingPackages returns when the JSON text does not parse.     *)
Unreadable == "unreadable"

ASSUME ContentsAssumption ==
  /\ NoPackages \in Contents
  /\ Contents \cap {Missing, Empty, Partial, Unreadable, "idle"} = {}
  /\ IOErrors \in BOOLEAN
  /\ MaxWrites \in Nat
  /\ MaxKills \in Nat

VARIABLES
  active,      \* applicationRegistry.active
  backup,      \* applicationRegistry.backup
  pc,          \* the next file operation of WriteToDisk, "idle" outside it
  pending,     \* the registry WriteToDisk is saving
  hadFile,     \* doesBackupFileExist
  writeFailed, \* err of os.WriteFile
  view,        \* what the process holds in memory: the registry it last read or saved
  committed,   \* history: the registry of the last WriteToDisk that returned nil
  attempted,   \* history: what WriteToDisk calls that were cut or failed tried to save
  before,      \* history: what a reader would have got when WriteToDisk was called
  outcome,     \* history: whether the last WriteToDisk returned nil or an error, or
               \*   was killed
  writes, kills

vars == <<active, backup, pc, pending, hadFile, writeFailed, view,
          committed, attempted, before, outcome, writes, kills>>

FileStates == Contents \cup {Missing, Empty, Partial}

ReadingUnchecked(file) == IF file \in {Missing, Empty} THEN NoPackages ELSE file

ReadingBackupFirst(file) ==
  CASE backup \in Contents       -> backup
    [] file \in {Missing, Empty} -> NoPackages
    [] file = Partial            -> Unreadable
    [] OTHER                     -> file

(* GetExistingPackages: a missing or zero-length file is an empty          *)
(* collection, a file that does not parse is an error. The backup is never *)
(* read.                                                                   *)
Reading(file) ==
  CASE file \in {Missing, Empty} -> NoPackages
    [] file = Partial            -> Unreadable
    [] OTHER                     -> file

Init ==
  /\ active = Missing /\ backup = Missing
  /\ pc = "idle"
  /\ pending = NoPackages /\ hadFile = FALSE /\ writeFailed = FALSE
  /\ view = Reading(active)
  /\ committed = NoPackages /\ attempted = {}
  /\ before = NoPackages /\ outcome = "saved"
  /\ writes = 0 /\ kills = 0

-----------------------------------------------------------------------------
(* WriteToDisk is called with a changed registry.                          *)
CallWriteToDisk(new) ==
  /\ pc = "idle" /\ view # Unreadable
  /\ writes < MaxWrites
  /\ writes' = writes + 1
  /\ pending' = new /\ view' = new
  /\ before' = Reading(active)
  /\ pc' = "rename"
  /\ writeFailed' = FALSE /\ hadFile' = FALSE
  /\ UNCHANGED <<active, backup, committed, attempted, outcome, kills>>

RenameKeepsOldBackup ==
  /\ pc = "rename" /\ pc' = "truncate"
  /\ active' = Missing
  /\ backup' = IF backup = Missing THEN active ELSE backup
  /\ hadFile' = (active # Missing)
  /\ UNCHANGED <<pending, writeFailed, view, committed, attempted, before, outcome,
                 writes, kills>>

RenameErrorSwallowed ==
  /\ pc = "rename"
  /\ \/ active = Missing /\ pc' = "truncate" /\ UNCHANGED <<active, backup, hadFile>>
     \/ /\ active # Missing
        /\ backup' = active /\ active' = Missing
        /\ hadFile' = TRUE
        /\ pc' = "truncate"
     \/ IOErrors /\ pc' = "idle" /\ UNCHANGED <<active, backup, hadFile>>
  /\ outcome' = IF pc' = "idle" THEN "saved" ELSE outcome
  /\ UNCHANGED <<pending, writeFailed, view, committed, attempted, before, writes, kills>>

(* os.Rename(active, backup): no active file is not an error, any other    *)
(* error ends the call.                                                    *)
RenameToBackup ==
  /\ pc = "rename"
  /\ \/ /\ active = Missing
        /\ pc' = "truncate"
        /\ UNCHANGED <<active, backup, hadFile, attempted, outcome>>
     \/ /\ active # Missing
        /\ backup' = active /\ active' = Missing
        /\ hadFile' = TRUE
        /\ pc' = "truncate"
        /\ UNCHANGED <<attempted, outcome>>
     \/ /\ IOErrors
        /\ pc' = "idle"
        /\ attempted' = attempted \cup {pending} /\ outcome' = "error"
        /\ UNCHANGED <<active, backup, hadFile>>
  /\ UNCHANGED <<pending, writeFailed, view, committed, before, writes, kills>>

(* os.WriteFile, first half: open with O_CREATE and O_TRUNC.               *)
TruncateActive ==
  /\ pc = "truncate"
  /\ \/ active' = Empty /\ pc' = "write" /\ UNCHANGED writeFailed
     \/ IOErrors /\ writeFailed' = TRUE /\ pc' = "remove" /\ UNCHANGED active
  /\ UNCHANGED <<backup, pending, hadFile, view, committed, attempted, before,
                 outcome, writes, kills>>

(* os.WriteFile, second half: the bytes reach the file, or some of them.   *)
WriteActive ==
  /\ pc = "write"
  /\ \/ active' = pending /\ UNCHANGED writeFailed
     \/ IOErrors /\ active' \in {Empty, Partial} /\ writeFailed' = TRUE
  /\ pc' = "remove"
  /\ UNCHANGED <<backup, pending, hadFile, view, committed, attempted, before,
                 outcome, writes, kills>>

(* With a backup the result is that of os.Remove(backup), without one that *)
(* of os.WriteFile.                                                        *)
RemoveBackup ==
  /\ pc = "remove"
  /\ \E removeFailed \in IF hadFile THEN {FALSE, IOErrors} ELSE {FALSE} :
       LET returnsError == IF hadFile THEN removeFailed ELSE writeFailed IN
       /\ backup' = IF hadFile /\ ~removeFailed THEN Missing ELSE backup
       /\ committed' = IF returnsError THEN committed ELSE pending
       /\ attempted' = IF returnsError THEN attempted \cup {pending} ELSE {}
       /\ outcome' = IF returnsError THEN "error" ELSE "saved"
  /\ pc' = "idle"
  /\ UNCHANGED <<active, pending, hadFile, writeFailed, view, before, writes, kills>>

(* The process ends, in the middle of WriteToDisk or not; a write to the   *)
(* file that it was in may be cut. The next one reads the registry.        *)
KillAndRestart ==
  /\ kills < MaxKills
  /\ kills' = kills + 1
  /\ active' \in IF pc = "write" THEN {active, Partial} ELSE {active}
  /\ attempted' = IF pc = "idle" THEN attempted ELSE attempted \cup {pending}
  /\ outcome' = IF pc = "idle" THEN outcome ELSE "killed"
  /\ pc' = "idle"
  /\ view' = Reading(active')
  /\ UNCHANGED <<backup, pending, hadFile, writeFailed, committed, before, writes>>

(* The next enable reads the registry that the last one left.              *)
Read ==
  /\ pc = "idle"
  /\ view' = Reading(active)
  /\ UNCHANGED <<active, backup, pc, pending, hadFile, writeFailed, committed,
                 attempted, before, outcome, writes, kills>>

Next ==
  \/ \E new \in Contents : CallWriteToDisk(new)
  \/ RenameToBackup \/ TruncateActive \/ WriteActive \/ RemoveBackup
  \/ KillAndRestart
  \/ Read

Spec == Init /\ [][Next]_vars

-----------------------------------------------------------------------------
(* Each variable has its type: a reader gets a registry or an error, never *)
(* part of one.                                                            *)
TypeOK ==
  /\ active \in FileStates /\ backup \in FileStates
  /\ pc \in {"idle", "rename", "truncate", "write", "remove"}
  /\ pending \in Contents
  /\ hadFile \in BOOLEAN /\ writeFailed \in BOOLEAN
  /\ view \in Contents \cup {Unreadable}
  /\ committed \in Contents /\ attempted \subseteq Contents
  /\ before \in Contents \cup {Unreadable} /\ outcome \in {"saved", "error", "killed"}
  /\ writes \in Nat /\ kills \in Nat

(* Inside WriteToDisk, whatever fails and wherever the process is killed,  *)
(* there is a complete copy: the registry that could be read when it was   *)
(* called, in the active file or in the backup, or the new one in the      *)
(* active file. (The copy does not outlive the call: RemoveBackup deletes  *)
(* it even when the write failed, and after a kill between truncate and    *)
(* write the next save renames the empty file over it.)                    *)
BackupCoversSave ==
  pc # "idle" => \/ before \in {NoPackages, Unreadable}
                 \/ before \in {active, backup}
                 \/ active = pending

(* A process that starts or reads never gets a registry older than the     *)
(* last one saved: it gets that one, one whose saving was cut or failed,   *)
(* nothing, or an error. A stale backup left by a kill is never revived.   *)
NothingRevived ==
  pc = "idle" => Reading(active) \in {committed, NoPackages, Unreadable} \cup attempted

(* The file operations implement the cell that ActionPlan saves to: a save *)
(* that returns or is cut leaves one of the outcomes of RegistryOutcomes.  *)
Store == INSTANCE RegistryStore WITH
  Idle   <- "idle",
  value  <- IF pc = "idle" THEN Reading(active) ELSE before,
  saving <- IF pc = "idle" THEN "idle" ELSE pending,
  outcome <- outcome

ImplementsStore == Store!StoreSpec

=============================================================================
