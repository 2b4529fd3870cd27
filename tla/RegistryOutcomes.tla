-------------------------- MODULE RegistryOutcomes --------------------------
(***************************************************************************)
(* What a call of WriteToDisk may leave in the package registry file, as a *)
(* reader of the file sees it. RegistryFile, the file operations one by    *)
(* one, is shown to have no other outcomes; ActionPlan saves its registry  *)
(* through them.                                                           *)
(***************************************************************************)
CONSTANTS
  NoPackages,   \* the registry without entries
  Unreadable    \* a file that GetExistingPackages cannot parse

(* A file operation returned an error; `failed` is whether WriteToDisk     *)
(* returns one. When os.Rename fails the old registry stays; when          *)
(* os.Remove of the backup fails the new one is there all the same; when   *)
(* os.WriteFile fails the file is lost, and no error is returned if the    *)
(* backup could be removed.                                                *)
FaultyWrites(old, new) ==
  { [failed |-> TRUE, left |-> old], [failed |-> TRUE, left |-> new] } \cup
  [failed : BOOLEAN, left : {NoPackages, Unreadable}]

(* The process is killed inside WriteToDisk.                               *)
KilledWrites(old, new) == {old, new, NoPackages, Unreadable}
=============================================================================
