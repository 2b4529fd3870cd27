---------------------------- MODULE RegistryStore ---------------------------
(***************************************************************************)
(* What the rest of the extension may assume of the package registry file: *)
(* a cell that holds one registry, with a save that is not atomic under    *)
(* errors and kills. RegistryFile implements this specification.           *)
(***************************************************************************)
EXTENDS RegistryOutcomes

CONSTANTS
  Contents,     \* the registries
  Idle,         \* no save under way, not in Contents
  IOErrors      \* TRUE: file operations may return errors

VARIABLES
  value,        \* what a reader of the file gets
  saving,       \* the registry being saved
  outcome       \* of the last save: "saved", "error" or "killed"

StoreInit == value = NoPackages /\ saving = Idle /\ outcome = "saved"

Call(new) == saving = Idle /\ saving' = new /\ UNCHANGED <<value, outcome>>

Return ==
  /\ saving # Idle /\ saving' = Idle
  /\ \/ value' = saving /\ outcome' = "saved"
     \/ /\ IOErrors
        /\ \E o \in FaultyWrites(value, saving) :
             value' = o.left /\ outcome' = IF o.failed THEN "error" ELSE "saved"

KilledSave ==
  /\ saving # Idle /\ saving' = Idle
  /\ value' \in KilledWrites(value, saving) /\ outcome' = "killed"

StoreNext == (\E new \in Contents : Call(new)) \/ Return \/ KilledSave

StoreSpec == StoreInit /\ [][StoreNext]_<<value, saving, outcome>>
=============================================================================
