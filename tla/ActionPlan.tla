----------------------------- MODULE ActionPlan -----------------------------
(***************************************************************************)
(* internal/actionplan: what one enable does to the applications. New      *)
(* compares the package registry with the desired collection and plans the *)
(* operations; Execute runs them, uninstalls first, then the ordered ones  *)
(* in ascending order, then the others; executeHelper runs one operation   *)
(* and records it in the registry before and after. Enables follow one     *)
(* another, the desired collection changes between them, a command may     *)
(* reboot the machine, and the process may be killed anywhere.             *)
(*                                                                         *)
(* The registry is a function from application names to entries; the       *)
(* collection GetExistingPackages builds from it iterates over a Go map,   *)
(* and the desired collection comes in the order of the settings: both     *)
(* orders are arbitrary here, the choice of the next operation.            *)
(***************************************************************************)
EXTENDS Integers, Sequences, FiniteSets

CONSTANTS
  Apps,         \* application names
  Versions,     \* versions up to AreVersionsEqual
  Orders,       \* values of the "order" setting
  Profiles,     \* the desired collections that may be requested
  None,         \* no entry, no order, no application, no failure so far
  Unreadable,   \* a registry file that GetExistingPackages cannot parse
  IOErrors,     \* TRUE: file operations may return errors
  MaxBoots,     \* bound: reboots caused by a command
  MaxKills,     \* bound: kills of the process
  MaxDiskFaults,\* bound: saves that fail or are cut by a kill
  MaxChanges    \* bound: changes of the desired collection

(* The desired collection, by application: VMAppPackageIncoming.           *)
Incoming == [version : Versions, order : Orders \cup {None}, update : BOOLEAN,
             treatFailure : BOOLEAN, rerun : BOOLEAN]

(* ActionEnum.                                                             *)
Commands == {"Install", "Update", "Remove", "RemoveForUpdate"}
Ops == Commands \cup {"NoAction", "Failed", "Skipped", "Cleanup"}

MaxReboots == 3

(* A registry entry: VMAppPackageCurrent.                                  *)
Entry == [version : Versions, op : Ops, reboots : 0..MaxReboots, rerun : BOOLEAN]

(* A command that was started, and how it ended: by itself, cut by a       *)
(* reboot, or lost in a kill. sameGoal: the desired application is still   *)
(* the one the command was run for.                                        *)
Run == [op : Ops, version : Versions, end : {"started", "ok", "failed", "cut", "lost"},
        sameGoal : BOOLEAN]

ASSUME ConstantsAssumption ==
  /\ Orders \subseteq Nat
  /\ Profiles \subseteq [Apps -> Incoming \cup {None}]
  /\ None \notin Apps \cup Orders \cup Versions \cup Incoming \cup Entry \cup Run
  /\ Unreadable \notin [Apps -> Entry \cup {None}]
  /\ IOErrors \in BOOLEAN
  /\ {MaxBoots, MaxKills, MaxDiskFaults, MaxChanges} \subseteq Nat

Registries == [Apps -> Entry \cup {None}]
NoPackages == [a \in Apps |-> None]

VARIABLES
  want,         \* the desired collection of the running or next enable
  disk,         \* the package registry file
  registry,     \* the registry in memory
  plan,         \* by application, the dependentActions still to be executed
  pc,           \* where the enable is
  cur,          \* the application whose operation or group is being executed
  err,          \* errorMessageToReturn # nil
  failedOrder,  \* actionFailedAtOrder, None while atLeastOneActionFailed is FALSE
  results,      \* executionResult
  deployFailed, \* failedDeploymentErr # nil
  files,        \* <<a, v>> whose package files are in the working directory
  last,         \* history: the last command started for each application
  cuts,         \* history: install or update commands cut by a reboot since the
                \*   goal of the application last changed
  boots,        \* reboots caused by a command so far
  kills,        \* kills of the process so far
  diskFaults,   \* saves that failed or were cut so far
  changes       \* changes of the desired collection so far

vars == <<want, disk, registry, plan, pc, cur, err, failedOrder, results,
          deployFailed, files, last, cuts, boots, kills, diskFaults, changes>>

process == <<registry, plan, pc, cur, err, failedOrder, results, deployFailed>>

Action == [entry : Entry, op : Ops, treatFailure : BOOLEAN]
Result == [app : Apps, op : Ops, result : {"ok", "failed", "skipped"}]

(* What a faulty save of the registry may leave.                           *)
INSTANCE RegistryOutcomes

-----------------------------------------------------------------------------
ToCurrentWithoutRerun(incoming) ==
  [version |-> incoming.version, op |-> "NoAction", reboots |-> 0]

(* VMAppPackageIncomingToVmAppPackageCurrent.                              *)
ToCurrent(incoming) ==
  [version |-> incoming.version, op |-> "NoAction", reboots |-> 0,
   rerun |-> incoming.rerun]

MakeAction(entry, op, treatFailure) ==
  [entry |-> entry, op |-> op, treatFailure |-> treatFailure]

UninstallGroupCleansFailed(entry) ==
  << MakeAction(entry, IF entry.op \in {"Skipped", "Failed"} THEN "Cleanup" ELSE "Remove",
                FALSE) >>

(* New: the group of dependent actions of one application, << >> for none. *)
(* An application that is no longer desired is removed; one that was       *)
(* skipped is only dropped from the registry.                              *)
UninstallGroup(entry) ==
  << MakeAction(entry, IF entry.op = "Skipped" THEN "Cleanup" ELSE "Remove", FALSE) >>

Installation(incoming) ==
  MakeAction(ToCurrent(incoming), "Install", incoming.treatFailure)

UpdateGroupWithoutInstall(entry, incoming) ==
  IF incoming.update
  THEN << MakeAction(ToCurrent(incoming), "Update", incoming.treatFailure) >>
  ELSE << MakeAction(entry, "RemoveForUpdate", FALSE) >>

(* Another version: the update command or, without one, remove and install. *)
UpdateGroup(entry, incoming) ==
  IF incoming.update
  THEN << MakeAction(ToCurrent(incoming), "Update", incoming.treatFailure) >>
  ELSE << MakeAction(entry, "RemoveForUpdate", FALSE), Installation(incoming) >>

RetryGroupForgotten(entry, incoming) == << >>

(* The same version, and the operation was interrupted by a reboot.        *)
RetryGroup(entry, incoming) ==
  << MakeAction(entry, entry.op, incoming.treatFailure) >>

SameVersionGroupRetriesFailed(entry, incoming) ==
  IF entry.op = "Failed" THEN << Installation(incoming) >>
  ELSE IF entry.reboots > 0 THEN RetryGroup(entry, incoming) ELSE << >>

SameVersionGroup(entry, incoming) ==
  IF entry.reboots > 0 THEN RetryGroup(entry, incoming) ELSE << >>

Group(entry, incoming) ==
  CASE entry = None /\ incoming = None -> << >>
    [] entry # None /\ incoming = None -> UninstallGroup(entry)
    [] entry = None /\ incoming # None -> << Installation(incoming) >>
    [] entry # None /\ incoming # None ->
         IF entry.version # incoming.version
         THEN UpdateGroup(entry, incoming)
         ELSE SameVersionGroup(entry, incoming)

NoPlan == [a \in Apps |-> << >>]

NewPlan(current, desired) == [a \in Apps |-> Group(current[a], desired[a])]

-----------------------------------------------------------------------------
(* Execute: which operation comes next.                                    *)
Uninstalled(a) == want[a] = None
Ordered(a) == ~Uninstalled(a) /\ want[a].order # None

Precedes(a, b) ==
  \/ Uninstalled(a) /\ ~Uninstalled(b)
  \/ Ordered(a) /\ ~Uninstalled(b) /\ ~Ordered(b)
  \/ Ordered(a) /\ Ordered(b) /\ want[a].order < want[b].order

IsNext(a) ==
  /\ plan[a] # << >>
  /\ cur \in {None, a}
  /\ \A b \in Apps : Precedes(b, a) => plan[b] = << >>

MustSkipLower(a) == Ordered(a) /\ failedOrder # None /\ want[a].order < failedOrder

(* order > actionFailedAtOrder once an ordered operation failed.           *)
MustSkip(a) == Ordered(a) /\ failedOrder # None /\ want[a].order > failedOrder

(* WriteToDisk: what it leaves on the disk and whether it returns an error. *)
WriteToDisk(new, failed) ==
  \/ ~failed /\ disk' = new /\ UNCHANGED diskFaults
  \/ /\ IOErrors /\ diskFaults < MaxDiskFaults /\ diskFaults' = diskFaults + 1
     /\ \E o \in FaultyWrites(disk, new) : o.failed = failed /\ disk' = o.left

(* Execute, after executeHelper returned for the first action of a's       *)
(* group: the result, the error that fails the deployment, and no further  *)
(* action of the group after a failure.                                    *)
Completed(a, failed) ==
  LET act == Head(plan[a])
      rest == IF failed THEN << >> ELSE Tail(plan[a])
  IN /\ results' = results \cup
           {[app |-> a, op |-> act.op, result |-> IF failed THEN "failed" ELSE "ok"]}
     /\ deployFailed' = (\/ deployFailed
                         \/ /\ failed /\ act.treatFailure
                            /\ act.op \in {"Install", "Update"})
     /\ failedOrder' = IF failed /\ Ordered(a) THEN want[a].order ELSE failedOrder
     /\ plan' = [plan EXCEPT ![a] = rest]
     /\ cur' = IF rest = << >> THEN None ELSE a
     /\ err' = FALSE
     /\ pc' = "next"

(* The process ends, and with it everything that is not on the disk.       *)
Exit ==
  /\ pc' = "idle" /\ cur' = None /\ err' = FALSE /\ failedOrder' = None
  /\ registry' = NoPackages /\ plan' = NoPlan
  /\ results' = {} /\ deployFailed' = FALSE

-----------------------------------------------------------------------------
Init ==
  /\ want \in Profiles
  /\ disk = NoPackages /\ registry = NoPackages
  /\ plan = NoPlan
  /\ pc = "idle" /\ cur = None /\ err = FALSE /\ failedOrder = None
  /\ results = {} /\ deployFailed = FALSE
  /\ files = {}
  /\ last = [a \in Apps |-> None]
  /\ cuts = [a \in Apps |-> 0]
  /\ boots = 0 /\ kills = 0 /\ diskFaults = 0 /\ changes = 0

(* A new goal state is requested between two enables.                      *)
ChangeProfile(profile) ==
  /\ pc = "idle" /\ changes < MaxChanges
  /\ want' = profile /\ profile # want
  /\ changes' = changes + 1
  /\ last' = [a \in Apps |->
                IF last[a] = None \/ profile[a] = want[a] THEN last[a]
                ELSE [last[a] EXCEPT !.sameGoal = FALSE]]
  /\ cuts' = [a \in Apps |-> IF profile[a] = want[a] THEN cuts[a] ELSE 0]
  /\ UNCHANGED <<disk, process, files, boots, kills, diskFaults>>

(* customEnable: GetExistingPackages, New, and the GetExistingPackages at  *)
(* the start of Execute. An unreadable registry ends the enable at once.   *)
BeginEnable ==
  /\ pc = "idle" /\ disk # Unreadable
  /\ registry' = disk
  /\ plan' = NewPlan(disk, want)
  /\ pc' = "next" /\ cur' = None /\ err' = FALSE /\ failedOrder' = None
  /\ results' = {} /\ deployFailed' = FALSE
  /\ UNCHANGED <<want, disk, files, last, cuts, boots, kills, diskFaults, changes>>

(* executeHelper for a Cleanup: the entry is dropped, nothing is run.      *)
CleanUp(a) ==
  /\ pc = "next" /\ IsNext(a) /\ ~MustSkip(a)
  /\ Head(plan[a]).op = "Cleanup"
  /\ registry' = [registry EXCEPT ![a] = None]
  /\ \E failed \in BOOLEAN : WriteToDisk(registry', failed) /\ Completed(a, failed)
  /\ UNCHANGED <<want, files, last, cuts, boots, kills, changes>>

RecordOperationInMemory(a) ==
  /\ pc = "next" /\ IsNext(a) /\ ~MustSkip(a)
  /\ LET act == Head(plan[a]) IN
     /\ act.op # "Cleanup"
     /\ registry' = [registry EXCEPT ![a] = [act.entry EXCEPT !.op = act.op]]
  /\ pc' = "recorded" /\ cur' = a /\ err' = FALSE
  /\ UNCHANGED <<want, disk, plan, failedOrder, results, deployFailed, files, last, cuts,
                 boots, kills, diskFaults, changes>>

(* executeHelper: the operation is recorded in the registry.               *)
RecordOperation(a) ==
  /\ pc = "next" /\ IsNext(a) /\ ~MustSkip(a)
  /\ LET act == Head(plan[a]) IN
     /\ act.op # "Cleanup"
     /\ registry' = [registry EXCEPT ![a] = [act.entry EXCEPT !.op = act.op]]
  /\ \/ /\ WriteToDisk(registry', FALSE)
        /\ pc' = "recorded" /\ cur' = a /\ err' = FALSE
        /\ UNCHANGED <<plan, failedOrder, results, deployFailed>>
     \/ WriteToDisk(registry', TRUE) /\ Completed(a, TRUE)
  /\ UNCHANGED <<want, files, last, cuts, boots, kills, changes>>

(* Execute, for an operation of a higher order than one that failed: the   *)
(* entry is replaced by the planned one, marked Skipped. An error of       *)
(* WriteToDisk ends Execute.                                               *)
Skip(a) ==
  /\ pc = "next" /\ IsNext(a) /\ MustSkip(a)
  /\ LET act == Head(plan[a]) IN
     /\ registry' = [registry EXCEPT ![a] = [act.entry EXCEPT !.op = "Skipped"]]
     /\ results' = results \cup {[app |-> a, op |-> act.op, result |-> "skipped"]}
  /\ \E failed \in BOOLEAN :
       /\ WriteToDisk(registry', failed)
       /\ plan' = IF failed THEN NoPlan ELSE [plan EXCEPT ![a] = << >>]
  /\ UNCHANGED <<want, pc, cur, err, failedOrder, deployFailed, files, last, cuts,
                 boots, kills, changes>>

CanAlwaysRun(entry) == entry.op \in Commands

CanRun(entry) == entry.op \in Commands /\ entry.reboots # MaxReboots

RefuseOnlyAtLimit ==
  /\ pc = "recorded" /\ registry[cur].reboots = MaxReboots
  /\ registry' = [registry EXCEPT ![cur].reboots = 0]
  /\ err' = TRUE /\ pc' = "ended"
  /\ UNCHANGED <<want, disk, plan, cur, failedOrder, results, deployFailed, files,
                 last, cuts, boots, kills, diskFaults, changes>>

(* An operation that has no command, or has rebooted the machine MaxReboots *)
(* times, fails without running one; the count starts again.               *)
RefuseCommand ==
  /\ pc = "recorded" /\ ~CanRun(registry[cur])
  /\ registry' = [registry EXCEPT ![cur].reboots = IF @ = MaxReboots THEN 0 ELSE @]
  /\ err' = TRUE /\ pc' = "ended"
  /\ UNCHANGED <<want, disk, plan, cur, failedOrder, results, deployFailed, files,
                 last, cuts, boots, kills, diskFaults, changes>>

IsRemove(op) == op \in {"Remove", "RemoveForUpdate"}

StartCommandDownloadUnchecked ==
  /\ pc = "recorded" /\ CanRun(registry[cur])
  /\ LET op == registry[cur].op
         package == <<cur, registry[cur].version>>
     IN /\ \/ IsRemove(op) /\ UNCHANGED files
           \/ ~IsRemove(op) /\ files' \in {files \cup {package}, files \ {package}}
        /\ err' = FALSE
        /\ last' = [last EXCEPT ![cur] =
             [op |-> op, version |-> registry[cur].version, end |-> "started",
              sameGoal |-> TRUE]]
  /\ pc' = "running"
  /\ UNCHANGED <<want, disk, registry, plan, cur, failedOrder, results, deployFailed,
                 cuts, boots, kills, diskFaults, changes>>

(* The package is downloaded for an install or update, the command started: *)
(* a failed download is remembered in err, and the command runs all the    *)
(* same. A remove uses the files that are there.                           *)
StartCommand ==
  /\ pc = "recorded" /\ CanRun(registry[cur])
  /\ LET op == registry[cur].op
         package == <<cur, registry[cur].version>>
     IN /\ \/ IsRemove(op) /\ err' = FALSE /\ UNCHANGED files
           \/ ~IsRemove(op) /\ err' = FALSE /\ files' = files \cup {package}
           \/ ~IsRemove(op) /\ err' = TRUE /\ files' = files \ {package}
        /\ last' = [last EXCEPT ![cur] =
             [op |-> op, version |-> registry[cur].version, end |-> "started",
              sameGoal |-> TRUE]]
  /\ pc' = "running"
  /\ UNCHANGED <<want, disk, registry, plan, cur, failedOrder, results, deployFailed,
                 cuts, boots, kills, diskFaults, changes>>

CommandEndsCountKept(ok) ==
  /\ pc = "running"
  /\ err' = (err \/ ~ok)
  /\ last' = [last EXCEPT ![cur].end = IF ok THEN "ok" ELSE "failed"]
  /\ pc' = "ended"
  /\ UNCHANGED <<want, disk, registry, plan, cur, failedOrder, results, deployFailed,
                 files, cuts, boots, kills, diskFaults, changes>>

CommandEndsUnchecked(ok) ==
  /\ pc = "running"
  /\ registry' = [registry EXCEPT ![cur].reboots = 0]
  /\ last' = [last EXCEPT ![cur].end = IF ok THEN "ok" ELSE "failed"]
  /\ pc' = "ended"
  /\ UNCHANGED <<want, disk, plan, cur, err, failedOrder, results, deployFailed, files,
                 cuts, boots, kills, diskFaults, changes>>

(* The command ends, the reboot count starts again.                        *)
CommandEnds(ok) ==
  /\ pc = "running"
  /\ err' = (err \/ ~ok)
  /\ registry' = [registry EXCEPT ![cur].reboots = 0]
  /\ last' = [last EXCEPT ![cur].end = IF ok THEN "ok" ELSE "failed"]
  /\ pc' = "ended"
  /\ UNCHANGED <<want, disk, plan, cur, failedOrder, results, deployFailed, files,
                 cuts, boots, kills, diskFaults, changes>>

(* SIGTERM while the command runs: a reboot. The entry is saved, an error  *)
(* of WriteToDisk ignored, and the process exits.                          *)
Reboot ==
  /\ pc = "running" /\ boots < MaxBoots
  /\ boots' = boots + 1
  /\ LET entry == registry[cur]
         saved == IF entry.rerun THEN [entry EXCEPT !.reboots = @ + 1]
                  ELSE [entry EXCEPT !.op = "NoAction"]
     IN /\ \E failed \in BOOLEAN : WriteToDisk([registry EXCEPT ![cur] = saved], failed)
        /\ cuts' = IF IsRemove(entry.op) THEN cuts ELSE [cuts EXCEPT ![cur] = @ + 1]
  /\ last' = [last EXCEPT ![cur].end = "cut"]
  /\ Exit
  /\ UNCHANGED <<want, files, kills, changes>>

(* executeHelper, after the command or its refusal: a Remove drops the     *)
(* entry, both removes delete the working directory, and the outcome is    *)
(* recorded in the registry.                                               *)
FinishOperation ==
  /\ pc = "ended"
  /\ LET entry == registry[cur]
         op == Head(plan[cur]).op
         package == <<cur, entry.version>>
     IN \E cleaned \in IF IsRemove(op) THEN {TRUE, ~IOErrors} ELSE {TRUE} :
        LET failed == err \/ ~cleaned IN
        /\ files' = IF IsRemove(op) /\ cleaned THEN files \ {package} ELSE files
        /\ registry' = [registry EXCEPT ![cur] =
             IF op = "Remove" THEN None
             ELSE [entry EXCEPT !.op = IF failed THEN "Failed" ELSE "NoAction"]]
        /\ \E notSaved \in BOOLEAN :
             WriteToDisk(registry', notSaved) /\ Completed(cur, failed \/ notSaved)
  /\ UNCHANGED <<want, last, cuts, boots, kills, changes>>

(* Execute returns.                                                        *)
Executed == pc = "next" /\ plan = NoPlan

EndEnable ==
  /\ Executed
  /\ Exit
  /\ UNCHANGED <<want, disk, files, last, cuts, boots, kills, diskFaults, changes>>

(* The process is killed; inside WriteToDisk this may lose the registry.   *)
MaySave == pc \in {"next", "running", "ended"}

Kill ==
  /\ pc # "idle" /\ kills < MaxKills
  /\ kills' = kills + 1
  /\ \/ UNCHANGED <<disk, diskFaults>>
     \/ /\ MaySave /\ diskFaults < MaxDiskFaults /\ diskFaults' = diskFaults + 1
        /\ disk' \in KilledWrites(disk, disk)
  /\ last' = IF pc = "running" THEN [last EXCEPT ![cur].end = "lost"] ELSE last
  /\ Exit
  /\ UNCHANGED <<want, files, cuts, boots, changes>>

Step ==
  \/ \E a \in Apps : CleanUp(a) \/ RecordOperation(a) \/ Skip(a)
  \/ RefuseCommand
  \/ StartCommand
  \/ \E ok \in BOOLEAN : CommandEnds(ok)
  \/ FinishOperation
  \/ EndEnable

Next ==
  \/ BeginEnable
  \/ Step
  \/ \E profile \in Profiles : ChangeProfile(profile)
  \/ Reboot
  \/ Kill

Spec == Init /\ [][Next]_vars

(* An enable that runs keeps running: each step is straight-line code, and *)
(* the command handler returns when the command ends. The guest agent runs *)
(* enable again after every boot and with every goal state.                *)
FairSpec == Spec /\ WF_vars(Step) /\ WF_vars(BeginEnable)

-----------------------------------------------------------------------------
(* Each variable has its type: what executeHelper and Execute save stays   *)
(* well-formed, the reboot count of an entry within MaxReboots included.   *)
TypeOK ==
  /\ want \in Profiles
  /\ disk \in Registries \cup {Unreadable}
  /\ registry \in Registries
  /\ plan \in [Apps -> Seq(Action)]
  /\ pc \in {"idle", "next", "recorded", "running", "ended"}
  /\ cur \in Apps \cup {None}
  /\ err \in BOOLEAN
  /\ failedOrder \in Orders \cup {None}
  /\ results \subseteq Result
  /\ deployFailed \in BOOLEAN
  /\ files \subseteq Apps \X Versions
  /\ last \in [Apps -> Run \cup {None}]
  /\ cuts \in [Apps -> Nat]
  /\ {boots, kills, diskFaults, changes} \subseteq Nat

(* The registry never claims more than happened: an entry with NoAction    *)
(* carries the version of the last command run for the application, and    *)
(* that command did not fail. (It may have been cut by a reboot: such an   *)
(* operation counts as done.) Kills, lost saves, skipped and refused       *)
(* operations included: New trusts these entries, and computeStatus        *)
(* reports them as the current state.                                      *)
RegistryTruthful ==
  disk # Unreadable =>
    \A a \in Apps :
      disk[a] # None /\ disk[a].op = "NoAction" =>
        /\ last[a] # None
        /\ last[a].version = disk[a].version
        /\ last[a].end \in {"ok", "cut"}

(* While a command runs, every application that comes before it is settled: *)
(* all uninstalls are through, and an ordered application runs only when   *)
(* nothing of a lower order is left to do, failed or was skipped in this   *)
(* enable.                                                                 *)
OrderHonoured ==
  pc = "running" =>
    \A b \in Apps : Precedes(b, cur) =>
      /\ plan[b] = << >>
      /\ Ordered(b) /\ Ordered(cur) =>
           \A r \in results : r.app = b => r.result = "ok"

(* An operation of the application failed or was skipped, or it was        *)
(* removed although it is desired: a remove that a reboot interrupted is   *)
(* retried even if the application has been requested again in the         *)
(* meantime, and nothing installs it after that (actionplan.go:204).       *)
LeftUndone(a) ==
  \E r \in results : r.app = a /\ (r.result # "ok" \/ (r.op = "Remove" /\ want[a] # None))

(* An enable that Execute brought to its end has nothing left to do: New,  *)
(* called again with the same desired collection, plans operations only    *)
(* for applications with something left undone in this enable.             *)
EnableSettles ==
  Executed /\ diskFaults = 0 =>
    \A a \in Apps : NewPlan(disk, want)[a] # << >> => LeftUndone(a)

(* Whenever the process is killed: as long as the goal of an application   *)
(* stays and the registry is not lost, an install or update command of an  *)
(* application without the Rerun reboot behaviour is not started a second  *)
(* time, whether it ended, was cut by a reboot or was killed.              *)
CommandRunsOnce ==
  [][ /\ pc = "recorded" /\ pc' = "running" /\ diskFaults = 0
      /\ ~IsRemove(registry[cur].op) /\ ~registry[cur].rerun
      /\ last[cur] # None /\ last[cur].sameGoal
      => ~ (/\ last[cur].op = registry[cur].op
            /\ last[cur].version = registry[cur].version) ]_vars

(* A command that keeps rebooting the machine is given up: under one goal, *)
(* while the registry is not lost, an install or update is cut at most     *)
(* MaxReboots times.                                                       *)
RebootsBounded == diskFaults = 0 => \A a \in Apps : cuts[a] <= MaxReboots

(* An application leaves the registry only when its remove command was     *)
(* run, and otherwise in two cases of the code: its entry was Skipped, or  *)
(* the reboot count in its entry is at the limit.                          *)
DroppedOnlyWhenRemoved ==
  [][ diskFaults' = 0 =>
        \A a \in Apps : disk[a] # None /\ disk'[a] = None =>
          \/ last[a] # None /\ last[a].op = "Remove"
          \/ disk[a].op = "Skipped"
          \/ disk[a].reboots = MaxReboots ]_vars

(* What is installed can be removed: the package files of the recorded     *)
(* version are in its working directory as long as the entry says so. An   *)
(* update by removal and installation, a cleanup, or the retry of a failed *)
(* remove never deletes those of the other version; downloads come before  *)
(* the command whose success is recorded. (Between the two commands of an  *)
(* update by removal the entry still names the version that was removed.)  *)
InstalledHasFiles ==
  disk # Unreadable /\ diskFaults = 0 =>
    \A a \in Apps :
      /\ disk[a] # None /\ disk[a].op = "NoAction"
      /\ last[a].end = "ok" /\ ~IsRemove(last[a].op)
      => <<a, disk[a].version>> \in files

(* An enable that starts comes to an end.                                  *)
EnableTerminates == pc # "idle" ~> pc = "idle"

(* An operation that a reboot interrupted under the Rerun behaviour is     *)
(* taken up again until it succeeds, fails or is skipped.                  *)
InterruptedIsResumed ==
  \A a \in Apps :
    (/\ disk # Unreadable /\ disk[a] # None
     /\ disk[a].reboots > 0 /\ disk[a].op \in Commands)
    ~> ~ (/\ disk # Unreadable /\ disk[a] # None
          /\ disk[a].reboots > 0 /\ disk[a].op \in Commands)

-----------------------------------------------------------------------------
(* The phase of the operation under way, as OperationLog sees it. An       *)
(* operation that ended without a command to run was refused.              *)
OperationPhase ==
  CASE pc \in {"idle", "next"} \/ diskFaults > 0 -> "idle"
    [] pc \in {"recorded", "running"} /\ diskFaults = 0 -> pc
    [] pc = "ended" /\ diskFaults = 0 ->
         IF CanRun(disk[cur]) THEN last[cur].end ELSE "refused"

Log == INSTANCE OperationLog WITH
  log <- disk,
  app <- IF OperationPhase = "idle" THEN None ELSE cur,
  phase <- OperationPhase,
  lost <- diskFaults > 0

(* The registry file is a log of operations written ahead, as long as no   *)
(* save fails: a command runs only after its operation is in the file, an  *)
(* entry gets NoAction only by a command that ended well or was cut by a   *)
(* reboot without Rerun, and a kill at any point leaves the operation in   *)
(* the file for the next enable.                                           *)
ImplementsLog == Log!LogSpec

-----------------------------------------------------------------------------
(* What comments and messages of the code say, and the code does not do.   *)

(* actionplan.go, packageregistry.go: an entry is cleaned up without its   *)
(* remove command only if its installation was skipped. So an application  *)
(* without an entry was never installed or updated since its last removal. *)
NothingForgotten ==
  disk # Unreadable => \A a \in Apps :
    disk[a] = None /\ last[a] # None => IsRemove(last[a].op)

(* executehelper.go: an operation cut by a reboot without the Rerun        *)
(* behaviour is not run again.                                             *)
NoRerunAfterReboot ==
  [][ pc = "recorded" /\ pc' = "running" /\ last[cur] # None =>
        ~ (/\ last[cur].end = "cut" /\ ~registry[cur].rerun /\ last[cur].sameGoal
           /\ last[cur].op = registry[cur].op
           /\ last[cur].version = registry[cur].version) ]_vars
=============================================================================
