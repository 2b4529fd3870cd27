--------------------------- MODULE EnableProtocol ---------------------------
(***************************************************************************)
(* launcher/main.go, main/main.go and pkg/utils/status.go: how a goal of   *)
(* the guest agent becomes a status. The agent writes settings with a new  *)
(* sequence number and runs the launcher, which writes a first             *)
(* Transitioning status and starts a manager as an independent process.    *)
(* Several managers may be alive; the lock of the package registry lets    *)
(* one at a time execute its plan, and then the custom actions. The        *)
(* manager then answers: it computes the status from the results of both   *)
(* and from the status already there, writes it, and records the sequence  *)
(* number as executed. An error before that point is answered after the    *)
(* lock was given back.                                                    *)
(*                                                                         *)
(* What a plan does to the applications is module ActionPlan's, and which  *)
(* custom actions run is CustomActions'. Here the goal of a sequence       *)
(* number is a version of one application whose failure is a deployment    *)
(* failure, the registry file holds the entry of that application, and of  *)
(* the custom actions is left whether one succeeded.                       *)
(*                                                                         *)
(* From the extension platform, a library: a status file is replaced as a  *)
(* whole; the lock dies with its process and is not given in the order of  *)
(* the requests; a process finds its sequence number, and later its        *)
(* settings, either as it was started for or as the newest there is.       *)
(***************************************************************************)
EXTENDS Integers, FiniteSets

CONSTANTS
  MaxSeq,       \* bound: sequence numbers
  Goal,         \* the version each sequence number asks for
  Managers,     \* bound: processes that may be alive at once
  None,         \* no process, no entry, no answer
  Unreadable,   \* a registry file that GetExistingPackages cannot parse
  MaxKills,     \* bound: kills of a manager, and reboots
  MaxFaults     \* bound: errors of the lock, the host, files

Seqs == 1..MaxSeq
Versions == {Goal[n] : n \in Seqs}

(* The answers of enable. HostGA is an error status whose message holds    *)
(* HostGaMetadataErrorPrefix.                                              *)
Answers == {"Success", "Error", "HostGA"}

(* The error that customEnable returned: of the lock, of the host, or one  *)
(* wrapped in another.                                                     *)
Errors == {"FileLock", "GetVMAppInfo", "Wrapped"}

(* A status file. Disabled: a status of the disable operation.             *)
Statuses == Answers \cup {"missing", "Transitioning", "Disabled"}

(* The entry of the application. Started: its operation was recorded, and  *)
(* either runs or was lost in a kill; Interrupted: it was cut by a reboot, *)
(* which counted.                                                          *)
Entry == [version : Versions, op : {"NoAction", "Failed", "Started", "Interrupted"}]

ASSUME ConstantsAssumption ==
  /\ {MaxSeq, MaxKills, MaxFaults} \subseteq Nat
  /\ DOMAIN Goal = Seqs
  /\ None \notin Managers \cup Entry \cup Answers \cup Errors
  /\ Unreadable \notin Entry \cup {None}

(* What a save of the registry leaves, when it fails or is cut.            *)
Outcomes == INSTANCE RegistryOutcomes WITH NoPackages <- None

Launcher == [pc : {"idle", "write", "run"}, seq : 0..MaxSeq]

(* vmAppResults: nil, empty, or with results of custom actions only, or of *)
(* operations too.                                                         *)
Results == {"nil", "empty", "custom", "operations"}

(* A manager: requestedSequenceNumber, the settings it read, the results   *)
(* it has, whether one of them is a failed deployment, the status it is to *)
(* write, and the error that led to it. As a history, what became of the   *)
(* last save of its plan: done, an error, or lost without one.             *)
Manager == [pc : {"idle", "waiting", "locked", "resolved", "working", "executed",
                  "customized", "reporting", "reported", "failing"},
            req : 0..MaxSeq, goal : 0..MaxSeq,
            results : Results, failed : BOOLEAN, save : {"done", "error", "lost"},
            answer : Answers \cup {None}, error : Errors \cup {None}]

Idle == [pc |-> "idle", req |-> 0, goal |-> 0, results |-> "nil", failed |-> FALSE,
         save |-> "done", answer |-> None, error |-> None]

VARIABLES
  newest,       \* the newest settings of the agent, 0 before the first
  currentSeq,   \* the sequence number recorded as executed, 0 if none
  status,       \* <n>.status
  lastStable,   \* <n>.lastStableStatus
  lock,         \* the manager that holds the lock of the package registry
  launcher,     \* the launcher process; the agent runs one at a time
  mgr,          \* the manager processes
  entry,        \* what a reader of the package registry finds
  answered,     \* history: sequence numbers answered by customEnable
  kept,         \* history: the status that an error of the host replaced
  failure,      \* history: what became of the last failed deployment
  kills,        \* kills and reboots so far
  faults        \* errors so far

(* No failure, or one lost to the statuses (FailureShown says how), one    *)
(* not yet answered, or one shown by a status.                             *)
Failure == [state : {"none", "pending", "shown"}, by : Seqs \cup {0}]
Fate(state) == [state |-> state, by |-> 0]
Shown(n) == [state |-> "shown", by |-> n]

history == <<answered, kept, failure>>
vars == <<newest, currentSeq, status, lastStable, lock, launcher, mgr, entry,
          answered, kept, failure, kills, faults>>

Init ==
  /\ newest = 0
  /\ currentSeq = 0
  /\ status = [n \in Seqs |-> "missing"]
  /\ lastStable = [n \in Seqs |-> "missing"]
  /\ lock = None
  /\ launcher = [pc |-> "idle", seq |-> 0]
  /\ mgr = [p \in Managers |-> Idle]
  /\ entry = None
  /\ answered = {}
  /\ kept = [n \in Seqs |-> "missing"]
  /\ failure = Fate("none")
  /\ kills = 0
  /\ faults = 0

-----------------------------------------------------------------------------
(* An operation of the system, the host or the disk returns an error.      *)
Fault == faults < MaxFaults /\ faults' = faults + 1

(* A write of n.status: a failure it showed may be gone.                   *)
Overwritten(n) == IF failure = Shown(n) THEN Fate("none") ELSE failure

(* The guest agent.                                                        *)

(* New settings, with the next sequence number.                            *)
NewSettings ==
  /\ newest < MaxSeq
  /\ newest' = newest + 1
  /\ UNCHANGED <<currentSeq, status, lastStable, lock, launcher, mgr, entry, history, kills, faults>>

(* The agent disables the extension: ext.Do() writes a status of that      *)
(* operation, without the lock.                                            *)
Disable ==
  /\ newest > 0
  /\ launcher.pc = "idle"
  /\ status[newest] # "Disabled"
  /\ status' = [status EXCEPT ![newest] = "Disabled"]
  /\ failure' = Overwritten(newest)
  /\ UNCHANGED <<newest, currentSeq, lastStable, lock, launcher, mgr, entry, answered, kept,
                 kills, faults>>

-----------------------------------------------------------------------------
(* The launcher.                                                           *)

(* The agent enables the extension: the launcher reads the two sequence    *)
(* numbers and the status.                                                 *)
Launch ==
  /\ launcher.pc = "idle"
  /\ newest > 0
  /\ launcher' = [pc |-> IF newest >= currentSeq /\ status[newest] = "missing"
                         THEN "write" ELSE "run",
                  seq |-> newest]
  /\ UNCHANGED <<newest, currentSeq, status, lastStable, lock, mgr, entry, history, kills, faults>>

(* It writes the Transitioning status that it found missing.               *)
WriteTransitioning ==
  /\ launcher.pc = "write"
  /\ status' = [status EXCEPT ![launcher.seq] = "Transitioning"]
  /\ failure' = Overwritten(launcher.seq)
  /\ launcher' = [launcher EXCEPT !.pc = "run"]
  /\ UNCHANGED <<newest, currentSeq, lastStable, lock, mgr, entry, answered, kept,
                 kills, faults>>

(* The launcher cannot write it, and starts no manager.                    *)
WriteTransitioningFails ==
  /\ launcher.pc = "write"
  /\ Fault
  /\ launcher' = [pc |-> "idle", seq |-> 0]
  /\ UNCHANGED <<newest, currentSeq, status, lastStable, lock, mgr, entry, history, kills>>

(* runExecutableAsIndependentProcess; getExtensionAndRun reads the         *)
(* sequence numbers.                                                       *)
StartManager(p) ==
  /\ launcher.pc = "run"
  /\ mgr[p].pc = "idle"
  /\ \E req \in {launcher.seq, newest} :
       mgr' = [mgr EXCEPT ![p] = [Idle EXCEPT !.pc = "waiting", !.req = req]]
  /\ launcher' = [pc |-> "idle", seq |-> 0]
  /\ UNCHANGED <<newest, currentSeq, status, lastStable, lock, entry, history, kills, faults>>

-----------------------------------------------------------------------------
(* The manager: customEnable.                                              *)

Become(p, pc) == mgr' = [mgr EXCEPT ![p].pc = pc]
Exit(p) == mgr' = [mgr EXCEPT ![p] = Idle]

(* customEnable returns an error: the deferred Close has given the lock    *)
(* back when getExtensionAndRun handles the error, and what it knew of its *)
(* plan is gone.                                                           *)
Fail(p, answer, error) ==
  /\ mgr' = [mgr EXCEPT ![p] = [Idle EXCEPT !.pc = "failing", !.req = mgr[p].req,
                                            !.answer = answer, !.error = error]]
  /\ lock' = IF lock = p THEN None ELSE lock

AcquireLockUnchecked(p) ==
  /\ mgr[p].pc = "waiting"
  /\ lock' = p
  /\ Become(p, "locked")
  /\ UNCHANGED <<newest, currentSeq, status, lastStable, launcher, entry, history, kills, faults>>

(* packageregistry.New takes the lock.                                     *)
AcquireLock(p) ==
  /\ mgr[p].pc = "waiting"
  /\ lock = None
  /\ lock' = p
  /\ Become(p, "locked")
  /\ UNCHANGED <<newest, currentSeq, status, lastStable, launcher, entry, history, kills, faults>>

(* FileLockTimeoutError: another manager held the lock for 45 minutes. The *)
(* process ends without a status.                                          *)
LockTimeout(p) ==
  /\ mgr[p].pc = "waiting"
  /\ lock # None
  /\ Exit(p)
  /\ UNCHANGED <<newest, currentSeq, status, lastStable, lock, launcher, entry, history, kills, faults>>

(* Any other error of the lock.                                            *)
LockError(p) ==
  /\ mgr[p].pc = "waiting"
  /\ Fault
  /\ Fail(p, "Error", "FileLock")
  /\ UNCHANGED <<newest, currentSeq, status, lastStable, launcher, entry, history, kills>>

(* GetSettings and getVMAppIncomingCollection.                             *)
ResolveGoal(p) ==
  /\ mgr[p].pc = "locked"
  /\ \E goal \in {mgr[p].req, newest} :
       mgr' = [mgr EXCEPT ![p].pc = "resolved", ![p].goal = goal]
  /\ UNCHANGED <<newest, currentSeq, status, lastStable, lock, launcher, entry, history, kills, faults>>

(* Unreadable settings, or the host does not know the application; all     *)
(* these errors are wrapped.                                               *)
ResolveFails(p) ==
  /\ mgr[p].pc = "locked"
  /\ Fault
  /\ \E answer \in {"Error", "HostGA"} : Fail(p, answer, "Wrapped")
  /\ UNCHANGED <<newest, currentSeq, status, lastStable, launcher, entry, history, kills>>

(* The plan is empty when the registry has the version and no reboot cut   *)
(* the operation; an operation lost in a kill is not planned again.        *)
NeedsWork(version) == entry # None => entry.version # version \/ entry.op = "Interrupted"

(* The entry of the goal of p, as its plan holds it.                       *)
Recorded(p, op) == [version |-> Goal[mgr[p].goal], op |-> op]

(* registryHandler.WriteToDisk, and what the plan makes of it.             *)
Save(new, save) ==
  \/ save = "done" /\ entry' = new /\ UNCHANGED faults
  \/ /\ Fault
     /\ \E o \in Outcomes!FaultyWrites(entry, new) :
          entry' = o.left /\ save = IF o.failed THEN "error" ELSE "lost"

(* Execute is done with its operations. A failed one is to be answered.    *)
Executed(p, failed, save) ==
  /\ mgr' = [mgr EXCEPT ![p].pc = "executed", ![p].results = "operations",
                        ![p].failed = failed, ![p].save = save]
  /\ failure' = Fate(IF failed THEN "pending" ELSE "none")

(* actionplan.New and Execute: an operation is recorded before it starts;  *)
(* if that fails, it does not start and has failed.                        *)
StartWork(p) ==
  /\ mgr[p].pc = "resolved"
  /\ entry # Unreadable
  /\ NeedsWork(Goal[mgr[p].goal])
  /\ \E save \in {"done", "error", "lost"} :
       /\ Save(Recorded(p, "Started"), save)
       /\ \/ /\ save # "error"
             /\ mgr' = [mgr EXCEPT ![p].pc = "working", ![p].save = save]
             /\ UNCHANGED failure
          \/ save = "error" /\ Executed(p, TRUE, save)
  /\ UNCHANGED <<newest, currentSeq, status, lastStable, lock, launcher, answered, kept, kills>>

NothingToDo(p) ==
  /\ mgr[p].pc = "resolved"
  /\ entry # Unreadable
  /\ ~ NeedsWork(Goal[mgr[p].goal])
  /\ mgr' = [mgr EXCEPT ![p].pc = "executed", ![p].results = "empty"]
  /\ UNCHANGED <<newest, currentSeq, status, lastStable, lock, launcher, entry, history, kills, faults>>

(* Execute cannot read the registry that New was given. It runs nothing    *)
(* and returns an empty ExecuteError, so customEnable goes on, without     *)
(* results.                                                                *)
ExecuteUnread(p) ==
  /\ mgr[p].pc = "resolved"
  /\ entry # Unreadable
  /\ Fault
  /\ Become(p, "executed")
  /\ UNCHANGED <<newest, currentSeq, status, lastStable, lock, launcher, entry, history, kills>>

(* The command ends, and the outcome is saved; a failed save is a failed   *)
(* operation.                                                              *)
FinishWork(p) ==
  /\ mgr[p].pc = "working"
  /\ \E command \in {"NoAction", "Failed"}, save \in {"done", "error", "lost"} :
       /\ Save(Recorded(p, command), save)
       /\ Executed(p, command = "Failed" \/ save = "error", save)
  /\ UNCHANGED <<newest, currentSeq, status, lastStable, lock, launcher, answered, kept, kills>>

(* The custom actions, whose failures are not in the results. One that     *)
(* succeeds, for an application in the registry, is appended to the        *)
(* results of the plan; if these are nil, the manager ends in a panic.     *)
RunCustomActions(p) ==
  /\ mgr[p].pc = "executed"
  /\ entry # Unreadable
  /\ \/ Become(p, "customized") /\ UNCHANGED lock
     \/ /\ entry # None
        /\ mgr[p].results # "nil"
        /\ mgr' = [mgr EXCEPT ![p].pc = "customized",
                              ![p].results = IF @ = "empty" THEN "custom" ELSE @]
        /\ UNCHANGED lock
     \/ entry # None /\ mgr[p].results = "nil" /\ Exit(p) /\ lock' = None
  /\ UNCHANGED <<newest, currentSeq, status, lastStable, launcher, entry, history, kills, faults>>

(* The process p is lost to the answer that it owes.                       *)
Lost(p) == IF failure.state = "pending" /\ lock = p THEN Fate("none") ELSE failure

(* customEnable cannot read the registry: before the plan, before the      *)
(* custom actions, or after them.                                          *)
EnableFails(p) ==
  /\ mgr[p].pc \in {"resolved", "executed", "customized"}
  /\ Fault \/ (entry = Unreadable /\ UNCHANGED faults)
  /\ Fail(p, "Error", "Wrapped")
  /\ failure' = Lost(p)
  /\ UNCHANGED <<newest, currentSeq, status, lastStable, launcher, entry, answered, kept, kills>>

-----------------------------------------------------------------------------
(* The manager: the answer.                                                *)

Outcome(m) == IF m.failed THEN "Error" ELSE "Success"

StatusFirst(m, existing, stable) ==
  CASE existing \in {"missing", "Transitioning", "HostGA"} -> "Success"
    [] existing = "Disabled" -> Outcome(m)
    [] OTHER -> None

StableUnchecked(m, existing, stable) ==
  CASE m.results \in {"custom", "operations"} -> Outcome(m)
    [] m.results \in {"nil", "empty"} /\ existing \in {"missing", "Transitioning"} -> "Success"
    [] m.results \in {"nil", "empty"} /\ existing = "Disabled" -> Outcome(m)
    [] m.results \in {"nil", "empty"} /\ existing = "HostGA" -> stable
    [] OTHER -> None

(* The status, or None when it is not updated. The results decide if there *)
(* are any, of operations or of custom actions, otherwise the existing     *)
(* status does.                                                            *)
computeStatus(m, existing, stable) ==
  CASE m.results \in {"custom", "operations"} -> Outcome(m)
    [] m.results \in {"nil", "empty"} /\ existing \in {"missing", "Transitioning"} -> "Success"
    [] m.results \in {"nil", "empty"} /\ existing = "Disabled" -> Outcome(m)
    [] m.results \in {"nil", "empty"} /\ existing = "HostGA" ->
         IF stable = "missing" THEN "Success" ELSE stable
    [] OTHER -> None

(* A new message is made from the results, through a pointer that is nil   *)
(* after ExecuteUnread. A last stable status brings its own.               *)
getStatusMessagePanics(m, existing, stable) ==
  /\ m.results = "nil"
  /\ \/ existing \in {"missing", "Transitioning", "Disabled"}
     \/ existing = "HostGA" /\ stable = "missing"

ComputeStatusKeepsLock(p) ==
  /\ mgr[p].pc = "customized"
  /\ entry # Unreadable
  /\ LET m == mgr[p]
         answer == computeStatus(m, status[m.req], lastStable[m.req])
     IN IF answer = None \/ getStatusMessagePanics(m, status[m.req], lastStable[m.req])
        THEN Exit(p)
        ELSE mgr' = [mgr EXCEPT ![p].pc = "reporting", ![p].answer = answer]
  /\ UNCHANGED <<newest, currentSeq, status, lastStable, lock, launcher, entry, history, kills, faults>>

(* Without a status to write the manager logs two sequence numbers and is  *)
(* done; it ends in a panic there, after its work, if the current one was  *)
(* nil when it started.                                                    *)
ComputeStatus(p) ==
  /\ mgr[p].pc = "customized"
  /\ entry # Unreadable
  /\ LET m == mgr[p]
         answer == computeStatus(m, status[m.req], lastStable[m.req])
     IN IF answer = None \/ getStatusMessagePanics(m, status[m.req], lastStable[m.req])
        THEN Exit(p) /\ lock' = None
        ELSE /\ mgr' = [mgr EXCEPT ![p].pc = "reporting", ![p].answer = answer]
             /\ UNCHANGED lock
  /\ UNCHANGED <<newest, currentSeq, status, lastStable, launcher, entry, history, kills, faults>>

(* ReportStatus.                                                           *)
Report(p) ==
  /\ mgr[p].pc = "reporting"
  /\ status' = [status EXCEPT ![mgr[p].req] = mgr[p].answer]
  /\ answered' = answered \cup {mgr[p].req}
  /\ failure' = IF failure.state = "pending" /\ mgr[p].failed THEN Shown(mgr[p].req)
                ELSE IF mgr[p].results = "custom" THEN Overwritten(mgr[p].req)
                ELSE failure
  /\ Become(p, "reported")
  /\ UNCHANGED <<newest, currentSeq, lastStable, lock, launcher, entry, kept, kills, faults>>

ReportFailsSwallowed(p) ==
  /\ mgr[p].pc = "reporting"
  /\ Fault
  /\ failure' = Lost(p)
  /\ Become(p, "reported")
  /\ UNCHANGED <<newest, currentSeq, status, lastStable, lock, launcher, entry, answered, kept, kills>>

(* StatusSaveError: no status, and the sequence number is not recorded.    *)
ReportFails(p) ==
  /\ mgr[p].pc = "reporting"
  /\ Fault
  /\ failure' = Lost(p)
  /\ lock' = None
  /\ Exit(p)
  /\ UNCHANGED <<newest, currentSeq, status, lastStable, launcher, entry, answered, kept, kills>>

(* SetSequenceNumber, whose error is only logged, and Close.               *)
SetSequenceNumber(p) ==
  /\ mgr[p].pc = "reported"
  /\ \/ currentSeq' = mgr[p].req /\ UNCHANGED faults
     \/ Fault /\ UNCHANGED currentSeq
  /\ lock' = None
  /\ Exit(p)
  /\ UNCHANGED <<newest, status, lastStable, launcher, entry, history, kills>>

(* getExtensionAndRun after an error. Only an error of the host that is    *)
(* not wrapped backs up the status it is about to replace. (The test that  *)
(* this status is no error of the host itself looks for a prefix, and the  *)
(* name of the operation comes first in every status.)                     *)
WriteError(p) ==
  /\ mgr[p].pc = "failing"
  /\ LET n == mgr[p].req
     IN /\ lastStable' = IF mgr[p].error = "GetVMAppInfo" /\ status[n] # "missing"
                         THEN [lastStable EXCEPT ![n] = status[n]] ELSE lastStable
        /\ \/ /\ status' = [status EXCEPT ![n] = mgr[p].answer]
              /\ kept' = IF mgr[p].answer = "HostGA" /\ status[n] # "HostGA"
                         THEN [kept EXCEPT ![n] = status[n]] ELSE kept
              /\ failure' = Overwritten(n)
              /\ UNCHANGED faults
           \/ Fault /\ UNCHANGED <<status, kept, failure>>
  /\ Exit(p)
  /\ UNCHANGED <<newest, currentSeq, lock, launcher, entry, answered, kills>>

-----------------------------------------------------------------------------
(* The end of a process.                                                   *)

(* The entries that p may be saving.                                       *)
Saving(p) ==
  CASE mgr[p].pc = "resolved" -> IF entry # Unreadable /\ NeedsWork(Goal[mgr[p].goal])
                                 THEN {Recorded(p, "Started")} ELSE {}
    [] mgr[p].pc = "working" -> {Recorded(p, "NoAction"), Recorded(p, "Failed")}
    [] OTHER -> {}

Kill(p) ==
  /\ kills < MaxKills
  /\ mgr[p].pc # "idle"
  /\ kills' = kills + 1
  /\ \/ UNCHANGED entry
     \/ \E new \in Saving(p) : entry' \in Outcomes!KilledWrites(entry, new)
  /\ lock' = IF lock = p THEN None ELSE lock
  /\ failure' = Lost(p)
  /\ Exit(p)
  /\ UNCHANGED <<newest, currentSeq, status, lastStable, launcher, answered, kept, faults>>

KillLauncher ==
  /\ kills < MaxKills
  /\ launcher.pc # "idle"
  /\ kills' = kills + 1
  /\ launcher' = [pc |-> "idle", seq |-> 0]
  /\ UNCHANGED <<newest, currentSeq, status, lastStable, lock, mgr, entry, history, faults>>

(* A command reboots the machine, and no process survives. A failed        *)
(* deployment not yet answered is lost. An operation is marked, to be run  *)
(* again or as done, in a save whose error nobody looks at; a custom       *)
(* action is not.                                                          *)
Reboot(p) ==
  /\ kills < MaxKills
  /\ kills' = kills + 1
  /\ \/ /\ mgr[p].pc = "working"
        /\ \E op \in {"Interrupted", "NoAction"} :
             entry' \in Outcomes!KilledWrites(entry, Recorded(p, op))
     \/ mgr[p].pc = "executed" /\ UNCHANGED entry
  /\ mgr' = [q \in Managers |-> Idle]
  /\ launcher' = [pc |-> "idle", seq |-> 0]
  /\ lock' = None
  /\ failure' = IF failure.state = "pending" THEN Fate("none") ELSE failure
  /\ UNCHANGED <<newest, currentSeq, status, lastStable, answered, kept, faults>>

(* What a manager does by itself.                                          *)
ManagerStep(p) ==
  \/ AcquireLock(p)
  \/ LockTimeout(p)
  \/ LockError(p)
  \/ ResolveGoal(p)
  \/ ResolveFails(p)
  \/ StartWork(p)
  \/ NothingToDo(p)
  \/ ExecuteUnread(p)
  \/ FinishWork(p)
  \/ RunCustomActions(p)
  \/ EnableFails(p)
  \/ ComputeStatus(p)
  \/ Report(p)
  \/ ReportFails(p)
  \/ SetSequenceNumber(p)
  \/ WriteError(p)

Next ==
  \/ NewSettings
  \/ Disable
  \/ Launch
  \/ WriteTransitioning
  \/ WriteTransitioningFails
  \/ KillLauncher
  \/ \E p \in Managers : StartManager(p) \/ ManagerStep(p) \/ Kill(p) \/ Reboot(p)

Spec == Init /\ [][Next]_vars

(* The agent runs enable again and again, with the settings it has (the    *)
(* extension does not require that the sequence number changes), the       *)
(* launcher is straight-line code, and so is the manager: commands end,    *)
(* and a wait for the lock ends in a timeout.                              *)
FairSpec ==
  /\ Spec
  /\ WF_vars(Launch)
  /\ WF_vars(WriteTransitioning \/ WriteTransitioningFails)
  /\ WF_vars(\E p \in Managers : StartManager(p))
  /\ \A p \in Managers : WF_vars(ManagerStep(p))

-----------------------------------------------------------------------------
TypeOK ==
  /\ newest \in 0..MaxSeq
  /\ currentSeq \in 0..MaxSeq
  /\ status \in [Seqs -> Statuses]
  /\ lastStable \in [Seqs -> Statuses]
  /\ lock \in Managers \cup {None}
  /\ launcher \in Launcher
  /\ mgr \in [Managers -> Manager]
  /\ entry \in Entry \cup {None, Unreadable}
  /\ answered \subseteq Seqs
  /\ kept \in [Seqs -> Statuses]
  /\ failure \in Failure
  /\ kills \in 0..MaxKills
  /\ faults \in 0..MaxFaults

(* What a manager answers is backed by the registry that its own plan      *)
(* left. From the first operation to the end of the process the            *)
(* application is in the version of the settings it read, which are those  *)
(* of the sequence number it answers or newer ones, and the result is how  *)
(* the operation ended. Lock timeouts, kills and the early release of the  *)
(* lock on errors must not let another manager in between (main.go:183-201,*)
(* 262-268); an operation whose save returned an error is a failed one     *)
(* (executehelper.go:48-51, 244-247); a plan that Execute could not run    *)
(* (actionplan.go:241-244) is never answered. Excused is a save that was   *)
(* lost without an error (packageregistry.go:216-220).                     *)
AnswerIsBacked ==
  \A p \in Managers :
    LET m == mgr[p] IN
    /\ m.pc = "working" /\ m.save = "done" => entry = Recorded(p, "Started")
    /\ m.pc \in {"executed", "customized", "reporting", "reported"} =>
         /\ m.save = "error" => m.failed
         /\ m.save = "done" /\ m.results # "nil" =>
              /\ entry \in Entry
              /\ entry.version \in {Goal[n] : n \in m.req..newest} \cap {Goal[m.goal]}
              /\ m.results = "operations" => entry.op = (IF m.failed THEN "Failed" ELSE "NoAction")
    /\ m.pc \in {"reporting", "reported"} => m.results # "nil"

(* A failed deployment is shown: the manager that saw the failure is on    *)
(* its way to answer, or a status says "Error", and no later enable that   *)
(* finds nothing to do, or that could not run its plan, turns it into a    *)
(* success (computeStatus, main.go:296-347). Excused is what the code      *)
(* cannot or does not protect: the manager was killed or could not answer; *)
(* the status was replaced by a process without the lock; or by an enable  *)
(* that had a custom action to run, whose result is one of vmAppResults    *)
(* (customactionplan.go:145, main.go:245) and makes the answer a success.  *)
FailureShown ==
  /\ failure.state = "pending" =>
       \E p \in Managers : mgr[p].failed /\ mgr[p].pc \in {"executed", "customized", "reporting"}
  /\ failure.state = "shown" => status[failure.by] = "Error"

(* A sequence number is recorded as executed only after customEnable wrote *)
(* a status for it, whatever kills and errors come in between              *)
(* (main.go:259-273, main_test.go:394 "extension will retry").             *)
CurrentWasAnswered == currentSeq # 0 => currentSeq \in answered

(* Newer settings are asked for, or their goal is answered: after kills,   *)
(* reboots and timeouts of the lock no goal stays without status or in     *)
(* Transitioning for ever, and no process keeps the lock.                  *)
GoalAnswered ==
  \A n \in Seqs :
    (newest = n) ~> (newest > n \/ status[n] \in Answers \cup {"Disabled"})

(* "Preserve the last good status" (main.go:131-132): when an enable finds *)
(* nothing to do and the status is an error of the host, "the status       *)
(* should be the same as its last stable status" (main.go:331-333), if     *)
(* that was an answer.                                                     *)
LastStableRestored ==
  [][\A p \in Managers :
       LET n == mgr[p].req
       IN /\ mgr[p].pc = "customized" /\ mgr'[p].pc = "reporting"
          /\ mgr[p].results = "empty" /\ status[n] = "HostGA" /\ kept[n] \in {"Success", "Error"}
          => mgr'[p].answer = kept[n]]_vars
=============================================================================
