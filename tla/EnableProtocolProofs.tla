------------------------ MODULE EnableProtocolProofs ------------------------
(***************************************************************************)
(* Proofs about EnableProtocol, for every number of managers, settings,    *)
(* kills and errors: type correctness; that the lock keeps the registry    *)
(* and the answer of a manager together; that the backup of the status is  *)
(* never written; and that a shown failure stays shown.                    *)
(***************************************************************************)
EXTENDS EnableProtocol, TLAPS

-----------------------------------------------------------------------------
(* A well-formed manager: what its fields hold, by program counter.        *)
Well(m) ==
  /\ m \in Manager
  /\ m.error # "GetVMAppInfo"
  /\ m.pc # "idle" => m.req \in Seqs
  /\ m.pc \in {"resolved", "working", "executed", "customized", "reporting", "reported"} =>
       m.goal \in Seqs
  /\ m.pc \in {"reporting", "failing"} => m.answer \in Answers
  /\ m.pc \in {"waiting", "locked", "resolved", "working"} => m.results = "nil" /\ ~ m.failed
  /\ m.pc \in {"waiting", "locked", "resolved"} => m.save = "done"
  /\ m.failed => m.results = "operations"
  /\ m.pc \in {"reporting", "reported"} => m.results # "nil"
  /\ m.pc = "reporting" /\ m.results \in {"custom", "operations"} => m.answer = Outcome(m)

(* No status was ever backed up.                                           *)
NeverBackedUp == lastStable = [n \in Seqs |-> "missing"]

TypeInv ==
  /\ TypeOK
  /\ launcher.pc # "idle" => launcher.seq \in Seqs /\ newest \in Seqs
  /\ newest = 0 => \A p \in Managers : mgr[p].pc = "idle"
  /\ NeverBackedUp
  /\ \A p \in Managers : Well(mgr[p])

LEMMA Bounds == MaxSeq \in Nat /\ MaxKills \in Nat /\ MaxFaults \in Nat /\ None \notin Managers
BY ConstantsAssumption

(* The settings of a sequence number name one of the versions.             *)
LEMMA GoalVersion ==
  ASSUME NEW n \in Seqs
  PROVE  Goal[n] \in Versions
BY DEF Versions

(* The entry that a plan holds, and what a save of it leaves.              *)
LEMMA RecordedType ==
  ASSUME NEW p \in Managers, mgr[p].goal \in Seqs,
         NEW op \in {"NoAction", "Failed", "Started", "Interrupted"}
  PROVE  /\ Recorded(p, op) \in Entry
         /\ Recorded(p, op).version = Goal[mgr[p].goal]
         /\ Recorded(p, op).op = op
BY GoalVersion DEF Recorded, Entry

LEMMA SaveOutcomes ==
  ASSUME NEW new, NEW save, Save(new, save)
  PROVE  /\ save \in {"done", "error", "lost"}
         /\ entry' \in {entry, new, None, Unreadable}
         /\ save = "done" => entry' = new
         /\ faults' = faults \/ Fault
BY DEF Save, Outcomes!FaultyWrites

LEMMA KilledOutcomes ==
  ASSUME NEW new
  PROVE  Outcomes!KilledWrites(entry, new) = {entry, new, None, Unreadable}
BY DEF Outcomes!KilledWrites

LEMMA IdleIsWell == Well(Idle)
<1>1. 0 \in 0..MaxSeq
  BY Bounds
<1>2. Idle \in Manager
  BY <1>1 DEF Idle, Manager, Results
<1>3. Idle.error # "GetVMAppInfo"
  BY ConstantsAssumption DEF Idle, Errors
<1>4. QED
  BY <1>2, <1>3 DEF Well, Idle

(* Replacing one manager by a well-formed one.                             *)
LEMMA OneManager ==
  ASSUME TypeInv, NEW p \in Managers, NEW m, Well(m), mgr' = [mgr EXCEPT ![p] = m]
  PROVE  /\ mgr' \in [Managers -> Manager]
         /\ \A q \in Managers : Well(mgr'[q])
<1>1. mgr \in [Managers -> Manager] /\ m \in Manager
  BY DEF TypeInv, TypeOK, Well
<1>2. \A q \in Managers : mgr'[q] = IF q = p THEN m ELSE mgr[q]
  BY <1>1
<1>3. QED
  BY <1>1, <1>2 DEF TypeInv

(* An error a fault may cause, and where the lock is after it.             *)
LEMMA FailType ==
  ASSUME TypeInv, NEW p \in Managers, mgr[p].pc # "idle",
         NEW answer \in Answers, NEW error \in {"FileLock", "Wrapped"}, Fail(p, answer, error)
  PROVE  /\ mgr' \in [Managers -> Manager]
         /\ \A q \in Managers : Well(mgr'[q])
         /\ lock' \in Managers \cup {None}
<1> DEFINE m == [Idle EXCEPT !.pc = "failing", !.req = mgr[p].req,
                             !.answer = answer, !.error = error]
<1>1. Well(mgr[p]) /\ lock \in Managers \cup {None} /\ mgr[p].req \in Seqs
  BY DEF TypeInv, TypeOK, Well
<1>2. mgr[p].req \in 0..MaxSeq /\ 0 \in 0..MaxSeq
  BY <1>1, Bounds DEF Seqs
<1>3. m \in Manager
  BY <1>2 DEF Idle, Manager, Errors, Results
<1>4. Well(m)
  BY <1>1, <1>3 DEF Well, Idle
<1>5. mgr' = [mgr EXCEPT ![p] = m] /\ lock' \in Managers \cup {None}
  BY <1>1 DEF Fail
<1>6. QED
  BY <1>4, <1>5, OneManager

LEMMA FaultType ==
  ASSUME TypeInv, Fault
  PROVE  faults' \in 0..MaxFaults
BY Bounds DEF TypeInv, TypeOK, Fault

LEMMA FailureTypes ==
  ASSUME TypeInv
  PROVE  /\ \A n : Overwritten(n) \in Failure
         /\ \A p : Lost(p) \in Failure
         /\ \A n \in Seqs : Shown(n) \in Failure
         /\ \A state \in {"none", "pending", "shown"} : Fate(state) \in Failure
BY DEF TypeInv, TypeOK, Overwritten, Lost, Shown, Fate, Failure

(* A manager that only moves on.                                           *)
LEMMA BecomeType ==
  ASSUME TypeInv, NEW p \in Managers, NEW pc, Become(p, pc), Well([mgr[p] EXCEPT !.pc = pc])
  PROVE  /\ mgr' \in [Managers -> Manager]
         /\ \A q \in Managers : Well(mgr'[q])
<1>1. mgr' = [mgr EXCEPT ![p] = [mgr[p] EXCEPT !.pc = pc]]
  BY DEF Become, TypeInv, TypeOK
<1>2. QED
  BY <1>1, OneManager

LEMMA ExitType ==
  ASSUME TypeInv, NEW p \in Managers, Exit(p)
  PROVE  /\ mgr' \in [Managers -> Manager]
         /\ \A q \in Managers : Well(mgr'[q])
BY IdleIsWell, OneManager DEF Exit

(* A plan whose last operation ended.                                      *)
LEMMA ExecutedType ==
  ASSUME TypeInv, NEW p \in Managers, mgr[p].pc # "idle", mgr[p].goal \in Seqs,
         NEW failed \in BOOLEAN, NEW save \in {"done", "error", "lost"},
         Executed(p, failed, save)
  PROVE  /\ mgr' \in [Managers -> Manager]
         /\ \A q \in Managers : Well(mgr'[q])
         /\ failure' \in Failure
<1> DEFINE m == [mgr[p] EXCEPT !.pc = "executed", !.results = "operations",
                               !.failed = failed, !.save = save]
<1>1. Well(mgr[p])
  BY DEF TypeInv
<1>2. Well(m)
  BY <1>1 DEF Well, Manager, Results
<1>3. mgr' = [mgr EXCEPT ![p] = m]
  BY DEF Executed, TypeInv, TypeOK
<1>4. QED
  BY <1>2, <1>3, OneManager, FailureTypes DEF Executed

(* The result of computeStatus when nothing was ever backed up: results    *)
(* decide, a shown error stays without them, and a plan that was not run   *)
(* ends in a panic or is not answered.                                     *)
LEMMA ComputedStatus ==
  ASSUME NEW m, Well(m), NEW existing
  PROVE  LET answer == computeStatus(m, existing, "missing") IN
         /\ answer \in Answers \cup {None}
         /\ m.results \in {"custom", "operations"} => answer = Outcome(m)
         /\ m.results \notin {"custom", "operations"} /\ existing = "Error" => answer = None
         /\ m.results = "nil" => answer = None \/ getStatusMessagePanics(m, existing, "missing")
<1>1. Outcome(m) \in Answers
  BY DEF Outcome, Answers
<1>2. m.results \in Results
  BY DEF Well, Manager
<1>3. CASE m.results \in {"custom", "operations"}
  BY <1>1, <1>3 DEF computeStatus
<1>4. CASE m.results \in {"nil", "empty"}
  BY <1>1, <1>4 DEF computeStatus, Answers, getStatusMessagePanics
<1>5. QED
  BY <1>2, <1>3, <1>4 DEF Results

(* The fields of the managers in TypeInv.                                  *)
LEMMA Fields ==
  ASSUME TypeInv, NEW p \in Managers
  PROVE  /\ mgr[p] \in Manager
         /\ Well(mgr[p])
         /\ mgr[p].pc # "idle" => mgr[p].req \in Seqs /\ newest \in Seqs
BY Bounds DEF TypeInv, TypeOK, Well, Seqs

(* The types hold before the first settings arrive.                        *)
THEOREM InitTypeInv == Init => TypeInv
<1> SUFFICES ASSUME Init PROVE TypeInv
  OBVIOUS
<1>1. \A p \in Managers : mgr[p] = Idle
  BY DEF Init
<1>2. Idle \in Manager
  BY IdleIsWell DEF Well
<1>3. TypeOK
  <2>1. mgr \in [Managers -> Manager]
    BY <1>2 DEF Init
  <2>2. 0 \in 0..MaxSeq /\ 0 \in 0..MaxKills /\ 0 \in 0..MaxFaults
    BY Bounds
  <2>3. failure \in Failure /\ launcher \in Launcher
    BY <2>2 DEF Init, Failure, Fate, Launcher
  <2>4. QED
    BY <2>1, <2>2, <2>3 DEF Init, TypeOK, Statuses
<1>4. QED
  BY <1>1, <1>3, IdleIsWell DEF TypeInv, NeverBackedUp, Init, Idle

(* Every step keeps the types.                                             *)
LEMMA NextTypeInv ==
  ASSUME TypeInv, [Next]_vars
  PROVE  TypeInv'
<1> USE Bounds DEF NeverBackedUp
<1>1. CASE UNCHANGED vars
  BY <1>1 DEF vars, history, TypeInv, TypeOK
<1>2. CASE NewSettings
  BY <1>2 DEF NewSettings, history, TypeInv, TypeOK, Seqs
<1>3. CASE Disable
  <2>1. newest \in Seqs
    BY <1>3 DEF Disable, TypeInv, TypeOK, Seqs
  <2>2. QED
    BY <1>3, <2>1, FailureTypes DEF Disable, TypeInv, TypeOK, Statuses
<1>4. CASE Launch
  <2>1. newest \in Seqs /\ newest \in 0..MaxSeq
    BY <1>4 DEF Launch, TypeInv, TypeOK, Seqs
  <2>2. launcher' \in Launcher /\ launcher'.seq \in Seqs
    BY <1>4, <2>1 DEF Launch, Launcher
  <2>3. QED
    BY <1>4, <2>2 DEF Launch, history, TypeInv, TypeOK
<1>5. CASE WriteTransitioning
  <2>1. launcher \in Launcher /\ launcher.seq \in Seqs
    BY <1>5 DEF WriteTransitioning, TypeInv, TypeOK
  <2>2. launcher' \in Launcher /\ launcher'.seq \in Seqs
    BY <1>5, <2>1 DEF WriteTransitioning, Launcher
  <2>3. status' \in [Seqs -> Statuses]
    BY <1>5, <2>1 DEF WriteTransitioning, TypeInv, TypeOK, Statuses
  <2>4. failure' \in Failure
    BY <1>5, FailureTypes DEF WriteTransitioning
  <2>5. QED
    BY <1>5, <2>2, <2>3, <2>4 DEF WriteTransitioning, TypeInv, TypeOK
<1>6. CASE WriteTransitioningFails
  <2>1. launcher' \in Launcher /\ launcher'.pc = "idle"
    BY <1>6 DEF WriteTransitioningFails, Launcher
  <2>2. QED
    BY <1>6, <2>1, FaultType DEF WriteTransitioningFails, history, TypeInv, TypeOK
<1>7. CASE KillLauncher
  <2>1. launcher' \in Launcher /\ launcher'.pc = "idle"
    BY <1>7 DEF KillLauncher, Launcher
  <2>2. QED
    BY <1>7, <2>1 DEF KillLauncher, history, TypeInv, TypeOK
<1>8. ASSUME NEW p \in Managers, StartManager(p)
      PROVE  TypeInv'
  <2>1. launcher.seq \in Seqs /\ newest \in Seqs
    BY <1>8 DEF StartManager, TypeInv
  <2>2. PICK req \in {launcher.seq, newest} :
          mgr' = [mgr EXCEPT ![p] = [Idle EXCEPT !.pc = "waiting", !.req = req]]
    BY <1>8 DEF StartManager
  <2>3. Well([Idle EXCEPT !.pc = "waiting", !.req = req])
    <3>1. req \in Seqs /\ req \in 0..MaxSeq /\ 0 \in 0..MaxSeq
      BY <2>1, <2>2 DEF Seqs
    <3>2. None # "GetVMAppInfo"
      BY ConstantsAssumption DEF Errors
    <3>3. QED
      BY <3>1, <3>2 DEF Well, Idle, Manager, Results
  <2>4. launcher' \in Launcher /\ launcher'.pc = "idle"
    BY <1>8 DEF StartManager, Launcher
  <2>5. newest # 0
    BY <2>1 DEF Seqs
  <2>6. /\ mgr' \in [Managers -> Manager]
        /\ \A q \in Managers : Well(mgr'[q])
    BY <2>2, <2>3, OneManager
  <2>7. QED
    BY <1>8, <2>4, <2>5, <2>6 DEF StartManager, history, TypeInv, TypeOK
<1>9. ASSUME NEW p \in Managers, AcquireLock(p)
      PROVE  TypeInv'
  <2>1. Well([mgr[p] EXCEPT !.pc = "locked"])
    BY <1>9, Fields DEF AcquireLock, Well, Manager
  <2>2. QED
    BY <1>9, <2>1, BecomeType DEF AcquireLock, history, TypeInv, TypeOK
<1>10. ASSUME NEW p \in Managers, LockTimeout(p)
       PROVE  TypeInv'
  BY <1>10, ExitType DEF LockTimeout, history, TypeInv, TypeOK
<1>11. ASSUME NEW p \in Managers, LockError(p)
       PROVE  TypeInv'
  <2>1. "Error" \in Answers /\ mgr[p].pc # "idle"
    BY <1>11 DEF LockError, Answers
  <2>2. QED
    BY <1>11, <2>1, FailType, FaultType DEF LockError, history, TypeInv, TypeOK
<1>12. ASSUME NEW p \in Managers, ResolveGoal(p)
       PROVE  TypeInv'
  <2>1. PICK goal \in {mgr[p].req, newest} :
          mgr' = [mgr EXCEPT ![p].pc = "resolved", ![p].goal = goal]
    BY <1>12 DEF ResolveGoal
  <2>2. goal \in Seqs /\ goal \in 0..MaxSeq
    <3>1. mgr[p].req \in Seqs /\ newest \in Seqs
      BY <1>12, Fields DEF ResolveGoal
    <3>2. QED
      BY <2>1, <3>1 DEF Seqs
  <2>3. Well([mgr[p] EXCEPT !.pc = "resolved", !.goal = goal])
    BY <1>12, <2>2, Fields DEF ResolveGoal, Well, Manager
  <2>4. mgr' = [mgr EXCEPT ![p] = [mgr[p] EXCEPT !.pc = "resolved", !.goal = goal]]
    BY <2>1 DEF TypeInv, TypeOK
  <2>5. QED
    BY <1>12, <2>3, <2>4, OneManager DEF ResolveGoal, history, TypeInv, TypeOK
<1>13. ASSUME NEW p \in Managers, ResolveFails(p)
       PROVE  TypeInv'
  <2>1. PICK answer \in {"Error", "HostGA"} : Fail(p, answer, "Wrapped")
    BY <1>13 DEF ResolveFails
  <2>2. answer \in Answers /\ mgr[p].pc # "idle"
    BY <1>13 DEF ResolveFails, Answers
  <2>3. QED
    BY <1>13, <2>1, <2>2, FailType, FaultType DEF ResolveFails, history, TypeInv, TypeOK
<1>14. ASSUME NEW p \in Managers, StartWork(p)
       PROVE  TypeInv'
  <2>1. Recorded(p, "Started") \in Entry /\ Well(mgr[p])
    BY <1>14, Fields, RecordedType DEF StartWork, Well
  <2>2. PICK save \in {"done", "error", "lost"} :
          /\ Save(Recorded(p, "Started"), save)
          /\ \/ /\ save # "error"
                /\ mgr' = [mgr EXCEPT ![p].pc = "working", ![p].save = save]
                /\ UNCHANGED failure
             \/ save = "error" /\ Executed(p, TRUE, save)
    BY <1>14 DEF StartWork
  <2>3. entry' \in Entry \cup {None, Unreadable} /\ faults' \in 0..MaxFaults
    BY <2>1, <2>2, SaveOutcomes, FaultType DEF TypeInv, TypeOK
  <2>4. CASE /\ mgr' = [mgr EXCEPT ![p].pc = "working", ![p].save = save]
             /\ UNCHANGED failure
    <3>1. Well([mgr[p] EXCEPT !.pc = "working", !.save = save])
      BY <1>14, <2>1 DEF StartWork, Well, Manager
    <3>2. mgr' = [mgr EXCEPT ![p] = [mgr[p] EXCEPT !.pc = "working", !.save = save]]
      BY <2>4 DEF TypeInv, TypeOK
    <3>3. QED
      BY <1>14, <2>3, <2>4, <3>1, <3>2, OneManager DEF StartWork, TypeInv, TypeOK
  <2>5. CASE Executed(p, TRUE, save)
    <3>1. mgr[p].pc # "idle" /\ mgr[p].goal \in Seqs
      BY <1>14, <2>1 DEF StartWork, Well
    <3>2. /\ mgr' \in [Managers -> Manager]
          /\ \A q \in Managers : Well(mgr'[q])
          /\ failure' \in Failure
      BY <2>5, <3>1, ExecutedType
    <3>3. QED
      BY <1>14, <2>3, <3>2 DEF StartWork, TypeInv, TypeOK
  <2>6. QED
    BY <2>2, <2>4, <2>5
<1>15. ASSUME NEW p \in Managers, NothingToDo(p)
       PROVE  TypeInv'
  <2>1. Well([mgr[p] EXCEPT !.pc = "executed", !.results = "empty"])
    BY <1>15, Fields DEF NothingToDo, Well, Manager, Results
  <2>2. mgr' = [mgr EXCEPT ![p] = [mgr[p] EXCEPT !.pc = "executed", !.results = "empty"]]
    BY <1>15 DEF NothingToDo, TypeInv, TypeOK
  <2>3. QED
    BY <1>15, <2>1, <2>2, OneManager DEF NothingToDo, history, TypeInv, TypeOK
<1>16. ASSUME NEW p \in Managers, FinishWork(p)
       PROVE  TypeInv'
  <2>1. PICK command \in {"NoAction", "Failed"}, save \in {"done", "error", "lost"} :
          /\ Save(Recorded(p, command), save)
          /\ Executed(p, command = "Failed" \/ save = "error", save)
    BY <1>16 DEF FinishWork
  <2>2. Recorded(p, command) \in Entry
    BY <1>16, Fields, RecordedType DEF FinishWork, Well
  <2>3. entry' \in Entry \cup {None, Unreadable} /\ faults' \in 0..MaxFaults
    BY <2>1, <2>2, SaveOutcomes, FaultType DEF TypeInv, TypeOK
  <2>4. mgr[p].pc # "idle" /\ mgr[p].goal \in Seqs
    BY <1>16, Fields DEF FinishWork, Well
  <2>5. QED
    BY <1>16, <2>1, <2>3, <2>4, ExecutedType DEF FinishWork, TypeInv, TypeOK
<1>26. ASSUME NEW p \in Managers, ExecuteUnread(p)
       PROVE  TypeInv'
  <2>1. Well([mgr[p] EXCEPT !.pc = "executed"])
    BY <1>26, Fields DEF ExecuteUnread, Well, Manager
  <2>2. QED
    BY <1>26, <2>1, BecomeType, FaultType DEF ExecuteUnread, history, TypeInv, TypeOK
<1>27. ASSUME NEW p \in Managers, RunCustomActions(p)
       PROVE  TypeInv'
  <2>1. mgr[p].pc = "executed" /\ Well(mgr[p])
    BY <1>27, Fields DEF RunCustomActions
  <2>2. CASE Become(p, "customized") /\ UNCHANGED lock
    <3>1. Well([mgr[p] EXCEPT !.pc = "customized"])
      BY <2>1 DEF Well, Manager
    <3>2. QED
      BY <1>27, <2>2, <3>1, BecomeType DEF RunCustomActions, history, TypeInv, TypeOK
  <2>3. CASE /\ mgr[p].results # "nil"
             /\ mgr' = [mgr EXCEPT ![p].pc = "customized",
                                   ![p].results = IF @ = "empty" THEN "custom" ELSE @]
             /\ UNCHANGED lock
    <3> DEFINE results == IF mgr[p].results = "empty" THEN "custom" ELSE mgr[p].results
    <3>1. mgr' = [mgr EXCEPT ![p] = [mgr[p] EXCEPT !.pc = "customized", !.results = results]]
      BY <2>3 DEF TypeInv, TypeOK
    <3>2. Well([mgr[p] EXCEPT !.pc = "customized", !.results = results])
      BY <2>1, <2>3 DEF Well, Manager, Results
    <3>3. QED
      BY <1>27, <2>3, <3>1, <3>2, OneManager DEF RunCustomActions, history, TypeInv, TypeOK
  <2>4. CASE Exit(p) /\ lock' = None
    BY <1>27, <2>4, ExitType DEF RunCustomActions, history, TypeInv, TypeOK
  <2>5. QED
    BY <1>27, <2>2, <2>3, <2>4 DEF RunCustomActions
<1>17. ASSUME NEW p \in Managers, EnableFails(p)
       PROVE  TypeInv'
  <2>1. "Error" \in Answers /\ mgr[p].pc # "idle"
    BY <1>17 DEF EnableFails, Answers
  <2>2. faults' \in 0..MaxFaults
    BY <1>17, FaultType DEF EnableFails, TypeInv, TypeOK
  <2>3. QED
    BY <1>17, <2>1, <2>2, FailType, FailureTypes DEF EnableFails, TypeInv, TypeOK
<1>18. ASSUME NEW p \in Managers, ComputeStatus(p)
       PROVE  TypeInv'
  <2> DEFINE answer == computeStatus(mgr[p], status[mgr[p].req], lastStable[mgr[p].req])
  <2>1. lastStable[mgr[p].req] = "missing"
    BY <1>18, Fields DEF ComputeStatus, TypeInv
  <2>2. /\ answer \in Answers \cup {None}
        /\ mgr[p].results \in {"custom", "operations"} => answer = Outcome(mgr[p])
        /\ mgr[p].results = "nil" =>
             answer = None \/ getStatusMessagePanics(mgr[p], status[mgr[p].req], "missing")
    BY <2>1, ComputedStatus, Fields
  <2>3. CASE Exit(p) /\ lock' = None
    BY <1>18, <2>3, ExitType DEF ComputeStatus, history, TypeInv, TypeOK
  <2>4. CASE ~ (Exit(p) /\ lock' = None)
    <3>1. /\ mgr' = [mgr EXCEPT ![p].pc = "reporting", ![p].answer = answer]
          /\ lock' = lock
          /\ answer # None
          /\ ~ getStatusMessagePanics(mgr[p], status[mgr[p].req], "missing")
      BY <1>18, <2>1, <2>4 DEF ComputeStatus
    <3> HIDE DEF answer
    <3>2. mgr' = [mgr EXCEPT ![p] = [mgr[p] EXCEPT !.pc = "reporting", !.answer = answer]]
      BY <3>1 DEF TypeInv, TypeOK
    <3>3. Well([mgr[p] EXCEPT !.pc = "reporting", !.answer = answer])
      BY <1>18, <2>2, <3>1, Fields DEF ComputeStatus, Well, Manager, Outcome
    <3>4. QED
      BY <1>18, <3>1, <3>2, <3>3, OneManager DEF ComputeStatus, history, TypeInv, TypeOK
  <2>5. QED
    BY <2>3, <2>4
<1>19. ASSUME NEW p \in Managers, Report(p)
       PROVE  TypeInv'
  <2>1. mgr[p].req \in Seqs /\ mgr[p].answer \in Answers
    BY <1>19, Fields DEF Report, Well
  <2>2. Well([mgr[p] EXCEPT !.pc = "reported"])
    BY <1>19, Fields DEF Report, Well, Manager
  <2>3. failure' \in Failure
    BY <1>19, <2>1, FailureTypes DEF Report, TypeInv, TypeOK
  <2>4. status' \in [Seqs -> Statuses] /\ answered' \subseteq Seqs
    BY <1>19, <2>1 DEF Report, TypeInv, TypeOK, Statuses
  <2>5. QED
    BY <1>19, <2>2, <2>3, <2>4, BecomeType DEF Report, TypeInv, TypeOK
<1>20. ASSUME NEW p \in Managers, ReportFails(p)
       PROVE  TypeInv'
  BY <1>20, ExitType, FaultType, FailureTypes DEF ReportFails, TypeInv, TypeOK
<1>21. ASSUME NEW p \in Managers, SetSequenceNumber(p)
       PROVE  TypeInv'
  <2>1. currentSeq' \in 0..MaxSeq /\ faults' \in 0..MaxFaults
    BY <1>21, Fields, FaultType DEF SetSequenceNumber, TypeInv, TypeOK, Seqs
  <2>2. QED
    BY <1>21, <2>1, ExitType DEF SetSequenceNumber, history, TypeInv, TypeOK
<1>22. ASSUME NEW p \in Managers, WriteError(p)
       PROVE  TypeInv'
  <2>1. mgr[p].req \in Seqs /\ mgr[p].answer \in Answers /\ mgr[p].error # "GetVMAppInfo"
    BY <1>22, Fields DEF WriteError, Well
  <2>2. lastStable' = lastStable
    BY <1>22, <2>1 DEF WriteError
  <2>3. /\ status' \in [Seqs -> Statuses]
        /\ kept' \in [Seqs -> Statuses]
        /\ failure' \in Failure
        /\ faults' \in 0..MaxFaults
    BY <1>22, <2>1, FaultType, FailureTypes DEF WriteError, TypeInv, TypeOK, Statuses
  <2>4. QED
    BY <1>22, <2>2, <2>3, ExitType DEF WriteError, TypeInv, TypeOK
<1>23. ASSUME NEW p \in Managers, Kill(p)
       PROVE  TypeInv'
  <2>1. entry' \in Entry \cup {None, Unreadable}
    <3>1. Saving(p) \subseteq Entry
      BY Fields, RecordedType DEF Saving, Well
    <3>2. QED
      BY <1>23, <3>1, KilledOutcomes DEF Kill, TypeInv, TypeOK
  <2>2. QED
    BY <1>23, <2>1, ExitType, FailureTypes DEF Kill, TypeInv, TypeOK
<1>24. ASSUME NEW p \in Managers, Reboot(p)
       PROVE  TypeInv'
  <2>1. entry' \in Entry \cup {None, Unreadable}
    <3>1. CASE UNCHANGED entry
      BY <3>1 DEF TypeInv, TypeOK
    <3>2. CASE mgr[p].pc = "working"
      <4>1. \A op \in {"Interrupted", "NoAction"} : Recorded(p, op) \in Entry
        BY <3>2, Fields, RecordedType DEF Well
      <4>2. QED
        BY <1>24, <3>1, <3>2, <4>1, KilledOutcomes DEF Reboot, TypeInv, TypeOK
    <3>3. QED
      BY <1>24, <3>1, <3>2 DEF Reboot
  <2>2. /\ mgr' \in [Managers -> Manager]
        /\ \A q \in Managers : Well(mgr'[q])
    BY <1>24, IdleIsWell DEF Reboot, Well
  <2>3. launcher' \in Launcher /\ launcher'.pc = "idle"
    BY <1>24 DEF Reboot, Launcher
  <2>4. QED
    BY <1>24, <2>1, <2>2, <2>3, FailureTypes DEF Reboot, TypeInv, TypeOK
<1>25. QED
  BY <1>1, <1>2, <1>3, <1>4, <1>5, <1>6, <1>7, <1>8, <1>9, <1>10, <1>11, <1>12, <1>13, <1>14,
     <1>15, <1>16, <1>17, <1>18, <1>19, <1>20, <1>21, <1>22, <1>23, <1>24, <1>26, <1>27
  DEF Next, ManagerStep

-----------------------------------------------------------------------------
(* Who is past the lock holds it.                                          *)
Answering == {"executed", "customized", "reporting", "reported"}
Holding == {"locked", "resolved", "working"} \cup Answering
Locking == \A p \in Managers : mgr[p].pc \in Holding => lock = p

(* What the step of one manager does to the others, and to itself.         *)
LEMMA StepOfOne ==
  ASSUME TypeInv, NEW p \in Managers, ManagerStep(p) \/ Kill(p) \/ StartManager(p)
  PROVE  \A q \in Managers \ {p} : mgr'[q] = mgr[q]
BY DEF TypeInv, TypeOK, ManagerStep, AcquireLock, LockTimeout, LockError, ResolveGoal,
       ResolveFails, StartWork, NothingToDo, ExecuteUnread, FinishWork, Executed,
       RunCustomActions, EnableFails, ComputeStatus, Report, ReportFails, SetSequenceNumber,
       WriteError, Kill, StartManager, Become, Exit, Fail

LEMMA NewPc ==
  ASSUME TypeInv, NEW p \in Managers
  PROVE  /\ \A pc : Become(p, pc) => mgr'[p] = [mgr[p] EXCEPT !.pc = pc] /\ mgr'[p].pc = pc
         /\ Exit(p) => mgr'[p] = Idle /\ mgr'[p].pc = "idle"
         /\ \A answer, error : Fail(p, answer, error) =>
              mgr'[p].pc = "failing" /\ mgr'[p].req = mgr[p].req
<1>1. mgr \in [Managers -> Manager] /\ mgr[p] \in Manager
  BY DEF TypeInv, TypeOK
<1>2. ASSUME NEW pc, Become(p, pc)
      PROVE  mgr'[p] = [mgr[p] EXCEPT !.pc = pc] /\ mgr'[p].pc = pc
  <2>1. mgr'[p] = [mgr[p] EXCEPT !.pc = pc]
    BY <1>1, <1>2 DEF Become
  <2>2. QED
    BY <1>1, <2>1 DEF Manager
<1>3. Exit(p) => mgr'[p] = Idle /\ mgr'[p].pc = "idle"
  BY <1>1 DEF Exit, Idle
<1>4. ASSUME NEW answer, NEW error, Fail(p, answer, error)
      PROVE  mgr'[p].pc = "failing" /\ mgr'[p].req = mgr[p].req
  BY <1>1, <1>4 DEF Fail, Idle
<1>5. QED
  BY <1>2, <1>3, <1>4

LEMMA ExecutedFields ==
  ASSUME TypeInv, NEW p \in Managers, NEW failed, NEW save, Executed(p, failed, save)
  PROVE  /\ mgr'[p].pc = "executed" /\ mgr'[p].results = "operations"
         /\ mgr'[p].failed = failed /\ mgr'[p].save = save
         /\ mgr'[p].req = mgr[p].req /\ mgr'[p].goal = mgr[p].goal
<1>1. mgr \in [Managers -> Manager] /\ mgr[p] \in Manager
  BY DEF TypeInv, TypeOK
<1>2. mgr'[p] = [mgr[p] EXCEPT !.pc = "executed", !.results = "operations",
                               !.failed = failed, !.save = save]
  BY <1>1 DEF Executed
<1>3. QED
  BY <1>1, <1>2 DEF Manager

(* The pc and the lock after a step of p: p gets the free lock, keeps it,  *)
(* or ends up without it; a process that has no lock leaves it alone.      *)
LEMMA LockStep ==
  ASSUME TypeInv, Locking, NEW p \in Managers, ManagerStep(p) \/ Kill(p) \/ StartManager(p)
  PROVE  /\ mgr'[p].pc \in Holding => lock' = p
         /\ lock' # lock => lock \in {None, p}
<1> USE DEF TypeInv, TypeOK, Answering, Holding, Locking
<1>1. CASE AcquireLock(p)
  BY <1>1, NewPc DEF AcquireLock
<1>2. CASE LockTimeout(p)
  BY <1>2, NewPc DEF LockTimeout
<1>3. CASE LockError(p)
  BY <1>3, NewPc DEF LockError, Fail
<1>4. CASE ResolveGoal(p)
  BY <1>4 DEF ResolveGoal
<1>5. CASE ResolveFails(p)
  <2>1. PICK answer : Fail(p, answer, "Wrapped")
    BY <1>5 DEF ResolveFails
  <2>2. QED
    BY <1>5, <2>1, NewPc DEF Fail
<1>6. CASE StartWork(p)
  BY <1>6 DEF StartWork
<1>7. CASE NothingToDo(p)
  BY <1>7 DEF NothingToDo
<1>8. CASE FinishWork(p)
  BY <1>8 DEF FinishWork
<1>9. CASE EnableFails(p)
  BY <1>9, NewPc DEF EnableFails, Fail
<1>10. CASE ComputeStatus(p)
  BY <1>10, NewPc DEF ComputeStatus
<1>11. CASE Report(p)
  BY <1>11 DEF Report
<1>12. CASE ReportFails(p)
  BY <1>12, NewPc DEF ReportFails
<1>13. CASE SetSequenceNumber(p)
  BY <1>13, NewPc DEF SetSequenceNumber
<1>14. CASE WriteError(p)
  BY <1>14, NewPc DEF WriteError
<1>15. CASE Kill(p)
  BY <1>15, NewPc DEF Kill
<1>16. CASE StartManager(p)
  <2>1. mgr'[p].pc = "waiting"
    BY <1>16 DEF StartManager, Idle
  <2>2. QED
    BY <1>16, <2>1 DEF StartManager
<1>17. CASE ExecuteUnread(p)
  BY <1>17 DEF ExecuteUnread
<1>18. CASE RunCustomActions(p)
  BY <1>18, NewPc DEF RunCustomActions
<1>19. QED
  BY <1>1, <1>2, <1>3, <1>4, <1>5, <1>6, <1>7, <1>8, <1>9, <1>10, <1>11, <1>12, <1>13, <1>14,
     <1>15, <1>16, <1>17, <1>18 DEF ManagerStep

LEMMA NextLocking ==
  ASSUME TypeInv, Locking, [Next]_vars
  PROVE  Locking'
<1>1. CASE \E p \in Managers : ManagerStep(p) \/ Kill(p) \/ StartManager(p)
  <2>1. PICK p \in Managers : ManagerStep(p) \/ Kill(p) \/ StartManager(p)
    BY <1>1
  <2>2. \A q \in Managers \ {p} : mgr'[q] = mgr[q]
    BY <2>1, StepOfOne
  <2>3. /\ mgr'[p].pc \in Holding => lock' = p
        /\ lock' # lock => lock \in {None, p}
    BY <2>1, LockStep
  <2>4. QED
    BY <2>2, <2>3, Bounds DEF Locking
<1>2. CASE \E p \in Managers : Reboot(p)
  BY <1>2 DEF Reboot, Locking, Idle, Holding, Answering
<1>3. CASE UNCHANGED <<lock, mgr>>
  BY <1>3 DEF Locking
<1>4. QED
  BY <1>1, <1>2, <1>3 DEF Next, vars, NewSettings, Disable, Launch, WriteTransitioning,
     WriteTransitioningFails, KillLauncher

(* A manager has read settings that are not older than its sequence        *)
(* number, and neither is from the future.                                 *)
Ordered ==
  /\ newest \in Nat
  /\ launcher.pc # "idle" => launcher.seq <= newest
  /\ \A p \in Managers :
       /\ mgr[p].pc # "idle" => mgr[p].req <= newest
       /\ mgr[p].pc \in {"resolved", "working"} \cup Answering =>
            mgr[p].req <= mgr[p].goal /\ mgr[p].goal <= newest

(* The numbers that a manager has after a step.                            *)
LEMMA Numbers ==
  ASSUME TypeInv, NEW p \in Managers, ManagerStep(p) \/ Kill(p)
  PROVE  \/ mgr'[p].pc = "idle"
         \/ mgr[p].pc # "idle" /\ mgr'[p].req = mgr[p].req /\ mgr'[p].goal = mgr[p].goal
            /\ (mgr'[p].pc \in {"resolved", "working"} \cup Answering =>
                  mgr[p].pc \in {"resolved", "working"} \cup Answering)
         \/ mgr[p].pc # "idle" /\ mgr'[p].req = mgr[p].req
            /\ mgr'[p].goal \in {mgr[p].req, newest}
         \/ mgr[p].pc # "idle" /\ mgr'[p].req = mgr[p].req /\ mgr'[p].pc = "failing"
<1>1. mgr[p] \in Manager /\ mgr \in [Managers -> Manager]
  BY DEF TypeInv, TypeOK
<1> USE DEF Answering
<1>2. CASE AcquireLock(p)
  BY <1>1, <1>2 DEF AcquireLock, Become, Manager
<1>3. CASE LockTimeout(p) \/ ReportFails(p) \/ SetSequenceNumber(p) \/ WriteError(p) \/ Kill(p)
  BY <1>3, NewPc DEF LockTimeout, ReportFails, SetSequenceNumber, WriteError, Kill
<1>4. CASE LockError(p)
  BY <1>4, NewPc DEF LockError
<1>5. CASE ResolveGoal(p)
  BY <1>1, <1>5 DEF ResolveGoal, Manager
<1>6. CASE ResolveFails(p)
  BY <1>6, NewPc DEF ResolveFails
<1>7. CASE StartWork(p)
  <2>1. PICK save : \/ mgr' = [mgr EXCEPT ![p].pc = "working", ![p].save = save]
                    \/ Executed(p, TRUE, save)
    BY <1>7 DEF StartWork
  <2>2. mgr'[p].req = mgr[p].req /\ mgr'[p].goal = mgr[p].goal
    <3>1. CASE mgr' = [mgr EXCEPT ![p].pc = "working", ![p].save = save]
      BY <1>1, <3>1 DEF Manager
    <3>2. CASE Executed(p, TRUE, save)
      BY <3>2, ExecutedFields
    <3>3. QED
      BY <2>1, <3>1, <3>2
  <2>3. QED
    BY <1>7, <2>2 DEF StartWork
<1>8. CASE NothingToDo(p)
  BY <1>1, <1>8 DEF NothingToDo, Manager
<1>9. CASE ExecuteUnread(p)
  BY <1>1, <1>9 DEF ExecuteUnread, Become, Manager
<1>10. CASE FinishWork(p)
  <2>1. PICK failed, save : Executed(p, failed, save)
    BY <1>10 DEF FinishWork
  <2>2. mgr'[p].req = mgr[p].req /\ mgr'[p].goal = mgr[p].goal
    BY <2>1, ExecutedFields
  <2>3. QED
    BY <1>10, <2>2 DEF FinishWork
<1>11. CASE RunCustomActions(p)
  BY <1>1, <1>11, NewPc DEF RunCustomActions, Become, Manager
<1>12. CASE EnableFails(p)
  BY <1>12, NewPc DEF EnableFails
<1>13. CASE ComputeStatus(p)
  <2>1. CASE Exit(p)
    BY <2>1, NewPc
  <2>2. CASE ~ Exit(p)
    <3>1. PICK answer : mgr' = [mgr EXCEPT ![p].pc = "reporting", ![p].answer = answer]
      BY <1>13, <2>2 DEF ComputeStatus
    <3>2. QED
      BY <1>1, <1>13, <3>1 DEF ComputeStatus, Manager
  <2>3. QED
    BY <2>1, <2>2
<1>14. CASE Report(p)
  BY <1>1, <1>14 DEF Report, Become, Manager
<1>15. QED
  BY <1>2, <1>3, <1>4, <1>5, <1>6, <1>7, <1>8, <1>9, <1>10, <1>11, <1>12, <1>13, <1>14
  DEF ManagerStep

LEMMA NextOrdered ==
  ASSUME TypeInv, Ordered, [Next]_vars
  PROVE  Ordered'
<1>1. /\ launcher \in Launcher /\ newest \in Nat /\ newest' \in Nat /\ newest <= newest'
      /\ \A p \in Managers : mgr[p].req \in Nat /\ mgr[p].goal \in Nat
  <2>1. \A p \in Managers : mgr[p] \in Manager
    BY DEF TypeInv, TypeOK
  <2>2. \A p \in Managers : mgr[p].req \in Nat /\ mgr[p].goal \in Nat
    BY <2>1, Bounds DEF Manager
  <2>3. newest \in Nat /\ launcher \in Launcher
    BY DEF Ordered, TypeInv, TypeOK
  <2>4. newest' = newest \/ newest' = newest + 1
    BY DEF Next, vars, NewSettings, Disable, Launch, WriteTransitioning,
       WriteTransitioningFails, KillLauncher, StartManager, ManagerStep, AcquireLock,
       LockTimeout, LockError, ResolveGoal, ResolveFails, StartWork, NothingToDo,
       ExecuteUnread, FinishWork, RunCustomActions, EnableFails, ComputeStatus, Report,
       ReportFails, SetSequenceNumber, WriteError, Kill, Reboot
  <2>5. QED
    BY <2>2, <2>3, <2>4
<1>2. ASSUME NEW p \in Managers, ManagerStep(p) \/ Kill(p)
      PROVE  Ordered'
  <2>1. \A q \in Managers \ {p} : mgr'[q] = mgr[q]
    BY <1>2, StepOfOne
  <2>2. UNCHANGED <<launcher, newest>>
    BY <1>2 DEF ManagerStep, AcquireLock, LockTimeout, LockError, ResolveGoal, ResolveFails,
       StartWork, NothingToDo, ExecuteUnread, FinishWork, RunCustomActions, EnableFails,
       ComputeStatus, Report, ReportFails, SetSequenceNumber, WriteError, Kill
  <2>3. /\ mgr'[p].pc # "idle" => mgr'[p].req <= newest
        /\ mgr'[p].pc \in {"resolved", "working"} \cup Answering =>
             mgr'[p].req <= mgr'[p].goal /\ mgr'[p].goal <= newest
    BY <1>1, <1>2, Numbers DEF Ordered, Answering
  <2>4. QED
    BY <1>1, <2>1, <2>2, <2>3 DEF Ordered
<1>3. ASSUME NEW p \in Managers, StartManager(p)
      PROVE  Ordered'
  <2>1. PICK req \in {launcher.seq, newest} :
          mgr' = [mgr EXCEPT ![p] = [Idle EXCEPT !.pc = "waiting", !.req = req]]
    BY <1>3 DEF StartManager
  <2>2. /\ mgr'[p].pc = "waiting" /\ mgr'[p].req = req
        /\ \A q \in Managers \ {p} : mgr'[q] = mgr[q]
    BY <2>1 DEF Idle, TypeInv, TypeOK
  <2>3. launcher.seq <= newest /\ newest' = newest /\ launcher'.pc = "idle"
    BY <1>3 DEF StartManager, Ordered
  <2>4. QED
    BY <1>1, <2>1, <2>2, <2>3 DEF Ordered, Answering
<1>4. CASE \E p \in Managers : Reboot(p)
  BY <1>1, <1>4 DEF Reboot, Idle, Ordered, Answering
<1>5. CASE NewSettings \/ UNCHANGED vars \/ Disable
  <2>1. UNCHANGED <<mgr, launcher>>
    BY <1>5 DEF NewSettings, Disable, vars
  <2>2. ASSUME NEW p \in Managers
        PROVE  /\ mgr[p].pc # "idle" => mgr[p].req <= newest'
               /\ mgr[p].pc \in {"resolved", "working"} \cup Answering =>
                    mgr[p].req <= mgr[p].goal /\ mgr[p].goal <= newest'
    BY <1>1, <2>2 DEF Ordered
  <2>3. launcher.pc # "idle" => launcher.seq <= newest'
    BY <1>1, Bounds DEF Ordered, Launcher
  <2>4. QED
    BY <1>1, <2>1, <2>2, <2>3 DEF Ordered
<1>6. CASE Launch \/ WriteTransitioning \/ WriteTransitioningFails \/ KillLauncher
  <2>1. UNCHANGED <<mgr, newest>>
    BY <1>6 DEF Launch, WriteTransitioning, WriteTransitioningFails, KillLauncher
  <2>2. launcher'.pc # "idle" => launcher'.seq <= newest
    BY <1>1, <1>6 DEF Launch, WriteTransitioning, WriteTransitioningFails, KillLauncher,
       Launcher, Ordered
  <2>3. QED
    BY <2>1, <2>2 DEF Ordered
<1>7. QED
  BY <1>2, <1>3, <1>4, <1>5, <1>6 DEF Next

-----------------------------------------------------------------------------
(* What stands behind the answer of the manager m, when the registry file  *)
(* holds e.                                                                *)
Backed(m, e) ==
  /\ m.pc = "working" /\ m.save = "done" => e = [version |-> Goal[m.goal], op |-> "Started"]
  /\ m.pc \in Answering =>
       /\ m.save = "error" => m.failed
       /\ m.save = "done" /\ m.results # "nil" =>
            /\ e \in Entry
            /\ e.version = Goal[m.goal]
            /\ m.results = "operations" => e.op = (IF m.failed THEN "Failed" ELSE "NoAction")

Backing == \A p \in Managers : Backed(mgr[p], entry)

(* An operation that ended, with its save.                                 *)
LEMMA ExecutedBacked ==
  ASSUME TypeInv, NEW p \in Managers, mgr[p].goal \in Seqs, NEW op \in {"NoAction", "Failed"},
         NEW save, Save(Recorded(p, op), save),
         Executed(p, op = "Failed" \/ save = "error", save)
  PROVE  Backed(mgr'[p], entry')
<1> DEFINE failed == op = "Failed" \/ save = "error"
<1>1. Executed(p, failed, save) /\ failed \in BOOLEAN
  OBVIOUS
<1>2. failed = (op = "Failed" \/ save = "error")
  OBVIOUS
<1> HIDE DEF failed
<1>3. /\ mgr'[p].pc = "executed" /\ mgr'[p].results = "operations"
      /\ mgr'[p].failed = failed
      /\ mgr'[p].save = save /\ mgr'[p].goal = mgr[p].goal
  BY <1>1, ExecutedFields
<1>4. /\ Recorded(p, op) \in Entry
      /\ Recorded(p, op).version = Goal[mgr[p].goal] /\ Recorded(p, op).op = op
  BY RecordedType
<1>5. save = "done" => entry' = Recorded(p, op)
  BY SaveOutcomes
<1>6. QED
  BY <1>1, <1>2, <1>3, <1>4, <1>5 DEF Backed

(* Only a manager that plans, ends an operation, is killed in a save or    *)
(* reboots the machine changes the registry, and it holds the lock.        *)
LEMMA NextBacking ==
  ASSUME TypeInv, Locking, Backing, [Next]_vars
  PROVE  Backing'
<1>1. CASE UNCHANGED <<mgr, entry>>
  BY <1>1 DEF Backing
<1>2. ASSUME NEW p \in Managers, ManagerStep(p) \/ Kill(p) \/ StartManager(p)
      PROVE  Backing'
  <2>1. \A q \in Managers \ {p} : mgr'[q] = mgr[q]
    BY <1>2, StepOfOne
  <2>2. mgr[p] \in Manager /\ mgr \in [Managers -> Manager] /\ Well(mgr[p]) /\ Backed(mgr[p], entry)
    BY DEF TypeInv, TypeOK, Backing
  <2>3. entry' # entry => lock = p /\ mgr[p].pc \in {"resolved", "working"}
    BY <1>2 DEF ManagerStep, AcquireLock, LockTimeout, LockError, ResolveGoal, ResolveFails,
       StartWork, NothingToDo, ExecuteUnread, FinishWork, RunCustomActions, EnableFails,
       ComputeStatus, Report, ReportFails, SetSequenceNumber, WriteError, Kill, Saving,
       StartManager, Locking, Holding
  <2>4. \A q \in Managers \ {p} : Backed(mgr'[q], entry')
    <3>1. CASE entry' = entry
      BY <2>1, <3>1 DEF Backing
    <3>2. CASE entry' # entry
      <4>1. \A q \in Managers \ {p} : mgr[q].pc \notin Holding
        BY <2>3, <3>2 DEF Locking
      <4>2. QED
        BY <2>1, <4>1 DEF Backed, Holding
    <3>3. QED
      BY <3>1, <3>2
  <2>5. Backed(mgr'[p], entry')
    <3>1. CASE mgr'[p].pc \notin {"working"} \cup Answering
      BY <3>1 DEF Backed
    <3>2. CASE StartWork(p)
      <4>1. PICK save \in {"done", "error", "lost"} :
              /\ Save(Recorded(p, "Started"), save)
              /\ \/ /\ save # "error"
                    /\ mgr' = [mgr EXCEPT ![p].pc = "working", ![p].save = save]
                 \/ save = "error" /\ Executed(p, TRUE, save)
        BY <3>2 DEF StartWork
      <4>2. save = "done" => entry' = Recorded(p, "Started")
        BY <4>1, SaveOutcomes
      <4>3. CASE mgr' = [mgr EXCEPT ![p].pc = "working", ![p].save = save]
        <5>1. mgr'[p].pc = "working" /\ mgr'[p].save = save /\ mgr'[p].goal = mgr[p].goal
          BY <2>2, <4>3 DEF Manager
        <5>2. QED
          BY <4>2, <5>1 DEF Backed, Recorded, Answering
      <4>4. CASE save = "error" /\ Executed(p, TRUE, save)
        <5>1. mgr'[p].pc = "executed" /\ mgr'[p].save = "error" /\ mgr'[p].failed = TRUE
          BY <4>4, ExecutedFields
        <5>2. QED
          BY <5>1 DEF Backed
      <4>5. QED
        BY <4>1, <4>3, <4>4
    <3>3. CASE NothingToDo(p)
      <4>1. /\ mgr'[p].pc = "executed" /\ mgr'[p].results = "empty"
            /\ mgr'[p].save = "done" /\ mgr'[p].goal = mgr[p].goal
        BY <2>2, <3>3 DEF NothingToDo, Manager, Well
      <4>2. entry' \in Entry /\ entry'.version = Goal[mgr[p].goal]
        BY <3>3 DEF NothingToDo, NeedsWork, TypeInv, TypeOK
      <4>3. QED
        BY <4>1, <4>2 DEF Backed
    <3>4. CASE ExecuteUnread(p)
      <4>1. /\ mgr'[p].pc = "executed" /\ mgr'[p].results = "nil"
            /\ mgr'[p].save = "done"
        BY <2>2, <3>4 DEF ExecuteUnread, Become, Manager, Well
      <4>2. QED
        BY <4>1 DEF Backed
    <3>5. CASE FinishWork(p)
      <4>1. PICK command \in {"NoAction", "Failed"}, save \in {"done", "error", "lost"} :
              /\ Save(Recorded(p, command), save)
              /\ Executed(p, command = "Failed" \/ save = "error", save)
        BY <3>5 DEF FinishWork
      <4>2. mgr[p].goal \in Seqs
        BY <2>2, <3>5 DEF FinishWork, Well
      <4>3. QED
        BY <4>1, <4>2, ExecutedBacked
    <3>6. CASE RunCustomActions(p) \/ ComputeStatus(p) \/ Report(p)
      <4>1. CASE mgr'[p].pc = "idle"
        BY <4>1 DEF Backed, Answering
      <4>2. CASE mgr'[p].pc # "idle"
        <5>1. /\ mgr[p].pc \in Answering /\ entry' = entry
              /\ mgr'[p].save = mgr[p].save /\ mgr'[p].failed = mgr[p].failed
              /\ mgr'[p].goal = mgr[p].goal
              /\ mgr'[p].results = "operations" => mgr[p].results = "operations"
              /\ mgr'[p].results # "nil" => mgr[p].results # "nil"
              /\ mgr'[p].pc # "working"
          <6>1. CASE RunCustomActions(p)
            <7>1. ~ Exit(p)
              BY <4>2, NewPc
            <7>2. mgr[p].pc \in Answering /\ entry' = entry
              BY <6>1 DEF RunCustomActions, Answering
            <7>3. CASE Become(p, "customized")
              BY <2>2, <7>2, <7>3 DEF Become, Manager
            <7>4. CASE mgr[p].results # "nil" /\ ~ Become(p, "customized")
              <8>1. mgr' = [mgr EXCEPT ![p].pc = "customized",
                                       ![p].results = IF @ = "empty" THEN "custom" ELSE @]
                BY <6>1, <7>1, <7>4 DEF RunCustomActions
              <8>2. QED
                BY <2>2, <7>2, <7>4, <8>1 DEF Manager
            <7>5. QED
              BY <6>1, <7>1, <7>3, <7>4 DEF RunCustomActions
          <6>2. CASE ComputeStatus(p)
            <7>1. ~ Exit(p)
              BY <4>2, NewPc
            <7>2. PICK answer : mgr' = [mgr EXCEPT ![p].pc = "reporting", ![p].answer = answer]
              BY <6>2, <7>1 DEF ComputeStatus
            <7>3. QED
              BY <2>2, <6>2, <7>2 DEF ComputeStatus, Manager, Answering
          <6>3. CASE Report(p)
            BY <2>2, <6>3 DEF Report, Become, Manager, Answering
          <6>4. QED
            BY <3>6, <6>1, <6>2, <6>3
        <5>2. QED
          BY <2>2, <5>1 DEF Backed
      <4>3. QED
        BY <4>1, <4>2
    <3>7. CASE \/ AcquireLock(p) \/ LockTimeout(p) \/ LockError(p) \/ ResolveGoal(p)
               \/ ResolveFails(p) \/ EnableFails(p) \/ ReportFails(p) \/ SetSequenceNumber(p)
               \/ WriteError(p) \/ Kill(p) \/ StartManager(p)
      <4>1. \/ mgr'[p].pc \in {"locked", "idle", "failing"}
            \/ ResolveGoal(p) \/ StartManager(p)
        BY <3>7, NewPc DEF AcquireLock, LockTimeout, LockError, ResolveFails, EnableFails,
           ReportFails, SetSequenceNumber, WriteError, Kill
      <4>2. mgr'[p].pc \in {"locked", "idle", "failing", "resolved", "waiting"}
        BY <2>2, <4>1 DEF ResolveGoal, StartManager, Idle, Manager
      <4>3. QED
        BY <3>1, <4>2 DEF Answering
    <3>8. QED
      BY <1>2, <3>2, <3>3, <3>4, <3>5, <3>6, <3>7 DEF ManagerStep
  <2>6. QED
    BY <2>4, <2>5 DEF Backing
<1>3. CASE \E p \in Managers : Reboot(p)
  <2>1. \A p \in Managers : mgr'[p].pc = "idle"
    BY <1>3 DEF Reboot, Idle
  <2>2. QED
    BY <2>1 DEF Backing, Backed, Answering
<1>4. QED
  BY <1>1, <1>2, <1>3 DEF Next, vars, NewSettings, Disable, Launch, WriteTransitioning,
     WriteTransitioningFails, KillLauncher

-----------------------------------------------------------------------------
Safe == TypeInv /\ Locking /\ Ordered /\ Backing

(* The inductive invariant: types, the lock, and what stands behind an     *)
(* answer hold together.                                                   *)
THEOREM Safety == Spec => []Safe
<1>1. Init => Safe
  <2>1. ASSUME Init PROVE Locking /\ Ordered /\ Backing
    BY <2>1 DEF Init, Locking, Holding, Answering, Ordered, Backing, Backed, Idle
  <2>2. QED
    BY <2>1, InitTypeInv DEF Safe
<1>2. Safe /\ [Next]_vars => Safe'
  BY NextTypeInv, NextLocking, NextOrdered, NextBacking DEF Safe
<1>3. QED
  BY <1>1, <1>2, PTL DEF Spec

(* Every variable keeps its type (main.go:48-282, launcher/main.go).       *)
THEOREM TypeCorrectness == Spec => []TypeOK
<1>1. Safe => TypeOK
  BY DEF Safe, TypeInv
<1>2. QED
  BY <1>1, Safety, PTL

(* A manager answers for the registry that its own plan left, with the     *)
(* version of its own or newer settings; an operation whose save returned  *)
(* an error has failed, and a plan that Execute could not run is not       *)
(* answered.                                                               *)
THEOREM AnswersAreBacked == Spec => []AnswerIsBacked
<1>1. ASSUME Safe, NEW p \in Managers
      PROVE  /\ mgr[p].pc = "working" /\ mgr[p].save = "done" => entry = Recorded(p, "Started")
             /\ mgr[p].pc \in Answering =>
                  /\ mgr[p].save = "error" => mgr[p].failed
                  /\ mgr[p].save = "done" /\ mgr[p].results # "nil" =>
                       /\ entry \in Entry
                       /\ entry.version \in {Goal[n] : n \in mgr[p].req..newest}
                                            \cap {Goal[mgr[p].goal]}
                       /\ mgr[p].results = "operations" =>
                            entry.op = (IF mgr[p].failed THEN "Failed" ELSE "NoAction")
             /\ mgr[p].pc \in {"reporting", "reported"} => mgr[p].results # "nil"
  <2>1. Backed(mgr[p], entry) /\ Well(mgr[p]) /\ mgr[p] \in Manager
    BY <1>1 DEF Safe, Backing, TypeInv, TypeOK
  <2>2. mgr[p].pc \in Answering => mgr[p].goal \in mgr[p].req..newest
    <3>1. mgr[p].goal \in Int /\ mgr[p].req \in Int /\ newest \in Int
      BY <1>1, <2>1, Bounds DEF Manager, Safe, Ordered
    <3>2. QED
      BY <1>1, <3>1 DEF Safe, Ordered
  <2>3. QED
    BY <2>1, <2>2 DEF Backed, Well, Recorded
<1>2. Safe => AnswerIsBacked
  BY <1>1 DEF AnswerIsBacked, Answering
<1>3. QED
  BY <1>2, Safety, PTL

(* BackupStatusFile is never called (main.go:130-140): the error of the    *)
(* host comes wrapped, whatever the agent, the host and the machine do.    *)
THEOREM BackupNeverHappens == Spec => []NeverBackedUp
<1>1. Safe => NeverBackedUp
  BY DEF Safe, TypeInv
<1>2. QED
  BY <1>1, Safety, PTL

-----------------------------------------------------------------------------
(* What the owner of a failure, and a manager that is about to write, know *)
(* of it: a manager with operations of its own has no failure shown before *)
(* them, and one without any result does not write over a status that      *)
(* shows one.                                                              *)
Owing == {"executed", "customized", "reporting"}
Knowing(m) ==
  /\ m.pc \in Owing /\ m.results = "operations" => failure.state # "shown"
  /\ m.pc = "reporting" /\ m.results \notin {"custom", "operations"} => failure # Shown(m.req)
Showing ==
  /\ FailureShown
  /\ failure.state = "shown" => failure.by \in Seqs /\ failure = Shown(failure.by)
  /\ \A p \in Managers : Knowing(mgr[p])

LEMMA FailureFields ==
  /\ \A s : Fate(s).state = s /\ Fate(s).by = 0
  /\ \A n : Shown(n).state = "shown" /\ Shown(n).by = n
BY DEF Fate, Shown

(* A status written without the lock, or not at all.                       *)
LEMMA OverwrittenShows ==
  ASSUME Showing, NEW n, NEW s, status \in [Seqs -> Statuses],
         status' = [status EXCEPT ![n] = s], failure' = Overwritten(n), UNCHANGED mgr
  PROVE  Showing'
BY FailureFields DEF Showing, FailureShown, Overwritten, Knowing, Owing

(* A step of a manager that owes no answer before it and none after it.    *)
LEMMA QuietShows ==
  ASSUME Showing, NEW p \in Managers, \A q \in Managers \ {p} : mgr'[q] = mgr[q],
         mgr[p].pc \notin Owing, mgr'[p].pc \notin Owing,
         UNCHANGED <<status, failure>>
  PROVE  Showing'
<1>1. \A q \in Managers : Knowing(mgr[q])'
  BY DEF Showing, Knowing, Owing
<1>2. QED
  BY <1>1 DEF Showing, FailureShown, Owing

(* A manager that has nothing to show goes on, or ends.                    *)
LEMMA NothingToShow ==
  ASSUME Showing, NEW p \in Managers, \A q \in Managers \ {p} : mgr'[q] = mgr[q],
         mgr[p].pc \in Owing => ~ mgr[p].failed,
         Knowing(mgr[p])', UNCHANGED <<status, failure>>
  PROVE  Showing'
<1>1. \A q \in Managers : Knowing(mgr[q])'
  BY DEF Showing, Knowing
<1>2. FailureShown'
  BY DEF Showing, FailureShown, Owing
<1>3. QED
  BY <1>1, <1>2 DEF Showing

(* A manager that ends, or errs, before its answer; what it owed is lost.  *)
LEMMA LostShows ==
  ASSUME Showing, Locking, NEW p \in Managers, \A q \in Managers \ {p} : mgr'[q] = mgr[q],
         mgr'[p].pc \notin Owing, failure' = Lost(p), UNCHANGED status
  PROVE  Showing'
<1>1. \A q \in Managers : Knowing(mgr[q])'
  BY FailureFields DEF Showing, Knowing, Owing, Lost
<1>2. CASE failure.state = "pending" /\ lock = p
  BY <1>1, <1>2, FailureFields DEF Showing, FailureShown, Lost
<1>3. CASE ~ (failure.state = "pending" /\ lock = p)
  <2>1. failure' = failure
    BY <1>3 DEF Lost
  <2>2. failure.state = "pending" =>
          \E q \in Managers \ {p} : mgr[q].failed /\ mgr[q].pc \in Owing
    BY <1>3 DEF Showing, FailureShown, Locking, Holding, Answering, Owing
  <2>3. QED
    BY <1>1, <2>1, <2>2 DEF Showing, FailureShown, Owing
<1>4. QED
  BY <1>2, <1>3

(* The operations of p end: a failed one is owed, and none is shown.       *)
LEMMA ExecutedShows ==
  ASSUME TypeInv, NEW p \in Managers, NEW failed \in BOOLEAN, NEW save,
         Executed(p, failed, save)
  PROVE  Showing'
<1>2. mgr'[p].pc = "executed" /\ mgr'[p].failed = failed
  BY ExecutedFields
<1>3. failure' = Fate(IF failed THEN "pending" ELSE "none")
  BY DEF Executed
<1>4. failure'.state = (IF failed THEN "pending" ELSE "none") /\ failure'.state # "shown"
  BY <1>3, FailureFields
<1>5. \A n : failure' # Shown(n)
  BY <1>4, FailureFields
<1>6. QED
  BY <1>2, <1>4, <1>5 DEF Showing, FailureShown, Knowing

LEMMA NextShowing ==
  ASSUME TypeInv, Locking, Showing, [Next]_vars
  PROVE  Showing'
<1>1. CASE UNCHANGED <<status, failure, mgr>>
  BY <1>1 DEF Showing, FailureShown, Knowing
<1>2. CASE Disable \/ WriteTransitioning
  BY <1>2, OverwrittenShows DEF Disable, WriteTransitioning, TypeInv, TypeOK
<1>3. ASSUME NEW p \in Managers, ManagerStep(p) \/ Kill(p) \/ StartManager(p)
      PROVE  Showing'
  <2>1. \A q \in Managers \ {p} : mgr'[q] = mgr[q]
    BY <1>3, StepOfOne
  <2>2. mgr[p] \in Manager /\ mgr \in [Managers -> Manager] /\ Well(mgr[p])
    BY Fields DEF TypeInv, TypeOK
  <2>3. lock = p => \A q \in Managers \ {p} : mgr[q].pc \notin Owing
    BY DEF Locking, Holding, Answering, Owing
  <2>4. CASE StartManager(p)
    <3>1. mgr'[p].pc = "waiting"
      BY <2>2, <2>4 DEF StartManager, Idle
    <3>2. QED
      BY <2>1, <2>4, <3>1, QuietShows DEF StartManager, history, Owing
  <2>5. CASE AcquireLock(p)
    <3>1. Become(p, "locked")
      BY <2>5 DEF AcquireLock
    <3>2. mgr'[p].pc = "locked"
      BY <3>1, NewPc
    <3>3. QED
      BY <2>1, <2>5, <3>2, QuietShows DEF AcquireLock, history, Owing
  <2>6. CASE LockTimeout(p)
    BY <2>1, <2>6, NewPc, QuietShows DEF LockTimeout, history, Owing
  <2>7. CASE LockError(p)
    BY <2>1, <2>7, NewPc, QuietShows DEF LockError, history, Owing
  <2>8. CASE ResolveGoal(p)
    <3>1. mgr'[p].pc = "resolved"
      BY <2>2, <2>8 DEF ResolveGoal, Manager
    <3>2. QED
      BY <2>1, <2>8, <3>1, QuietShows DEF ResolveGoal, history, Owing
  <2>9. CASE ResolveFails(p)
    BY <2>1, <2>9, NewPc, QuietShows DEF ResolveFails, history, Owing
  <2>10. CASE StartWork(p)
    <3>1. PICK save \in {"done", "error", "lost"} :
            \/ /\ mgr' = [mgr EXCEPT ![p].pc = "working", ![p].save = save]
               /\ UNCHANGED failure
            \/ Executed(p, TRUE, save)
      BY <2>10 DEF StartWork
    <3>2. CASE /\ mgr' = [mgr EXCEPT ![p].pc = "working", ![p].save = save]
               /\ UNCHANGED failure
      <4>1. mgr'[p].pc = "working"
        BY <2>2, <3>2 DEF Manager
      <4>2. QED
        BY <2>1, <2>10, <3>2, <4>1, QuietShows DEF StartWork, Owing
    <3>3. CASE Executed(p, TRUE, save)
      BY <3>3, ExecutedShows
    <3>4. QED
      BY <3>1, <3>2, <3>3
  <2>11. CASE NothingToDo(p)
    <3>1. mgr'[p].pc = "executed" /\ mgr'[p].results = "empty"
      BY <2>2, <2>11 DEF NothingToDo, Manager
    <3>2. Knowing(mgr[p])'
      BY <3>1 DEF Knowing
    <3>3. QED
      BY <2>1, <2>11, <3>2, NothingToShow DEF NothingToDo, history, Owing
  <2>12. CASE FinishWork(p)
    <3>1. PICK failed \in BOOLEAN, save \in {"done", "error", "lost"} : Executed(p, failed, save)
      BY <2>12 DEF FinishWork
    <3>2. QED
      BY <3>1, ExecutedShows
  <2>21. CASE ExecuteUnread(p)
    <3>1. mgr'[p].pc = "executed" /\ mgr'[p].results = "nil"
      BY <2>2, <2>21 DEF ExecuteUnread, Become, Manager, Well
    <3>2. Knowing(mgr[p])'
      BY <3>1 DEF Knowing
    <3>3. QED
      BY <2>1, <2>21, <3>2, NothingToShow DEF ExecuteUnread, history, Owing
  <2>22. CASE RunCustomActions(p)
    <3>1. CASE Exit(p)
      <4>1. mgr[p].results = "nil" \/ mgr'[p].pc = "customized"
        BY <2>2, <2>22 DEF RunCustomActions, Become, Manager
      <4>2. mgr'[p].pc = "idle" /\ mgr[p].results = "nil"
        BY <3>1, <4>1, NewPc
      <4>3. ~ mgr[p].failed /\ Knowing(mgr[p])'
        BY <2>2, <4>2 DEF Well, Knowing, Owing
      <4>4. QED
        BY <2>1, <2>22, <4>3, NothingToShow DEF RunCustomActions, history
    <3>2. CASE ~ Exit(p)
      <4>1. /\ mgr'[p].pc = "customized" /\ mgr'[p].failed = mgr[p].failed
            /\ mgr'[p].results = "operations" => mgr[p].results = "operations"
        BY <2>2, <2>22, <3>2 DEF RunCustomActions, Become, Manager
      <4>2. mgr[p].pc = "executed" /\ UNCHANGED <<status, failure>>
        BY <2>22 DEF RunCustomActions, history
      <4>3. \A q \in Managers : Knowing(mgr[q])'
        BY <2>1, <4>1, <4>2 DEF Showing, Knowing, Owing
      <4>4. FailureShown'
        BY <2>1, <4>1, <4>2 DEF Showing, FailureShown
      <4>5. QED
        BY <4>2, <4>3, <4>4 DEF Showing
    <3>3. QED
      BY <3>1, <3>2
  <2>13. CASE EnableFails(p)
    BY <2>1, <2>13, NewPc, LostShows DEF EnableFails, Owing
  <2>14. CASE ComputeStatus(p)
    <3> DEFINE answer == computeStatus(mgr[p], status[mgr[p].req], lastStable[mgr[p].req])
    <3>1. lock = p /\ mgr[p].pc = "customized" /\ UNCHANGED <<status, failure>>
      BY <2>14 DEF ComputeStatus, Locking, Holding, Answering, history
    <3>2. lastStable[mgr[p].req] = "missing"
      BY <2>14, Fields DEF ComputeStatus, TypeInv, NeverBackedUp
    <3>3. /\ mgr[p].results \in {"custom", "operations"} => answer = Outcome(mgr[p])
          /\ mgr[p].results \notin {"custom", "operations"} /\ status[mgr[p].req] = "Error" =>
               answer = None
      BY <2>2, <3>2, ComputedStatus
    <3>4. CASE answer = None \/ getStatusMessagePanics(mgr[p], status[mgr[p].req],
                                                       lastStable[mgr[p].req])
      <4>1. mgr[p].results # "operations"
        <5>1. Outcome(mgr[p]) # None
          BY ConstantsAssumption DEF Outcome, Answers
        <5>2. QED
          BY <3>3, <3>4, <5>1 DEF getStatusMessagePanics
      <4>2. ~ mgr[p].failed
        BY <2>2, <4>1 DEF Well
      <4>3. mgr'[p].pc = "idle"
        BY <2>14, <3>4, NewPc DEF ComputeStatus
      <4>4. Knowing(mgr[p])'
        BY <4>3 DEF Knowing, Owing
      <4>5. QED
        BY <2>1, <3>1, <4>2, <4>4, NothingToShow
    <3>5. CASE ~ (answer = None \/ getStatusMessagePanics(mgr[p], status[mgr[p].req],
                                                          lastStable[mgr[p].req]))
      <4>1. mgr' = [mgr EXCEPT ![p].pc = "reporting", ![p].answer = answer] /\ answer # None
        BY <2>14, <3>5 DEF ComputeStatus
      <4> HIDE DEF answer
      <4>2. /\ mgr'[p].pc = "reporting"
            /\ mgr'[p].results = mgr[p].results
            /\ mgr'[p].failed = mgr[p].failed
            /\ mgr'[p].req = mgr[p].req
        BY <2>2, <4>1 DEF Manager
      <4>3. mgr[p].results \notin {"custom", "operations"} => failure # Shown(mgr[p].req)
        BY <3>3, <4>1, FailureFields DEF Showing, FailureShown
      <4>4. \A q \in Managers : Knowing(mgr[q])'
        BY <2>1, <3>1, <4>2, <4>3 DEF Showing, Knowing, Owing
      <4>5. FailureShown'
        BY <2>1, <3>1, <4>2 DEF Showing, FailureShown
      <4>6. QED
        BY <3>1, <4>4, <4>5 DEF Showing
    <3>6. QED
      BY <3>4, <3>5
  <2>15. CASE Report(p)
    <3> DEFINE n == mgr[p].req
    <3>1. /\ lock = p
          /\ status' = [status EXCEPT ![n] = mgr[p].answer]
          /\ failure' = IF failure.state = "pending" /\ mgr[p].failed THEN Shown(n)
                        ELSE IF mgr[p].results = "custom" THEN Overwritten(n)
                        ELSE failure
          /\ mgr[p].pc = "reporting"
      BY <2>15 DEF Report, Locking, Holding, Answering
    <3>2. mgr'[p].pc = "reported"
      <4>1. Become(p, "reported")
        BY <2>15 DEF Report
      <4>2. QED
        BY <4>1, NewPc
    <3>3. \A q \in Managers : mgr'[q].pc \notin Owing
      BY <2>1, <2>3, <3>1, <3>2 DEF Owing
    <3>4. \A q \in Managers : Knowing(mgr[q])'
      BY <3>3 DEF Knowing, Owing
    <3>5. n \in Seqs /\ status \in [Seqs -> Statuses]
      BY <2>2, <3>1 DEF Well, TypeInv, TypeOK
    <3>6. CASE failure.state = "pending" /\ mgr[p].failed
      <4>1. mgr[p].answer = "Error"
        BY <2>2, <3>1, <3>6 DEF Well, Outcome
      <4>2. failure' = Shown(n) /\ status'[n] = "Error"
        BY <3>1, <3>5, <3>6, <4>1
      <4>3. QED
        BY <3>4, <3>5, <4>2, FailureFields DEF Showing, FailureShown
    <3>7. CASE ~ (failure.state = "pending" /\ mgr[p].failed)
      <4>1. failure' = (IF mgr[p].results = "custom" THEN Overwritten(n) ELSE failure)
        BY <3>1, <3>7
      <4>2. failure.state # "pending"
        BY <2>3, <3>1, <3>7 DEF Showing, FailureShown, Owing
      <4>3. mgr[p].results # "custom" => failure # Shown(n)
        BY <3>1, FailureFields DEF Showing, Knowing, Owing
      <4>4. failure'.state = "shown" =>
              failure' = failure /\ failure # Shown(n) /\ failure.by # n
        BY <4>1, <4>3, FailureFields DEF Overwritten, Showing
      <4>5. failure'.state # "pending"
        BY <4>1, <4>2, FailureFields DEF Overwritten
      <4>6. QED
        BY <3>1, <3>4, <3>5, <4>4, <4>5 DEF Showing, FailureShown
    <3>8. QED
      BY <3>6, <3>7
  <2>16. CASE ReportFails(p)
    BY <2>1, <2>16, NewPc, LostShows DEF ReportFails, Owing
  <2>17. CASE SetSequenceNumber(p)
    BY <2>1, <2>17, NewPc, QuietShows DEF SetSequenceNumber, history, Owing
  <2>18. CASE WriteError(p)
    <3>1. mgr'[p].pc = "idle" /\ mgr[p].pc = "failing"
      BY <2>18, NewPc DEF WriteError
    <3>2. CASE UNCHANGED <<status, failure>>
      BY <2>1, <3>1, <3>2, QuietShows DEF Owing
    <3>3. CASE /\ status' = [status EXCEPT ![mgr[p].req] = mgr[p].answer]
               /\ failure' = Overwritten(mgr[p].req)
      <4>1. status \in [Seqs -> Statuses]
        BY DEF TypeInv, TypeOK
      <4>2. QED
        BY <2>1, <3>1, <3>3, <4>1, FailureFields
        DEF Showing, FailureShown, Overwritten, Knowing, Owing
    <3>4. QED
      BY <2>18, <3>2, <3>3 DEF WriteError
  <2>19. CASE Kill(p)
    BY <2>1, <2>19, NewPc, LostShows DEF Kill, Owing
  <2>20. QED
    BY <1>3, <2>4, <2>5, <2>6, <2>7, <2>8, <2>9, <2>10, <2>11, <2>12, <2>13, <2>14, <2>15, <2>16,
       <2>17, <2>18, <2>19, <2>21, <2>22 DEF ManagerStep
<1>4. CASE \E p \in Managers : Reboot(p)
  <2>1. \A p \in Managers : mgr'[p].pc = "idle"
    BY <1>4 DEF Reboot, Idle
  <2>2. status' = status /\ failure' = IF failure.state = "pending" THEN Fate("none") ELSE failure
    BY <1>4 DEF Reboot
  <2>3. QED
    BY <2>1, <2>2, FailureFields DEF Showing, FailureShown, Knowing, Owing
<1>5. QED
  BY <1>1, <1>2, <1>3, <1>4 DEF Next, vars, history, NewSettings, Launch,
     WriteTransitioningFails, KillLauncher

(* A failed deployment that was answered is shown until a process without  *)
(* the lock replaces the status, a custom action succeeds in an enable of  *)
(* the same settings, or a new operation ends.                             *)
THEOREM FailuresAreShown == Spec => []FailureShown
<1>1. Init => Showing
  <2>1. Init => failure.state = "none" /\ \A p \in Managers : mgr[p].pc = "idle"
    BY FailureFields DEF Init, Idle
  <2>2. QED
    BY <2>1 DEF Showing, FailureShown, Knowing, Owing
<1>2. Safe /\ Showing /\ [Next]_vars => Showing'
  BY NextShowing DEF Safe
<1>3. Showing => FailureShown
  BY DEF Showing
<1>4. QED
  BY <1>1, <1>2, <1>3, Safety, PTL DEF Spec

-----------------------------------------------------------------------------
(* A manager records its sequence number only after its report.            *)
Recording ==
  /\ CurrentWasAnswered
  /\ \A p \in Managers : mgr[p].pc = "reported" => mgr[p].req \in answered

(* No step of a manager forgets an answer; only Report leads to "reported". *)
LEMMA ReportedStep ==
  ASSUME TypeInv, NEW p \in Managers, ManagerStep(p) \/ Kill(p) \/ StartManager(p)
  PROVE  /\ answered \subseteq answered'
         /\ mgr'[p].pc = "reported" => mgr'[p].req \in answered'
         /\ currentSeq' # currentSeq => mgr[p].pc = "reported" /\ currentSeq' = mgr[p].req
<1>1. mgr[p] \in Manager /\ mgr \in [Managers -> Manager]
  BY DEF TypeInv, TypeOK
<1>2. CASE Report(p)
  <2>1. mgr'[p].req = mgr[p].req
    BY <1>1, <1>2, NewPc DEF Report, Manager
  <2>2. QED
    BY <1>2, <2>1 DEF Report
<1>3. CASE ~ Report(p)
  <2>1. /\ answered' = answered
        /\ currentSeq' # currentSeq => mgr[p].pc = "reported" /\ currentSeq' = mgr[p].req
    BY <1>3 DEF ManagerStep, AcquireLock, LockTimeout, LockError, ResolveGoal, ResolveFails,
       StartWork, NothingToDo, ExecuteUnread, FinishWork, RunCustomActions, EnableFails,
       ComputeStatus, Report, ReportFails, SetSequenceNumber, WriteError, Kill, StartManager,
       history
  <2>2. mgr'[p].pc # "reported"
    <3>1. CASE \E pc \in {"locked", "executed", "customized"} : Become(p, pc)
      BY <3>1, NewPc
    <3>2. CASE Exit(p) \/ \E answer, error : Fail(p, answer, error)
      BY <3>2, NewPc
    <3>3. CASE StartManager(p) \/ ResolveGoal(p) \/ NothingToDo(p)
      <4>1. CASE StartManager(p)
        BY <1>1, <4>1 DEF StartManager, Idle
      <4>2. CASE ResolveGoal(p)
        BY <1>1, <4>2 DEF ResolveGoal, Manager
      <4>3. CASE NothingToDo(p)
        BY <1>1, <4>3 DEF NothingToDo, Manager
      <4>4. QED
        BY <3>3, <4>1, <4>2, <4>3
    <3>4. CASE \E answer : mgr' = [mgr EXCEPT ![p].pc = "reporting", ![p].answer = answer]
      BY <1>1, <3>4 DEF Manager
    <3>5. CASE StartWork(p) \/ FinishWork(p)
      <4>1. \/ \E save : mgr' = [mgr EXCEPT ![p].pc = "working", ![p].save = save]
            \/ \E failed, save : Executed(p, failed, save)
        BY <3>5 DEF StartWork, FinishWork
      <4>2. QED
        BY <1>1, <4>1, ExecutedFields DEF Manager
    <3>6. CASE RunCustomActions(p)
      BY <1>1, <3>1, <3>2, <3>6 DEF RunCustomActions, Manager
    <3>7. QED
      BY <1>2, <1>3, <3>1, <3>2, <3>3, <3>4, <3>5, <3>6 DEF ManagerStep, AcquireLock,
         LockTimeout, LockError, ResolveFails, ExecuteUnread, EnableFails, ComputeStatus,
         ReportFails, SetSequenceNumber, WriteError, Kill
  <2>3. QED
    BY <2>1, <2>2
<1>4. QED
  BY <1>2, <1>3

LEMMA NextRecording ==
  ASSUME TypeInv, Recording, [Next]_vars
  PROVE  Recording'
<1>1. CASE UNCHANGED <<mgr, answered, currentSeq>>
  BY <1>1 DEF Recording, CurrentWasAnswered
<1>2. ASSUME NEW p \in Managers, ManagerStep(p) \/ Kill(p) \/ StartManager(p)
      PROVE  Recording'
  BY <1>2, StepOfOne, ReportedStep DEF Recording, CurrentWasAnswered
<1>3. CASE \E p \in Managers : Reboot(p)
  BY <1>3 DEF Reboot, Idle, Recording, CurrentWasAnswered
<1>4. QED
  BY <1>1, <1>2, <1>3 DEF Next, vars, history, NewSettings, Disable, Launch,
     WriteTransitioning, WriteTransitioningFails, KillLauncher

(* The sequence number recorded as executed was answered: a kill between   *)
(* the plan and its answer leaves the goal to the next enable.             *)
THEOREM RecordedIsAnswered == Spec => []CurrentWasAnswered
<1>1. Init => Recording
  BY DEF Init, Idle, Recording, CurrentWasAnswered
<1>2. Safe /\ Recording /\ [Next]_vars => Recording'
  BY NextRecording DEF Safe
<1>3. Recording => CurrentWasAnswered
  BY DEF Recording
<1>4. QED
  BY <1>1, <1>2, <1>3, Safety, PTL DEF Spec
=============================================================================
