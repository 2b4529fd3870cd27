------------------------- MODULE CustomActionsProofs -------------------------
(***************************************************************************)
(* Proofs about CustomActions, for every set of actions, tick counts and   *)
(* applications: type correctness, that a recorded action is not run       *)
(* again, and that no planned action is passed over.                       *)
(***************************************************************************)
EXTENDS CustomActions, TLAPS

LEMMA TickTypes == \A a \in Actions : Tick[a] \in Nat
BY ConstantsAssumption

LEMMA Bounds == {MaxGoals, MaxKills, MaxUpdates, MaxFaults} \subseteq Nat /\ None \notin Actions
BY ConstantsAssumption

(* executeHelper creates the file before it executes anything.             *)
TypeInv == TypeOK /\ (cur # None => exists)

LEMMA StopType ==
  ASSUME TypeInv, NEW recorded, Stop(recorded)
  PROVE  /\ pc' = "idle" /\ plan' = {} /\ cur' = None /\ ok' = FALSE
         /\ owed' \subseteq goal
BY DEF TypeInv, TypeOK, Stop

LEMMA StopKeepsType ==
  ASSUME TypeInv, NEW recorded, Stop(recorded), UNCHANGED <<goal, file, goals, updates>>,
         done' \subseteq Actions,
         kills' \in 0..MaxKills, faults' \in 0..MaxFaults
  PROVE  TypeInv'
<1>1. TypeOK'
  BY StopType DEF TypeInv, TypeOK, file
<1>2. QED
  BY <1>1, StopType DEF TypeInv

LEMMA FaultType ==
  ASSUME TypeInv, Fault
  PROVE  faults' \in 0..MaxFaults
BY Bounds DEF TypeInv, TypeOK, Fault

(* Types survive every step.                                               *)
LEMMA NextType ==
  ASSUME TypeInv, [Next]_vars
  PROVE  TypeInv'
<1> USE Bounds, TickTypes DEF TypeInv, TypeOK, vars, file, process, history, bounds
<1>1. CASE UNCHANGED vars
  BY <1>1
<1>2. CASE NewGoal
  BY <1>2 DEF NewGoal
<1>3. CASE UpdateExtension
  <2>1. updates' \in 0..MaxUpdates
    BY <1>3 DEF UpdateExtension
  <2>2. cur' = None /\ pc' = "idle"
    BY <1>3 DEF UpdateExtension
  <2>3. done' = {} /\ exists' = FALSE /\ tick' = 0
    BY <1>3 DEF UpdateExtension, RecordLost
  <2>4. UNCHANGED <<goal, plan, ok, owed, goals, kills, faults>>
    BY <1>3 DEF UpdateExtension
  <2>5. QED
    BY <2>1, <2>2, <2>3, <2>4
<1>4. CASE New
  <2>1. ASSUME NEW tc, NEW missing, PlanActions(tc, missing)
        PROVE  /\ plan' \subseteq Actions
               /\ pc' \in {"idle", "next"}
               /\ pc' = "next" => plan' # {}
               /\ owed' \subseteq goal'
               /\ UNCHANGED <<goal, file, cur, ok, goals, kills, updates>>
    BY <2>1 DEF PlanActions
  <2>2. cur = None
    BY <1>4 DEF New
  <2>3. /\ done' \subseteq Actions
        /\ faults' \in 0..MaxFaults
    BY <1>4 DEF New, Fault, RecordLost
  <2>4. \E tc, missing : PlanActions(tc, missing)
    BY <1>4 DEF New
  <2>5. QED
    BY <2>1, <2>2, <2>3, <2>4
<1>5. CASE StartAction
  BY <1>5 DEF StartAction, First
<1>6. CASE CreateFails
  BY <1>6, StopKeepsType, FaultType DEF CreateFails
<1>7. CASE CommandEnds
  BY <1>7 DEF CommandEnds
<1>8. CASE OpenTickCount
  BY <1>8 DEF OpenTickCount
<1>9. CASE WriteTickCount
  <2>1. pc = "write" /\ cur \in Actions
    BY <1>9 DEF WriteTickCount
  <2>2. tick' \in Nat /\ done' \subseteq Actions /\ UNCHANGED <<goal, exists, bounds>>
    BY <1>9, <2>1 DEF WriteTickCount
  <2>3. owed' \subseteq goal /\ plan' \subseteq Actions /\ ok' = FALSE /\ cur' = None
        /\ pc' \in {"idle", "next"} /\ (pc' = "next" => plan' # {})
    BY <1>9, StopType DEF WriteTickCount
  <2>4. exists
    BY <2>1, Bounds
  <2>5. QED
    BY <2>2, <2>3, <2>4
<1>10. CASE SaveFails
  <2>1. done' \subseteq Actions
    BY <1>10 DEF SaveFails, RecordLost
  <2>2. QED
    BY <1>10, <2>1, StopKeepsType, FaultType DEF SaveFails
<1>11. CASE Reboot
  <2>1. kills' \in 0..MaxKills
    BY <1>11 DEF Reboot
  <2>2. QED
    BY <1>11, <2>1, StopKeepsType DEF Reboot
<1>12. CASE Kill
  <2>1. done' \subseteq Actions /\ kills' \in 0..MaxKills
    BY <1>12 DEF Kill, RecordLost
  <2>2. QED
    BY <1>12, <2>1, StopKeepsType DEF Kill
<1>13. QED
  BY <1>1, <1>2, <1>3, <1>4, <1>5, <1>6, <1>7, <1>8, <1>9, <1>10, <1>11, <1>12 DEF Next, Step

LEMMA InitType == Init => TypeInv
<1> SUFFICES ASSUME Init
             PROVE  TypeInv
  OBVIOUS
<1>1. goals \in 0..MaxGoals /\ kills \in 0..MaxKills /\ updates \in 0..MaxUpdates
      /\ faults \in 0..MaxFaults
  BY Bounds DEF Init
<1>2. QED
  BY <1>1 DEF Init, TypeInv, TypeOK

THEOREM TypeInvariance == Spec => []TypeInv
BY InitType, NextType, PTL DEF Spec

(* Every variable of CustomActions keeps its type.                         *)
THEOREM TypeCorrectness == Spec => []TypeOK
<1>1. TypeInv => TypeOK
  BY DEF TypeInv
<1>2. QED
  BY <1>1, TypeInvariance, PTL

-----------------------------------------------------------------------------
(* The turn of an action comes before those of higher tick counts: what is *)
(* being executed is not later than what is left of the plan, and neither  *)
(* is what was recorded. The file may be empty only inside its write.      *)
Turns ==
  /\ \A a \in plan : a \notin done /\ (cur # None => Tick[cur] <= Tick[a])
  /\ cur # None => cur \notin done /\ cur \notin plan
  /\ \A d \in done :
       /\ pc # "write" => Tick[d] <= tick
       /\ \A a \in plan : Tick[d] <= Tick[a]
       /\ cur # None => Tick[d] <= Tick[cur]

LEMMA StopKeepsTurns ==
  ASSUME TypeInv, Turns, NEW recorded, Stop(recorded), UNCHANGED file,
         done' = {} \/ (done' = done /\ pc # "write")
  PROVE  Turns'
BY DEF Turns, Stop, file

LEMMA NextTurns ==
  ASSUME TypeInv, Turns, [Next]_vars
  PROVE  Turns'
<1> USE DEF Turns, vars, file, process, history, bounds
<1>1. CASE UNCHANGED vars
  BY <1>1
<1>2. CASE NewGoal
  BY <1>2 DEF NewGoal
<1>3. CASE UpdateExtension
  BY <1>3 DEF UpdateExtension, RecordLost, TypeInv, TypeOK
<1>4. CASE New
  <2>1. cur = None /\ pc = "idle"
    BY <1>4 DEF New, TypeInv, TypeOK
  <2>2. \A a \in done : Tick[a] \in Nat /\ Tick[a] <= tick /\ tick \in Nat
    BY <2>1, TickTypes DEF TypeInv, TypeOK
  <2>3. ASSUME NEW missing, PlanActions(tick, missing), done' = done
        PROVE  Turns'
    <3>1. \A a \in plan' : Tick[a] \in Nat /\ tick < Tick[a]
      BY <2>3, TickTypes DEF PlanActions, TypeInv, TypeOK
    <3>2. UNCHANGED <<cur, tick>> /\ pc' # "write"
      BY <2>3 DEF PlanActions
    <3>3. \A a \in plan', d \in done : a # d /\ Tick[d] <= Tick[a]
      BY <2>2, <3>1
    <3>4. QED
      BY <2>1, <2>2, <2>3, <3>2, <3>3
  <2>4. CASE PlanActions(0, {}) /\ RecordLost
    BY <2>1, <2>4 DEF PlanActions, RecordLost
  <2>5. QED
    BY <1>4, <2>3, <2>4 DEF New
<1>5. CASE StartAction
  BY <1>5 DEF StartAction, First, TypeInv, TypeOK
<1>6. CASE CreateFails
  BY <1>6, StopKeepsTurns DEF CreateFails
<1>7. CASE CommandEnds
  BY <1>7 DEF CommandEnds
<1>8. CASE OpenTickCount
  BY <1>8 DEF OpenTickCount
<1>9. CASE WriteTickCount
  <2>1. cur \in Actions /\ cur # None /\ plan \subseteq Actions /\ done \subseteq Actions
    BY <1>9, Bounds DEF WriteTickCount, TypeInv, TypeOK
  <2>2. tick' = Tick[cur] /\ done' = done \cup {cur} /\ cur' = None
        /\ pc' # "write" /\ plan' \subseteq plan
    BY <1>9 DEF WriteTickCount, Stop
  <2>3. \A d \in done' : Tick[d] <= tick' /\ \A a \in plan' : Tick[d] <= Tick[a]
    BY <2>1, <2>2, TickTypes
  <2>4. \A a \in plan' : a \notin done'
    BY <2>1, <2>2
  <2>5. QED
    BY <2>2, <2>3, <2>4
<1>10. CASE SaveFails
  BY <1>10, StopKeepsTurns DEF SaveFails, RecordLost
<1>11. CASE Reboot
  BY <1>11, StopKeepsTurns DEF Reboot
<1>12. CASE Kill
  BY <1>12, StopKeepsTurns DEF Kill, RecordLost
<1>13. QED
  BY <1>1, <1>2, <1>3, <1>4, <1>5, <1>6, <1>7, <1>8, <1>9, <1>10, <1>11, <1>12 DEF Next, Step

(* A recorded action is not started again until the record is lost.        *)
THEOREM RecordedRunsOnce == Spec => RunOnce
<1>1. Init => Turns
  BY DEF Init, Turns
<1>2. TypeInv /\ Turns /\ [Next]_vars => Turns'
  BY NextTurns
<1>3. TypeInv /\ Turns /\ [Next]_vars => [\A a \in Actions : Starts(a) => a \notin done]_vars
  <2> SUFFICES ASSUME TypeInv, Turns, [Next]_vars, NEW a \in Actions, Starts(a)
               PROVE  a \notin done
    OBVIOUS
  <2>1. StartAction
    BY DEF Starts, Next, Step, vars, process, NewGoal, UpdateExtension, New, StartAction,
       CreateFails, CommandEnds, OpenTickCount, WriteTickCount, SaveFails, Reboot, Kill, Stop
  <2>2. a \in plan
    BY <2>1 DEF StartAction, Starts, First
  <2>3. QED
    BY <2>2 DEF Turns
<1>4. QED
  BY <1>1, <1>2, <1>3, TypeInvariance, PTL DEF Spec, RunOnce

-----------------------------------------------------------------------------
(* Where the owed actions are: in the plan of the process that runs, or    *)
(* ahead of the file when none does. Either way the file is not past them. *)
Debts ==
  /\ \A a \in owed : tick <= Tick[a]
  /\ pc = "idle" => \A a \in owed : tick < Tick[a]
  /\ pc # "idle" => owed \subseteq plan \cup {cur}

LEMMA StopKeepsDebts ==
  ASSUME TypeInv, Debts, Stop(tick), UNCHANGED file
  PROVE  Debts'
<1>1. \A a \in owed : Tick[a] \in Nat /\ tick \in Nat
  BY TickTypes DEF TypeInv, TypeOK
<1>2. QED
  BY <1>1 DEF Debts, Stop, file

LEMMA NextDebts ==
  ASSUME TypeInv, Turns, Debts, [Next]_vars
  PROVE  Debts'
<1> USE DEF Debts, vars, file, process, history, bounds
<1>1. CASE UNCHANGED vars
  BY <1>1
<1>2. CASE NewGoal
  BY <1>2 DEF NewGoal
<1>3. CASE UpdateExtension
  <2>1. \A a \in owed : Tick[a] \in Nat /\ tick \in Nat /\ tick < Tick[a]
    BY <1>3, TickTypes DEF UpdateExtension, TypeInv, TypeOK
  <2>2. \A a \in owed : 0 < Tick[a] /\ 0 <= Tick[a]
    BY <2>1
  <2>3. QED
    BY <1>3, <2>2 DEF UpdateExtension
<1>4. CASE New
  <2>1. pc = "idle"
    BY <1>4 DEF New
  <2>2. PICK tc \in {0, tick} : \E missing : PlanActions(tc, missing)
    <3>1. CASE PlanActions(0, {})
      BY <3>1
    <3>2. CASE \E missing : PlanActions(tick, missing)
      BY <3>2
    <3>3. QED
      BY <1>4, <3>1, <3>2 DEF New
  <2>3. \A a \in owed : a \in goal /\ tick < Tick[a] /\ tc < Tick[a]
    <3>1. \A a \in owed : a \in goal /\ tick < Tick[a] /\ Tick[a] \in Nat /\ tick \in Nat
      BY <2>1, TickTypes DEF TypeInv, TypeOK
    <3>2. QED
      BY <3>1
  <2>4. owed' \subseteq plan' /\ tick' = tick
    BY <2>2, <2>3 DEF PlanActions
  <2>5. \A a \in owed' : tick < Tick[a] /\ tick <= Tick[a]
    <3>1. \A a \in owed' : tick < Tick[a] /\ a \in Actions
      BY <2>2, <2>3 DEF PlanActions, TypeInv, TypeOK
    <3>2. QED
      BY <3>1, TickTypes DEF TypeInv, TypeOK
  <2>6. QED
    BY <2>4, <2>5
<1>5. CASE StartAction
  <2>1. cur = None /\ None \notin owed
    BY <1>5, Bounds DEF StartAction, TypeInv, TypeOK
  <2>2. QED
    BY <1>5, <2>1 DEF StartAction
<1>6. CASE CreateFails
  BY <1>6, StopKeepsDebts DEF CreateFails
<1>7. CASE CommandEnds
  BY <1>7 DEF CommandEnds
<1>8. CASE OpenTickCount
  <2>1. \A a \in owed : 0 <= Tick[a]
    BY TickTypes DEF TypeInv, TypeOK
  <2>2. QED
    BY <1>8, <2>1 DEF OpenTickCount
<1>9. CASE WriteTickCount
  <2>1. tick' = Tick[cur] /\ cur # None
    BY <1>9 DEF WriteTickCount, TypeInv, TypeOK
  <2>2. \A a \in owed : Tick[a] \in Nat /\ Tick[cur] \in Nat /\ Tick[cur] <= Tick[a]
    <3>1. owed \subseteq plan \cup {cur} /\ owed \subseteq Actions /\ cur \in Actions
      BY <1>9, <2>1 DEF WriteTickCount, TypeInv, TypeOK
    <3>2. QED
      BY <2>1, <3>1, TickTypes DEF Turns
  <2>3. CASE Stop(tick')
    BY <2>1, <2>2, <2>3 DEF Stop
  <2>4. CASE pc' = "next" /\ owed' = owed \ {cur} /\ UNCHANGED plan
    BY <1>9, <2>1, <2>2, <2>4 DEF WriteTickCount
  <2>5. QED
    BY <1>9, <2>3, <2>4 DEF WriteTickCount
<1>10. CASE SaveFails
  BY <1>10, StopKeepsDebts DEF SaveFails
<1>11. CASE Reboot
  BY <1>11, StopKeepsDebts DEF Reboot
<1>12. CASE Kill
  BY <1>12, StopKeepsDebts DEF Kill
<1>13. QED
  BY <1>1, <1>2, <1>3, <1>4, <1>5, <1>6, <1>7, <1>8, <1>9, <1>10, <1>11, <1>12 DEF Next, Step

(* The tick count file never gets ahead of a planned action that was not   *)
(* recorded and that the goal still holds.                                 *)
THEOREM NoneIsPassedOver == Spec => []NonePassedOver
<1>1. Init => Turns /\ Debts
  BY DEF Init, Turns, Debts
<1>2. TypeInv /\ Turns /\ Debts /\ [Next]_vars => Turns' /\ Debts'
  BY NextTurns, NextDebts
<1>3. TypeInv /\ Debts => NonePassedOver
  <2> SUFFICES ASSUME TypeInv, Debts, NEW a \in owed
               PROVE  tick <= Tick[a] /\ (tick = Tick[a] => a \in plan \/ a = cur)
    BY DEF NonePassedOver
  <2>1. Tick[a] \in Nat /\ tick \in Nat
    BY TickTypes DEF TypeInv, TypeOK
  <2>2. QED
    BY <2>1 DEF Debts
<1>4. QED
  BY <1>1, <1>2, <1>3, TypeInvariance, PTL DEF Spec
=============================================================================
