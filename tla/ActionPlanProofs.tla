-------------------------- MODULE ActionPlanProofs --------------------------
(***************************************************************************)
(* Proofs about ActionPlan, for every set of applications, versions,       *)
(* orders and desired collections: type correctness, and that the registry *)
(* never claims more than happened.                                        *)
(***************************************************************************)
EXTENDS ActionPlan, TLAPS

-----------------------------------------------------------------------------
(* What a step on the type of the variables depends on: inside an          *)
(* operation, cur has a registry entry for the action that is executed.    *)
InOperation == pc \in {"recorded", "running", "ended"}

OperationShape ==
  InOperation =>
    /\ cur \in Apps
    /\ plan[cur] # << >>
    /\ registry[cur] \in Entry
    /\ registry[cur].op = Head(plan[cur]).op

RunningShape ==
  pc = "running" =>
    /\ registry[cur].reboots # MaxReboots
    /\ last[cur] \in Run
    /\ last[cur].version = registry[cur].version

TypeInv == TypeOK /\ OperationShape /\ RunningShape

-----------------------------------------------------------------------------
LEMMA EntryTypes ==
  ASSUME NEW entry \in Entry
  PROVE  /\ \A op \in Ops : [entry EXCEPT !.op = op] \in Entry
         /\ \A n \in 0..MaxReboots : [entry EXCEPT !.reboots = n] \in Entry
         /\ entry # None
BY ConstantsAssumption DEF Entry

LEMMA ToCurrentType ==
  ASSUME NEW incoming \in Incoming
  PROVE  ToCurrent(incoming) \in Entry
BY DEF ToCurrent, Incoming, Entry, Ops, MaxReboots

LEMMA ShortSequences ==
  \A S : \A x, y \in S : << >> \in Seq(S) /\ << x >> \in Seq(S) /\ << x, y >> \in Seq(S)
OBVIOUS

LEMMA GroupType ==
  ASSUME NEW entry \in Entry \cup {None}, NEW incoming \in Incoming \cup {None}
  PROVE  Group(entry, incoming) \in Seq(Action)
<1>1. \A e \in Entry, op \in Ops, t \in BOOLEAN : MakeAction(e, op, t) \in Action
  BY DEF MakeAction, Action
<1>2. ASSUME incoming \in Incoming
      PROVE  /\ ToCurrent(incoming) \in Entry
             /\ incoming.treatFailure \in BOOLEAN
             /\ Installation(incoming) \in Action
  <2>1. ToCurrent(incoming) \in Entry /\ incoming.treatFailure \in BOOLEAN
    BY <1>2, ToCurrentType DEF Incoming
  <2>2. QED
    BY <1>1, <2>1 DEF Installation, Ops, Commands
<1>3. CASE entry \in Entry /\ incoming = None
  <2>1. entry # None
    BY <1>3, ConstantsAssumption
  <2>2. \A op \in {"Cleanup", "Remove"} : MakeAction(entry, op, FALSE) \in Action
    BY <1>1, <1>3 DEF Ops, Commands
  <2>3. UninstallGroup(entry) \in Seq(Action)
    BY <2>2, ShortSequences DEF UninstallGroup
  <2>4. QED
    BY <1>3, <2>1, <2>3 DEF Group
<1>4. CASE entry = None /\ incoming \in Incoming
  <2>1. incoming # None
    BY <1>4, ConstantsAssumption
  <2>2. QED
    BY <1>2, <1>4, <2>1, ShortSequences DEF Group
<1>5. CASE entry \in Entry /\ incoming \in Incoming
  <2>1. incoming # None /\ entry # None
    BY <1>5, ConstantsAssumption
  <2>2. UpdateGroup(entry, incoming) \in Seq(Action)
    <3>1. MakeAction(ToCurrent(incoming), "Update", incoming.treatFailure) \in Action
      BY <1>1, <1>2, <1>5 DEF Ops, Commands
    <3>2. MakeAction(entry, "RemoveForUpdate", FALSE) \in Action
      BY <1>1, <1>5 DEF Ops, Commands
    <3>3. QED
      BY <3>1, <3>2, <1>2, <1>5, ShortSequences DEF UpdateGroup
  <2>3. entry.op \in Ops
    BY <1>5 DEF Entry
  <2>4. SameVersionGroup(entry, incoming) \in Seq(Action)
    BY <1>1, <1>2, <1>5, <2>3, ShortSequences DEF SameVersionGroup, RetryGroup
  <2>5. QED
    BY <2>1, <2>2, <2>4 DEF Group
<1>6. CASE entry = None /\ incoming = None
  BY <1>6 DEF Group
<1>7. QED
  BY <1>3, <1>4, <1>5, <1>6

-----------------------------------------------------------------------------
(* What the parts shared by several actions do to the types.               *)
LEMMA WriteType ==
  ASSUME TypeOK, NEW new \in Registries, NEW failed \in BOOLEAN, WriteToDisk(new, failed)
  PROVE  disk' \in Registries \cup {Unreadable} /\ diskFaults' \in Nat
<1>1. NoPackages \in Registries
  BY DEF NoPackages, Registries
<1>2. diskFaults \in Nat
  BY DEF TypeOK
<1>3. CASE ~failed /\ disk' = new /\ UNCHANGED diskFaults
  BY <1>2, <1>3
<1>4. CASE /\ diskFaults' = diskFaults + 1
           /\ \E o \in FaultyWrites(disk, new) : disk' = o.left
  <2>1. \A o \in FaultyWrites(disk, new) : o.left \in {disk, new, NoPackages, Unreadable}
    BY DEF FaultyWrites
  <2>2. disk \in Registries \cup {Unreadable}
    BY DEF TypeOK
  <2>3. QED
    BY <1>1, <1>2, <1>4, <2>1, <2>2
<1>5. QED
  BY <1>3, <1>4 DEF WriteToDisk

LEMMA OrderType ==
  ASSUME TypeOK, NEW a \in Apps, Ordered(a)
  PROVE  want[a].order \in Orders
<1>1. want[a] \in Incoming
  BY ConstantsAssumption DEF TypeOK, Ordered, Uninstalled
<1>2. QED
  BY <1>1 DEF Ordered, Incoming

LEMMA CompletedType ==
  ASSUME TypeOK, NEW a \in Apps, plan[a] # << >>, NEW failed \in BOOLEAN,
         Completed(a, failed)
  PROVE  /\ plan' \in [Apps -> Seq(Action)]
         /\ pc' = "next" /\ err' = FALSE
         /\ cur' \in Apps \cup {None}
         /\ failedOrder' \in Orders \cup {None}
         /\ results' \subseteq Result
         /\ deployFailed' \in BOOLEAN
<1>1. plan[a] \in Seq(Action) /\ Head(plan[a]) \in Action /\ Tail(plan[a]) \in Seq(Action)
  BY DEF TypeOK
<1>2. Head(plan[a]).op \in Ops /\ Head(plan[a]).treatFailure \in BOOLEAN
  BY <1>1 DEF Action
<1>3. (IF failed THEN << >> ELSE Tail(plan[a])) \in Seq(Action)
  BY <1>1
<1>4. plan' \in [Apps -> Seq(Action)]
  BY <1>3 DEF Completed, TypeOK
<1>5. failedOrder' \in Orders \cup {None}
  BY OrderType DEF Completed, TypeOK
<1>6. results' \subseteq Result
  BY <1>2 DEF Completed, TypeOK, Result
<1>7. deployFailed' \in BOOLEAN
  BY <1>2 DEF Completed, TypeOK
<1>8. QED
  BY <1>4, <1>5, <1>6, <1>7 DEF Completed

LEMMA ExitType ==
  ASSUME Exit
  PROVE  /\ registry' \in Registries /\ plan' \in [Apps -> Seq(Action)]
         /\ pc' = "idle" /\ cur' = None /\ err' = FALSE
         /\ failedOrder' = None /\ results' = {} /\ deployFailed' = FALSE
BY DEF Exit, NoPackages, Registries, NoPlan

-----------------------------------------------------------------------------
LEMMA InitTypeInv == Init => TypeInv
<1>1. ASSUME Init PROVE TypeOK
  <2>1. NoPackages \in Registries /\ NoPlan \in [Apps -> Seq(Action)]
    BY DEF NoPackages, Registries, NoPlan
  <2>2. QED
    <3>1. last \in [Apps -> Run \cup {None}] /\ cuts \in [Apps -> Nat]
      BY <1>1 DEF Init
    <3>2. {boots, kills, diskFaults, changes} \subseteq Nat
      BY <1>1 DEF Init
    <3>3. QED
      BY <1>1, <2>1, <3>1, <3>2 DEF Init, TypeOK
<1>2. ASSUME Init PROVE OperationShape /\ RunningShape
  BY <1>2 DEF Init, OperationShape, RunningShape, InOperation
<1>3. QED
  BY <1>1, <1>2 DEF TypeInv

LEMMA NextTypeInv == TypeInv /\ [Next]_vars => TypeInv'
<1> SUFFICES ASSUME TypeInv, [Next]_vars PROVE TypeInv'
  OBVIOUS
<1>t. TypeOK /\ OperationShape /\ RunningShape
  BY DEF TypeInv
<1>1. CASE UNCHANGED vars
  BY <1>t, <1>1 DEF TypeInv, TypeOK, OperationShape, RunningShape, InOperation, vars
<1>2. ASSUME NEW profile \in Profiles, ChangeProfile(profile) PROVE TypeInv'
  <2>1. last' \in [Apps -> Run \cup {None}]
    <3>1. \A a \in Apps : last[a] # None => [last[a] EXCEPT !.sameGoal = FALSE] \in Run
      BY <1>t DEF TypeOK, Run
    <3>2. QED
      BY <1>t, <1>2, <3>1 DEF ChangeProfile, TypeOK
  <2>2. cuts' \in [Apps -> Nat]
    BY <1>t, <1>2 DEF ChangeProfile, TypeOK
  <2>3. TypeOK'
    BY <1>t, <1>2, <2>1, <2>2 DEF ChangeProfile, TypeOK, process
  <2>4. QED
    BY <1>2, <2>3 DEF ChangeProfile, process, TypeInv, OperationShape, RunningShape,
       InOperation
<1>3. CASE BeginEnable
  <2>1. disk \in Registries
    BY <1>t, <1>3 DEF BeginEnable, TypeOK
  <2>2. want \in [Apps -> Incoming \cup {None}]
    BY <1>t, ConstantsAssumption DEF TypeOK
  <2>3. plan' \in [Apps -> Seq(Action)]
    BY <1>3, <2>1, <2>2, GroupType DEF BeginEnable, NewPlan, Registries
  <2>4. TypeOK'
    BY <1>t, <1>3, <2>1, <2>3 DEF BeginEnable, TypeOK
  <2>5. QED
    BY <1>3, <2>4 DEF BeginEnable, TypeInv, OperationShape, RunningShape, InOperation
<1>4. ASSUME NEW a \in Apps, CleanUp(a) PROVE TypeInv'
  <2>1. registry' \in Registries
    BY <1>t, <1>4 DEF CleanUp, TypeOK, Registries
  <2>2. PICK failed \in BOOLEAN : WriteToDisk(registry', failed) /\ Completed(a, failed)
    BY <1>4 DEF CleanUp
  <2>3. disk' \in Registries \cup {Unreadable} /\ diskFaults' \in Nat
    BY <1>t, <2>1, <2>2, WriteType
  <2>4. plan[a] # << >>
    BY <1>4 DEF CleanUp, IsNext
  <2>5. TypeOK'
    BY <1>t, <1>4, <2>1, <2>2, <2>3, <2>4, CompletedType DEF CleanUp, TypeOK
  <2>6. QED
    BY <2>2, <2>5 DEF Completed, TypeInv, OperationShape, RunningShape, InOperation
<1>5. ASSUME NEW a \in Apps, RecordOperation(a) PROVE TypeInv'
  <2> DEFINE act == Head(plan[a])
             entry == [act.entry EXCEPT !.op = act.op]
  <2>1. plan[a] # << >>
    BY <1>5 DEF RecordOperation, IsNext
  <2>2. act \in Action
    BY <1>t, <2>1 DEF TypeOK
  <2>3. entry \in Entry /\ entry.op = act.op
    BY <2>2 DEF Action, Entry
  <2>4. registry' = [registry EXCEPT ![a] = entry]
    BY <1>5 DEF RecordOperation
  <2>5. registry' \in Registries /\ registry'[a] = entry
    BY <1>t, <2>3, <2>4 DEF TypeOK, Registries
  <2>6. CASE /\ WriteToDisk(registry', FALSE)
             /\ pc' = "recorded" /\ cur' = a /\ err' = FALSE
             /\ UNCHANGED <<plan, failedOrder, results, deployFailed>>
    <3>1. disk' \in Registries \cup {Unreadable} /\ diskFaults' \in Nat
      BY <1>t, <2>5, <2>6, WriteType
    <3>2. TypeOK'
      BY <1>t, <1>5, <2>5, <2>6, <3>1 DEF RecordOperation, TypeOK
    <3>3. OperationShape' /\ RunningShape'
      BY <2>1, <2>3, <2>5, <2>6 DEF OperationShape, RunningShape, InOperation
    <3>4. QED
      BY <3>2, <3>3 DEF TypeInv
  <2>7. CASE WriteToDisk(registry', TRUE) /\ Completed(a, TRUE)
    <3>1. disk' \in Registries \cup {Unreadable} /\ diskFaults' \in Nat
      BY <1>t, <2>5, <2>7, WriteType
    <3>2. TypeOK'
      BY <1>t, <1>5, <2>1, <2>5, <2>7, <3>1, CompletedType DEF RecordOperation, TypeOK
    <3>3. QED
      BY <2>7, <3>2 DEF Completed, TypeInv, OperationShape, RunningShape, InOperation
  <2>8. QED
    BY <1>5, <2>6, <2>7 DEF RecordOperation
<1>6. ASSUME NEW a \in Apps, Skip(a) PROVE TypeInv'
  <2> DEFINE act == Head(plan[a])
             entry == [act.entry EXCEPT !.op = "Skipped"]
  <2>1. act \in Action
    BY <1>t, <1>6 DEF TypeOK, Skip, IsNext
  <2>2. entry \in Entry /\ act.op \in Ops
    BY <2>1 DEF Action, Entry, Ops
  <2>3. registry' \in Registries
    BY <1>t, <1>6, <2>2 DEF Skip, TypeOK, Registries
  <2>4. results' \subseteq Result
    BY <1>t, <1>6, <2>2 DEF Skip, TypeOK, Result
  <2>5. PICK failed \in BOOLEAN :
          /\ WriteToDisk(registry', failed)
          /\ plan' = IF failed THEN NoPlan ELSE [plan EXCEPT ![a] = << >>]
    BY <1>6 DEF Skip
  <2>6. plan' \in [Apps -> Seq(Action)]
    BY <1>t, <2>5 DEF TypeOK, NoPlan
  <2>7. disk' \in Registries \cup {Unreadable} /\ diskFaults' \in Nat
    BY <1>t, <2>3, <2>5, WriteType
  <2>8. TypeOK'
    BY <1>t, <1>6, <2>3, <2>4, <2>6, <2>7 DEF Skip, TypeOK
  <2>9. QED
    BY <1>6, <2>8 DEF Skip, TypeInv, OperationShape, RunningShape, InOperation
<1>7. CASE RefuseCommand
  <2>1. InOperation
    BY <1>7 DEF RefuseCommand, InOperation
  <2>2. [registry[cur] EXCEPT !.reboots = IF @ = MaxReboots THEN 0 ELSE @] \in Entry
    BY <1>t, <2>1 DEF OperationShape, Entry, MaxReboots
  <2>3. /\ registry' \in Registries
        /\ registry'[cur] \in Entry
        /\ registry'[cur].op = registry[cur].op
    BY <1>t, <1>7, <2>1, <2>2 DEF RefuseCommand, TypeOK, OperationShape, Registries, Entry
  <2>4. TypeOK'
    BY <1>t, <1>7, <2>3 DEF RefuseCommand, TypeOK
  <2>5. QED
    BY <1>t, <1>7, <2>1, <2>3, <2>4
       DEF RefuseCommand, TypeInv, OperationShape, RunningShape, InOperation
<1>8. CASE StartCommand
  <2>1. InOperation /\ CanRun(registry[cur])
    BY <1>8 DEF StartCommand, InOperation
  <2>2. registry[cur] \in Entry
    BY <1>t, <2>1 DEF OperationShape
  <2>3. files' \subseteq Apps \X Versions
    BY <1>t, <1>8, <2>1, <2>2 DEF StartCommand, TypeOK, OperationShape, Entry
  <2>4. err' \in BOOLEAN
    BY <1>8 DEF StartCommand
  <2>5. PICK run \in Run : /\ run.version = registry[cur].version
                           /\ last' = [last EXCEPT ![cur] = run]
    BY <1>8, <2>2 DEF StartCommand, Run, Entry
  <2>6. last' \in [Apps -> Run \cup {None}] /\ last'[cur] = run
    BY <1>t, <2>1, <2>5 DEF TypeOK, OperationShape
  <2>7. TypeOK'
    BY <1>t, <1>8, <2>3, <2>4, <2>6 DEF StartCommand, TypeOK
  <2>8. OperationShape' /\ RunningShape'
    BY <1>t, <1>8, <2>1, <2>5, <2>6
       DEF StartCommand, OperationShape, RunningShape, InOperation, CanRun
  <2>9. QED
    BY <2>7, <2>8 DEF TypeInv
<1>9. ASSUME NEW ok \in BOOLEAN, CommandEnds(ok) PROVE TypeInv'
  <2>1. InOperation /\ last[cur] \in Run
    BY <1>t, <1>9 DEF CommandEnds, InOperation, RunningShape
  <2>2. [registry[cur] EXCEPT !.reboots = 0] \in Entry
    BY <1>t, <2>1 DEF OperationShape, Entry, MaxReboots
  <2>3. /\ registry' \in Registries
        /\ registry'[cur] \in Entry
        /\ registry'[cur].op = registry[cur].op
    BY <1>t, <1>9, <2>1, <2>2 DEF CommandEnds, TypeOK, OperationShape, Registries, Entry
  <2>4. [last[cur] EXCEPT !.end = IF ok THEN "ok" ELSE "failed"] \in Run
    BY <2>1 DEF Run
  <2>5. last' \in [Apps -> Run \cup {None}]
    BY <1>t, <1>9, <2>4 DEF CommandEnds, TypeOK
  <2>6. TypeOK'
    BY <1>t, <1>9, <2>3, <2>5 DEF CommandEnds, TypeOK
  <2>7. QED
    BY <1>t, <1>9, <2>1, <2>3, <2>6
       DEF CommandEnds, TypeInv, OperationShape, RunningShape, InOperation
<1>10. CASE Reboot
  <2> DEFINE entry == registry[cur]
             saved == IF entry.rerun THEN [entry EXCEPT !.reboots = @ + 1]
                      ELSE [entry EXCEPT !.op = "NoAction"]
  <2>1. InOperation /\ last[cur] \in Run /\ entry \in Entry /\ entry.reboots # MaxReboots
    BY <1>t, <1>10 DEF Reboot, InOperation, RunningShape, OperationShape
  <2>2. saved \in Entry
    BY <2>1 DEF Entry, MaxReboots, Ops
  <2>3. [registry EXCEPT ![cur] = saved] \in Registries
    BY <1>t, <2>2 DEF TypeOK, Registries
  <2>4. PICK failed \in BOOLEAN : WriteToDisk([registry EXCEPT ![cur] = saved], failed)
    BY <1>10 DEF Reboot
  <2>5. disk' \in Registries \cup {Unreadable} /\ diskFaults' \in Nat
    BY <1>t, <2>3, <2>4, WriteType
  <2>6. [last[cur] EXCEPT !.end = "cut"] \in Run
    BY <2>1 DEF Run
  <2>7. last' \in [Apps -> Run \cup {None}]
    BY <1>t, <1>10, <2>6 DEF Reboot, TypeOK
  <2>8. cuts' \in [Apps -> Nat]
    <3>1. cuts' \in {cuts, [cuts EXCEPT ![cur] = @ + 1]}
      BY <1>10 DEF Reboot
    <3>2. cuts \in [Apps -> Nat]
      BY <1>t DEF TypeOK
    <3>3. QED
      BY <3>1, <3>2
  <2>9. TypeOK'
    BY <1>t, <1>10, <2>5, <2>7, <2>8, ExitType DEF Reboot, TypeOK
  <2>10. QED
    BY <1>10, <2>9, ExitType
       DEF Reboot, TypeInv, OperationShape, RunningShape, InOperation
<1>11. CASE FinishOperation
  <2> DEFINE op == Head(plan[cur]).op
  <2>1. InOperation
    BY <1>11 DEF FinishOperation, InOperation
  <2>2. registry[cur] \in Entry /\ plan[cur] # << >> /\ cur \in Apps
    BY <1>t, <2>1 DEF OperationShape
  <2>3. PICK cleaned \in BOOLEAN, notSaved \in BOOLEAN :
          /\ files' = IF IsRemove(op) /\ cleaned THEN files \ {<<cur, registry[cur].version>>}
                      ELSE files
          /\ registry' = [registry EXCEPT ![cur] =
               IF op = "Remove" THEN None
               ELSE [registry[cur] EXCEPT !.op = IF err \/ ~cleaned THEN "Failed" ELSE "NoAction"]]
          /\ WriteToDisk(registry', notSaved)
          /\ Completed(cur, (err \/ ~cleaned) \/ notSaved)
    BY <1>11, ConstantsAssumption DEF FinishOperation
  <2>4. registry' \in Registries
    <3>1. \A o \in {"Failed", "NoAction"} : [registry[cur] EXCEPT !.op = o] \in Entry
      BY <2>2, EntryTypes DEF Ops
    <3>2. QED
      BY <1>t, <2>3, <3>1 DEF TypeOK, Registries
  <2>5. files' \subseteq Apps \X Versions
    BY <1>t, <2>3 DEF TypeOK
  <2>6. disk' \in Registries \cup {Unreadable} /\ diskFaults' \in Nat
    BY <1>t, <2>3, <2>4, WriteType
  <2>7. ((err \/ ~cleaned) \/ notSaved) \in BOOLEAN
    BY <1>t DEF TypeOK
  <2>8. TypeOK'
    BY <1>t, <1>11, <2>2, <2>3, <2>4, <2>5, <2>6, <2>7, CompletedType
       DEF FinishOperation, TypeOK
  <2>9. QED
    BY <2>3, <2>8 DEF Completed, TypeInv, OperationShape, RunningShape, InOperation
<1>12. CASE EndEnable
  <2>1. TypeOK'
    BY <1>t, <1>12, ExitType DEF EndEnable, TypeOK
  <2>2. QED
    BY <1>12, <2>1, ExitType
       DEF EndEnable, TypeInv, OperationShape, RunningShape, InOperation
<1>13. CASE Kill
  <2>1. disk' \in Registries \cup {Unreadable} /\ diskFaults' \in Nat
    <3>1. NoPackages \in Registries
      BY DEF NoPackages, Registries
    <3>2. QED
      BY <1>t, <1>13, <3>1 DEF Kill, KilledWrites, TypeOK
  <2>2. last' \in [Apps -> Run \cup {None}]
    <3>1. CASE pc = "running"
      <4>1. [last[cur] EXCEPT !.end = "lost"] \in Run
        BY <1>t, <3>1 DEF RunningShape, Run
      <4>2. QED
        BY <1>t, <1>13, <3>1, <4>1 DEF Kill, TypeOK
    <3>2. QED
      BY <1>t, <1>13, <3>1 DEF Kill, TypeOK
  <2>3. TypeOK'
    BY <1>t, <1>13, <2>1, <2>2, ExitType DEF Kill, TypeOK
  <2>4. QED
    BY <1>13, <2>3, ExitType DEF Kill, TypeInv, OperationShape, RunningShape, InOperation
<1>14. QED
  BY <1>1, <1>2, <1>3, <1>4, <1>5, <1>6, <1>7, <1>8, <1>9, <1>10, <1>11, <1>12, <1>13
     DEF Next, Step

(* TypeInv holds in every reachable state.                                 *)
THEOREM TypeInvariance == Spec => []TypeInv
BY InitTypeInv, NextTypeInv, PTL DEF Spec

(* Every variable keeps its type, whatever fails: in particular no registry *)
(* entry ever counts more than MaxReboots reboots.                         *)
THEOREM TypeCorrectness == Spec => []TypeOK
<1>1. TypeInv => TypeOK
  BY DEF TypeInv
<1>2. QED
  BY <1>1, TypeInvariance, PTL

-----------------------------------------------------------------------------
(* Why RegistryTruthful holds. An entry says NoAction only when a command  *)
(* for its version is done (Sound). For this to survive the next command   *)
(* for the application, its entry on the disk must not say NoAction any    *)
(* more when the command starts: the operation is recorded first           *)
(* (Recorded). And what is recorded must be an operation, which needs the  *)
(* reboot count of a NoAction entry to be zero (EntryOK), because New      *)
(* takes the operation of an entry with a positive count from the entry.   *)
EntryOK(entry) ==
  /\ entry.reboots > 0 => entry.rerun
  /\ entry.op = "NoAction" => entry.reboots = 0

Done(run, version) ==
  run # None /\ run.version = version /\ run.end \in {"ok", "cut"}

Sound(reg, runs) ==
  \A a \in Apps : reg[a] # None =>
    /\ EntryOK(reg[a])
    /\ reg[a].op = "NoAction" => Done(runs[a], reg[a].version)

SoundAction == {act \in Action : act.op # "NoAction" /\ EntryOK(act.entry)}

DiskSound == disk # Unreadable => Sound(disk, last)
RegistrySound == Sound(registry, last)
PlanSound == \A a \in Apps : plan[a] \in Seq(SoundAction)

Recorded ==
  InOperation /\ disk # Unreadable /\ disk[cur] # None => disk[cur].op # "NoAction"

EndedWell ==
  pc = "ended" /\ ~err =>
    /\ registry[cur].reboots = 0
    /\ Done(last[cur], registry[cur].version)

TruthInv ==
  DiskSound /\ RegistrySound /\ PlanSound /\ Recorded /\ EndedWell

-----------------------------------------------------------------------------
LEMMA EmptySound == \A runs : Sound(NoPackages, runs)
BY DEF Sound, NoPackages

(* A command for an application that has no NoAction entry.                *)
LEMMA SoundAfterRun ==
  ASSUME NEW reg, NEW runs, DOMAIN runs = Apps, NEW a \in Apps, NEW run,
         Sound(reg, runs), reg[a] # None => reg[a].op # "NoAction"
  PROVE  Sound(reg, [runs EXCEPT ![a] = run])
BY DEF Sound

(* A changed entry.                                                        *)
LEMMA SoundAfterEntry ==
  ASSUME NEW reg \in Registries, NEW runs, NEW a \in Apps, NEW entry,
         Sound(reg, runs),
         entry # None => /\ EntryOK(entry)
                         /\ entry.op = "NoAction" => Done(runs[a], entry.version)
  PROVE  Sound([reg EXCEPT ![a] = entry], runs)
BY DEF Sound, Registries

LEMMA WriteSound ==
  ASSUME NEW new, NEW failed \in BOOLEAN, NEW runs, WriteToDisk(new, failed),
         disk # Unreadable => Sound(disk, runs), Sound(new, runs)
  PROVE  disk' # Unreadable => Sound(disk', runs)
<1>1. disk' \in {disk, new, NoPackages, Unreadable}
  BY DEF WriteToDisk, FaultyWrites
<1>2. QED
  BY <1>1, EmptySound

LEMMA SuccessfulWrite ==
  ASSUME NEW new, WriteToDisk(new, FALSE)
  PROVE  disk' \in {new, NoPackages, Unreadable}
BY DEF WriteToDisk, FaultyWrites

LEMMA GroupSound ==
  ASSUME NEW entry \in Entry \cup {None}, NEW incoming \in Incoming \cup {None},
         entry # None => EntryOK(entry)
  PROVE  Group(entry, incoming) \in Seq(SoundAction)
<1>1. \A e \in Entry, op \in Ops \ {"NoAction"}, t \in BOOLEAN :
        EntryOK(e) => MakeAction(e, op, t) \in SoundAction
  BY DEF MakeAction, Action, SoundAction
<1>2. Commands \cup {"Cleanup"} \subseteq Ops \ {"NoAction"}
  BY DEF Ops, Commands
<1>3. ASSUME incoming \in Incoming
      PROVE  /\ ToCurrent(incoming) \in Entry /\ EntryOK(ToCurrent(incoming))
             /\ incoming.treatFailure \in BOOLEAN
             /\ Installation(incoming) \in SoundAction
  <2>1. ToCurrent(incoming) \in Entry /\ incoming.treatFailure \in BOOLEAN
    BY <1>3, ToCurrentType DEF Incoming
  <2>2. EntryOK(ToCurrent(incoming))
    BY DEF ToCurrent, EntryOK
  <2>3. "Install" \in Ops \ {"NoAction"}
    BY DEF Ops, Commands
  <2>4. QED
    BY <1>1, <2>1, <2>2, <2>3 DEF Installation
<1>4. CASE entry \in Entry /\ incoming = None
  <2>1. entry # None
    BY <1>4, ConstantsAssumption
  <2>2. \A op \in {"Cleanup", "Remove"} : MakeAction(entry, op, FALSE) \in SoundAction
    BY <1>1, <1>4, <2>1 DEF Ops, Commands
  <2>3. UninstallGroup(entry) \in Seq(SoundAction)
    BY <2>2, ShortSequences DEF UninstallGroup
  <2>4. QED
    BY <1>4, <2>1, <2>3 DEF Group
<1>5. CASE entry = None /\ incoming \in Incoming
  <2>1. incoming # None
    BY <1>5, ConstantsAssumption
  <2>2. QED
    BY <1>3, <1>5, <2>1, ShortSequences DEF Group
<1>6. CASE entry \in Entry /\ incoming \in Incoming
  <2>1. incoming # None /\ entry # None
    BY <1>6, ConstantsAssumption
  <2>2. UpdateGroup(entry, incoming) \in Seq(SoundAction)
    <3>1. MakeAction(ToCurrent(incoming), "Update", incoming.treatFailure) \in SoundAction
      BY <1>1, <1>3, <1>6 DEF Ops, Commands
    <3>2. MakeAction(entry, "RemoveForUpdate", FALSE) \in SoundAction
      BY <1>1, <1>6, <2>1 DEF Ops, Commands
    <3>3. QED
      BY <3>1, <3>2, <1>3, <1>6, ShortSequences DEF UpdateGroup
  <2>3. ASSUME entry.reboots > 0
        PROVE  MakeAction(entry, entry.op, incoming.treatFailure) \in SoundAction
    <3>1. entry.op \in Ops /\ entry.reboots \in 0..MaxReboots
      BY <1>6 DEF Entry
    <3>2. entry.op # "NoAction"
      BY <2>1, <2>3, <3>1 DEF EntryOK, MaxReboots
    <3>3. QED
      BY <1>1, <1>3, <1>6, <2>1, <3>1, <3>2
  <2>4. SameVersionGroup(entry, incoming) \in Seq(SoundAction)
    BY <2>3, ShortSequences DEF SameVersionGroup, RetryGroup
  <2>5. QED
    BY <2>1, <2>2, <2>4 DEF Group
<1>7. CASE entry = None /\ incoming = None
  BY <1>7 DEF Group
<1>8. QED
  BY <1>4, <1>5, <1>6, <1>7

(* The action that is executed, and the plan after it.                     *)
LEMMA HeadSound ==
  ASSUME PlanSound, NEW a \in Apps, plan[a] # << >>
  PROVE  /\ Head(plan[a]) \in Action /\ Head(plan[a]).op # "NoAction"
         /\ EntryOK(Head(plan[a]).entry)
<1>1. Head(plan[a]) \in SoundAction
  BY DEF PlanSound
<1>2. QED
  BY <1>1 DEF SoundAction

LEMMA CompletedSound ==
  ASSUME TypeOK, PlanSound, NEW a \in Apps, plan[a] # << >>, NEW failed \in BOOLEAN,
         Completed(a, failed)
  PROVE  PlanSound' /\ pc' = "next"
<1>1. (IF failed THEN << >> ELSE Tail(plan[a])) \in Seq(SoundAction)
  BY DEF PlanSound
<1>2. QED
  BY <1>1 DEF Completed, PlanSound, TypeOK

LEMMA ExitSound ==
  ASSUME Exit
  PROVE  PlanSound' /\ RegistrySound' /\ Recorded' /\ EndedWell'
<1>1. RegistrySound'
  BY EmptySound DEF Exit, RegistrySound
<1>2. PlanSound'
  BY DEF Exit, PlanSound, NoPlan
<1>3. QED
  BY <1>1, <1>2 DEF Exit, Recorded, EndedWell, InOperation

-----------------------------------------------------------------------------
LEMMA InitTruthInv == Init => TruthInv
<1> SUFFICES ASSUME Init PROVE TruthInv
  OBVIOUS
<1>1. PlanSound
  BY DEF Init, PlanSound, NoPlan
<1>2. QED
  BY <1>1, EmptySound
     DEF Init, TruthInv, DiskSound, RegistrySound, Recorded, EndedWell, InOperation

LEMMA NextTruthInv == TypeInv /\ TruthInv /\ [Next]_vars => TruthInv'
<1> SUFFICES ASSUME TypeInv, TruthInv, [Next]_vars PROVE TruthInv'
  OBVIOUS
<1>t. TypeOK /\ OperationShape /\ RunningShape
  BY DEF TypeInv
<1>s. DiskSound /\ RegistrySound /\ PlanSound /\ Recorded /\ EndedWell
  BY DEF TruthInv
<1>d. DOMAIN last = Apps /\ registry \in Registries
  BY <1>t DEF TypeOK
<1>1. CASE UNCHANGED vars
  BY <1>s, <1>1 DEF TruthInv, DiskSound, RegistrySound, PlanSound, Recorded, EndedWell,
     InOperation, Sound, vars
<1>2. ASSUME NEW profile \in Profiles, ChangeProfile(profile) PROVE TruthInv'
  <2>1. ASSUME NEW reg, Sound(reg, last) PROVE Sound(reg, last')
    <3>1. ASSUME NEW a \in Apps, NEW version, Done(last[a], version)
          PROVE  Done(last'[a], version)
      <4>1. last[a] \in Run
        BY <1>t, <3>1 DEF TypeOK, Done
      <4>2. last'[a] \in {last[a], [last[a] EXCEPT !.sameGoal = FALSE]}
        BY <1>2 DEF ChangeProfile
      <4>3. [last[a] EXCEPT !.sameGoal = FALSE] # None
        <5>1. [last[a] EXCEPT !.sameGoal = FALSE] \in Run
          BY <4>1 DEF Run
        <5>2. QED
          BY <5>1, ConstantsAssumption
      <4>4. QED
        BY <3>1, <4>1, <4>2, <4>3 DEF Done, Run
    <3>2. QED
      BY <2>1, <3>1 DEF Sound
  <2>2. DiskSound' /\ RegistrySound'
    BY <1>2, <1>s, <2>1 DEF ChangeProfile, process, DiskSound, RegistrySound
  <2>3. QED
    BY <1>2, <1>s, <2>2
       DEF ChangeProfile, process, TruthInv, PlanSound, Recorded, EndedWell, InOperation
<1>3. CASE BeginEnable
  <2>1. disk \in Registries /\ Sound(disk, last)
    BY <1>t, <1>3, <1>s DEF BeginEnable, TypeOK, DiskSound
  <2>2. want \in [Apps -> Incoming \cup {None}]
    BY <1>t, ConstantsAssumption DEF TypeOK
  <2>3. ASSUME NEW a \in Apps PROVE Group(disk[a], want[a]) \in Seq(SoundAction)
    BY <2>1, <2>2, GroupSound DEF Sound, Registries
  <2>4. PlanSound'
    BY <1>3, <2>3 DEF BeginEnable, NewPlan, PlanSound
  <2>5. QED
    BY <1>3, <2>1, <2>4 DEF BeginEnable, TruthInv, DiskSound, RegistrySound, Recorded,
       EndedWell, InOperation
<1>4. ASSUME NEW a \in Apps, CleanUp(a) PROVE TruthInv'
  <2>1. registry' = [registry EXCEPT ![a] = None] /\ last' = last /\ plan[a] # << >>
    BY <1>4 DEF CleanUp, IsNext
  <2>2. Sound(registry', last)
    BY <1>d, <1>s, <2>1, SoundAfterEntry DEF RegistrySound
  <2>3. PICK failed \in BOOLEAN : WriteToDisk(registry', failed) /\ Completed(a, failed)
    BY <1>4 DEF CleanUp
  <2>4. disk' # Unreadable => Sound(disk', last)
    BY <1>s, <2>2, <2>3, WriteSound DEF DiskSound
  <2>5. PlanSound' /\ pc' = "next"
    BY <1>t, <1>s, <2>1, <2>3, CompletedSound
  <2>6. QED
    BY <2>1, <2>2, <2>4, <2>5
       DEF TruthInv, DiskSound, RegistrySound, Recorded, EndedWell, InOperation
<1>5. ASSUME NEW a \in Apps, RecordOperation(a) PROVE TruthInv'
  <2> DEFINE act == Head(plan[a])
             entry == [act.entry EXCEPT !.op = act.op]
  <2>1. registry' = [registry EXCEPT ![a] = entry] /\ last' = last /\ plan[a] # << >>
    BY <1>5 DEF RecordOperation, IsNext
  <2>2. act \in Action /\ act.op # "NoAction" /\ EntryOK(act.entry)
    BY <1>s, <2>1, HeadSound
  <2>3. entry \in Entry /\ entry.op = act.op /\ EntryOK(entry)
    BY <2>2 DEF Action, Entry, EntryOK
  <2>4. Sound(registry', last) /\ registry'[a] = entry
    BY <1>d, <1>s, <2>1, <2>2, <2>3, SoundAfterEntry DEF RegistrySound, Registries
  <2>5. CASE /\ WriteToDisk(registry', FALSE)
             /\ pc' = "recorded" /\ cur' = a /\ err' = FALSE
             /\ UNCHANGED <<plan, failedOrder, results, deployFailed>>
    <3>1. disk' # Unreadable => Sound(disk', last)
      BY <1>s, <2>4, <2>5, WriteSound DEF DiskSound
    <3>2. disk' \in {registry', NoPackages, Unreadable}
      BY <2>5, SuccessfulWrite
    <3>3. Recorded'
      BY <2>2, <2>3, <2>4, <2>5, <3>2 DEF Recorded, NoPackages
    <3>4. QED
      BY <1>s, <2>1, <2>4, <2>5, <3>1, <3>3
         DEF TruthInv, DiskSound, RegistrySound, PlanSound, EndedWell
  <2>6. CASE WriteToDisk(registry', TRUE) /\ Completed(a, TRUE)
    <3>1. disk' # Unreadable => Sound(disk', last)
      BY <1>s, <2>4, <2>6, WriteSound DEF DiskSound
    <3>2. PlanSound' /\ pc' = "next"
      BY <1>t, <1>s, <2>1, <2>6, CompletedSound
    <3>3. QED
      BY <2>1, <2>4, <3>1, <3>2
         DEF TruthInv, DiskSound, RegistrySound, Recorded, EndedWell, InOperation
  <2>7. QED
    BY <1>5, <2>5, <2>6 DEF RecordOperation
<1>6. ASSUME NEW a \in Apps, Skip(a) PROVE TruthInv'
  <2> DEFINE entry == [Head(plan[a]).entry EXCEPT !.op = "Skipped"]
  <2>1. /\ registry' = [registry EXCEPT ![a] = entry]
        /\ last' = last /\ plan[a] # << >> /\ pc' = "next"
    BY <1>6 DEF Skip, IsNext
  <2>2. entry.op = "Skipped" /\ EntryOK(entry)
    BY <1>s, <2>1, HeadSound DEF Action, Entry, EntryOK
  <2>3. Sound(registry', last)
    BY <1>d, <1>s, <2>1, <2>2, SoundAfterEntry DEF RegistrySound
  <2>4. PICK failed \in BOOLEAN :
          /\ WriteToDisk(registry', failed)
          /\ plan' = IF failed THEN NoPlan ELSE [plan EXCEPT ![a] = << >>]
    BY <1>6 DEF Skip
  <2>5. disk' # Unreadable => Sound(disk', last)
    BY <1>s, <2>3, <2>4, WriteSound DEF DiskSound
  <2>6. PlanSound'
    BY <1>t, <1>s, <2>4 DEF PlanSound, NoPlan, TypeOK
  <2>7. QED
    BY <2>1, <2>3, <2>5, <2>6
       DEF TruthInv, DiskSound, RegistrySound, Recorded, EndedWell, InOperation
<1>o. InOperation => /\ cur \in Apps /\ registry[cur] \in Entry /\ registry[cur] # None
                     /\ registry[cur].op # "NoAction" /\ EntryOK(registry[cur])
  <2>1. SUFFICES ASSUME InOperation
                 PROVE  /\ cur \in Apps /\ registry[cur] \in Entry /\ registry[cur] # None
                        /\ registry[cur].op # "NoAction" /\ EntryOK(registry[cur])
    OBVIOUS
  <2>2. cur \in Apps /\ registry[cur] \in Entry /\ registry[cur].op = Head(plan[cur]).op
    BY <1>t, <2>1 DEF OperationShape
  <2>3. Head(plan[cur]).op # "NoAction"
    BY <1>t, <1>s, <2>1, HeadSound DEF OperationShape
  <2>4. registry[cur] # None
    BY <2>2, ConstantsAssumption
  <2>5. QED
    BY <1>s, <2>2, <2>3, <2>4 DEF RegistrySound, Sound
(* A command starts or ends: neither the registry nor the disk has a       *)
(* NoAction entry for cur.                                                 *)
<1>r. ASSUME InOperation, NEW run
      PROVE  /\ Sound(registry, [last EXCEPT ![cur] = run])
             /\ disk # Unreadable => Sound(disk, [last EXCEPT ![cur] = run])
  <2>1. Sound(registry, [last EXCEPT ![cur] = run])
    BY <1>d, <1>s, <1>o, <1>r, SoundAfterRun DEF RegistrySound
  <2>2. ASSUME disk # Unreadable PROVE Sound(disk, [last EXCEPT ![cur] = run])
    BY <1>d, <1>s, <1>o, <1>r, <2>2, SoundAfterRun DEF DiskSound, Recorded
  <2>3. QED
    BY <2>1, <2>2
<1>7. CASE RefuseCommand
  <2> DEFINE entry == [registry[cur] EXCEPT !.reboots = IF @ = MaxReboots THEN 0 ELSE @]
  <2>1. InOperation /\ InOperation' /\ err' /\ UNCHANGED <<disk, plan, cur, last>>
    BY <1>7 DEF RefuseCommand, InOperation
  <2>2. registry' = [registry EXCEPT ![cur] = entry]
    BY <1>7 DEF RefuseCommand
  <2>3. EntryOK(entry) /\ entry.op # "NoAction"
    BY <1>o, <2>1 DEF EntryOK, Entry, MaxReboots
  <2>4. Sound(registry', last)
    BY <1>d, <1>o, <1>s, <2>1, <2>2, <2>3, SoundAfterEntry DEF RegistrySound
  <2>5. QED
    BY <1>s, <2>1, <2>4 DEF TruthInv, DiskSound, RegistrySound, PlanSound, Recorded,
       EndedWell
<1>8. CASE StartCommand
  <2>1. InOperation /\ UNCHANGED <<disk, registry, plan, cur>> /\ pc' = "running"
    BY <1>8 DEF StartCommand, InOperation
  <2>2. PICK run : last' = [last EXCEPT ![cur] = run]
    BY <1>8 DEF StartCommand
  <2>3. Sound(registry, last') /\ (disk # Unreadable => Sound(disk, last'))
    BY <1>r, <2>1, <2>2
  <2>4. QED
    BY <1>s, <2>1, <2>3 DEF TruthInv, DiskSound, RegistrySound, PlanSound, Recorded,
       EndedWell, InOperation
<1>9. ASSUME NEW ok \in BOOLEAN, CommandEnds(ok) PROVE TruthInv'
  <2> DEFINE entry == [registry[cur] EXCEPT !.reboots = 0]
             run == [last[cur] EXCEPT !.end = IF ok THEN "ok" ELSE "failed"]
  <2>1. InOperation /\ UNCHANGED <<disk, plan, cur>> /\ pc' = "ended"
    BY <1>9 DEF CommandEnds, InOperation
  <2>2. /\ last' = [last EXCEPT ![cur] = run]
        /\ registry' = [registry EXCEPT ![cur] = entry]
        /\ err' = (err \/ ~ok)
    BY <1>9 DEF CommandEnds
  <2>3. Sound(registry, last') /\ (disk # Unreadable => Sound(disk, last'))
    BY <1>r, <2>1, <2>2
  <2>4. entry \in Entry /\ entry.reboots = 0 /\ entry.version = registry[cur].version
    BY <1>o, <2>1 DEF Entry, MaxReboots
  <2>5. Sound(registry', last')
    <3>1. EntryOK(entry) /\ entry.op # "NoAction"
      BY <1>o, <2>1 DEF EntryOK, Entry, MaxReboots
    <3>2. QED
      BY <1>d, <1>o, <2>1, <2>2, <2>3, <3>1, SoundAfterEntry
  <2>6. EndedWell'
    <3>1. run \in Run /\ run.version = registry[cur].version
      BY <1>9, <1>t DEF CommandEnds, RunningShape, Run
    <3>2. ok => run.end = "ok"
      BY <1>9, <1>t DEF CommandEnds, RunningShape, Run
    <3>3. registry'[cur] = entry /\ last'[cur] = run
      BY <1>d, <1>o, <2>1, <2>2 DEF Registries
    <3>4. run # None
      BY <3>1, ConstantsAssumption
    <3>5. QED
      BY <2>1, <2>2, <2>4, <3>1, <3>2, <3>3, <3>4 DEF EndedWell, Done
  <2>7. QED
    BY <1>s, <2>1, <2>3, <2>5, <2>6 DEF TruthInv, DiskSound, RegistrySound, PlanSound,
       Recorded, InOperation
<1>10. CASE Reboot
  <2> DEFINE old == registry[cur]
             saved == IF old.rerun THEN [old EXCEPT !.reboots = @ + 1]
                      ELSE [old EXCEPT !.op = "NoAction"]
             run == [last[cur] EXCEPT !.end = "cut"]
  <2>1. InOperation
    BY <1>10 DEF Reboot, InOperation
  <2>2. last' = [last EXCEPT ![cur] = run]
    BY <1>10 DEF Reboot
  <2>3. Sound(registry, last') /\ (disk # Unreadable => Sound(disk, last'))
    BY <1>r, <2>1, <2>2
  <2>4. Sound([registry EXCEPT ![cur] = saved], last')
    <3>1. run \in Run /\ run.version = old.version /\ run.end = "cut"
      BY <1>10, <1>t DEF Reboot, RunningShape, Run
    <3>2. Done(last'[cur], old.version)
      BY <1>d, <1>o, <2>1, <2>2, <3>1, ConstantsAssumption DEF Done
    <3>3. EntryOK(saved) /\ saved.version = old.version
      BY <1>o, <2>1 DEF EntryOK, Entry, MaxReboots
    <3>4. QED
      BY <1>d, <1>o, <2>1, <2>3, <3>2, <3>3, SoundAfterEntry
  <2>5. PICK failed \in BOOLEAN : WriteToDisk([registry EXCEPT ![cur] = saved], failed)
    BY <1>10 DEF Reboot
  <2>6. disk' # Unreadable => Sound(disk', last')
    BY <2>3, <2>4, <2>5, WriteSound
  <2>7. QED
    BY <1>10, <2>6, ExitSound DEF Reboot, TruthInv, DiskSound
<1>11. CASE FinishOperation
  <2> DEFINE op == Head(plan[cur]).op
  <2>1. InOperation /\ last' = last
    BY <1>11 DEF FinishOperation, InOperation
  <2>2. plan[cur] # << >>
    BY <1>t, <2>1 DEF OperationShape
  <2>3. PICK cleaned \in BOOLEAN, notSaved \in BOOLEAN :
          /\ registry' = [registry EXCEPT ![cur] =
               IF op = "Remove" THEN None
               ELSE [registry[cur] EXCEPT !.op = IF err \/ ~cleaned THEN "Failed" ELSE "NoAction"]]
          /\ WriteToDisk(registry', notSaved)
          /\ Completed(cur, (err \/ ~cleaned) \/ notSaved)
    BY <1>11, ConstantsAssumption DEF FinishOperation
  <2>4. Sound(registry', last)
    <3>1. ASSUME err \/ ~cleaned
          PROVE  EntryOK([registry[cur] EXCEPT !.op = "Failed"])
      BY <1>o, <2>1 DEF EntryOK, Entry
    <3>2. ASSUME ~err
          PROVE  /\ EntryOK([registry[cur] EXCEPT !.op = "NoAction"])
                 /\ Done(last[cur], registry[cur].version)
      BY <1>11, <1>o, <1>s, <2>1, <3>2 DEF FinishOperation, EndedWell, EntryOK, Entry
    <3>3. ASSUME NEW o \in {"Failed", "NoAction"}
          PROVE  /\ [registry[cur] EXCEPT !.op = o].op = o
                 /\ [registry[cur] EXCEPT !.op = o].version = registry[cur].version
      BY <1>o, <2>1 DEF Entry
    <3>4. CASE op = "Remove"
      BY <1>d, <1>o, <1>s, <2>1, <2>3, <3>4, SoundAfterEntry DEF RegistrySound
    <3>5. CASE op # "Remove" /\ (err \/ ~cleaned)
      <4>1. registry' = [registry EXCEPT ![cur] = [registry[cur] EXCEPT !.op = "Failed"]]
        BY <2>3, <3>5
      <4>2. QED
        BY <1>d, <1>o, <1>s, <2>1, <3>1, <3>3, <3>5, <4>1, SoundAfterEntry DEF RegistrySound
    <3>6. CASE op # "Remove" /\ ~(err \/ ~cleaned)
      <4>1. registry' = [registry EXCEPT ![cur] = [registry[cur] EXCEPT !.op = "NoAction"]]
        BY <2>3, <3>6
      <4>2. QED
        BY <1>d, <1>o, <1>s, <2>1, <3>2, <3>3, <3>6, <4>1, SoundAfterEntry DEF RegistrySound
    <3>7. QED
      BY <3>4, <3>5, <3>6
  <2>5. disk' # Unreadable => Sound(disk', last)
    BY <1>s, <2>3, <2>4, WriteSound DEF DiskSound
  <2>6. ((err \/ ~cleaned) \/ notSaved) \in BOOLEAN
    BY <1>t DEF TypeOK
  <2>7. PlanSound' /\ pc' = "next"
    BY <1>o, <1>t, <1>s, <2>1, <2>2, <2>3, <2>6, CompletedSound
  <2>8. QED
    BY <2>1, <2>4, <2>5, <2>7
       DEF TruthInv, DiskSound, RegistrySound, Recorded, EndedWell, InOperation
<1>12. CASE EndEnable
  BY <1>12, <1>s, ExitSound DEF EndEnable, TruthInv, DiskSound
<1>13. CASE Kill
  <2>1. disk # Unreadable => Sound(disk, last')
    <3>1. CASE pc = "running"
      <4>1. InOperation /\ last' = [last EXCEPT ![cur] = [last[cur] EXCEPT !.end = "lost"]]
        BY <1>13, <3>1 DEF Kill, InOperation
      <4>2. QED
        BY <1>r, <4>1
    <3>2. CASE pc # "running"
      BY <1>13, <1>s, <3>2 DEF Kill, DiskSound
    <3>3. QED
      BY <3>1, <3>2
  <2>2. disk' \in {disk, NoPackages, Unreadable}
    BY <1>13 DEF Kill, KilledWrites
  <2>3. disk' # Unreadable => Sound(disk', last')
    BY <2>1, <2>2, EmptySound
  <2>4. QED
    BY <1>13, <2>3, ExitSound DEF Kill, TruthInv, DiskSound
<1>14. QED
  BY <1>1, <1>2, <1>3, <1>4, <1>5, <1>6, <1>7, <1>8, <1>9, <1>10, <1>11, <1>12, <1>13
     DEF Next, Step

(* TruthInv holds in every reachable state.                                *)
THEOREM TruthInvariance == Spec => []TruthInv
<1>1. TypeInv /\ TruthInv /\ [Next]_vars => TruthInv'
  BY NextTruthInv
<1>2. QED
  BY <1>1, InitTruthInv, TypeInvariance, PTL DEF Spec

(* The registry on the disk never claims more than happened: an entry with *)
(* NoAction is of the version of the last command run for the application, *)
(* and that command ended well or was cut by a reboot. For any number of   *)
(* enables, kills, failed or cut saves, reboots and changed goals.         *)
THEOREM RegistryIsTruthful == Spec => []RegistryTruthful
<1>1. TruthInv => RegistryTruthful
  BY DEF TruthInv, DiskSound, Sound, Done, RegistryTruthful
<1>2. QED
  BY <1>1, TruthInvariance, PTL

=============================================================================
