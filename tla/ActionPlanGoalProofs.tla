------------------------ MODULE ActionPlanGoalProofs ------------------------
(***************************************************************************)
(* More proofs about ActionPlan, for every set of applications, versions,  *)
(* orders and desired collections: the order of the operations, what an    *)
(* enable leaves to do, how often a command is run under one goal, the     *)
(* package files of what is installed, and that the whole implements       *)
(* OperationLog.                                                           *)
(***************************************************************************)
EXTENDS ActionPlanProofs

-----------------------------------------------------------------------------
(* Why OrderHonoured holds. What is being executed is at the front of the  *)
(* plan (CurrentAtFront). Once an ordered operation failed, nothing of a   *)
(* lower order is left (LowerDone), so failedOrder only changes to itself, *)
(* and every ordered operation that failed or was skipped is at or above   *)
(* it (FailuresNoted): what may still run is not.                          *)
AtFront(a) ==
  /\ \A b \in Apps : Precedes(b, a) => plan[b] = << >>
  /\ ~MustSkip(a)

IdleIsEmpty ==
  pc = "idle" => cur = None /\ failedOrder = None /\ results = {} /\ plan = NoPlan

CurrentAtFront == cur # None => AtFront(cur)

LowerDone ==
  failedOrder # None =>
    \A b \in Apps : Ordered(b) /\ want[b].order < failedOrder => plan[b] = << >>

FailuresNoted ==
  \A r \in results : r.result # "ok" /\ Ordered(r.app) =>
    failedOrder # None /\ failedOrder <= want[r.app].order

OrderInv == IdleIsEmpty /\ CurrentAtFront /\ LowerDone /\ FailuresNoted

-----------------------------------------------------------------------------
LEMMA OrdersAreNumbers ==
  ASSUME TypeOK
  PROVE  /\ \A a \in Apps : Ordered(a) => want[a].order \in Nat
         /\ failedOrder # None => failedOrder \in Nat
<1>1. \A a \in Apps : Ordered(a) => want[a].order \in Orders
  BY OrderType
<1>2. QED
  BY <1>1, ConstantsAssumption DEF TypeOK

LEMMA CompletedOrder ==
  ASSUME TypeOK, LowerDone, FailuresNoted, want' = want,
         NEW a \in Apps, AtFront(a), plan[a] # << >>, NEW failed \in BOOLEAN, Completed(a, failed)
  PROVE  OrderInv'
<1> DEFINE rest == IF failed THEN << >> ELSE Tail(plan[a])
<1>1. /\ plan' = [plan EXCEPT ![a] = rest]
      /\ failedOrder' = IF failed /\ Ordered(a) THEN want[a].order ELSE failedOrder
      /\ cur' = IF rest = << >> THEN None ELSE a
      /\ results' = results \cup
           {[app |-> a, op |-> Head(plan[a]).op, result |-> IF failed THEN "failed" ELSE "ok"]}
      /\ pc' = "next"
  BY DEF Completed
<1>2. \A b \in Apps \ {a} : plan'[b] = plan[b]
  BY <1>1 DEF TypeOK
<1>n. /\ \A b \in Apps : Ordered(b) => want[b].order \in Nat
      /\ failedOrder # None => failedOrder \in Nat
  BY OrdersAreNumbers
<1>3. IdleIsEmpty'
  BY <1>1 DEF IdleIsEmpty
<1>4. CurrentAtFront'
  <2>1. SUFFICES ASSUME cur' # None PROVE AtFront(a)'
    BY <1>1 DEF CurrentAtFront
  <2>2. ~failed /\ failedOrder' = failedOrder
    BY <1>1, <2>1
  <2>3. ASSUME NEW b \in Apps, Precedes(b, a)' PROVE plan'[b] = << >>
    <3>1. Precedes(b, a)
      BY <2>3 DEF Precedes, Ordered, Uninstalled
    <3>2. b # a
      BY <3>1, <1>n DEF Precedes, Ordered, Uninstalled
    <3>3. QED
      BY <1>2, <3>1, <3>2 DEF AtFront
  <2>4. ~MustSkip(a)'
    BY <2>2 DEF AtFront, MustSkip, Ordered, Uninstalled
  <2>5. QED
    BY <2>3, <2>4 DEF AtFront
<1>5. LowerDone'
  <2>1. SUFFICES ASSUME failedOrder' # None, NEW b \in Apps,
                        Ordered(b), want[b].order < failedOrder'
                 PROVE  plan'[b] = << >>
    BY DEF LowerDone, Ordered, Uninstalled
  <2>2. CASE failed /\ Ordered(a)
    <3>1. Precedes(b, a) /\ b # a
      BY <1>1, <1>n, <2>1, <2>2 DEF Precedes
    <3>2. QED
      BY <1>2, <3>1 DEF AtFront
  <2>3. CASE ~(failed /\ Ordered(a))
    <3>1. plan[b] = << >>
      BY <1>1, <2>1, <2>3 DEF LowerDone
    <3>2. QED
      BY <1>2, <2>1, <2>3, <3>1
  <2>4. QED
    BY <2>2, <2>3
<1>5a. \A r \in results : r.result # "ok" /\ Ordered(r.app) =>
         failedOrder' # None /\ failedOrder' <= want[r.app].order
  <2>1. SUFFICES ASSUME NEW r \in results, r.result # "ok", Ordered(r.app)
                 PROVE  failedOrder' # None /\ failedOrder' <= want[r.app].order
    OBVIOUS
  <2>2. failedOrder # None /\ failedOrder <= want[r.app].order
    BY <2>1 DEF FailuresNoted
  <2>3. CASE failed /\ Ordered(a)
    <3>1. want[a].order <= failedOrder
      BY <1>n, <2>2, <2>3 DEF AtFront, MustSkip
    <3>2. want[r.app].order \in Nat /\ want[a].order # None
      BY <1>n, <2>1, <2>3 DEF TypeOK, Result, Ordered
    <3>3. QED
      BY <1>1, <1>n, <2>2, <2>3, <3>1, <3>2
  <2>4. CASE ~(failed /\ Ordered(a))
    BY <1>1, <2>2, <2>4
  <2>5. QED
    BY <2>3, <2>4
<1>6. FailuresNoted'
  <2>1. SUFFICES ASSUME NEW r \in results', r.result # "ok", Ordered(r.app)
                 PROVE  failedOrder' # None /\ failedOrder' <= want[r.app].order
    BY DEF FailuresNoted, Ordered, Uninstalled
  <2>2. CASE r \in results
    BY <1>5a, <2>1, <2>2
  <2>3. CASE r \notin results
    <3>1. r.app = a /\ failed
      BY <1>1, <2>1, <2>3
    <3>2. want[a].order # None
      BY <2>1, <3>1 DEF Ordered
    <3>3. QED
      BY <1>1, <1>n, <2>1, <3>1, <3>2
  <2>4. QED
    BY <2>2, <2>3
<1>7. QED
  BY <1>3, <1>4, <1>5, <1>6 DEF OrderInv

LEMMA InitOrderInv == Init => OrderInv
BY DEF Init, OrderInv, IdleIsEmpty, CurrentAtFront, LowerDone, FailuresNoted

LEMMA NextOrderInv == TypeInv /\ OrderInv /\ [Next]_vars => OrderInv'
<1> SUFFICES ASSUME TypeInv, OrderInv, [Next]_vars PROVE OrderInv'
  OBVIOUS
<1>t. TypeOK /\ OperationShape
  BY DEF TypeInv
<1>o. IdleIsEmpty /\ CurrentAtFront /\ LowerDone /\ FailuresNoted
  BY DEF OrderInv
<1> DEFINE ordering == <<want, plan, cur, failedOrder, results>>
<1>u. ASSUME UNCHANGED ordering, pc' # "idle" PROVE OrderInv'
  BY <1>o, <1>u DEF OrderInv, IdleIsEmpty, CurrentAtFront, LowerDone, FailuresNoted,
     AtFront, Precedes, MustSkip, Ordered, Uninstalled
<1>e. ASSUME Exit PROVE OrderInv'
  BY <1>e DEF Exit, OrderInv, IdleIsEmpty, CurrentAtFront, LowerDone, FailuresNoted
(* An operation that IsNext, and one that is executed, is at the front.    *)
<1>n. ASSUME NEW a \in Apps, IsNext(a), ~MustSkip(a)
      PROVE  AtFront(a) /\ plan[a] # << >>
  BY <1>n DEF AtFront, IsNext
<1>c. InOperation => cur \in Apps /\ AtFront(cur) /\ plan[cur] # << >>
  BY <1>t, <1>o, ConstantsAssumption DEF OperationShape, CurrentAtFront
<1>1. CASE UNCHANGED vars
  BY <1>o, <1>1 DEF vars, OrderInv, IdleIsEmpty, CurrentAtFront, LowerDone, FailuresNoted,
     AtFront, Precedes, MustSkip, Ordered, Uninstalled
<1>2. ASSUME NEW profile \in Profiles, ChangeProfile(profile) PROVE OrderInv'
  BY <1>o, <1>2 DEF ChangeProfile, process, OrderInv, IdleIsEmpty, CurrentAtFront,
     LowerDone, FailuresNoted
<1>3. CASE BeginEnable
  BY <1>3 DEF BeginEnable, OrderInv, IdleIsEmpty, CurrentAtFront, LowerDone, FailuresNoted
<1>4. ASSUME NEW a \in Apps, CleanUp(a) PROVE OrderInv'
  BY <1>t, <1>o, <1>n, <1>4, CompletedOrder DEF CleanUp
<1>5. ASSUME NEW a \in Apps, RecordOperation(a) PROVE OrderInv'
  <2>1. AtFront(a) /\ plan[a] # << >> /\ want' = want
    BY <1>n, <1>5 DEF RecordOperation
  <2>2. CASE pc' = "recorded" /\ cur' = a /\ UNCHANGED <<plan, failedOrder, results>>
    BY <1>o, <2>1, <2>2 DEF OrderInv, IdleIsEmpty, CurrentAtFront, LowerDone,
       FailuresNoted, AtFront, Precedes, MustSkip, Ordered, Uninstalled
  <2>3. CASE Completed(a, TRUE)
    BY <1>t, <1>o, <2>1, <2>3, CompletedOrder
  <2>4. QED
    BY <1>5, <2>2, <2>3 DEF RecordOperation
<1>6. ASSUME NEW a \in Apps, Skip(a) PROVE OrderInv'
  <2>1. /\ Ordered(a) /\ failedOrder # None /\ want[a].order > failedOrder
        /\ IsNext(a) /\ pc = "next"
    BY <1>6 DEF Skip, MustSkip
  <2>2. UNCHANGED <<want, pc, cur, failedOrder>>
    BY <1>6 DEF Skip
  <2>3. \A b \in Apps : plan[b] = << >> => plan'[b] = << >>
    BY <1>t, <1>6 DEF Skip, NoPlan, TypeOK
  <2>4. IdleIsEmpty' /\ LowerDone'
    BY <1>o, <2>1, <2>2, <2>3 DEF IdleIsEmpty, LowerDone, Ordered, Uninstalled
  <2>5. CurrentAtFront'
    BY <1>o, <2>2, <2>3 DEF CurrentAtFront, AtFront, Precedes, MustSkip, Ordered, Uninstalled
  <2>6. FailuresNoted'
    <3>1. results' = results \cup
            {[app |-> a, op |-> Head(plan[a]).op, result |-> "skipped"]}
      BY <1>6 DEF Skip
    <3>2. want[a].order \in Nat /\ failedOrder \in Nat
      BY <1>t, <2>1, OrdersAreNumbers
    <3>3. ASSUME NEW r \in results', r.result # "ok", Ordered(r.app)
          PROVE  failedOrder <= want[r.app].order
      <4>1. CASE r \in results
        BY <1>o, <3>3, <4>1 DEF FailuresNoted
      <4>2. CASE r \notin results
        BY <2>1, <3>1, <3>2, <4>2
      <4>3. QED
        BY <4>1, <4>2
    <3>4. QED
      BY <2>1, <2>2, <3>3 DEF FailuresNoted, Ordered, Uninstalled
  <2>7. QED
    BY <2>4, <2>5, <2>6 DEF OrderInv
<1>7. CASE RefuseCommand
  BY <1>u, <1>7 DEF RefuseCommand
<1>8. CASE StartCommand
  BY <1>u, <1>8 DEF StartCommand
<1>9. ASSUME NEW ok \in BOOLEAN, CommandEnds(ok) PROVE OrderInv'
  BY <1>u, <1>9 DEF CommandEnds
<1>10. CASE Reboot
  BY <1>e, <1>10 DEF Reboot
<1>11. CASE FinishOperation
  <2>1. InOperation /\ want' = want
    BY <1>11 DEF FinishOperation, InOperation
  <2>2. PICK failed \in BOOLEAN : Completed(cur, failed)
    <3>1. PICK cleaned \in BOOLEAN, notSaved \in BOOLEAN :
            Completed(cur, (err \/ ~cleaned) \/ notSaved)
      BY <1>11, ConstantsAssumption DEF FinishOperation
    <3>2. ((err \/ ~cleaned) \/ notSaved) \in BOOLEAN
      BY <1>t DEF TypeOK
    <3>3. QED
      BY <3>1, <3>2
  <2>3. QED
    BY <1>t, <1>o, <1>c, <2>1, <2>2, CompletedOrder
<1>12. CASE EndEnable
  BY <1>e, <1>12 DEF EndEnable
<1>13. CASE Kill
  BY <1>e, <1>13 DEF Kill
<1>14. QED
  BY <1>1, <1>2, <1>3, <1>4, <1>5, <1>6, <1>7, <1>8, <1>9, <1>10, <1>11, <1>12, <1>13
     DEF Next, Step

(* The inductive invariant of the loop over the orders: what is executed   *)
(* is at the front of the plan, and nothing below a failed order is left   *)
(* (actionplan.go:255-292).                                                *)
THEOREM OrderInvariance == Spec => []OrderInv
<1>1. TypeInv /\ OrderInv /\ [Next]_vars => OrderInv'
  BY NextOrderInv
<1>2. QED
  BY <1>1, InitOrderInv, TypeInvariance, PTL DEF Spec

(* While a command runs, every application that comes before it is settled: *)
(* uninstalls are through, and of the ordered ones none of a lower order is *)
(* left to do, failed or was skipped in this enable. For any number of     *)
(* applications and any orders.                                            *)
THEOREM OrderIsHonoured == Spec => []OrderHonoured
<1>1. TypeInv /\ OrderInv => OrderHonoured
  <2>1. SUFFICES ASSUME TypeInv, OrderInv, pc = "running",
                        NEW b \in Apps, Precedes(b, cur)
                 PROVE  /\ plan[b] = << >>
                        /\ Ordered(b) /\ Ordered(cur) =>
                             \A r \in results : r.app = b => r.result = "ok"
    BY DEF OrderHonoured
  <2>2. TypeOK /\ cur \in Apps /\ AtFront(cur) /\ FailuresNoted
    BY <2>1, ConstantsAssumption DEF TypeInv, OperationShape, InOperation, OrderInv,
       CurrentAtFront
  <2>3. plan[b] = << >>
    BY <2>1, <2>2 DEF AtFront
  <2>4. ASSUME Ordered(b), Ordered(cur), NEW r \in results, r.app = b, r.result # "ok"
        PROVE  FALSE
    <3>1. want[b].order < want[cur].order
      BY <2>1, <2>4 DEF Precedes, Ordered
    <3>2. failedOrder # None /\ failedOrder <= want[b].order
      BY <2>2, <2>4 DEF FailuresNoted
    <3>3. ~(want[cur].order > failedOrder)
      BY <2>2, <2>4, <3>2 DEF AtFront, MustSkip
    <3>4. {want[b].order, want[cur].order, failedOrder} \subseteq Nat
      BY <2>2, <2>4, <3>2, OrdersAreNumbers
    <3>5. QED
      BY <3>1, <3>2, <3>3, <3>4
  <2>5. QED
    BY <2>3, <2>4
<1>2. QED
  BY <1>1, TypeInvariance, OrderInvariance, PTL

-----------------------------------------------------------------------------
(* Why EnableSettles holds. As long as no save fails, an application whose *)
(* operations were not begun is planned for exactly what New would plan    *)
(* for its entry now, and one that is through has nothing left to plan     *)
(* (Standing): what is executed changes one entry only, and leaves it such *)
(* that New plans nothing. For that, the file and the registry in memory   *)
(* are the same but for a reboot count (Saved), and a group has one of     *)
(* three forms (Fits).                                                     *)
Fits(incoming, group) ==
  \/ group = << >>
  \/ /\ incoming = None /\ Tail(group) = << >>
     /\ Head(group).op \in {"Cleanup", "Remove"}
  \/ /\ incoming # None /\ Tail(group) = << >>
     /\ Head(group).op # "Cleanup"
     /\ Head(group).entry.version = incoming.version
  \/ /\ incoming # None /\ Tail(group) = << Installation(incoming) >>
     /\ Head(group).op = "RemoveForUpdate"

NoCleanup(reg) == \A a \in Apps : reg[a] # None => reg[a].op # "Cleanup"

PlanFits ==
  /\ disk # Unreadable => NoCleanup(disk)
  /\ NoCleanup(registry)
  /\ \A a \in Apps : Fits(want[a], plan[a])
  /\ InOperation => Head(plan[cur]).op # "Cleanup"

Saved ==
  diskFaults = 0 =>
    /\ disk # Unreadable
    /\ pc \in {"next", "recorded", "running"} => registry = disk
    /\ InOperation => disk[cur] = [Head(plan[cur]).entry EXCEPT !.op = Head(plan[cur]).op]
    /\ pc = "ended" => registry \in {disk, [disk EXCEPT ![cur].reboots = 0]}

Standing(a) ==
  plan[a] = Group(disk[a], want[a]) \/ (plan[a] = << >> /\ LeftUndone(a))

Pending ==
  diskFaults = 0 /\ pc # "idle" =>
    /\ \A a \in Apps \ {cur} : Standing(a)
    /\ pc = "next" /\ cur # None =>
         want[cur] # None /\ plan[cur] = << Installation(want[cur]) >>

PlanInv == PlanFits /\ Saved /\ Pending

-----------------------------------------------------------------------------
(* A save without a fault.                                                 *)
LEMMA FaultlessWrite ==
  ASSUME TypeOK, NEW new, NEW failed \in BOOLEAN, WriteToDisk(new, failed), diskFaults' = 0
  PROVE  disk' = new /\ ~failed /\ diskFaults = 0
<1>1. diskFaults \in Nat
  BY DEF TypeOK
<1>2. diskFaults' # diskFaults + 1
  BY <1>1
<1>3. QED
  BY <1>2 DEF WriteToDisk

LEMMA WriteNoCleanup ==
  ASSUME NEW new, NEW failed \in BOOLEAN, WriteToDisk(new, failed),
         disk # Unreadable => NoCleanup(disk), NoCleanup(new)
  PROVE  disk' # Unreadable => NoCleanup(disk')
<1>1. disk' \in {disk, new, NoPackages, Unreadable}
  BY DEF WriteToDisk, FaultyWrites
<1>2. NoCleanup(NoPackages)
  BY DEF NoCleanup, NoPackages
<1>3. QED
  BY <1>1, <1>2

LEMMA NoCleanupAfterEntry ==
  ASSUME NEW reg \in Registries, NEW a \in Apps, NEW entry, NoCleanup(reg),
         entry # None => entry.op # "Cleanup"
  PROVE  NoCleanup([reg EXCEPT ![a] = entry])
BY DEF NoCleanup, Registries

LEMMA InstallationFits ==
  ASSUME NEW incoming \in Incoming
  PROVE  Fits(incoming, << Installation(incoming) >>)
<1>1. incoming # None
  BY ConstantsAssumption
<1>2. Installation(incoming).op = "Install"
  BY DEF Installation, MakeAction
<1>3. Installation(incoming).entry.version = incoming.version
  BY DEF Installation, MakeAction, ToCurrent
<1>4. QED
  BY <1>1, <1>2, <1>3 DEF Fits

LEMMA GroupFits ==
  ASSUME NEW entry \in Entry \cup {None}, NEW incoming \in Incoming \cup {None},
         entry # None => entry.op # "Cleanup"
  PROVE  Fits(incoming, Group(entry, incoming))
<1>1. CASE incoming = None
  <2>1. CASE entry = None
    BY <1>1, <2>1 DEF Group, Fits
  <2>2. CASE entry # None
    <3>1. Group(entry, incoming) = UninstallGroup(entry)
      BY <1>1, <2>2 DEF Group
    <3>2. QED
      BY <1>1, <3>1 DEF UninstallGroup, MakeAction, Fits
  <2>3. QED
    BY <2>1, <2>2
<1>2. CASE incoming # None /\ entry = None
  <2>1. Group(entry, incoming) = << Installation(incoming) >>
    BY <1>2 DEF Group
  <2>2. QED
    BY <1>2, <2>1, InstallationFits
<1>3. CASE incoming # None /\ entry # None
  <2>1. CASE entry.version # incoming.version
    <3>1. Group(entry, incoming) = UpdateGroup(entry, incoming)
      BY <1>3, <2>1 DEF Group
    <3>2. CASE incoming.update
      <4>1. Group(entry, incoming) =
              << MakeAction(ToCurrent(incoming), "Update", incoming.treatFailure) >>
        BY <3>1, <3>2 DEF UpdateGroup
      <4>2. QED
        BY <1>3, <4>1 DEF MakeAction, ToCurrent, Fits
    <3>3. CASE ~incoming.update
      <4>1. Group(entry, incoming) =
              << MakeAction(entry, "RemoveForUpdate", FALSE), Installation(incoming) >>
        BY <3>1, <3>3 DEF UpdateGroup
      <4>2. QED
        BY <1>3, <4>1 DEF MakeAction, Fits
    <3>4. QED
      BY <3>2, <3>3
  <2>2. CASE entry.version = incoming.version
    <3>1. Group(entry, incoming) = SameVersionGroup(entry, incoming)
      BY <1>3, <2>2 DEF Group
    <3>2. CASE entry.reboots > 0
      <4>1. Group(entry, incoming) =
              << MakeAction(entry, entry.op, incoming.treatFailure) >>
        BY <3>1, <3>2 DEF SameVersionGroup, RetryGroup
      <4>2. QED
        BY <1>3, <2>2, <4>1 DEF MakeAction, Fits
    <3>3. CASE ~(entry.reboots > 0)
      <4>1. Group(entry, incoming) = << >>
        BY <3>1, <3>3 DEF SameVersionGroup
      <4>2. QED
        BY <4>1 DEF Fits
    <3>4. QED
      BY <3>2, <3>3
  <2>3. QED
    BY <2>1, <2>2
<1>4. QED
  BY <1>1, <1>2, <1>3

LEMMA TailFits ==
  ASSUME NEW incoming \in Incoming \cup {None}, NEW group, Fits(incoming, group)
  PROVE  group # << >> => Fits(incoming, Tail(group))
<1>1. CASE incoming # None
  BY <1>1, InstallationFits DEF Fits
<1>2. CASE incoming = None
  BY <1>2 DEF Fits
<1>3. QED
  BY <1>1, <1>2

(* Execute, after an operation of a: the plan of the others is as before.  *)
LEMMA CompletedFits ==
  ASSUME TypeOK, NEW a \in Apps, plan[a] # << >>, NEW failed \in BOOLEAN,
         Completed(a, failed), want' = want, \A b \in Apps : Fits(want[b], plan[b])
  PROVE  /\ \A b \in Apps : Fits(want[b], plan[b])'
         /\ \A b \in Apps \ {a} : plan'[b] = plan[b]
         /\ plan'[a] = IF failed THEN << >> ELSE Tail(plan[a])
<1>1. plan' = [plan EXCEPT ![a] = IF failed THEN << >> ELSE Tail(plan[a])]
  BY DEF Completed
<1>2. want[a] \in Incoming \cup {None}
  BY ConstantsAssumption DEF TypeOK
<1>3. Fits(want[a], << >>) /\ Fits(want[a], Tail(plan[a]))
  BY <1>2, TailFits DEF Fits
<1>4. ASSUME NEW b \in Apps PROVE Fits(want[b], plan'[b])
  BY <1>1, <1>3, <1>4 DEF TypeOK
<1>5. QED
  BY <1>1, <1>4 DEF TypeOK

LEMMA CompletedPending ==
  ASSUME TypeOK, NEW a \in Apps, plan[a] # << >>, NEW failed \in BOOLEAN,
         Completed(a, failed), want' = want, \A b \in Apps : Fits(want[b], plan[b]),
         \A b \in Apps \ {a} : Standing(b) /\ disk'[b] = disk[b],
         \/ failed
         \/ Group(disk'[a], want[a]) = << >>
         \/ Head(plan[a]).op = "Remove" /\ want[a] # None
         \/ Tail(plan[a]) # << >>
  PROVE  Pending'
<1> DEFINE rest == IF failed THEN << >> ELSE Tail(plan[a])
<1>1. /\ pc' = "next" /\ cur' = IF rest = << >> THEN None ELSE a
      /\ results' = results \cup {[app |-> a, op |-> Head(plan[a]).op,
                                    result |-> IF failed THEN "failed" ELSE "ok"]}
  BY DEF Completed
<1>2. plan'[a] = rest /\ \A b \in Apps \ {a} : plan'[b] = plan[b]
  BY CompletedFits
<1>3. ASSUME NEW b \in Apps \ {a} PROVE Standing(b)'
  <2>1. LeftUndone(b) => LeftUndone(b)'
    BY <1>1 DEF LeftUndone
  <2>2. QED
    BY <1>2, <2>1 DEF Standing
<1>4. rest # << >> => want[a] # None /\ rest = << Installation(want[a]) >>
  BY DEF Fits
<1>5. ASSUME rest = << >> PROVE Standing(a)'
  <2>1. CASE failed \/ (Head(plan[a]).op = "Remove" /\ want[a] # None)
    <3> DEFINE r == [app |-> a, op |-> Head(plan[a]).op,
                     result |-> IF failed THEN "failed" ELSE "ok"]
    <3>1. r \in results' /\ r.app = a
      BY <1>1
    <3>2. r.result # "ok" \/ (r.op = "Remove" /\ want'[a] # None)
      BY <2>1
    <3>3. LeftUndone(a)'
      BY <3>1, <3>2 DEF LeftUndone
    <3>4. QED
      BY <1>2, <1>5, <3>3 DEF Standing
  <2>2. CASE Group(disk'[a], want[a]) = << >>
    BY <1>2, <1>5, <2>2 DEF Standing
  <2>3. QED
    BY <1>5, <2>1, <2>2
<1>6. QED
  BY <1>1, <1>2, <1>3, <1>4, <1>5 DEF Pending

(* What the file says of the application whose operation is executed.      *)
LEMMA OperationEntry ==
  ASSUME TypeInv, Saved, InOperation, diskFaults = 0
  PROVE  /\ disk \in Registries /\ cur \in Apps
         /\ disk[cur] \in Entry /\ disk[cur] # None
         /\ Head(plan[cur]) \in Action /\ Head(plan[cur]).entry \in Entry
         /\ disk[cur] = [Head(plan[cur]).entry EXCEPT !.op = Head(plan[cur]).op]
         /\ disk[cur].op = Head(plan[cur]).op
         /\ disk[cur].version = Head(plan[cur]).entry.version
         /\ disk[cur].reboots = Head(plan[cur]).entry.reboots
         /\ disk[cur].rerun = Head(plan[cur]).entry.rerun
         /\ registry[cur].version = disk[cur].version
         /\ registry[cur].reboots \in {0, disk[cur].reboots}
         /\ \A b \in Apps \ {cur} : registry[b] = disk[b]
<1>1. cur \in Apps /\ plan[cur] # << >> /\ TypeOK
  BY DEF TypeInv, OperationShape
<1>2. disk \in Registries
  BY <1>1 DEF TypeOK, Saved
<1>3. Head(plan[cur]) \in Action
  BY <1>1 DEF TypeOK
<1>4. Head(plan[cur]).entry \in Entry
  BY <1>3 DEF Action
<1>5. disk[cur] = [Head(plan[cur]).entry EXCEPT !.op = Head(plan[cur]).op]
  BY DEF Saved
<1>6. /\ disk[cur].op = Head(plan[cur]).op
      /\ disk[cur].version = Head(plan[cur]).entry.version
      /\ disk[cur].reboots = Head(plan[cur]).entry.reboots
      /\ disk[cur].rerun = Head(plan[cur]).entry.rerun
  BY <1>4, <1>5 DEF Entry
<1>7. disk[cur] \in Entry /\ disk[cur] # None
  BY <1>3, <1>4, <1>5, EntryTypes DEF Action
<1>8. registry \in {disk, [disk EXCEPT ![cur].reboots = 0]}
  BY DEF Saved, InOperation
<1>9. /\ registry[cur].version = disk[cur].version
      /\ registry[cur].reboots \in {0, disk[cur].reboots}
      /\ \A b \in Apps \ {cur} : registry[b] = disk[b]
  BY <1>1, <1>2, <1>7, <1>8 DEF Registries, Entry
<1>10. QED
  BY <1>1, <1>2, <1>3, <1>4, <1>5, <1>6, <1>7, <1>9

(* After FinishOperation: an operation that succeeded leaves nothing to    *)
(* plan, except a remove of an application that is desired.                *)
LEMMA SettledAfterOperation ==
  ASSUME NEW entry \in Entry, entry # None, NEW incoming \in Incoming \cup {None},
         NEW group, Fits(incoming, group), group # << >>, Head(group).op # "Cleanup",
         entry.version = Head(group).entry.version, entry.reboots = 0
  PROVE  LET left == IF Head(group).op = "Remove" THEN None
                     ELSE [entry EXCEPT !.op = "NoAction"]
         IN \/ Group(left, incoming) = << >>
            \/ Head(group).op = "Remove" /\ incoming # None
            \/ Tail(group) # << >>
<1> DEFINE left == [entry EXCEPT !.op = "NoAction"]
<1>1. CASE Head(group).op = "Remove"
  BY <1>1 DEF Group
<1>2. CASE Head(group).op # "Remove" /\ Tail(group) = << >>
  <2>1. incoming # None /\ Head(group).entry.version = incoming.version
    <3>1. << Installation(incoming) >> # << >>
      OBVIOUS
    <3>2. QED
      BY <1>2, <3>1 DEF Fits
  <2>2. left # None /\ left.version = incoming.version /\ left.reboots = 0
    <3>1. "NoAction" \in Ops
      BY DEF Ops
    <3>2. left \in Entry
      BY <3>1, EntryTypes
    <3>3. QED
      BY <2>1, <3>2, EntryTypes DEF Entry
  <2>3. Group(left, incoming) = SameVersionGroup(left, incoming)
    BY <2>1, <2>2 DEF Group
  <2>4. SameVersionGroup(left, incoming) = << >>
    BY <2>2 DEF SameVersionGroup
  <2>5. QED
    BY <1>2, <2>3, <2>4
<1>3. QED
  BY <1>1, <1>2

-----------------------------------------------------------------------------
LEMMA InitPlanInv == Init => PlanInv
<1> SUFFICES ASSUME Init PROVE PlanInv
  OBVIOUS
<1>1. NoCleanup(NoPackages) /\ NoPackages # Unreadable
  BY ConstantsAssumption DEF NoCleanup, NoPackages
<1>2. \A a \in Apps : Fits(want[a], NoPlan[a])
  BY DEF NoPlan, Fits
<1>3. QED
  BY <1>1, <1>2 DEF Init, PlanInv, PlanFits, Saved, Pending, InOperation

LEMMA ExitPlan ==
  ASSUME Exit, disk' # Unreadable => NoCleanup(disk'), diskFaults' = 0 => disk' # Unreadable
  PROVE  PlanInv'
<1>1. NoCleanup(registry')
  BY DEF Exit, NoCleanup, NoPackages
<1>2. \A a \in Apps : Fits(want[a], plan[a])'
  BY DEF Exit, NoPlan, Fits
<1>3. pc' = "idle"
  BY DEF Exit
<1>4. PlanFits'
  BY <1>1, <1>2, <1>3 DEF PlanFits, InOperation, NoCleanup
<1>5. QED
  BY <1>3, <1>4 DEF PlanInv, Saved, Pending, InOperation

LEMMA NextPlanInv ==
  TypeInv /\ TruthInv /\ OrderInv /\ PlanInv /\ [Next]_vars => PlanInv'
<1> SUFFICES ASSUME TypeInv, TruthInv, OrderInv, PlanInv, [Next]_vars PROVE PlanInv'
  OBVIOUS
<1>t. TypeOK /\ OperationShape /\ RunningShape
  BY DEF TypeInv
<1>p. PlanFits /\ Saved /\ Pending
  BY DEF PlanInv
<1>o. IdleIsEmpty /\ CurrentAtFront
  BY DEF OrderInv
<1>w. want \in [Apps -> Incoming \cup {None}] /\ None \notin Apps
  BY <1>t, ConstantsAssumption DEF TypeOK
<1>c. /\ disk # Unreadable => NoCleanup(disk)
      /\ NoCleanup(registry)
      /\ \A a \in Apps : Fits(want[a], plan[a])
  BY <1>p DEF PlanFits
<1>r. InOperation =>
        /\ cur \in Apps /\ plan[cur] # << >> /\ Head(plan[cur]).op # "Cleanup"
        /\ registry[cur] \in Entry /\ registry[cur] # None
        /\ registry[cur].op = Head(plan[cur]).op
  BY <1>t, <1>p, EntryTypes DEF OperationShape, PlanFits
(* Between two operations every application but cur is as it was planned.  *)
<1>n. ASSUME NEW a \in Apps, pc = "next", IsNext(a), diskFaults = 0
      PROVE  (\A b \in Apps \ {a} : Standing(b)) /\ registry = disk
  BY <1>n, <1>p, <1>w DEF Pending, IsNext, Saved
<1>1. CASE UNCHANGED vars
  BY <1>p, <1>1 DEF vars, PlanInv, PlanFits, NoCleanup, Saved, Pending, Standing, LeftUndone,
     InOperation
<1>2. ASSUME NEW profile \in Profiles, ChangeProfile(profile) PROVE PlanInv'
  <2>1. /\ pc' = "idle" /\ plan' = NoPlan
        /\ UNCHANGED <<disk, registry, diskFaults>>
    BY <1>2, <1>o DEF ChangeProfile, process, IdleIsEmpty
  <2>2. \A a \in Apps : Fits(want[a], plan[a])'
    BY <2>1 DEF NoPlan, Fits
  <2>3. QED
    BY <1>c, <1>p, <2>1, <2>2 DEF PlanInv, PlanFits, NoCleanup, Saved, Pending, InOperation
<1>3. CASE BeginEnable
  <2>1. /\ disk \in Registries /\ disk # Unreadable /\ NoCleanup(disk)
        /\ disk' = disk /\ registry' = disk /\ want' = want
        /\ pc' = "next" /\ cur' = None
    BY <1>3, <1>t, <1>c DEF BeginEnable, TypeOK
  <2>2. ASSUME NEW a \in Apps
        PROVE  plan'[a] = Group(disk[a], want[a]) /\ Fits(want[a], plan'[a])
    <3>1. plan'[a] = Group(disk[a], want[a])
      BY <1>3 DEF BeginEnable, NewPlan
    <3>2. disk[a] \in Entry \cup {None} /\ want[a] \in Incoming \cup {None}
      BY <1>w, <2>1 DEF Registries
    <3>3. disk[a] # None => disk[a].op # "Cleanup"
      BY <2>1 DEF NoCleanup
    <3>4. QED
      BY <3>1, <3>2, <3>3, GroupFits
  <2>3. PlanFits'
    BY <2>1, <2>2 DEF PlanFits, NoCleanup, InOperation
  <2>4. QED
    BY <2>1, <2>2, <2>3 DEF PlanInv, Saved, Pending, Standing, InOperation
<1>4. ASSUME NEW a \in Apps, CleanUp(a) PROVE PlanInv'
  <2>1. /\ pc = "next" /\ IsNext(a) /\ plan[a] # << >> /\ Head(plan[a]).op = "Cleanup"
        /\ registry' = [registry EXCEPT ![a] = None] /\ want' = want
    BY <1>4 DEF CleanUp, IsNext
  <2>2. PICK failed \in BOOLEAN : WriteToDisk(registry', failed) /\ Completed(a, failed)
    BY <1>4 DEF CleanUp
  <2>3. pc' = "next"
    BY <2>2 DEF Completed
  <2>4. NoCleanup(registry')
    BY <1>t, <1>c, <2>1, NoCleanupAfterEntry DEF TypeOK
  <2>5. disk' # Unreadable => NoCleanup(disk')
    BY <1>c, <2>2, <2>4, WriteNoCleanup
  <2>6. PlanFits'
    <3>1. \A b \in Apps : Fits(want[b], plan[b])'
      BY <1>t, <1>c, <2>1, <2>2, CompletedFits
    <3>2. QED
      BY <2>3, <2>4, <2>5, <3>1 DEF PlanFits, NoCleanup, InOperation
  <2>7. ASSUME diskFaults' = 0 PROVE Saved' /\ Pending'
    <3>1. disk' = registry' /\ diskFaults = 0
      BY <1>t, <2>2, <2>7, FaultlessWrite
    <3>2. registry = disk /\ \A b \in Apps \ {a} : Standing(b)
      BY <1>n, <2>1, <3>1
    <3>3. registry' \in Registries /\ registry'[a] = None
          /\ \A b \in Apps \ {a} : registry'[b] = registry[b]
      BY <1>t, <2>1 DEF TypeOK, Registries
    <3>4. Group(disk'[a], want[a]) = << >>
      <4>1. want[a] = None
        BY <1>c, <2>1 DEF Fits
      <4>2. QED
        BY <3>1, <3>3, <4>1 DEF Group
    <3>5. Pending'
      BY <1>t, <1>c, <2>1, <2>2, <3>1, <3>2, <3>3, <3>4, CompletedPending
    <3>6. QED
      BY <2>3, <3>1, <3>3, <3>5, ConstantsAssumption DEF Saved, Registries, InOperation
  <2>8. QED
    BY <2>6, <2>7 DEF PlanInv, Saved, Pending
<1>5. ASSUME NEW a \in Apps, RecordOperation(a) PROVE PlanInv'
  <2> DEFINE act == Head(plan[a])
             entry == [act.entry EXCEPT !.op = act.op]
  <2>1. /\ pc = "next" /\ IsNext(a) /\ plan[a] # << >> /\ act.op # "Cleanup"
        /\ registry' = [registry EXCEPT ![a] = entry] /\ want' = want
    BY <1>5 DEF RecordOperation, IsNext
  <2>2. act \in Action
    BY <1>t, <2>1 DEF TypeOK
  <2>3. entry \in Entry /\ entry.op = act.op
    BY <2>2 DEF Action, Entry
  <2>4. NoCleanup(registry')
    BY <1>t, <1>c, <2>1, <2>3, NoCleanupAfterEntry DEF TypeOK
  <2>5. /\ registry' \in Registries /\ registry'[a] = entry
        /\ \A b \in Apps \ {a} : registry'[b] = registry[b]
    BY <1>t, <2>1, <2>3 DEF TypeOK, Registries
  <2>6. CASE /\ WriteToDisk(registry', FALSE)
             /\ pc' = "recorded" /\ cur' = a
             /\ UNCHANGED <<plan, results>>
    <3>1. disk' # Unreadable => NoCleanup(disk')
      BY <1>c, <2>4, <2>6, WriteNoCleanup
    <3>2. PlanFits'
      BY <1>c, <2>1, <2>4, <2>6, <3>1 DEF PlanFits, NoCleanup
    <3>3. ASSUME diskFaults' = 0 PROVE Saved' /\ Pending'
      <4>1. disk' = registry' /\ diskFaults = 0
        BY <1>t, <2>6, <3>3, FaultlessWrite
      <4>2. registry = disk /\ \A b \in Apps \ {a} : Standing(b)
        BY <1>n, <2>1, <4>1
      <4>3. \A b \in Apps \ {a} : Standing(b)'
        BY <2>1, <2>5, <2>6, <4>1, <4>2 DEF Standing, LeftUndone
      <4>4. QED
        BY <2>5, <2>6, <4>1, <4>3, ConstantsAssumption DEF Saved, Pending, Registries
    <3>4. QED
      BY <3>2, <3>3 DEF PlanInv, Saved, Pending
  <2>7. CASE WriteToDisk(registry', TRUE) /\ Completed(a, TRUE)
    <3>1. disk' # Unreadable => NoCleanup(disk')
      BY <1>c, <2>4, <2>7, WriteNoCleanup
    <3>2. \A b \in Apps : Fits(want[b], plan[b])'
      BY <1>t, <1>c, <2>1, <2>7, CompletedFits
    <3>3. pc' = "next"
      BY <2>7 DEF Completed
    <3>4. PlanFits'
      BY <2>4, <3>1, <3>2, <3>3 DEF PlanFits, NoCleanup, InOperation
    <3>5. diskFaults' # 0
      BY <1>t, <2>7, FaultlessWrite
    <3>6. QED
      BY <3>4, <3>5 DEF PlanInv, Saved, Pending
  <2>8. QED
    BY <1>5, <2>6, <2>7 DEF RecordOperation
<1>6. ASSUME NEW a \in Apps, Skip(a) PROVE PlanInv'
  <2> DEFINE act == Head(plan[a])
             entry == [act.entry EXCEPT !.op = "Skipped"]
             r == [app |-> a, op |-> act.op, result |-> "skipped"]
  <2>1. /\ pc = "next" /\ IsNext(a) /\ plan[a] # << >> /\ MustSkip(a)
        /\ registry' = [registry EXCEPT ![a] = entry]
        /\ results' = results \cup {r}
        /\ UNCHANGED <<want, pc, cur>>
    BY <1>6 DEF Skip, IsNext
  <2>2. PICK failed \in BOOLEAN :
          /\ WriteToDisk(registry', failed)
          /\ plan' = IF failed THEN NoPlan ELSE [plan EXCEPT ![a] = << >>]
    BY <1>6 DEF Skip
  <2>3. entry \in Entry /\ entry.op = "Skipped"
    <3>1. act \in Action
      BY <1>t, <2>1 DEF TypeOK
    <3>2. act.entry \in Entry
      BY <3>1 DEF Action
    <3>3. QED
      BY <3>2 DEF Entry, Ops
  <2>4. NoCleanup(registry')
    BY <1>t, <1>c, <2>1, <2>3, NoCleanupAfterEntry DEF TypeOK
  <2>5. disk' # Unreadable => NoCleanup(disk')
    BY <1>c, <2>2, <2>4, WriteNoCleanup
  <2>6. PlanFits'
    <3>1. \A b \in Apps : plan'[b] \in {plan[b], << >>}
      BY <1>t, <2>2 DEF TypeOK, NoPlan
    <3>2. \A b \in Apps : Fits(want[b], plan[b])'
      BY <1>c, <2>1, <3>1 DEF Fits
    <3>3. QED
      BY <2>1, <2>4, <2>5, <3>2 DEF PlanFits, NoCleanup, InOperation
  <2>7. ASSUME diskFaults' = 0 PROVE Saved' /\ Pending'
    <3>1. disk' = registry' /\ diskFaults = 0 /\ ~failed
      BY <1>t, <2>2, <2>7, FaultlessWrite
    <3>2. registry = disk /\ \A b \in Apps \ {a} : Standing(b)
      BY <1>n, <2>1, <3>1
    <3>3. cur = None
      BY <1>o, <2>1 DEF CurrentAtFront, AtFront, IsNext
    <3>4. /\ registry' \in Registries
          /\ \A b \in Apps \ {a} : registry'[b] = registry[b]
      BY <1>t, <2>1, <2>3 DEF TypeOK, Registries
    <3>5. /\ plan'[a] = << >>
          /\ \A b \in Apps \ {a} : plan'[b] = plan[b]
      BY <1>t, <2>2, <3>1 DEF TypeOK
    <3>6. \A b \in Apps \ {a} : Standing(b)'
      BY <2>1, <3>1, <3>2, <3>4, <3>5 DEF Standing, LeftUndone
    <3>7. Standing(a)'
      <4>1. r \in results' /\ r.app = a /\ r.result # "ok"
        BY <2>1
      <4>2. LeftUndone(a)'
        BY <4>1 DEF LeftUndone
      <4>3. QED
        BY <3>5, <4>2 DEF Standing
    <3>8. QED
      BY <2>1, <3>1, <3>3, <3>4, <3>6, <3>7, ConstantsAssumption
         DEF Saved, Pending, Registries, InOperation
  <2>8. QED
    BY <2>6, <2>7 DEF PlanInv, Saved, Pending
(* The steps in the middle of an operation: the plan stays, and what is    *)
(* saved.                                                                  *)
<1>m. ASSUME InOperation, InOperation', NoCleanup(registry'),
             UNCHANGED <<want, disk, plan, cur, results, diskFaults>>,
             diskFaults = 0 =>
               /\ pc' \in {"recorded", "running"} => registry' = disk
               /\ pc' = "ended" => registry' \in {disk, [disk EXCEPT ![cur].reboots = 0]}
      PROVE  PlanInv'
  <2>1. PlanFits'
    BY <1>p, <1>m DEF PlanFits, NoCleanup
  <2>2. Saved'
    BY <1>p, <1>m DEF Saved, InOperation
  <2>3. Pending'
    BY <1>p, <1>m DEF Pending, Standing, LeftUndone, InOperation
  <2>4. QED
    BY <2>1, <2>2, <2>3 DEF PlanInv
<1>7. CASE RefuseCommand
  <2>1. /\ InOperation /\ pc = "recorded" /\ pc' = "ended"
        /\ UNCHANGED <<want, disk, plan, cur, results, diskFaults>>
    BY <1>7 DEF RefuseCommand, InOperation
  <2>2. registry' \in {registry, [registry EXCEPT ![cur].reboots = 0]}
    <3>1. CASE registry[cur].reboots = MaxReboots
      BY <1>7, <3>1 DEF RefuseCommand
    <3>2. CASE registry[cur].reboots # MaxReboots
      <4>1. [registry EXCEPT ![cur].reboots = registry[cur].reboots] = registry
        BY <1>t, <1>r, <2>1 DEF TypeOK, Registries, Entry
      <4>2. QED
        BY <1>7, <3>2, <4>1 DEF RefuseCommand
    <3>3. QED
      BY <3>1, <3>2
  <2>3. NoCleanup(registry')
    <3>1. [registry[cur] EXCEPT !.reboots = 0].op # "Cleanup"
      BY <1>r, <2>1 DEF Entry
    <3>2. NoCleanup([registry EXCEPT ![cur].reboots = 0])
      BY <1>t, <1>c, <1>r, <2>1, <3>1, NoCleanupAfterEntry DEF TypeOK
    <3>3. QED
      BY <1>c, <2>2, <3>2
  <2>4. diskFaults = 0 => registry = disk
    BY <1>p, <2>1 DEF Saved
  <2>5. QED
    BY <1>m, <2>1, <2>2, <2>3, <2>4 DEF InOperation
<1>8. CASE StartCommand
  <2>1. /\ InOperation /\ pc = "recorded" /\ pc' = "running"
        /\ UNCHANGED <<want, disk, registry, plan, cur, results, diskFaults>>
    BY <1>8 DEF StartCommand, InOperation
  <2>2. diskFaults = 0 => registry = disk
    BY <1>p, <2>1 DEF Saved
  <2>3. QED
    BY <1>c, <1>m, <2>1, <2>2 DEF InOperation, NoCleanup
<1>9. ASSUME NEW ok \in BOOLEAN, CommandEnds(ok) PROVE PlanInv'
  <2>1. /\ InOperation /\ pc = "running" /\ pc' = "ended"
        /\ registry' = [registry EXCEPT ![cur].reboots = 0]
        /\ UNCHANGED <<want, disk, plan, cur, results, diskFaults>>
    BY <1>9 DEF CommandEnds, InOperation
  <2>2. NoCleanup(registry')
    <3>1. [registry[cur] EXCEPT !.reboots = 0].op # "Cleanup"
      BY <1>r, <2>1 DEF Entry
    <3>2. QED
      BY <1>t, <1>c, <1>r, <2>1, <3>1, NoCleanupAfterEntry DEF TypeOK
  <2>3. diskFaults = 0 => registry = disk
    BY <1>p, <2>1 DEF Saved
  <2>4. QED
    BY <1>m, <2>1, <2>2, <2>3 DEF InOperation
<1>10. CASE Reboot
  <2> DEFINE old == registry[cur]
             saved == IF old.rerun THEN [old EXCEPT !.reboots = @ + 1]
                      ELSE [old EXCEPT !.op = "NoAction"]
             new == [registry EXCEPT ![cur] = saved]
  <2>1. InOperation /\ old.reboots # MaxReboots
    BY <1>10, <1>t DEF Reboot, InOperation, RunningShape
  <2>2. saved \in Entry /\ saved.op # "Cleanup"
    BY <1>r, <2>1 DEF Entry, MaxReboots, Ops
  <2>3. new \in Registries /\ NoCleanup(new)
    <3>1. new \in Registries
      BY <1>t, <2>2 DEF TypeOK, Registries
    <3>2. NoCleanup(new)
      BY <1>t, <1>c, <1>r, <2>1, <2>2, NoCleanupAfterEntry DEF TypeOK
    <3>3. QED
      BY <3>1, <3>2
  <2>4. PICK failed \in BOOLEAN : WriteToDisk(new, failed)
    BY <1>10 DEF Reboot
  <2>5. disk' # Unreadable => NoCleanup(disk')
    BY <1>c, <2>3, <2>4, WriteNoCleanup
  <2>6. diskFaults' = 0 => disk' # Unreadable
    <3>1. new # Unreadable
      BY <2>3, ConstantsAssumption DEF Registries
    <3>2. QED
      BY <1>t, <2>4, <3>1, FaultlessWrite
  <2>7. QED
    BY <1>10, <2>5, <2>6, ExitPlan DEF Reboot
<1>11. CASE FinishOperation
  <2> DEFINE op == Head(plan[cur]).op
             entry == registry[cur]
  <2>1. InOperation /\ want' = want /\ pc = "ended"
    BY <1>11 DEF FinishOperation, InOperation
  <2>2. PICK cleaned \in BOOLEAN, notSaved \in BOOLEAN :
          /\ registry' = [registry EXCEPT ![cur] =
               IF op = "Remove" THEN None
               ELSE [entry EXCEPT !.op = IF err \/ ~cleaned THEN "Failed" ELSE "NoAction"]]
          /\ WriteToDisk(registry', notSaved)
          /\ Completed(cur, (err \/ ~cleaned) \/ notSaved)
    BY <1>11, ConstantsAssumption DEF FinishOperation
  <2>f. diskFaults' = 0 => disk' = registry' /\ diskFaults = 0
    <3>1. WriteToDisk(registry', notSaved)
      BY <2>2
    <3>2. QED
      BY <1>t, <3>1, FaultlessWrite
  <2> DEFINE failed == (err \/ ~cleaned) \/ notSaved
             left == IF op = "Remove" THEN None
                     ELSE [entry EXCEPT !.op = IF err \/ ~cleaned THEN "Failed" ELSE "NoAction"]
  <2>3. failed \in BOOLEAN /\ pc' = "next"
    BY <1>t, <2>2 DEF TypeOK, Completed
  <2>4. left # None => left \in Entry /\ left.op # "Cleanup"
    <3>1. \A o \in {"Failed", "NoAction"} :
            [entry EXCEPT !.op = o] \in Entry /\ [entry EXCEPT !.op = o].op = o
      BY <1>r, <2>1 DEF Entry, Ops
    <3>2. QED
      BY <3>1
  <2>5. NoCleanup(registry')
    BY <1>t, <1>c, <1>r, <2>1, <2>2, <2>4, NoCleanupAfterEntry DEF TypeOK
  <2>6. disk' # Unreadable => NoCleanup(disk')
    BY <1>c, <2>2, <2>5, WriteNoCleanup
  <2>7. PlanFits'
    <3>1. \A b \in Apps : Fits(want[b], plan[b])'
      BY <1>t, <1>c, <1>r, <2>1, <2>2, <2>3, CompletedFits
    <3>2. QED
      BY <2>3, <2>5, <2>6, <3>1 DEF PlanFits, NoCleanup, InOperation
  <2>8. ASSUME diskFaults' = 0 PROVE Saved' /\ Pending'
    <3>1. disk' = registry' /\ diskFaults = 0
      BY <2>f, <2>8
    <3>2. /\ entry.version = Head(plan[cur]).entry.version
          /\ \A b \in Apps \ {cur} : registry[b] = disk[b]
      BY <1>p, <2>1, <3>1, OperationEntry
    <3>3. /\ registry' \in Registries /\ registry'[cur] = left
          /\ \A b \in Apps \ {cur} : registry'[b] = registry[b]
      BY <1>t, <1>r, <2>1, <2>2, <2>4 DEF TypeOK, Registries
    <3>4. \A b \in Apps \ {cur} : Standing(b) /\ disk'[b] = disk[b]
      BY <1>p, <2>1, <3>1, <3>2, <3>3 DEF Pending
    <3>5. ASSUME ~failed
          PROVE  \/ Group(disk'[cur], want[cur]) = << >>
                 \/ op = "Remove" /\ want[cur] # None
                 \/ Tail(plan[cur]) # << >>
      <4>1. entry.reboots = 0
        BY <2>1, <3>5 DEF TruthInv, EndedWell
      <4>2. want[cur] \in Incoming \cup {None} /\ Fits(want[cur], plan[cur])
        BY <1>w, <1>c, <1>r, <2>1
      <4>3. disk'[cur] = IF op = "Remove" THEN None ELSE [entry EXCEPT !.op = "NoAction"]
        BY <3>1, <3>3, <3>5
      <4>4. QED
        BY <1>r, <2>1, <3>2, <4>1, <4>2, <4>3, SettledAfterOperation
    <3>6. Pending'
      BY <1>t, <1>c, <1>r, <2>1, <2>2, <2>3, <3>4, <3>5, CompletedPending
    <3>7. QED
      BY <2>3, <3>1, <3>3, <3>6, ConstantsAssumption DEF Saved, Registries, InOperation
  <2>9. QED
    BY <2>7, <2>8 DEF PlanInv, Saved, Pending
<1>12. CASE EndEnable
  <2>1. disk' = disk /\ diskFaults' = diskFaults /\ Exit
    BY <1>12 DEF EndEnable
  <2>2. QED
    BY <1>c, <1>p, <2>1, ExitPlan DEF Saved
<1>13. CASE Kill
  <2>1. \/ disk' = disk /\ diskFaults' = diskFaults
        \/ disk' \in {disk, NoPackages, Unreadable} /\ diskFaults' # 0
    BY <1>13, <1>t DEF Kill, KilledWrites, TypeOK
  <2>2. disk' # Unreadable => NoCleanup(disk')
    BY <1>c, <2>1 DEF NoCleanup, NoPackages
  <2>3. diskFaults' = 0 => disk' # Unreadable
    BY <1>p, <2>1 DEF Saved
  <2>4. QED
    BY <1>13, <2>2, <2>3, ExitPlan DEF Kill
<1>14. QED
  BY <1>1, <1>2, <1>3, <1>4, <1>5, <1>6, <1>7, <1>8, <1>9, <1>10, <1>11, <1>12, <1>13
     DEF Next, Step

(* The inductive invariant between New and Execute: the plan of each       *)
(* application still fits its entry and its goal (actionplan.go:152-222).  *)
THEOREM PlanInvariance == Spec => []PlanInv
<1>1. TypeInv /\ TruthInv /\ OrderInv /\ PlanInv /\ [Next]_vars => PlanInv'
  BY NextPlanInv
<1>2. QED
  BY <1>1, InitPlanInv, TypeInvariance, TruthInvariance, OrderInvariance, PTL DEF Spec

(* An enable that Execute brought to its end has nothing left to do: New,  *)
(* called again, plans operations only for applications of which one       *)
(* failed or was skipped, and for those that were removed although they    *)
(* are desired. For any number of applications, with reboots, kills and    *)
(* changes of the goal in any earlier enable.                              *)
THEOREM EnablesSettle == Spec => []EnableSettles
<1>1. PlanInv => EnableSettles
  <2>1. SUFFICES ASSUME PlanInv, Executed, diskFaults = 0,
                        NEW a \in Apps, NewPlan(disk, want)[a] # << >>
                 PROVE  LeftUndone(a)
    BY DEF EnableSettles
  <2>2. Pending /\ pc = "next" /\ plan = NoPlan
    BY <2>1 DEF PlanInv, Executed
  <2>3. a # cur
    <3>1. SUFFICES ASSUME a = cur PROVE FALSE
      OBVIOUS
    <3>2. plan[cur] = << Installation(want[cur]) >>
      BY <2>1, <2>2, <3>1, ConstantsAssumption DEF Pending
    <3>3. plan[cur] = << >>
      BY <2>2, <3>1 DEF NoPlan
    <3>4. QED
      BY <3>2, <3>3
  <2>4. Standing(a)
    BY <2>1, <2>2, <2>3 DEF Pending
  <2>5. NewPlan(disk, want)[a] = Group(disk[a], want[a]) /\ plan[a] = << >>
    BY <2>2 DEF NewPlan, NoPlan
  <2>6. QED
    BY <2>1, <2>4, <2>5 DEF Standing
<1>2. QED
  BY <1>1, PlanInvariance, PTL

-----------------------------------------------------------------------------
(* Why a command is not run twice under one goal, and is cut at most       *)
(* MaxReboots times. As long as no save fails, an application for which an *)
(* install or update was started under its present goal has an entry of    *)
(* the desired version (AttemptOf): New plans nothing for it, or the same  *)
(* operation if the entry counts a reboot. Of the cuts under one goal none *)
(* is missing in the entry, and a command is not started at MaxReboots.    *)
Attempted(a) == last[a] # None /\ last[a].sameGoal /\ ~IsRemove(last[a].op)

AttemptOf(a) ==
  /\ Attempted(a) =>
       /\ want[a] # None /\ disk[a] # None
       /\ disk[a].version = want[a].version /\ ~IsRemove(disk[a].op)
       /\ disk[a].reboots > 0 => cuts[a] <= disk[a].reboots
  /\ cuts[a] > 0 => Attempted(a)
  /\ cuts[a] <= MaxReboots

Attempts ==
  diskFaults = 0 =>
    /\ \A a \in Apps : AttemptOf(a)
    /\ pc = "next" /\ cur # None => ~Attempted(cur)
    /\ InOperation /\ IsRemove(Head(plan[cur]).op) => ~Attempted(cur)
    /\ pc = "recorded" /\ Attempted(cur) => disk[cur].reboots > 0
    /\ pc = "running" /\ ~IsRemove(Head(plan[cur]).op) => cuts[cur] <= disk[cur].reboots

(* The command that runs, and that ended, is the one of the operation;     *)
(* otherwise the operation was refused.                                    *)
Answered ==
  /\ pc = "running" => last[cur].op = registry[cur].op /\ last[cur].sameGoal
  /\ pc = "ended" =>
       \/ last[cur] # None /\ last[cur].op = Head(plan[cur]).op
       \/ err /\ (diskFaults = 0 => ~CanRun(disk[cur]))

Base == TypeInv /\ TruthInv /\ OrderInv /\ PlanInv

LEMMA InitAnswered == Init => Answered
BY DEF Init, Answered

LEMMA NextAnswered == Base /\ Answered /\ [Next]_vars => Answered'
<1> SUFFICES ASSUME Base, Answered, [Next]_vars PROVE Answered'
  OBVIOUS
<1>t. TypeOK /\ OperationShape /\ RunningShape /\ Saved
  BY DEF Base, TypeInv, PlanInv
<1>e. ASSUME pc' \notin {"running", "ended"} PROVE Answered'
  BY <1>e DEF Answered
<1>1. CASE UNCHANGED vars
  BY <1>1 DEF vars, Answered, CanRun
<1>2. ASSUME NEW profile \in Profiles, ChangeProfile(profile) PROVE Answered'
  BY <1>e, <1>2 DEF ChangeProfile, process
<1>3. CASE BeginEnable
  BY <1>e, <1>3 DEF BeginEnable
<1>4. ASSUME NEW a \in Apps, CleanUp(a) PROVE Answered'
  BY <1>e, <1>4 DEF CleanUp, Completed
<1>5. ASSUME NEW a \in Apps, RecordOperation(a) PROVE Answered'
  BY <1>e, <1>5 DEF RecordOperation, Completed
<1>6. ASSUME NEW a \in Apps, Skip(a) PROVE Answered'
  BY <1>e, <1>6 DEF Skip
<1>7. CASE RefuseCommand
  <2>1. /\ pc = "recorded" /\ ~CanRun(registry[cur]) /\ pc' = "ended" /\ err' = TRUE
        /\ UNCHANGED <<disk, cur, diskFaults>>
    BY <1>7 DEF RefuseCommand
  <2>2. diskFaults = 0 => registry = disk
    BY <1>t, <2>1 DEF Saved
  <2>3. QED
    BY <2>1, <2>2 DEF Answered
<1>8. CASE StartCommand
  <2>1. /\ cur \in Apps /\ pc' = "running"
        /\ UNCHANGED <<cur, registry>>
        /\ last' = [last EXCEPT ![cur] =
             [op |-> registry[cur].op, version |-> registry[cur].version,
              end |-> "started", sameGoal |-> TRUE]]
    BY <1>8, <1>t DEF StartCommand, OperationShape, InOperation
  <2>2. last'[cur] = [op |-> registry[cur].op, version |-> registry[cur].version,
                      end |-> "started", sameGoal |-> TRUE]
    BY <1>t, <2>1 DEF TypeOK
  <2>3. QED
    BY <2>1, <2>2 DEF Answered
<1>9. ASSUME NEW ok \in BOOLEAN, CommandEnds(ok) PROVE Answered'
  <2>1. /\ pc = "running" /\ cur \in Apps /\ last[cur] \in Run
        /\ registry[cur].op = Head(plan[cur]).op
        /\ pc' = "ended" /\ UNCHANGED <<cur, plan>>
        /\ last' = [last EXCEPT ![cur].end = IF ok THEN "ok" ELSE "failed"]
    BY <1>9, <1>t DEF CommandEnds, OperationShape, RunningShape, InOperation
  <2>2. last'[cur] \in Run /\ last'[cur].op = last[cur].op
    BY <1>t, <2>1 DEF TypeOK, Run
  <2>3. last'[cur] # None
    BY <2>2, ConstantsAssumption
  <2>4. QED
    BY <2>1, <2>2, <2>3 DEF Answered
<1>10. CASE Reboot
  BY <1>e, <1>10 DEF Reboot, Exit
<1>11. CASE FinishOperation
  BY <1>e, <1>11 DEF FinishOperation, Completed
<1>12. CASE EndEnable
  BY <1>e, <1>12 DEF EndEnable, Exit
<1>13. CASE Kill
  BY <1>e, <1>13 DEF Kill, Exit
<1>14. QED
  BY <1>1, <1>2, <1>3, <1>4, <1>5, <1>6, <1>7, <1>8, <1>9, <1>10, <1>11, <1>12, <1>13
     DEF Next, Step

-----------------------------------------------------------------------------
(* The same version: New plans nothing, or the operation of the entry.     *)
LEMMA RetriedGroup ==
  ASSUME NEW entry \in Entry, NEW incoming, incoming # None,
         entry.version = incoming.version, Group(entry, incoming) # << >>
  PROVE  /\ entry.reboots > 0
         /\ Head(Group(entry, incoming)).op = entry.op
         /\ Head(Group(entry, incoming)).entry = entry
<1>1. Group(entry, incoming) = SameVersionGroup(entry, incoming)
  BY EntryTypes DEF Group
<1>2. entry.reboots > 0 /\ Group(entry, incoming) = RetryGroup(entry, incoming)
  BY <1>1 DEF SameVersionGroup
<1>3. QED
  BY <1>2 DEF RetryGroup, MakeAction

(* The operation that comes next for an application, when an install or    *)
(* update was started for it under this goal: the one in its entry.        *)
LEMMA NextAttempt ==
  ASSUME Base, Attempts, NEW a \in Apps, pc = "next", IsNext(a), diskFaults = 0
  PROVE  /\ disk \in Registries /\ disk = registry
         /\ Head(plan[a]) \in Action
         /\ Attempted(a) => /\ cur = None /\ disk[a] \in Entry
                            /\ disk[a].reboots > 0
                            /\ Head(plan[a]).op = disk[a].op
                            /\ Head(plan[a]).entry = disk[a]
<1>1. TypeOK /\ Saved /\ Pending
  BY DEF Base, TypeInv, PlanInv
<1>2. disk \in Registries /\ disk = registry
  BY <1>1 DEF TypeOK, Saved
<1>3. plan[a] # << >> /\ cur \in {None, a} /\ a # None
  BY ConstantsAssumption DEF IsNext
<1>4. Head(plan[a]) \in Action
  BY <1>1, <1>3 DEF TypeOK
<1>5. ASSUME Attempted(a)
      PROVE  /\ cur = None /\ disk[a] \in Entry /\ disk[a].reboots > 0
             /\ Head(plan[a]).op = disk[a].op
             /\ Head(plan[a]).entry = disk[a]
  <2>1. cur = None
    BY <1>3, <1>5 DEF Attempts
  <2>2. plan[a] = Group(disk[a], want[a])
    BY <1>1, <1>3, <2>1 DEF Pending, Standing
  <2>3. /\ want[a] # None /\ disk[a] \in Entry
        /\ disk[a].version = want[a].version
    BY <1>2, <1>5 DEF Attempts, AttemptOf, Registries
  <2>4. QED
    BY <1>3, <2>1, <2>2, <2>3, RetriedGroup
<1>6. QED
  BY <1>2, <1>4, <1>5

(* The operation that is executed installs the desired version, or is one  *)
(* of the removes.                                                         *)
LEMMA OperationGoal ==
  ASSUME Base, InOperation, diskFaults = 0, ~IsRemove(Head(plan[cur]).op)
  PROVE  /\ want[cur] # None /\ disk[cur].version = want[cur].version
         /\ Tail(plan[cur]) = << >>
<1>1. TypeInv /\ PlanFits /\ Saved /\ cur \in Apps /\ plan[cur] # << >>
  BY DEF Base, TypeInv, OperationShape, PlanInv
<1>2. disk[cur].version = Head(plan[cur]).entry.version
  BY <1>1, OperationEntry
<1>3. Head(plan[cur]).op # "Cleanup" /\ Fits(want[cur], plan[cur])
  BY <1>1 DEF PlanFits
<1>4. QED
  BY <1>1, <1>2, <1>3 DEF Fits, IsRemove

LEMMA InitAttempts == Init => Attempts
<1> SUFFICES ASSUME Init PROVE Attempts
  OBVIOUS
<1>1. \A a \in Apps : ~Attempted(a) /\ cuts[a] = 0
  BY DEF Init, Attempted
<1>2. QED
  BY <1>1 DEF Init, Attempts, AttemptOf, InOperation, MaxReboots

LEMMA NextAttempts == Base /\ Answered /\ Attempts /\ [Next]_vars => Attempts'
<1> SUFFICES ASSUME Base, Answered, Attempts, [Next]_vars, diskFaults' = 0
             PROVE  Attempts'
  BY DEF Attempts
<1>t. TypeOK /\ OperationShape /\ RunningShape /\ PlanFits /\ Saved
  BY DEF Base, TypeInv, PlanInv
<1>y. /\ last \in [Apps -> Run \cup {None}] /\ cuts \in [Apps -> Nat]
      /\ registry \in Registries /\ None \notin Run
  BY <1>t, ConstantsAssumption DEF TypeOK
<1>f. ASSUME diskFaults = 0
      PROVE  /\ \A a \in Apps : AttemptOf(a)
             /\ pc = "next" /\ cur # None => ~Attempted(cur)
             /\ InOperation /\ IsRemove(Head(plan[cur]).op) => ~Attempted(cur)
             /\ pc = "recorded" /\ Attempted(cur) => disk[cur].reboots > 0
             /\ pc = "running" /\ ~IsRemove(Head(plan[cur]).op) =>
                  cuts[cur] <= disk[cur].reboots
             /\ \A a \in Apps : ~Attempted(a) => cuts[a] = 0
  <2>1. \A a \in Apps : ~Attempted(a) => cuts[a] = 0
    BY <1>y, <1>f DEF Attempts, AttemptOf
  <2>2. QED
    BY <1>f, <2>1 DEF Attempts
(* An application that the step leaves alone.                              *)
<1>s. ASSUME NEW a \in Apps, AttemptOf(a),
             last'[a] = last[a], cuts'[a] = cuts[a], want'[a] = want[a], disk'[a] = disk[a]
      PROVE  AttemptOf(a)' /\ (Attempted(a)' <=> Attempted(a))
  BY <1>s DEF AttemptOf, Attempted
(* One without an attempt under this goal.                                 *)
<1>z. ASSUME NEW a \in Apps, cuts[a] = 0, ~Attempted(a), last'[a] = last[a], cuts'[a] = cuts[a]
      PROVE  AttemptOf(a)' /\ ~Attempted(a)'
  BY <1>z DEF AttemptOf, Attempted, MaxReboots
<1>o. InOperation =>
        /\ cur \in Apps /\ plan[cur] # << >> /\ registry[cur] \in Entry
        /\ registry[cur].op = Head(plan[cur]).op
  BY <1>t DEF OperationShape
<1>1. CASE UNCHANGED vars
  BY <1>f, <1>s, <1>1 DEF vars, Attempts, Attempted, InOperation
<1>2. ASSUME NEW profile \in Profiles, ChangeProfile(profile) PROVE Attempts'
  <2>1. pc' = "idle" /\ diskFaults = 0 /\ disk' = disk /\ want' = profile
    BY <1>2 DEF ChangeProfile, process
  <2>2. ASSUME NEW a \in Apps PROVE AttemptOf(a)'
    <3>1. CASE want'[a] = want[a]
      <4>1. last'[a] = last[a] /\ cuts'[a] = cuts[a]
        BY <1>2, <2>1, <3>1 DEF ChangeProfile
      <4>2. QED
        BY <1>f, <1>s, <2>1, <3>1, <4>1
    <3>2. CASE want'[a] # want[a]
      <4>1. cuts'[a] = 0
        BY <1>2, <2>1, <3>2 DEF ChangeProfile
      <4>2. ~Attempted(a)'
        <5>1. CASE last[a] = None
          BY <1>2, <2>1, <3>2, <5>1 DEF ChangeProfile, Attempted
        <5>2. CASE last[a] # None
          <6>1. last'[a] = [last[a] EXCEPT !.sameGoal = FALSE] /\ last[a] \in Run
            BY <1>2, <1>y, <2>1, <3>2, <5>2 DEF ChangeProfile
          <6>2. last'[a].sameGoal = FALSE
            BY <6>1 DEF Run
          <6>3. QED
            BY <6>2 DEF Attempted
        <5>3. QED
          BY <5>1, <5>2
      <4>3. QED
        BY <4>1, <4>2 DEF AttemptOf, MaxReboots
    <3>3. QED
      BY <3>1, <3>2
  <2>3. QED
    BY <2>1, <2>2 DEF Attempts, InOperation
<1>3. CASE BeginEnable
  <2>1. pc' = "next" /\ cur' = None /\ UNCHANGED <<want, disk, last, cuts, diskFaults>>
    BY <1>3 DEF BeginEnable
  <2>2. QED
    BY <1>f, <1>s, <2>1 DEF Attempts, InOperation
<1>4. ASSUME NEW a \in Apps, CleanUp(a) PROVE Attempts'
  <2>1. /\ pc = "next" /\ IsNext(a) /\ Head(plan[a]).op = "Cleanup" /\ plan[a] # << >>
        /\ registry' = [registry EXCEPT ![a] = None]
        /\ UNCHANGED <<want, last, cuts>>
    BY <1>4 DEF CleanUp, IsNext
  <2>2. PICK failed \in BOOLEAN : WriteToDisk(registry', failed) /\ Completed(a, failed)
    BY <1>4 DEF CleanUp
  <2>3. disk' = registry' /\ diskFaults = 0
    BY <1>t, <2>2, FaultlessWrite
  <2>4. registry = disk /\ \A b \in Apps \ {a} : disk'[b] = disk[b]
    BY <1>y, <2>1, <2>3, NextAttempt DEF Registries
  <2>5. want[a] = None
    BY <1>t, <2>1 DEF PlanFits, Fits
  <2>6. ~Attempted(a)
    BY <1>f, <2>3, <2>5 DEF AttemptOf
  <2>7. AttemptOf(a)' /\ ~Attempted(a)'
    BY <1>f, <1>z, <2>1, <2>3, <2>6
  <2>8. \A b \in Apps \ {a} : AttemptOf(b)'
    BY <1>f, <1>s, <2>1, <2>3, <2>4
  <2>9. pc' = "next" /\ cur' \in {None, a}
    BY <2>2 DEF Completed
  <2>10. QED
    BY <2>7, <2>8, <2>9 DEF Attempts, InOperation
<1>5. ASSUME NEW a \in Apps, RecordOperation(a) PROVE Attempts'
  <2> DEFINE act == Head(plan[a])
             entry == [act.entry EXCEPT !.op = act.op]
  <2>1. /\ pc = "next" /\ IsNext(a)
        /\ registry' = [registry EXCEPT ![a] = entry]
        /\ UNCHANGED <<want, last, cuts>>
    BY <1>5 DEF RecordOperation
  <2>2. /\ disk' = registry' /\ diskFaults = 0
        /\ pc' = "recorded" /\ cur' = a /\ plan' = plan
    <3>1. CASE WriteToDisk(registry', TRUE)
      BY <1>t, <3>1, FaultlessWrite
    <3>2. CASE /\ WriteToDisk(registry', FALSE)
               /\ pc' = "recorded" /\ cur' = a /\ plan' = plan
      BY <1>t, <3>2, FaultlessWrite
    <3>3. QED
      BY <1>5, <3>1, <3>2 DEF RecordOperation
  <2>3. /\ registry = disk
        /\ Attempted(a) => /\ disk[a] \in Entry /\ disk[a].reboots > 0
                           /\ act.op = disk[a].op /\ act.entry = disk[a]
    BY <2>1, <2>2, NextAttempt
  <2>4. disk'[a] = entry /\ \A b \in Apps \ {a} : disk'[b] = disk[b]
    BY <1>y, <2>1, <2>2, <2>3 DEF Registries
  <2>5. \A b \in Apps \ {a} : AttemptOf(b)'
    BY <1>f, <1>s, <2>1, <2>2, <2>4
  <2>6. CASE Attempted(a)
    <3>1. disk'[a] = disk[a]
      <4>1. entry = disk[a]
        BY <2>3, <2>6 DEF Entry
      <4>2. QED
        BY <2>4, <4>1
    <3>2. AttemptOf(a)' /\ ~IsRemove(act.op)
      BY <1>f, <1>s, <2>1, <2>2, <2>3, <2>6, <3>1 DEF AttemptOf
    <3>3. QED
      BY <2>2, <2>3, <2>5, <2>6, <3>1, <3>2 DEF Attempts
  <2>7. CASE ~Attempted(a)
    <3>1. AttemptOf(a)' /\ ~Attempted(a)'
      BY <1>f, <1>z, <2>1, <2>2, <2>7
    <3>2. QED
      BY <2>2, <2>5, <3>1 DEF Attempts
  <2>8. QED
    BY <2>6, <2>7
<1>6. ASSUME NEW a \in Apps, Skip(a) PROVE Attempts'
  <2> DEFINE act == Head(plan[a])
             entry == [act.entry EXCEPT !.op = "Skipped"]
  <2>1. /\ pc = "next" /\ IsNext(a) /\ MustSkip(a)
        /\ registry' = [registry EXCEPT ![a] = entry]
        /\ UNCHANGED <<want, pc, cur, last, cuts>>
    BY <1>6 DEF Skip
  <2>2. disk' = registry' /\ diskFaults = 0
    <3>1. PICK failed \in BOOLEAN : WriteToDisk(registry', failed)
      BY <1>6 DEF Skip
    <3>2. QED
      BY <1>t, <3>1, FaultlessWrite
  <2>3. /\ registry = disk
        /\ Attempted(a) => disk[a] \in Entry /\ act.entry = disk[a]
    BY <2>1, <2>2, NextAttempt
  <2>4. disk'[a] = entry /\ \A b \in Apps \ {a} : disk'[b] = disk[b]
    BY <1>y, <2>1, <2>2, <2>3 DEF Registries
  <2>5. cur = None
    BY <2>1 DEF Base, OrderInv, CurrentAtFront, AtFront, IsNext
  <2>6. \A b \in Apps \ {a} : AttemptOf(b)'
    BY <1>f, <1>s, <2>1, <2>2, <2>4
  <2>7. AttemptOf(a)'
    <3>1. CASE Attempted(a)
      <4>1. /\ entry \in Entry /\ entry.op = "Skipped"
            /\ entry.version = disk[a].version /\ entry.reboots = disk[a].reboots
        BY <2>3, <3>1 DEF Entry, Ops
      <4>2. disk'[a] # None
        BY <2>4, <4>1, EntryTypes
      <4>3. QED
        BY <1>f, <2>1, <2>2, <2>4, <3>1, <4>1, <4>2 DEF AttemptOf, Attempted, IsRemove
    <3>2. CASE ~Attempted(a)
      BY <1>f, <1>z, <2>1, <2>2, <3>2
    <3>3. QED
      BY <3>1, <3>2
  <2>8. QED
    BY <2>1, <2>5, <2>6, <2>7 DEF Attempts, InOperation
<1>7. CASE RefuseCommand
  <2>1. /\ pc = "recorded" /\ pc' = "ended" /\ InOperation
        /\ UNCHANGED <<want, disk, plan, cur, last, cuts, diskFaults>>
    BY <1>7 DEF RefuseCommand, InOperation
  <2>2. QED
    BY <1>f, <1>s, <2>1 DEF Attempts, Attempted, InOperation
<1>8. CASE StartCommand
  <2> DEFINE op == registry[cur].op
             run == [op |-> op, version |-> registry[cur].version,
                     end |-> "started", sameGoal |-> TRUE]
  <2>1. /\ pc = "recorded" /\ pc' = "running" /\ InOperation
        /\ last' = [last EXCEPT ![cur] = run]
        /\ UNCHANGED <<want, disk, registry, plan, cur, cuts, diskFaults>>
    BY <1>8 DEF StartCommand, InOperation
  <2>2. /\ cur \in Apps /\ op = Head(plan[cur]).op
        /\ last'[cur] = run /\ run # None
        /\ \A b \in Apps \ {cur} : last'[b] = last[b]
    <3>1. run \in Run
      BY <1>o, <2>1 DEF Run, Entry
    <3>2. QED
      BY <1>o, <1>y, <2>1, <3>1
  <2>3. \A b \in Apps \ {cur} : AttemptOf(b)'
    BY <1>f, <1>s, <2>1, <2>2
  <2>4. /\ disk[cur] \in Entry /\ disk[cur] # None /\ disk[cur].op = op
        /\ disk[cur].reboots \in Nat
    <3>1. disk[cur] \in Entry /\ disk[cur] # None /\ disk[cur].op = op
      BY <1>t, <2>1, <2>2, OperationEntry DEF Base
    <3>2. QED
      BY <3>1 DEF Entry, MaxReboots
  <2>5. CASE IsRemove(op)
    <3>1. ~Attempted(cur)' /\ cuts[cur] = 0
      BY <1>f, <2>1, <2>2, <2>5 DEF Attempted
    <3>2. AttemptOf(cur)'
      BY <2>1, <3>1 DEF AttemptOf, MaxReboots
    <3>3. QED
      BY <2>1, <2>2, <2>3, <2>5, <3>1, <3>2 DEF Attempts
  <2>6. CASE ~IsRemove(op)
    <3>1. want[cur] # None /\ disk[cur].version = want[cur].version
      BY <2>1, <2>2, <2>6, OperationGoal
    <3>2. cuts[cur] <= disk[cur].reboots /\ cuts[cur] <= MaxReboots
      <4>1. CASE Attempted(cur)
        BY <1>f, <2>1, <2>2, <4>1 DEF AttemptOf
      <4>2. CASE ~Attempted(cur)
        BY <1>f, <2>1, <2>2, <2>4, <4>2 DEF MaxReboots
      <4>3. QED
        BY <4>1, <4>2
    <3>3. Attempted(cur)'
      BY <2>1, <2>2, <2>6 DEF Attempted
    <3>4. AttemptOf(cur)'
      BY <2>1, <2>4, <2>6, <3>1, <3>2, <3>3 DEF AttemptOf
    <3>5. QED
      BY <2>1, <2>2, <2>3, <2>6, <3>2, <3>4 DEF Attempts, InOperation
  <2>7. QED
    BY <2>5, <2>6
(* The end of a command and a kill: the run is the same but for its end.   *)
<1>e. ASSUME InOperation, NEW o \in {"ok", "failed", "lost", "cut"}, last[cur] \in Run,
             last' = [last EXCEPT ![cur].end = o]
      PROVE  /\ \A b \in Apps : Attempted(b)' <=> Attempted(b)
             /\ \A b \in Apps \ {cur} : last'[b] = last[b]
  <2>1. /\ last'[cur] \in Run /\ last'[cur].op = last[cur].op
        /\ last'[cur].sameGoal = last[cur].sameGoal
        /\ \A b \in Apps \ {cur} : last'[b] = last[b]
    BY <1>e, <1>o, <1>y DEF Run
  <2>2. last'[cur] # None /\ last[cur] # None
    BY <1>e, <1>y, <2>1
  <2>3. QED
    BY <2>1, <2>2 DEF Attempted
<1>9. ASSUME NEW ok \in BOOLEAN, CommandEnds(ok) PROVE Attempts'
  <2>1. /\ pc = "running" /\ pc' = "ended" /\ InOperation
        /\ UNCHANGED <<want, disk, plan, cur, cuts, diskFaults>>
        /\ last' = [last EXCEPT ![cur].end = IF ok THEN "ok" ELSE "failed"]
    BY <1>9 DEF CommandEnds, InOperation
  <2>2. \A b \in Apps : Attempted(b)' <=> Attempted(b)
    BY <1>e, <1>t, <2>1 DEF RunningShape
  <2>3. \A b \in Apps : AttemptOf(b)'
    BY <1>f, <2>1, <2>2 DEF AttemptOf
  <2>4. QED
    BY <1>f, <1>o, <2>1, <2>2, <2>3 DEF Attempts
<1>10. CASE Reboot
  <2> DEFINE old == registry[cur]
             saved == IF old.rerun THEN [old EXCEPT !.reboots = @ + 1]
                      ELSE [old EXCEPT !.op = "NoAction"]
             new == [registry EXCEPT ![cur] = saved]
  <2>1. /\ pc = "running" /\ pc' = "idle" /\ InOperation
        /\ old.reboots # MaxReboots /\ last[cur] \in Run
        /\ last' = [last EXCEPT ![cur].end = "cut"]
        /\ cuts' = IF IsRemove(old.op) THEN cuts ELSE [cuts EXCEPT ![cur] = @ + 1]
        /\ want' = want
    BY <1>10, <1>t DEF Reboot, RunningShape, InOperation, Exit
  <2>2. disk' = new /\ diskFaults = 0
    <3>1. PICK failed \in BOOLEAN : WriteToDisk(new, failed)
      BY <1>10 DEF Reboot
    <3>2. QED
      BY <1>t, <3>1, FaultlessWrite
  <2>3. /\ registry = disk /\ disk'[cur] = saved
        /\ \A b \in Apps \ {cur} : disk'[b] = disk[b]
    BY <1>t, <1>o, <1>y, <2>1, <2>2 DEF Saved, Registries
  <2>a. PICK a \in Apps : a = cur
    BY <1>o, <2>1
  <2>4. /\ \A b \in Apps : Attempted(b)' <=> Attempted(b)
        /\ \A b \in Apps \ {cur} : last'[b] = last[b]
    BY <1>e, <2>1
  <2>5. \A b \in Apps \ {cur} : AttemptOf(b)'
    <3>1. \A b \in Apps \ {cur} : cuts'[b] = cuts[b]
      BY <1>y, <2>1
    <3>2. QED
      BY <1>f, <1>s, <2>1, <2>2, <2>3, <2>4, <3>1
  <2>6. AttemptOf(a)'
    <3>1. CASE IsRemove(old.op)
      <4>1. ~Attempted(cur) /\ cuts[cur] = 0
        BY <1>f, <1>o, <2>1, <2>2, <3>1
      <4>2. ~Attempted(a)' /\ cuts'[cur] = 0
        BY <2>1, <2>4, <2>a, <3>1, <4>1
      <4>3. QED
        BY <2>a, <4>2 DEF AttemptOf, MaxReboots
    <3>2. CASE ~IsRemove(old.op)
      <4>1. Attempted(cur)
        BY <1>y, <2>1, <3>2 DEF Answered, Attempted
      <4>2. /\ want[cur] # None /\ old.version = want[cur].version
            /\ cuts[cur] <= old.reboots
        BY <1>f, <1>o, <2>1, <2>2, <2>3, <3>2, <4>1 DEF AttemptOf
      <4>3. old \in Entry /\ old.reboots \in 0..MaxReboots /\ cuts[cur] \in Nat
        BY <1>o, <1>y, <2>1 DEF Entry
      <4>4. cuts'[cur] = cuts[cur] + 1
        BY <1>o, <1>y, <2>1, <3>2
      <4>5. cuts'[cur] <= MaxReboots
        BY <2>1, <4>2, <4>3, <4>4 DEF MaxReboots
      <4>6. /\ saved \in Entry /\ saved.version = old.version /\ ~IsRemove(saved.op)
            /\ saved.reboots > 0 => cuts'[cur] <= saved.reboots
        <5>1. CASE old.rerun
          BY <2>1, <3>2, <4>2, <4>3, <4>4, <5>1 DEF Entry, MaxReboots
        <5>2. CASE ~old.rerun
          <6>1. old.reboots = 0
            <7>1. EntryOK(old)
              BY <1>o, <2>1, <4>3, EntryTypes DEF Base, TruthInv, RegistrySound, Sound
            <7>2. QED
              BY <4>3, <5>2, <7>1 DEF EntryOK, MaxReboots
          <6>2. QED
            BY <4>3, <5>2, <6>1 DEF Entry, Ops, IsRemove
        <5>3. QED
          BY <5>1, <5>2
      <4>7. saved # None
        BY <4>6, EntryTypes
      <4>8. QED
        BY <2>1, <2>3, <2>4, <2>a, <4>1, <4>2, <4>5, <4>6, <4>7 DEF AttemptOf
    <3>3. QED
      BY <3>1, <3>2
  <2>7. QED
    BY <2>1, <2>5, <2>6, <2>a DEF Attempts, InOperation
<1>11. CASE FinishOperation
  <2> DEFINE op == Head(plan[cur]).op
             entry == registry[cur]
  <2>1. InOperation /\ pc = "ended" /\ UNCHANGED <<want, last, cuts>>
    BY <1>11 DEF FinishOperation, InOperation
  <2>2. PICK cleaned \in BOOLEAN, notSaved \in BOOLEAN :
          /\ registry' = [registry EXCEPT ![cur] =
               IF op = "Remove" THEN None
               ELSE [entry EXCEPT !.op = IF err \/ ~cleaned THEN "Failed" ELSE "NoAction"]]
          /\ WriteToDisk(registry', notSaved)
          /\ Completed(cur, (err \/ ~cleaned) \/ notSaved)
    BY <1>11, ConstantsAssumption DEF FinishOperation
  <2>3. disk' = registry' /\ diskFaults = 0
    <3>1. WriteToDisk(registry', notSaved)
      BY <2>2
    <3>2. QED
      BY <1>t, <3>1, FaultlessWrite
  <2>4. /\ entry \in Entry
        /\ entry.version = disk[cur].version
        /\ entry.reboots \in {0, disk[cur].reboots}
        /\ \A b \in Apps \ {cur} : registry[b] = disk[b]
    BY <1>o, <1>t, <2>1, <2>3, OperationEntry DEF Base
  <2>5. /\ cur \in Apps /\ \A b \in Apps \ {cur} : disk'[b] = disk[b]
        /\ disk'[cur] = IF op = "Remove" THEN None
             ELSE [entry EXCEPT !.op = IF err \/ ~cleaned THEN "Failed" ELSE "NoAction"]
    BY <1>o, <1>y, <2>1, <2>2, <2>3, <2>4 DEF Registries
  <2>a. PICK a \in Apps : a = cur
    BY <2>5
  <2>6. \A b \in Apps \ {cur} : AttemptOf(b)'
    BY <1>f, <1>s, <2>1, <2>3, <2>5
  <2>7. pc' = "next" /\ cur' \in {None, cur}
        /\ (cur' = cur => Tail(plan[cur]) # << >> \/ cur = None)
    BY <2>2 DEF Completed
  <2>8. CASE IsRemove(op)
    <3>1. AttemptOf(a)' /\ ~Attempted(a)'
      BY <1>f, <1>z, <2>1, <2>3, <2>a, <2>8
    <3>2. QED
      BY <2>a, <2>6, <2>7, <3>1 DEF Attempts, InOperation
  <2>9. CASE ~IsRemove(op)
    <3>1. /\ want[cur] # None /\ disk[cur].version = want[cur].version
          /\ Tail(plan[cur]) = << >>
      BY <2>1, <2>3, <2>9, OperationGoal
    <3>2. cur' = None
      BY <1>y, <2>5, <2>7, <3>1
    <3>3. /\ disk'[cur] \in Entry /\ disk'[cur].op \in {"Failed", "NoAction"}
          /\ disk'[cur].version = disk[cur].version
          /\ disk'[cur].reboots \in {0, disk[cur].reboots}
      <4>1. disk'[cur] = [entry EXCEPT !.op = IF err \/ ~cleaned THEN "Failed" ELSE "NoAction"]
        BY <2>5, <2>9 DEF IsRemove
      <4>2. QED
        BY <2>4, <4>1 DEF Entry, Ops
    <3>4. AttemptOf(a)'
      <4>1. disk'[cur] # None /\ ~IsRemove(disk'[cur].op)
        BY <3>3, EntryTypes DEF IsRemove
      <4>2. AttemptOf(cur)
        BY <1>f, <2>3, <2>5
      <4>3. QED
        BY <2>1, <2>a, <3>1, <3>3, <4>1, <4>2 DEF AttemptOf, Attempted
    <3>5. QED
      BY <2>a, <2>6, <2>7, <3>2, <3>4 DEF Attempts, InOperation
  <2>10. QED
    BY <2>8, <2>9
<1>12. CASE EndEnable
  <2>1. pc' = "idle" /\ UNCHANGED <<want, disk, last, cuts, diskFaults>>
    BY <1>12 DEF EndEnable, Exit
  <2>2. QED
    BY <1>f, <1>s, <2>1 DEF Attempts, InOperation
<1>13. CASE Kill
  <2>1. pc' = "idle" /\ UNCHANGED <<want, disk, cuts, diskFaults>>
    BY <1>13, <1>t DEF Kill, Exit, TypeOK
  <2>2. \A b \in Apps : Attempted(b)' <=> Attempted(b)
    <3>1. CASE pc = "running"
      <4>1. InOperation /\ last[cur] \in Run /\ last' = [last EXCEPT ![cur].end = "lost"]
        BY <1>13, <1>t, <3>1 DEF Kill, InOperation, RunningShape
      <4>2. QED
        BY <1>e, <4>1
    <3>2. CASE pc # "running"
      BY <1>13, <3>2 DEF Kill, Attempted
    <3>3. QED
      BY <3>1, <3>2
  <2>3. \A b \in Apps : AttemptOf(b)'
    BY <1>f, <2>1, <2>2 DEF AttemptOf
  <2>4. QED
    BY <2>1, <2>3 DEF Attempts, InOperation
<1>14. QED
  BY <1>1, <1>2, <1>3, <1>4, <1>5, <1>6, <1>7, <1>8, <1>9, <1>10, <1>11, <1>12, <1>13
     DEF Next, Step

(* The invariants above together, and: a command that ended is the one of  *)
(* its operation, or the operation was refused (executehelper.go:56-77).   *)
THEOREM BaseInvariance == Spec => [](Base /\ Answered)
<1>1. Base /\ Answered /\ [Next]_vars => Answered'
  BY NextAnswered
<1>2. TypeInv /\ TruthInv /\ OrderInv /\ PlanInv => Base
  BY DEF Base
<1>3. QED
  BY <1>1, <1>2, InitAnswered, TypeInvariance, TruthInvariance, OrderInvariance,
     PlanInvariance, PTL DEF Spec

(* The inductive invariant of the reboot count: it has every cut under the *)
(* present goal (executehelper.go:72-77, 194-222).                         *)
THEOREM AttemptsInvariance == Spec => []Attempts
<1>1. Base /\ Answered /\ Attempts /\ [Next]_vars => Attempts'
  BY NextAttempts
<1>2. QED
  BY <1>1, InitAttempts, BaseInvariance, PTL DEF Spec

(* A command that keeps rebooting the machine is given up: under one goal  *)
(* an install or update is cut at most MaxReboots times, whatever the      *)
(* number of reboots and kills.                                            *)
THEOREM RebootsAreBounded == Spec => []RebootsBounded
<1>1. Attempts => RebootsBounded
  BY DEF Attempts, AttemptOf, RebootsBounded
<1>2. QED
  BY <1>1, AttemptsInvariance, PTL

(* While the goal of an application stays and the registry is not lost, an *)
(* install or update command without the Rerun behaviour is not started a  *)
(* second time, wherever the process was killed or the machine rebooted.   *)
THEOREM CommandsRunOnce == Spec => CommandRunsOnce
<1>1. ASSUME Base, Attempts, [Next]_vars, pc = "recorded", pc' = "running", diskFaults = 0,
             ~IsRemove(registry[cur].op), ~registry[cur].rerun,
             last[cur] # None, last[cur].sameGoal, last[cur].op = registry[cur].op
      PROVE  FALSE
  <2>1. InOperation /\ Attempted(cur)
    BY <1>1 DEF InOperation, Attempted
  <2>2. disk[cur].reboots > 0 /\ registry = disk
    BY <1>1, <2>1 DEF Attempts, Base, PlanInv, Saved
  <2>3. cur \in Apps /\ registry[cur] \in Entry
    BY <1>1, <2>1 DEF Base, TypeInv, OperationShape
  <2>4. EntryOK(registry[cur])
    BY <1>1, <2>3, EntryTypes DEF Base, TruthInv, RegistrySound, Sound
  <2>5. QED
    BY <1>1, <2>2, <2>4 DEF EntryOK
<1>2. Base /\ Attempts /\ [Next]_vars =>
        [ /\ pc = "recorded" /\ pc' = "running" /\ diskFaults = 0
          /\ ~IsRemove(registry[cur].op) /\ ~registry[cur].rerun
          /\ last[cur] # None /\ last[cur].sameGoal
          => ~ (/\ last[cur].op = registry[cur].op
                /\ last[cur].version = registry[cur].version) ]_vars
  BY <1>1
<1>3. QED
  BY <1>2, BaseInvariance, AttemptsInvariance, PTL DEF Spec, CommandRunsOnce

(* An application leaves the registry only after its remove command was    *)
(* run, or when its entry was Skipped or counts MaxReboots reboots.        *)
LEMMA DroppingStep ==
  ASSUME Base, Answered, [Next]_vars, diskFaults' = 0,
         NEW a \in Apps, disk[a] # None, disk'[a] = None
  PROVE  \/ last[a] # None /\ last[a].op = "Remove"
         \/ disk[a].op = "Skipped"
         \/ disk[a].reboots = MaxReboots
<1>t. TypeOK /\ OperationShape /\ RunningShape /\ Saved /\ registry \in Registries
  BY DEF Base, TypeInv, PlanInv, TypeOK
<1>e. ASSUME NEW b \in Apps, NEW entry \in Entry,
             diskFaults = 0, disk' = [registry EXCEPT ![b] = entry], registry = disk
      PROVE  FALSE
  BY <1>e, <1>t, EntryTypes DEF Registries
<1>1. CASE disk' = disk
  BY <1>1
<1>2. ASSUME NEW b \in Apps, CleanUp(b)
      PROVE  disk[a].op = "Skipped"
  <2>1. /\ pc = "next" /\ IsNext(b) /\ Head(plan[b]).op = "Cleanup" /\ plan[b] # << >>
        /\ registry' = [registry EXCEPT ![b] = None]
    BY <1>2 DEF CleanUp, IsNext
  <2>2. PICK failed \in BOOLEAN : WriteToDisk(registry', failed)
    BY <1>2 DEF CleanUp
  <2>3. disk' = registry' /\ diskFaults = 0 /\ registry = disk
    <3>1. disk' = registry' /\ diskFaults = 0
      BY <1>t, <2>2, FaultlessWrite
    <3>2. QED
      BY <1>t, <2>1, <3>1 DEF Saved
  <2>4. a = b
    BY <1>t, <2>1, <2>3 DEF Registries
  <2>5. cur = None
    <3>1. SUFFICES ASSUME cur = b PROVE FALSE
      BY <2>1 DEF IsNext
    <3>2. plan[b] = << Installation(want[b]) >>
      BY <2>1, <2>3, <3>1, ConstantsAssumption DEF Base, PlanInv, Pending
    <3>3. QED
      BY <2>1, <3>2 DEF Installation, MakeAction
  <2>6. want[a] = None
    BY <2>1, <2>4 DEF Base, PlanInv, PlanFits, Fits
  <2>7. plan[a] = Group(disk[a], want[a])
    BY <2>1, <2>3, <2>4, <2>5, ConstantsAssumption DEF Base, PlanInv, Pending, Standing
  <2>8. plan[a] = UninstallGroup(disk[a])
    BY <2>6, <2>7 DEF Group
  <2>9. QED
    BY <2>1, <2>4, <2>8 DEF UninstallGroup, MakeAction
<1>3. ASSUME NEW b \in Apps, RecordOperation(b) PROVE FALSE
  <2> DEFINE act == Head(plan[b])
             entry == [act.entry EXCEPT !.op = act.op]
  <2>1. plan[b] # << >> /\ pc = "next" /\ registry' = [registry EXCEPT ![b] = entry]
    BY <1>3 DEF RecordOperation, IsNext
  <2>2. act \in Action
    BY <1>t, <2>1 DEF TypeOK
  <2>3. entry \in Entry
    BY <2>2 DEF Action, Entry
  <2>4. PICK failed \in BOOLEAN : WriteToDisk(registry', failed)
    BY <1>3 DEF RecordOperation
  <2>5. disk' = registry' /\ diskFaults = 0
    BY <1>t, <2>4, FaultlessWrite
  <2>6. QED
    BY <1>e, <1>t, <2>1, <2>3, <2>5 DEF Saved
<1>4. ASSUME NEW b \in Apps, Skip(b) PROVE FALSE
  <2> DEFINE act == Head(plan[b])
             entry == [act.entry EXCEPT !.op = "Skipped"]
  <2>1. plan[b] # << >> /\ pc = "next" /\ registry' = [registry EXCEPT ![b] = entry]
    BY <1>4 DEF Skip, IsNext
  <2>2. act \in Action
    BY <1>t, <2>1 DEF TypeOK
  <2>3. act.entry \in Entry /\ "Skipped" \in Ops
    BY <2>2 DEF Action, Ops
  <2>4. entry \in Entry
    BY <2>3, EntryTypes
  <2>5. PICK failed \in BOOLEAN : WriteToDisk(registry', failed)
    BY <1>4 DEF Skip
  <2>6. disk' = registry' /\ diskFaults = 0
    BY <1>t, <2>5, FaultlessWrite
  <2>7. QED
    BY <1>e, <1>t, <2>1, <2>4, <2>6 DEF Saved
<1>5. CASE Reboot
  <2> DEFINE old == registry[cur]
             saved == IF old.rerun THEN [old EXCEPT !.reboots = @ + 1]
                      ELSE [old EXCEPT !.op = "NoAction"]
             new == [registry EXCEPT ![cur] = saved]
  <2>1. /\ pc = "running" /\ cur \in Apps /\ old \in Entry /\ old.reboots # MaxReboots
    BY <1>5, <1>t DEF Reboot, RunningShape, OperationShape, InOperation
  <2>2. saved \in Entry
    BY <2>1 DEF Entry, MaxReboots, Ops
  <2>3. PICK failed \in BOOLEAN : WriteToDisk(new, failed)
    BY <1>5 DEF Reboot
  <2>4. disk' = new /\ diskFaults = 0
    BY <1>t, <2>3, FaultlessWrite
  <2>5. QED
    BY <1>e, <1>t, <2>1, <2>2, <2>4 DEF Saved
<1>6. CASE FinishOperation
  <2> DEFINE op == Head(plan[cur]).op
  <2>1. InOperation /\ pc = "ended"
    BY <1>6 DEF FinishOperation, InOperation
  <2>2. PICK cleaned \in BOOLEAN, notSaved \in BOOLEAN :
          /\ registry' = [registry EXCEPT ![cur] =
               IF op = "Remove" THEN None
               ELSE [registry[cur] EXCEPT !.op = IF err \/ ~cleaned THEN "Failed" ELSE "NoAction"]]
          /\ WriteToDisk(registry', notSaved)
    BY <1>6, ConstantsAssumption DEF FinishOperation
  <2>3. disk' = registry' /\ diskFaults = 0
    <3>1. WriteToDisk(registry', notSaved)
      BY <2>2
    <3>2. QED
      BY <1>t, <3>1, FaultlessWrite
  <2>4. /\ cur \in Apps /\ registry[cur] \in Entry
        /\ disk[cur].op = op /\ disk[cur] \in Entry
        /\ \A b \in Apps \ {cur} : registry[b] = disk[b]
    BY <1>t, <2>1, <2>3, OperationEntry DEF Base, OperationShape
  <2>5. \A o \in {"Failed", "NoAction"} :
          [registry[cur] EXCEPT !.op = o] \in Entry /\ [registry[cur] EXCEPT !.op = o] # None
    <3>1. {"Failed", "NoAction"} \subseteq Ops
      BY DEF Ops
    <3>2. QED
      BY <2>4, <3>1, EntryTypes
  <2>6. a = cur /\ op = "Remove"
    <3>1. PICK left : registry' = [registry EXCEPT ![cur] = left] /\ (left = None => op = "Remove")
      BY <2>2, <2>5
    <3>2. \A b \in Apps \ {cur} : disk'[b] = disk[b]
      BY <1>t, <2>3, <2>4, <3>1 DEF Registries
    <3>3. disk'[cur] = left
      BY <1>t, <2>3, <2>4, <3>1 DEF Registries
    <3>4. QED
      BY <3>1, <3>2, <3>3
  <2>7. CASE last[cur] # None /\ last[cur].op = op
    BY <2>6, <2>7
  <2>8. CASE ~CanRun(disk[cur])
    BY <2>4, <2>6, <2>8 DEF CanRun, Commands
  <2>9. QED
    BY <2>1, <2>3, <2>7, <2>8 DEF Answered
<1>7. CASE Kill
  BY <1>7, <1>t DEF Kill, TypeOK
<1>8. CASE \/ UNCHANGED vars \/ BeginEnable \/ RefuseCommand \/ StartCommand \/ EndEnable
           \/ \E ok \in BOOLEAN : CommandEnds(ok)
           \/ \E profile \in Profiles : ChangeProfile(profile)
  <2>1. disk' = disk
    BY <1>8 DEF vars, BeginEnable, RefuseCommand, StartCommand, EndEnable, CommandEnds,
       ChangeProfile
  <2>2. QED
    BY <1>1, <2>1
<1>9. QED
  BY <1>2, <1>3, <1>4, <1>5, <1>6, <1>7, <1>8 DEF Next, Step

(* An application leaves the registry only after its remove command was    *)
(* run, or when its entry was Skipped or counts MaxReboots reboots: an     *)
(* action property, of every step while the registry is not lost.          *)
THEOREM DroppedWhenRemoved == Spec => DroppedOnlyWhenRemoved
<1>1. Base /\ Answered /\ [Next]_vars =>
        [ diskFaults' = 0 =>
            \A a \in Apps : disk[a] # None /\ disk'[a] = None =>
              \/ last[a] # None /\ last[a].op = "Remove"
              \/ disk[a].op = "Skipped"
              \/ disk[a].reboots = MaxReboots ]_vars
  BY DroppingStep
<1>2. QED
  BY <1>1, BaseInvariance, PTL DEF Spec, DroppedOnlyWhenRemoved

-----------------------------------------------------------------------------
(* Why InstalledHasFiles holds. After an install or update command was     *)
(* started without an error its package is there (HasPackage), and only    *)
(* such an operation, when its command succeeded, is recorded as NoAction  *)
(* with a command that is not a remove.                                    *)
FilesOf(a) ==
  /\ disk[a] # None /\ disk[a].op = "NoAction"
  /\ last[a].end = "ok" /\ ~IsRemove(last[a].op)
  => <<a, disk[a].version>> \in files

HasPackage ==
  pc \in {"running", "ended"} /\ ~err /\ ~IsRemove(Head(plan[cur]).op) =>
    <<cur, registry[cur].version>> \in files

Files == InstalledHasFiles /\ HasPackage

LEMMA InitFiles == Init => Files
BY DEF Init, Files, InstalledHasFiles, HasPackage, NoPackages

LEMMA NextHasPackage == Base /\ HasPackage /\ [Next]_vars => HasPackage'
<1> SUFFICES ASSUME Base, HasPackage, [Next]_vars PROVE HasPackage'
  OBVIOUS
<1>t. TypeOK /\ OperationShape /\ registry \in Registries
  BY DEF Base, TypeInv, TypeOK
<1>e. ASSUME pc' \notin {"running", "ended"} PROVE HasPackage'
  BY <1>e DEF HasPackage
<1>1. CASE UNCHANGED vars
  BY <1>1 DEF vars, HasPackage
<1>2. ASSUME NEW profile \in Profiles, ChangeProfile(profile) PROVE HasPackage'
  BY <1>e, <1>2 DEF ChangeProfile, process
<1>3. CASE BeginEnable
  BY <1>e, <1>3 DEF BeginEnable
<1>4. ASSUME NEW a \in Apps, CleanUp(a) PROVE HasPackage'
  BY <1>e, <1>4 DEF CleanUp, Completed
<1>5. ASSUME NEW a \in Apps, RecordOperation(a) PROVE HasPackage'
  BY <1>e, <1>5 DEF RecordOperation, Completed
<1>6. ASSUME NEW a \in Apps, Skip(a) PROVE HasPackage'
  BY <1>e, <1>6 DEF Skip
<1>7. CASE RefuseCommand
  BY <1>7 DEF RefuseCommand, HasPackage
<1>8. CASE StartCommand
  <2>1. registry[cur].op = Head(plan[cur]).op
    BY <1>8, <1>t DEF StartCommand, OperationShape, InOperation
  <2>2. QED
    BY <1>8, <2>1 DEF StartCommand, HasPackage
<1>9. ASSUME NEW ok \in BOOLEAN, CommandEnds(ok) PROVE HasPackage'
  <2>1. pc = "running" /\ cur \in Apps /\ registry[cur] \in Entry
    BY <1>9, <1>t DEF CommandEnds, OperationShape, InOperation
  <2>2. registry'[cur].version = registry[cur].version
    BY <1>9, <1>t, <2>1 DEF CommandEnds, Registries, Entry
  <2>3. (~err' => ~err) /\ UNCHANGED <<plan, cur, files>>
    BY <1>9, <1>t DEF CommandEnds, TypeOK
  <2>4. QED
    BY <2>1, <2>2, <2>3 DEF HasPackage
<1>10. CASE Reboot
  BY <1>e, <1>10 DEF Reboot, Exit
<1>11. CASE FinishOperation
  BY <1>e, <1>11 DEF FinishOperation, Completed
<1>12. CASE EndEnable
  BY <1>e, <1>12 DEF EndEnable, Exit
<1>13. CASE Kill
  BY <1>e, <1>13 DEF Kill, Exit
<1>14. QED
  BY <1>1, <1>2, <1>3, <1>4, <1>5, <1>6, <1>7, <1>8, <1>9, <1>10, <1>11, <1>12, <1>13
     DEF Next, Step

LEMMA NextInstalledHasFiles ==
  Base /\ Answered /\ Files /\ [Next]_vars => InstalledHasFiles'
<1> SUFFICES ASSUME Base, Answered, Files, [Next]_vars, diskFaults' = 0
             PROVE  \A a \in Apps : FilesOf(a)'
  BY DEF InstalledHasFiles, FilesOf
<1>t. TypeOK /\ OperationShape /\ RunningShape /\ Saved
  BY DEF Base, TypeInv, PlanInv
<1>y. last \in [Apps -> Run \cup {None}] /\ registry \in Registries /\ None \notin Run
  BY <1>t, ConstantsAssumption DEF TypeOK
<1>f. diskFaults = 0 => disk # Unreadable /\ \A a \in Apps : FilesOf(a)
  BY <1>t DEF Saved, Files, InstalledHasFiles, FilesOf
(* An application that the step leaves alone, and one whose entry is not   *)
(* of an operation that succeeded.                                         *)
<1>s. ASSUME NEW a \in Apps, FilesOf(a), disk'[a] = disk[a], last'[a] = last[a],
             \A v : <<a, v>> \in files => <<a, v>> \in files'
      PROVE  FilesOf(a)'
  BY <1>s DEF FilesOf
<1>z. ASSUME NEW a \in Apps,
             \/ disk'[a] = None \/ disk'[a].op # "NoAction"
             \/ last'[a].end # "ok" \/ IsRemove(last'[a].op)
      PROVE  FilesOf(a)'
  BY <1>z DEF FilesOf
<1>o. ASSUME InOperation, diskFaults = 0
      PROVE  /\ cur \in Apps /\ plan[cur] # << >> /\ registry[cur] \in Entry
             /\ registry[cur].op = Head(plan[cur]).op
             /\ disk[cur] # None /\ disk[cur].op # "NoAction"
             /\ registry[cur].version = disk[cur].version
             /\ \A b \in Apps \ {cur} : registry[b] = disk[b]
  BY <1>o, <1>t, <1>f, OperationEntry DEF OperationShape, Base, TruthInv, Recorded
(* One entry is saved, for an operation that is not done.                  *)
<1>w. ASSUME NEW a \in Apps, NEW entry, entry = None \/ entry.op # "NoAction",
             diskFaults = 0, disk' = [registry EXCEPT ![a] = entry], pc = "next",
             UNCHANGED <<files, last>>
      PROVE  \A b \in Apps : FilesOf(b)'
  <2>1. registry = disk
    BY <1>t, <1>w DEF Saved
  <2>2. disk'[a] = entry /\ \A b \in Apps \ {a} : disk'[b] = disk[b]
    BY <1>w, <1>y, <2>1 DEF Registries
  <2>3. \A b \in Apps \ {a} : FilesOf(b)'
    BY <1>f, <1>s, <1>w, <2>2
  <2>4. FilesOf(a)'
    BY <1>w, <1>z, <2>2
  <2>5. QED
    BY <2>3, <2>4
(* The command of cur starts, or ends, while its entry says so.            *)
<1>r. ASSUME InOperation, diskFaults = 0, UNCHANGED disk, NEW run,
             last' = [last EXCEPT ![cur] = run],
             \A b \in Apps \ {cur} : \A v : <<b, v>> \in files => <<b, v>> \in files'
      PROVE  \A b \in Apps : FilesOf(b)'
  <2>1. PICK a \in Apps : a = cur
    BY <1>o, <1>r
  <2>2. \A b \in Apps \ {a} : FilesOf(b)'
    BY <1>f, <1>r, <1>s, <1>y, <2>1
  <2>3. FilesOf(a)'
    BY <1>o, <1>r, <1>z, <2>1
  <2>4. QED
    BY <2>2, <2>3
<1>1. CASE UNCHANGED vars
  BY <1>f, <1>s, <1>1 DEF vars
<1>2. ASSUME NEW profile \in Profiles, ChangeProfile(profile), NEW a \in Apps
      PROVE  FilesOf(a)'
  <2>1. diskFaults = 0 /\ UNCHANGED <<disk, files>>
    BY <1>2 DEF ChangeProfile, process
  <2>2. CASE last'[a] = last[a]
    BY <1>f, <1>s, <2>1, <2>2
  <2>3. CASE last'[a] = [last[a] EXCEPT !.sameGoal = FALSE] /\ last[a] # None
    <3>1. last'[a].end = last[a].end /\ last'[a].op = last[a].op
      BY <1>y, <2>3 DEF Run
    <3>2. QED
      BY <1>f, <2>1, <3>1 DEF FilesOf
  <2>4. QED
    BY <1>2, <2>2, <2>3 DEF ChangeProfile
<1>3. CASE BeginEnable \/ EndEnable \/ RefuseCommand
  BY <1>f, <1>s, <1>3 DEF BeginEnable, EndEnable, RefuseCommand
<1>4. ASSUME NEW a \in Apps, CleanUp(a) PROVE \A b \in Apps : FilesOf(b)'
  <2>1. PICK failed \in BOOLEAN : WriteToDisk(registry', failed)
    BY <1>4 DEF CleanUp
  <2>2. disk' = registry' /\ diskFaults = 0
    BY <1>t, <2>1, FaultlessWrite
  <2>3. QED
    BY <1>4, <1>w, <2>2 DEF CleanUp
<1>5. ASSUME NEW a \in Apps, RecordOperation(a) PROVE \A b \in Apps : FilesOf(b)'
  <2> DEFINE act == Head(plan[a])
             entry == [act.entry EXCEPT !.op = act.op]
  <2>1. /\ plan[a] # << >> /\ pc = "next" /\ registry' = [registry EXCEPT ![a] = entry]
        /\ UNCHANGED <<files, last>>
    BY <1>5 DEF RecordOperation, IsNext
  <2>2. act \in Action /\ act.op # "NoAction"
    BY <2>1, HeadSound DEF Base, TruthInv
  <2>3. entry.op # "NoAction"
    BY <2>2 DEF Action, Entry
  <2>4. PICK failed \in BOOLEAN : WriteToDisk(registry', failed)
    BY <1>5 DEF RecordOperation
  <2>5. disk' = registry' /\ diskFaults = 0
    BY <1>t, <2>4, FaultlessWrite
  <2>6. QED
    BY <1>w, <2>1, <2>3, <2>5
<1>6. ASSUME NEW a \in Apps, Skip(a) PROVE \A b \in Apps : FilesOf(b)'
  <2> DEFINE act == Head(plan[a])
             entry == [act.entry EXCEPT !.op = "Skipped"]
  <2>1. /\ plan[a] # << >> /\ pc = "next" /\ registry' = [registry EXCEPT ![a] = entry]
        /\ UNCHANGED <<files, last>>
    BY <1>6 DEF Skip, IsNext
  <2>2. act \in Action
    BY <1>t, <2>1 DEF TypeOK
  <2>3. act.entry \in Entry
    BY <2>2 DEF Action
  <2>4. entry.op # "NoAction"
    BY <2>3 DEF Entry
  <2>5. PICK failed \in BOOLEAN : WriteToDisk(registry', failed)
    BY <1>6 DEF Skip
  <2>6. disk' = registry' /\ diskFaults = 0
    BY <1>t, <2>5, FaultlessWrite
  <2>7. QED
    BY <1>w, <2>1, <2>4, <2>6
<1>8. CASE StartCommand
  <2>1. /\ InOperation /\ diskFaults = 0 /\ disk' = disk
        /\ files' \in {files, files \cup {<<cur, registry[cur].version>>},
                       files \ {<<cur, registry[cur].version>>}}
    BY <1>8 DEF StartCommand, InOperation
  <2>2. PICK run : last' = [last EXCEPT ![cur] = run]
    BY <1>8 DEF StartCommand
  <2>3. QED
    BY <1>r, <2>1, <2>2
<1>9. ASSUME NEW ok \in BOOLEAN, CommandEnds(ok) PROVE \A b \in Apps : FilesOf(b)'
  <2>1. InOperation /\ diskFaults = 0 /\ disk' = disk /\ files' = files
    BY <1>9 DEF CommandEnds, InOperation
  <2>2. PICK run : last' = [last EXCEPT ![cur] = run]
    BY <1>9 DEF CommandEnds
  <2>3. QED
    BY <1>r, <2>1, <2>2
<1>10. CASE Reboot
  <2> DEFINE old == registry[cur]
             saved == IF old.rerun THEN [old EXCEPT !.reboots = @ + 1]
                      ELSE [old EXCEPT !.op = "NoAction"]
             new == [registry EXCEPT ![cur] = saved]
  <2>1. /\ InOperation /\ last[cur] \in Run
        /\ last' = [last EXCEPT ![cur].end = "cut"] /\ files' = files
    BY <1>10, <1>t DEF Reboot, RunningShape, InOperation
  <2>2. PICK failed \in BOOLEAN : WriteToDisk(new, failed)
    BY <1>10 DEF Reboot
  <2>3. disk' = new /\ diskFaults = 0
    BY <1>t, <2>2, FaultlessWrite
  <2>4. PICK a \in Apps : a = cur
    BY <1>o, <2>1, <2>3
  <2>5. /\ last'[a].end = "cut"
        /\ \A b \in Apps \ {a} : last'[b] = last[b] /\ disk'[b] = disk[b]
    BY <1>o, <1>y, <2>1, <2>3, <2>4 DEF Run, Registries
  <2>6. \A b \in Apps \ {a} : FilesOf(b)'
    BY <1>f, <1>s, <2>1, <2>3, <2>5
  <2>7. FilesOf(a)'
    BY <1>z, <2>5
  <2>8. QED
    BY <2>6, <2>7
<1>11. CASE FinishOperation
  <2> DEFINE op == Head(plan[cur]).op
             entry == registry[cur]
  <2>1. InOperation /\ pc = "ended" /\ last' = last
    BY <1>11 DEF FinishOperation, InOperation
  <2>2. PICK cleaned \in BOOLEAN, notSaved \in BOOLEAN :
          /\ files' = IF IsRemove(op) /\ cleaned THEN files \ {<<cur, entry.version>>}
                      ELSE files
          /\ registry' = [registry EXCEPT ![cur] =
               IF op = "Remove" THEN None
               ELSE [entry EXCEPT !.op = IF err \/ ~cleaned THEN "Failed" ELSE "NoAction"]]
          /\ WriteToDisk(registry', notSaved)
    BY <1>11, ConstantsAssumption DEF FinishOperation
  <2>3. disk' = registry' /\ diskFaults = 0
    <3>1. WriteToDisk(registry', notSaved)
      BY <2>2
    <3>2. QED
      BY <1>t, <3>1, FaultlessWrite
  <2>4. PICK a \in Apps : a = cur
    BY <1>o, <2>1, <2>3
  <2>5. /\ \A b \in Apps \ {a} : disk'[b] = disk[b]
        /\ disk'[a] = IF op = "Remove" THEN None
             ELSE [entry EXCEPT !.op = IF err \/ ~cleaned THEN "Failed" ELSE "NoAction"]
    BY <1>o, <1>y, <2>1, <2>2, <2>3, <2>4 DEF Registries
  <2>6. \A b \in Apps \ {a} : FilesOf(b)'
    <3>1. \A b \in Apps \ {a} : \A v : <<b, v>> \in files => <<b, v>> \in files'
      BY <2>2, <2>4
    <3>2. QED
      BY <1>f, <1>s, <2>1, <2>3, <2>5, <3>1
  <2>7. FilesOf(a)'
    <3>1. CASE op = "Remove"
      BY <1>z, <2>5, <3>1
    <3>2. CASE op # "Remove" /\ (err \/ ~cleaned)
      <4>1. disk'[a].op = "Failed"
        BY <1>o, <2>1, <2>3, <2>5, <3>2 DEF Entry
      <4>2. QED
        BY <1>z, <4>1
    <3>3. CASE op # "Remove" /\ ~err
      <4>1. last'[a].op = op
        BY <2>1, <2>4, <3>3 DEF Answered
      <4>2. CASE IsRemove(op)
        BY <1>z, <4>1, <4>2
      <4>3. CASE ~IsRemove(op)
        <5>1. <<a, entry.version>> \in files'
          BY <2>1, <2>2, <2>4, <3>3, <4>3 DEF Files, HasPackage
        <5>2. disk'[a].version = entry.version
          BY <1>o, <2>1, <2>3, <2>5, <3>3 DEF Entry
        <5>3. QED
          BY <5>1, <5>2 DEF FilesOf
      <4>4. QED
        BY <4>2, <4>3
    <3>4. QED
      BY <3>1, <3>2, <3>3
  <2>8. QED
    BY <2>6, <2>7
<1>13. CASE Kill
  <2>1. UNCHANGED <<disk, files, diskFaults>>
    BY <1>13, <1>t DEF Kill, TypeOK
  <2>2. CASE pc = "running"
    <3>1. InOperation /\ last' = [last EXCEPT ![cur] = [last[cur] EXCEPT !.end = "lost"]]
      BY <1>13, <2>2 DEF Kill, InOperation
    <3>2. QED
      BY <1>r, <2>1, <3>1
  <2>3. CASE pc # "running"
    BY <1>13, <1>f, <1>s, <2>1, <2>3 DEF Kill
  <2>4. QED
    BY <2>2, <2>3
<1>14. QED
  BY <1>1, <1>2, <1>3, <1>4, <1>5, <1>6, <1>8, <1>9, <1>10, <1>11, <1>13 DEF Next, Step

(* What is installed can be removed: while the registry is not lost, the   *)
(* package files of every application whose last command was an install or *)
(* update that succeeded are in the directory of the recorded version.     *)
THEOREM InstalledPackagesHaveFiles == Spec => []InstalledHasFiles
<1>1. Base /\ Answered /\ Files /\ [Next]_vars => Files'
  BY NextHasPackage, NextInstalledHasFiles DEF Files
<1>2. Files => InstalledHasFiles
  BY DEF Files
<1>3. QED
  BY <1>1, <1>2, InitFiles, BaseInvariance, PTL DEF Spec

-----------------------------------------------------------------------------
(* Why ImplementsLog holds. While a command runs its entry could run it,   *)
(* and when an operation ended, the command had the outcome that err has,  *)
(* or there was none to run, and the registry in memory differs from the   *)
(* file in the reboot count only (Logged).                                 *)
CountKept(entry) ==
  IF CanRun(entry) \/ entry.reboots = MaxReboots THEN 0 ELSE entry.reboots

Logged ==
  /\ pc = "running" => CanRun(registry[cur])
  /\ pc = "ended" /\ diskFaults = 0 =>
       /\ registry[cur] = [disk[cur] EXCEPT !.reboots = CountKept(disk[cur])]
       /\ CanRun(disk[cur]) => /\ last[cur].end \in {"ok", "failed"}
                               /\ err \/ last[cur].end = "ok"
       /\ ~CanRun(disk[cur]) => err

LEMMA InitLogged == Init => Logged
BY DEF Init, Logged

LEMMA NextLogged == Base /\ Answered /\ Logged /\ [Next]_vars => Logged'
<1> SUFFICES ASSUME Base, Answered, Logged, [Next]_vars PROVE Logged'
  OBVIOUS
<1>t. TypeOK /\ OperationShape /\ RunningShape /\ Saved /\ TypeInv
  BY DEF Base, TypeInv, PlanInv
<1>e. ASSUME pc' \notin {"running", "ended"} PROVE Logged'
  BY <1>e DEF Logged
(* The registry in memory, before an operation ends, is what is on disk.   *)
<1>d. ASSUME pc \in {"recorded", "running"}, diskFaults = 0
      PROVE  registry = disk /\ cur \in Apps /\ disk[cur] \in Entry /\ disk \in Registries
  <2>1. InOperation
    BY <1>d DEF InOperation
  <2>2. QED
    BY <1>t, <1>d, <2>1, OperationEntry DEF Saved
<1>1. CASE UNCHANGED vars
  BY <1>1 DEF vars, Logged, CanRun, CountKept
<1>2. ASSUME NEW profile \in Profiles, ChangeProfile(profile) PROVE Logged'
  BY <1>e, <1>2 DEF ChangeProfile, process
<1>3. CASE BeginEnable
  BY <1>e, <1>3 DEF BeginEnable
<1>4. ASSUME NEW a \in Apps, CleanUp(a) PROVE Logged'
  BY <1>e, <1>4 DEF CleanUp, Completed
<1>5. ASSUME NEW a \in Apps, RecordOperation(a) PROVE Logged'
  BY <1>e, <1>5 DEF RecordOperation, Completed
<1>6. ASSUME NEW a \in Apps, Skip(a) PROVE Logged'
  BY <1>e, <1>6 DEF Skip
<1>7. CASE RefuseCommand
  <2>1. /\ pc = "recorded" /\ ~CanRun(registry[cur]) /\ pc' = "ended" /\ err' = TRUE
        /\ registry' = [registry EXCEPT ![cur].reboots = IF @ = MaxReboots THEN 0 ELSE @]
        /\ UNCHANGED <<disk, cur, diskFaults, last>>
    BY <1>7 DEF RefuseCommand
  <2>2. SUFFICES ASSUME diskFaults = 0
                 PROVE  /\ ~CanRun(disk[cur])
                        /\ registry'[cur] =
                             [disk[cur] EXCEPT !.reboots = CountKept(disk[cur])]
    BY <2>1 DEF Logged, CanRun, CountKept
  <2>3. registry = disk /\ cur \in Apps /\ disk[cur] \in Entry /\ disk \in Registries
    BY <1>d, <2>1, <2>2
  <2>4. registry'[cur] = [disk[cur] EXCEPT !.reboots = IF @ = MaxReboots THEN 0 ELSE @]
    BY <2>1, <2>3 DEF Registries
  <2>5. QED
    BY <2>1, <2>3, <2>4 DEF CountKept
<1>8. CASE StartCommand
  BY <1>8 DEF StartCommand, Logged, CanRun
<1>9. ASSUME NEW ok \in BOOLEAN, CommandEnds(ok) PROVE Logged'
  <2>1. /\ pc = "running" /\ pc' = "ended" /\ err' = (err \/ ~ok)
        /\ registry' = [registry EXCEPT ![cur].reboots = 0]
        /\ last' = [last EXCEPT ![cur].end = IF ok THEN "ok" ELSE "failed"]
        /\ UNCHANGED <<disk, cur, diskFaults>>
    BY <1>9 DEF CommandEnds
  <2>2. SUFFICES ASSUME diskFaults = 0
                 PROVE  /\ CanRun(disk[cur])
                        /\ registry'[cur] =
                             [disk[cur] EXCEPT !.reboots = CountKept(disk[cur])]
                        /\ last'[cur].end \in {"ok", "failed"}
                        /\ err' \/ last'[cur].end = "ok"
    BY <2>1 DEF Logged, CanRun, CountKept
  <2>3. registry = disk /\ cur \in Apps /\ disk[cur] \in Entry /\ disk \in Registries
    BY <1>d, <2>1, <2>2
  <2>4. CanRun(disk[cur])
    BY <2>1, <2>3 DEF Logged
  <2>5. registry'[cur] = [disk[cur] EXCEPT !.reboots = 0]
    BY <2>1, <2>3 DEF Registries
  <2>6. last'[cur].end = IF ok THEN "ok" ELSE "failed"
    <3>1. last[cur] \in Run /\ last \in [Apps -> Run \cup {None}]
      BY <1>t, <2>1 DEF RunningShape, TypeOK
    <3>2. QED
      BY <2>1, <2>3, <3>1 DEF Run
  <2>7. QED
    BY <2>1, <2>4, <2>5, <2>6 DEF CountKept
<1>10. CASE Reboot
  BY <1>e, <1>10 DEF Reboot, Exit
<1>11. CASE FinishOperation
  BY <1>e, <1>11 DEF FinishOperation, Completed
<1>12. CASE EndEnable
  BY <1>e, <1>12 DEF EndEnable, Exit
<1>13. CASE Kill
  BY <1>e, <1>13 DEF Kill, Exit
<1>14. QED
  BY <1>1, <1>2, <1>3, <1>4, <1>5, <1>6, <1>7, <1>8, <1>9, <1>10, <1>11, <1>12, <1>13
     DEF Next, Step

(* What New planned, at the moment it is executed: an operation that opens *)
(* an entry of the log.                                                    *)
LEMMA PlannedEntry ==
  ASSUME Base, NEW a \in Apps, pc = "next", IsNext(a), diskFaults = 0
  PROVE  LET act == Head(plan[a]) IN
         /\ disk \in Registries /\ registry = disk
         /\ act \in Action /\ act.op # "NoAction"
         /\ act.op = "Cleanup" => disk[a] # None /\ disk[a].op = "Skipped"
         /\ \/ act.entry.reboots = 0
            \/ disk[a] # None /\ act.entry = disk[a]
<1> DEFINE act == Head(plan[a])
<1>1. /\ TypeOK /\ Saved /\ Pending /\ PlanFits /\ PlanSound
      /\ plan[a] # << >> /\ cur \in {None, a} /\ a # None
  BY ConstantsAssumption DEF Base, TypeInv, TruthInv, PlanInv, IsNext
<1>2. disk \in Registries /\ registry = disk /\ NoCleanup(disk)
  BY <1>1 DEF TypeOK, Saved, PlanFits
<1>3. act \in Action /\ act.op # "NoAction"
  BY <1>1, HeadSound
<1>4. CASE cur = a
  <2>1. plan[a] = << Installation(want[a]) >>
    BY <1>1, <1>4 DEF Pending
  <2>2. QED
    BY <1>2, <1>3, <2>1 DEF Installation, MakeAction, ToCurrent
<1>5. CASE cur = None
  <2>1. plan[a] = Group(disk[a], want[a])
    BY <1>1, <1>5 DEF Pending, Standing
  <2>2. CASE disk[a] # None /\ want[a] = None
    BY <1>1, <1>2, <1>3, <2>1, <2>2 DEF Group, UninstallGroup, MakeAction
  <2>3. CASE disk[a] = None /\ want[a] # None
    BY <1>1, <1>2, <1>3, <2>1, <2>3 DEF Group, Installation, MakeAction, ToCurrent
  <2>4. CASE disk[a] # None /\ want[a] # None
    <3>1. CASE disk[a].version # want[a].version
      BY <1>1, <1>2, <1>3, <2>1, <2>4, <3>1 DEF Group, UpdateGroup, MakeAction, ToCurrent
    <3>2. CASE disk[a].version = want[a].version
      <4>1. act = MakeAction(disk[a], disk[a].op, want[a].treatFailure)
        BY <1>1, <2>1, <2>4, <3>2 DEF Group, SameVersionGroup, RetryGroup
      <4>2. QED
        BY <1>2, <1>3, <2>4, <4>1 DEF MakeAction, NoCleanup
    <3>3. QED
      BY <3>1, <3>2
  <2>5. CASE disk[a] = None /\ want[a] = None
    BY <1>1, <2>1, <2>5 DEF Group
  <2>6. QED
    BY <2>2, <2>3, <2>4, <2>5
<1>6. QED
  BY <1>1, <1>4, <1>5

(* A step that leaves file and operation alone is a stutter of the log.    *)
LEMMA SamePhase ==
  UNCHANGED <<disk, diskFaults, pc, cur, last>> =>
    UNCHANGED <<disk, IF OperationPhase = "idle" THEN None ELSE cur, OperationPhase,
                diskFaults > 0>>
BY DEF OperationPhase, CanRun

LEMMA LogStep ==
  Base /\ Answered /\ Logged /\ [Next]_vars =>
    [Log!LogNext]_<<disk, IF OperationPhase = "idle" THEN None ELSE cur, OperationPhase,
                    diskFaults > 0>>
<1> DEFINE app == IF OperationPhase = "idle" THEN None ELSE cur
           view == <<disk, app, OperationPhase, diskFaults > 0>>
<1> SUFFICES ASSUME Base, Answered, Logged, [Next]_vars PROVE Log!LogNext \/ UNCHANGED view
  OBVIOUS
<1>t. /\ TypeOK /\ OperationShape /\ RunningShape /\ TypeInv /\ PlanFits /\ Saved
      /\ diskFaults \in Nat
  BY DEF Base, TypeInv, PlanInv, TypeOK
(* From here on no save failed.                                            *)
<1>n. diskFaults' \in {diskFaults, diskFaults + 1}
  BY DEF Next, Step, vars, ChangeProfile, BeginEnable, CleanUp, RecordOperation, Skip,
     RefuseCommand, StartCommand, CommandEnds, Reboot, FinishOperation, EndEnable, Kill,
     WriteToDisk
<1>l. CASE diskFaults' > 0
  BY <1>l DEF Log!LogNext
<1>s. SUFFICES ASSUME diskFaults = 0, diskFaults' = 0
               PROVE  Log!LogNext \/ UNCHANGED view
  BY <1>t, <1>n, <1>l
<1>p. /\ pc \in {"idle", "next"} => OperationPhase = "idle"
      /\ pc \in {"recorded", "running"} => OperationPhase = pc
      /\ pc = "ended" =>
           OperationPhase = IF CanRun(disk[cur]) THEN last[cur].end ELSE "refused"
  BY <1>s DEF OperationPhase
<1>q. /\ pc' \in {"idle", "next"} => OperationPhase' = "idle"
      /\ pc' \in {"recorded", "running"} => OperationPhase' = pc'
      /\ pc' = "ended" =>
           OperationPhase' = IF CanRun(disk'[cur']) THEN last'[cur'].end ELSE "refused"
  BY <1>s DEF OperationPhase, CanRun
<1>i. InOperation =>
        /\ disk \in Registries /\ cur \in Apps /\ disk[cur] \in Entry
        /\ OperationPhase # "idle" /\ app = cur
  <2>1. SUFFICES ASSUME InOperation
                 PROVE  /\ disk \in Registries /\ cur \in Apps /\ disk[cur] \in Entry
                        /\ OperationPhase # "idle"
    OBVIOUS
  <2>2. OperationPhase # "idle"
    BY <1>s, <1>p, <2>1 DEF InOperation, Logged
  <2>3. QED
    BY <1>t, <1>s, <2>1, <2>2, OperationEntry
<1>r. \A entry : Log!Runnable(entry) <=> CanRun(entry)
  BY DEF Log!Runnable, CanRun
<1>w. ASSUME NEW new, NEW failed \in BOOLEAN, WriteToDisk(new, failed)
      PROVE  disk' = new /\ ~failed
  BY <1>t, <1>s, <1>w, FaultlessWrite
<1>c. ASSUME NEW a \in Apps, NEW failed \in BOOLEAN, Completed(a, failed)
      PROVE  OperationPhase' = "idle" /\ app' = None
  BY <1>c, <1>q DEF Completed
<1>x. ASSUME Exit PROVE OperationPhase' = "idle" /\ app' = None
  BY <1>x, <1>q DEF Exit
<1>1. CASE UNCHANGED vars
  BY <1>1, SamePhase DEF vars
<1>2. ASSUME NEW profile \in Profiles, ChangeProfile(profile) PROVE UNCHANGED view
  BY <1>2, <1>s, <1>p, <1>q DEF ChangeProfile, process
<1>3. CASE BeginEnable
  BY <1>3, <1>s, <1>p, <1>q DEF BeginEnable
<1>4. ASSUME NEW a \in Apps, CleanUp(a) PROVE Log!LogNext
  <2>1. /\ pc = "next" /\ IsNext(a) /\ Head(plan[a]).op = "Cleanup"
        /\ registry' = [registry EXCEPT ![a] = None]
    BY <1>4 DEF CleanUp
  <2>2. PICK failed \in BOOLEAN : WriteToDisk(registry', failed) /\ Completed(a, failed)
    BY <1>4 DEF CleanUp
  <2>3. disk' = registry' /\ OperationPhase' = "idle" /\ app' = None
    BY <1>w, <1>c, <2>2
  <2>4. registry = disk /\ disk[a] # None /\ disk[a].op = "Skipped"
    BY <1>s, <2>1, PlannedEntry
  <2>5. Log!CleanUp(a)
    BY <1>p, <2>1, <2>3, <2>4 DEF Log!CleanUp
  <2>6. QED
    BY <1>s, <2>5 DEF Log!LogNext
<1>o. ASSUME NEW a \in Apps, pc = "next", IsNext(a), NEW op \in Ops
      PROVE  LET entry == [Head(plan[a]).entry EXCEPT !.op = op]
             IN /\ entry \in Entry /\ entry.op = op /\ Log!Opens(a, entry)
                /\ registry = disk
  <2> DEFINE act == Head(plan[a])
             entry == [act.entry EXCEPT !.op = op]
  <2>1. /\ act \in Action /\ registry = disk
        /\ act.entry.reboots = 0 \/ (disk[a] # None /\ act.entry = disk[a])
    BY <1>s, <1>o, PlannedEntry
  <2>2. act.entry \in Entry
    BY <2>1 DEF Action
  <2>3. entry \in Entry /\ entry.op = op /\ entry.reboots = act.entry.reboots
    BY <2>2, EntryTypes DEF Entry
  <2>4. Log!Opens(a, entry)
    BY <2>1, <2>3 DEF Log!Opens
  <2>5. QED
    BY <2>1, <2>3, <2>4
<1>5. ASSUME NEW a \in Apps, RecordOperation(a) PROVE Log!LogNext
  <2> DEFINE act == Head(plan[a])
             entry == [act.entry EXCEPT !.op = act.op]
  <2>1. /\ pc = "next" /\ IsNext(a) /\ act.op # "Cleanup"
        /\ registry' = [registry EXCEPT ![a] = entry]
    BY <1>5 DEF RecordOperation
  <2>2. act \in Action /\ act.op # "NoAction"
    BY <1>s, <2>1, PlannedEntry
  <2>3. act.op \in Ops
    BY <2>2 DEF Action
  <2>4. entry \in Entry /\ entry.op = act.op /\ Log!Opens(a, entry) /\ registry = disk
    BY <1>o, <2>1, <2>3
  <2>5. WriteToDisk(registry', FALSE) /\ pc' = "recorded" /\ cur' = a
    BY <1>5, <1>w DEF RecordOperation
  <2>6. disk' = [disk EXCEPT ![a] = entry]
    BY <1>w, <2>1, <2>4, <2>5
  <2>7. OperationPhase' = "recorded" /\ app' = a
    BY <1>q, <2>5
  <2>8. Log!Begin(a)
    BY <1>p, <2>1, <2>2, <2>4, <2>6, <2>7 DEF Log!Begin
  <2>9. QED
    BY <1>s, <2>8 DEF Log!LogNext
<1>6. ASSUME NEW a \in Apps, Skip(a) PROVE Log!LogNext
  <2> DEFINE entry == [Head(plan[a]).entry EXCEPT !.op = "Skipped"]
  <2>1. /\ pc = "next" /\ IsNext(a) /\ pc' = pc
        /\ registry' = [registry EXCEPT ![a] = entry]
    BY <1>6 DEF Skip
  <2>2. entry \in Entry /\ entry.op = "Skipped" /\ Log!Opens(a, entry) /\ registry = disk
    <3>1. "Skipped" \in Ops
      BY DEF Ops
    <3>2. QED
      BY <1>o, <2>1, <3>1
  <2>3. PICK failed \in BOOLEAN : WriteToDisk(registry', failed)
    BY <1>6 DEF Skip
  <2>4. disk' = [disk EXCEPT ![a] = entry]
    BY <1>w, <2>1, <2>2, <2>3
  <2>5. Log!Skip(a)
    <3>1. OperationPhase = "idle" /\ OperationPhase' = "idle"
      BY <1>p, <1>q, <2>1
    <3>2. UNCHANGED <<app, OperationPhase>>
      BY <3>1
    <3>3. QED
      BY <2>2, <2>4, <3>1, <3>2 DEF Log!Skip
  <2>6. QED
    BY <1>s, <2>5 DEF Log!LogNext
<1>7. CASE RefuseCommand
  <2>1. /\ pc = "recorded" /\ ~CanRun(registry[cur]) /\ pc' = "ended"
        /\ UNCHANGED <<disk, cur>>
    BY <1>7 DEF RefuseCommand
  <2>2. registry = disk /\ InOperation
    BY <1>s, <1>t, <2>1 DEF Saved, InOperation
  <2>3. ~CanRun(disk[cur]) /\ OperationPhase' = "refused" /\ app' = cur
    BY <1>q, <2>1, <2>2
  <2>4. Log!Refuse
    BY <1>p, <1>i, <1>r, <2>1, <2>2, <2>3 DEF Log!Refuse
  <2>5. QED
    BY <1>s, <2>4 DEF Log!LogNext
<1>8. CASE StartCommand
  <2>1. /\ pc = "recorded" /\ CanRun(registry[cur]) /\ pc' = "running"
        /\ UNCHANGED <<disk, cur>>
    BY <1>8 DEF StartCommand
  <2>2. registry = disk /\ InOperation
    BY <1>s, <1>t, <2>1 DEF Saved, InOperation
  <2>3. Log!Start
    BY <1>p, <1>q, <1>i, <1>r, <2>1, <2>2 DEF Log!Start
  <2>4. QED
    BY <1>s, <2>3 DEF Log!LogNext
<1>9. ASSUME NEW ok \in BOOLEAN, CommandEnds(ok) PROVE Log!LogNext
  <2>1. /\ pc = "running" /\ pc' = "ended" /\ UNCHANGED <<disk, cur>>
        /\ last' = [last EXCEPT ![cur].end = IF ok THEN "ok" ELSE "failed"]
    BY <1>9 DEF CommandEnds
  <2>2. registry = disk /\ InOperation
    BY <1>s, <1>t, <2>1 DEF Saved, InOperation
  <2>3. CanRun(disk[cur])
    BY <2>1, <2>2 DEF Logged
  <2>4. last'[cur].end \in {"ok", "failed"}
    <3>1. last[cur] \in Run /\ last \in [Apps -> Run \cup {None}]
      BY <1>t, <2>1 DEF RunningShape, TypeOK
    <3>2. QED
      BY <1>i, <2>1, <2>2, <3>1 DEF Run
  <2>5. OperationPhase' \in {"ok", "failed"} /\ app' = cur
    BY <1>q, <2>1, <2>3, <2>4
  <2>6. Log!End
    BY <1>p, <1>i, <2>1, <2>2, <2>5 DEF Log!End
  <2>7. QED
    BY <1>s, <2>6 DEF Log!LogNext
<1>10. CASE Reboot
  <2> DEFINE old == registry[cur]
             saved == IF old.rerun THEN [old EXCEPT !.reboots = @ + 1]
                      ELSE [old EXCEPT !.op = "NoAction"]
             new == [registry EXCEPT ![cur] = saved]
  <2>1. pc = "running" /\ Exit
    BY <1>10 DEF Reboot
  <2>2. PICK failed \in BOOLEAN : WriteToDisk(new, failed)
    BY <1>10 DEF Reboot
  <2>3. registry = disk /\ InOperation /\ disk' = new
    BY <1>s, <1>t, <1>w, <2>1, <2>2 DEF Saved, InOperation
  <2>4. disk' = [disk EXCEPT ![cur] = IF disk[cur].rerun
                                      THEN [disk[cur] EXCEPT !.reboots = @ + 1]
                                      ELSE [disk[cur] EXCEPT !.op = "NoAction"]]
    BY <2>3
  <2>5. Log!Cut
    BY <1>p, <1>i, <1>x, <2>1, <2>3, <2>4 DEF Log!Cut
  <2>6. QED
    BY <1>s, <2>5 DEF Log!LogNext
<1>11. CASE FinishOperation
  <2> DEFINE op == Head(plan[cur]).op
  <2>1. pc = "ended" /\ InOperation
    BY <1>11 DEF FinishOperation, InOperation
  <2>2. PICK cleaned \in BOOLEAN, notSaved \in BOOLEAN :
          /\ registry' = [registry EXCEPT ![cur] =
               IF op = "Remove" THEN None
               ELSE [registry[cur] EXCEPT !.op = IF err \/ ~cleaned THEN "Failed" ELSE "NoAction"]]
          /\ WriteToDisk(registry', notSaved)
          /\ Completed(cur, (err \/ ~cleaned) \/ notSaved)
    BY <1>11, ConstantsAssumption DEF FinishOperation
  <2> DEFINE outcome == IF err \/ ~cleaned THEN "Failed" ELSE "NoAction"
  <2>3. disk' = registry'
    <3>1. WriteToDisk(registry', notSaved)
      BY <2>2
    <3>2. QED
      BY <1>w, <3>1
  <2>4. OperationPhase' = "idle" /\ app' = None
    <3>1. pc' = "next"
      BY <2>2 DEF Completed
    <3>2. QED
      BY <1>q, <3>1
  <2>5. /\ disk \in Registries /\ cur \in Apps /\ disk[cur] \in Entry
        /\ disk[cur].op = op /\ registry \in Registries
        /\ \A b \in Apps \ {cur} : registry[b] = disk[b]
    BY <1>t, <1>s, <2>1, OperationEntry DEF TypeOK
  <2>6. /\ OperationPhase \in {"ok", "failed", "refused"}
        /\ outcome = "NoAction" => OperationPhase = "ok"
        /\ CanRun(disk[cur]) <=> OperationPhase # "refused"
        /\ registry[cur] = [disk[cur] EXCEPT !.reboots = CountKept(disk[cur])]
    BY <1>s, <1>p, <2>1 DEF Logged
  <2>7. outcome \in Log!Outcomes /\ CountKept(disk[cur]) = Log!CountAfter
    BY <1>i, <2>1, <2>6 DEF Log!Outcomes, Log!CountAfter, CountKept
  <2>8. [registry[cur] EXCEPT !.op = outcome] =
          [disk[cur] EXCEPT !.op = outcome, !.reboots = Log!CountAfter]
    BY <2>5, <2>6, <2>7 DEF Entry
  <2>9. disk' = [disk EXCEPT ![cur] =
          IF disk[cur].op = "Remove" THEN None
          ELSE [disk[cur] EXCEPT !.op = outcome, !.reboots = Log!CountAfter]]
    <3>1. registry' = [disk EXCEPT ![cur] =
                         IF op = "Remove" THEN None ELSE [registry[cur] EXCEPT !.op = outcome]]
      BY <2>2, <2>5 DEF Registries
    <3>2. QED
      BY <2>3, <2>5, <2>8, <3>1
  <2>10. Log!Finish
    BY <1>i, <2>1, <2>4, <2>6, <2>7, <2>9 DEF Log!Finish
  <2>11. QED
    BY <1>s, <2>10 DEF Log!LogNext
<1>12. CASE EndEnable
  BY <1>12, <1>s, <1>p, <1>x DEF EndEnable, Executed
<1>13. CASE Kill
  <2>1. Exit /\ pc # "idle" /\ disk' = disk
    BY <1>13, <1>s, <1>t DEF Kill
  <2>2. CASE pc = "next"
    BY <1>s, <1>p, <1>x, <2>1, <2>2
  <2>3. CASE pc # "next"
    <3>1. InOperation
      BY <1>t, <2>1, <2>3 DEF TypeOK, InOperation
    <3>2. Log!Crash
      BY <1>i, <1>x, <2>1, <3>1 DEF Log!Crash
    <3>3. QED
      BY <1>s, <3>2 DEF Log!LogNext
  <2>4. QED
    BY <2>2, <2>3
<1>14. QED
  BY <1>1, <1>2, <1>3, <1>4, <1>5, <1>6, <1>7, <1>8, <1>9, <1>10, <1>11, <1>12, <1>13
     DEF Next, Step

(* ActionPlan implements OperationLog: every save, command, refusal,       *)
(* reboot and kill of executeHelper (executehelper.go:35-259) is a step of *)
(* the log or none, as long as no save of the registry fails.              *)
THEOREM LogRefinement == Spec => ImplementsLog
<1>1. Init => Log!LogInit
  BY DEF Init, Log!LogInit, OperationPhase, NoPackages
<1>2. Base /\ Answered /\ Logged /\ [Next]_vars => Logged'
  BY NextLogged
<1>3. QED
  BY <1>1, <1>2, InitLogged, LogStep, BaseInvariance, PTL DEF Spec, ImplementsLog, Log!LogSpec
=============================================================================
