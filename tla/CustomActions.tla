---------------------------- MODULE CustomActions ----------------------------
(***************************************************************************)
(* internal/customactionplan: the scripts that a goal wants run on an      *)
(* application. They have no registry. What is known of the past is one    *)
(* number, the tick count of the last action run, in the file tickCount of *)
(* the configuration folder: an action is run when its own tick count is   *)
(* higher. The manager does this after the operations on the applications, *)
(* under the same lock, so one process at a time.                          *)
(*                                                                         *)
(* Tick counts are compared and never added to, so their width does not    *)
(* matter. The results of the actions, and the map of GetCurrentCustom-    *)
(* Actions, are texts of the status and are left out.                      *)
(***************************************************************************)
EXTENDS Integers

CONSTANTS
  Actions,      \* the custom actions that goals may hold
  Tick,         \* the tick count of each
  App,          \* the application of each
  None,         \* no action
  MaxGoals,     \* bound: changes of the goal
  MaxKills,     \* bound: kills, and reboots by an action
  MaxUpdates,   \* bound: updates of the extension
  MaxFaults     \* bound: errors of files, applications missing

ASSUME ConstantsAssumption ==
  /\ {MaxGoals, MaxKills, MaxUpdates, MaxFaults} \subseteq Nat
  /\ Tick \in [Actions -> Nat]
  /\ DOMAIN App = Actions
  /\ None \notin Actions

VARIABLES
  goal,     \* the actions in the settings
  exists,   \* the tick count file exists
  tick,     \* the number in it, 0 if it is missing, empty or not a number
  pc,       \* where Execute and executeHelper are; "idle" between enables
  plan,     \* sortedOrder: what is left of it
  cur,      \* the action being executed
  ok,       \* its command ended without error
  owed,     \* history: planned for this goal, and not yet recorded
  done,     \* history: recorded, since the record was last lost
  goals, kills, updates, faults   \* what has happened of the bounded events

file == <<exists, tick>>
process == <<pc, plan, cur, ok>>
history == <<owed, done>>
bounds == <<goals, kills, updates, faults>>
vars == <<goal, file, process, history, bounds>>

Init ==
  /\ goal \in SUBSET Actions
  /\ exists = FALSE
  /\ tick = 0
  /\ pc = "idle"
  /\ plan = {}
  /\ cur = None
  /\ ok = FALSE
  /\ owed = {}
  /\ done = {}
  /\ goals = 0
  /\ kills = 0
  /\ updates = 0
  /\ faults = 0

-----------------------------------------------------------------------------
Fault == faults < MaxFaults /\ faults' = faults + 1

(* The record of what was run is lost.                                     *)
RecordLost == done' = {}

(* The process is over: Execute returned, or it was ended. What it had     *)
(* planned with the tick count that is now in the file will never be run.  *)
Stop(recorded) ==
  /\ pc' = "idle"
  /\ plan' = {}
  /\ cur' = None
  /\ ok' = FALSE
  /\ owed' = {a \in owed : Tick[a] # recorded}

(* The agent writes new settings. The manager that runs has read the old   *)
(* ones.                                                                   *)
NewGoal ==
  /\ goals < MaxGoals
  /\ goals' = goals + 1
  /\ goal' \in SUBSET Actions \ {goal}
  /\ owed' = owed \cap goal'
  /\ UNCHANGED <<file, process, done, kills, updates, faults>>

(* The configuration folder of the new extension version has no tick count *)
(* file: the update callback copies the package registry only.             *)
UpdateExtension ==
  /\ pc = "idle"
  /\ updates < MaxUpdates
  /\ updates' = updates + 1
  /\ exists' = FALSE
  /\ tick' = 0
  /\ RecordLost
  /\ UNCHANGED <<goal, process, owed, goals, kills, faults>>

-----------------------------------------------------------------------------
PlanActionsAgain(tc, missing) ==
  /\ plan' = {a \in goal : tc <= Tick[a] /\ App[a] \notin missing}
  /\ pc' = IF plan' = {} THEN "idle" ELSE "next"
  /\ owed' = {a \in owed : App[a] \notin missing} \cup {a \in plan' : tick < Tick[a]}
  /\ UNCHANGED <<goal, file, cur, ok, goals, kills, updates>>

(* New, up to the sort, with the tick count it got from the file and the   *)
(* applications it does not find in the registry.                          *)
PlanActions(tc, missing) ==
  /\ plan' = {a \in goal : tc < Tick[a] /\ App[a] \notin missing}
  /\ pc' = IF plan' = {} THEN "idle" ELSE "next"
  /\ owed' = {a \in owed : App[a] \notin missing} \cup {a \in plan' : tick < Tick[a]}
  /\ UNCHANGED <<goal, file, cur, ok, goals, kills, updates>>

(* New. An application of the goal is missing if its entry could not be    *)
(* saved. A file that cannot be read counts as tick count 0.               *)
New ==
  /\ pc = "idle"
  /\ \/ /\ PlanActions(tick, {})
        /\ UNCHANGED <<done, faults>>
     \/ /\ Fault
        /\ \E a \in goal : PlanActions(tick, {App[a]})
        /\ UNCHANGED done
     \/ /\ Fault
        /\ exists
        /\ PlanActions(0, {})
        /\ RecordLost

FirstUnsorted(a) == a \in plan

(* The sort leaves actions with the same tick count in any order.          *)
First(a) == a \in plan /\ \A b \in plan : Tick[a] <= Tick[b]

(* The next action of Execute: executeHelper creates an empty file if there *)
(* is none, and starts the command.                                        *)
StartAction ==
  /\ pc = "next"
  /\ \E a \in Actions :
       /\ First(a)
       /\ cur' = a
       /\ plan' = plan \ {a}
  /\ pc' = "run"
  /\ exists' = TRUE
  /\ UNCHANGED <<goal, tick, ok, history, bounds>>

(* The file cannot be created: nothing more is executed.                   *)
CreateFails ==
  /\ pc = "next"
  /\ ~exists
  /\ Fault
  /\ Stop(tick)
  /\ UNCHANGED <<goal, file, done, goals, kills, updates>>

CommandEndsUnrecorded ==
  /\ pc = "run"
  /\ \/ /\ pc' = "save"
        /\ ok' = TRUE
        /\ UNCHANGED <<plan, cur, owed>>
     \/ Stop(tick)
  /\ UNCHANGED <<goal, file, done, bounds>>

CommandEnds ==
  /\ pc = "run"
  /\ pc' = "save"
  /\ ok' \in BOOLEAN
  /\ UNCHANGED <<goal, file, plan, cur, history, bounds>>

(* The command reboots the machine: the process exits, and the tick count  *)
(* is not written.                                                         *)
Reboot ==
  /\ pc = "run"
  /\ kills < MaxKills
  /\ kills' = kills + 1
  /\ Stop(tick)
  /\ UNCHANGED <<goal, file, done, goals, updates, faults>>

(* ioutil.WriteFile opens the file, which empties it.                      *)
OpenTickCount ==
  /\ pc = "save"
  /\ tick' = 0
  /\ pc' = "write"
  /\ UNCHANGED <<goal, exists, plan, cur, ok, history, bounds>>

WriteTickCountGoesOn ==
  /\ pc = "write"
  /\ tick' = Tick[cur]
  /\ done' = done \cup {cur}
  /\ pc' = "next"
  /\ cur' = None
  /\ ok' = FALSE
  /\ owed' = owed \ {cur}
  /\ UNCHANGED <<goal, exists, plan, bounds>>

(* ... and writes the number. That of a failed action, too, but then       *)
(* Execute ends.                                                           *)
WriteTickCount ==
  /\ pc = "write"
  /\ tick' = Tick[cur]
  /\ done' = done \cup {cur}
  /\ IF ok /\ plan # {}
     THEN /\ pc' = "next"
          /\ cur' = None
          /\ ok' = FALSE
          /\ owed' = owed \ {cur}
          /\ UNCHANGED plan
     ELSE Stop(tick')
  /\ UNCHANGED <<goal, exists, bounds>>

(* Either half of it fails: the second leaves the file empty.              *)
SaveFails ==
  /\ Fault
  /\ Stop(tick)
  /\ \/ pc = "save" /\ UNCHANGED done
     \/ pc = "write" /\ RecordLost
  /\ UNCHANGED <<goal, file, goals, kills, updates>>

(* The process is killed, or the machine goes down.                        *)
Kill ==
  /\ pc # "idle"
  /\ kills < MaxKills
  /\ kills' = kills + 1
  /\ Stop(tick)
  /\ IF pc = "write" THEN RecordLost ELSE UNCHANGED done
  /\ UNCHANGED <<goal, file, goals, updates, faults>>

-----------------------------------------------------------------------------
Step ==
  \/ StartAction \/ CreateFails
  \/ CommandEnds
  \/ OpenTickCount \/ WriteTickCount \/ SaveFails

Next == NewGoal \/ UpdateExtension \/ New \/ Step \/ Reboot \/ Kill

Spec == Init /\ [][Next]_vars

(* Straight-line code, commands that end, and an agent that enables the    *)
(* extension after every boot.                                             *)
FairSpec == Spec /\ WF_vars(Step) /\ WF_vars(New)

-----------------------------------------------------------------------------
(* Types. A cut or missing file holds no number, and the number of a       *)
(* missing file is never used.                                             *)
TypeOK ==
  /\ goal \subseteq Actions
  /\ exists \in BOOLEAN
  /\ tick \in Nat
  /\ pc \in {"idle", "next", "run", "save", "write"}
  /\ plan \subseteq Actions
  /\ cur \in Actions \cup {None}
  /\ ok \in BOOLEAN
  /\ owed \subseteq goal
  /\ done \subseteq Actions
  /\ goals \in 0..MaxGoals
  /\ kills \in 0..MaxKills
  /\ updates \in 0..MaxUpdates
  /\ faults \in 0..MaxFaults
  /\ ~exists => tick = 0
  /\ pc = "next" => plan # {}
  /\ pc \in {"run", "save", "write"} <=> cur # None

Starts(a) == pc = "next" /\ pc' = "run" /\ cur' = a

(* An action whose tick count reached the file, whatever became of its     *)
(* command, is not started again by any enable, goals coming and going as  *)
(* they like, until the record is lost: the file cut by a kill or an error *)
(* inside its write, unreadable, or left behind by an update of the        *)
(* extension.                                                              *)
RunOnce == [][\A a \in Actions : Starts(a) => a \notin done]_vars

(* An action that New planned, that the goal still holds and that was not  *)
(* yet recorded is not overtaken: the file never gets ahead of it, over    *)
(* kills, reboots, failures of other actions and errors. With the tick     *)
(* count of another action it may be level only while its own turn comes   *)
(* in the same process (what Stop takes out of owed is never run).         *)
NonePassedOver ==
  \A a \in owed :
    /\ tick <= Tick[a]
    /\ tick = Tick[a] => a \in plan \/ a = cur

(* A planned action gets its turn, or its goal is withdrawn: a failed      *)
(* action ends the enable but does not hold up the next one. (Actions that *)
(* reboot the machine each time do: nothing counts these reboots, MaxKills *)
(* does it here.)                                                          *)
OwedIsPaid == \A a \in Actions : a \in owed ~> a \notin owed
=============================================================================
