---------------------------- MODULE OperationLog ----------------------------
(***************************************************************************)
(* What executeHelper makes of the package registry: a log, written ahead, *)
(* of the operation under way for each application. One operation at a     *)
(* time; its command runs only after the operation is in the log; the      *)
(* outcome in the log is the one the command had; a process that dies      *)
(* leaves the log as it is. ActionPlan implements this specification as    *)
(* long as every save of the registry succeeds.                            *)
(***************************************************************************)
EXTENDS Integers

CONSTANTS
  Apps,         \* application names
  Entry,        \* registry entries
  Commands,     \* the operations that have a command
  MaxReboots,   \* reboots of one operation after which it is refused
  None          \* no entry, no application

VARIABLES
  log,          \* the entry of each application
  app,          \* the application whose operation is under way
  phase,        \* how far it is: "recorded", "running", "ok", "failed" or
                \*   "refused"; "idle" when there is none
  lost          \* a save failed or was cut: nothing is promised any more

LogInit ==
  /\ log = [a \in Apps |-> None]
  /\ app = None /\ phase = "idle"
  /\ lost = FALSE

Runnable(entry) == entry.op \in Commands /\ entry.reboots # MaxReboots

(* The entry written for an operation of a: a new one, whose reboot count  *)
(* is zero, or the one in the log.                                         *)
Opens(a, entry) ==
  \/ entry.reboots = 0
  \/ log[a] # None /\ entry = [log[a] EXCEPT !.op = entry.op]

Begin(a) ==
  /\ phase = "idle" /\ phase' = "recorded" /\ app' = a
  /\ \E entry \in Entry :
       /\ entry.op \notin {"NoAction", "Cleanup"} /\ Opens(a, entry)
       /\ log' = [log EXCEPT ![a] = entry]

Skip(a) ==
  /\ phase = "idle" /\ UNCHANGED <<app, phase>>
  /\ \E entry \in Entry :
       /\ entry.op = "Skipped" /\ Opens(a, entry)
       /\ log' = [log EXCEPT ![a] = entry]

(* Only an entry whose operation was skipped is dropped without a command. *)
CleanUp(a) ==
  /\ phase = "idle" /\ UNCHANGED <<app, phase>>
  /\ log[a] # None /\ log[a].op = "Skipped"
  /\ log' = [log EXCEPT ![a] = None]

Start ==
  /\ phase = "recorded" /\ Runnable(log[app])
  /\ phase' = "running" /\ UNCHANGED <<log, app>>

Refuse ==
  /\ phase = "recorded" /\ ~Runnable(log[app])
  /\ phase' = "refused" /\ UNCHANGED <<log, app>>

End ==
  /\ phase = "running"
  /\ phase' \in {"ok", "failed"} /\ UNCHANGED <<log, app>>

Outcomes == IF phase = "ok" THEN {"NoAction", "Failed"} ELSE {"Failed"}

(* The reboot count starts again, but for a refusal below the limit.       *)
CountAfter ==
  IF phase = "refused" /\ log[app].reboots # MaxReboots THEN log[app].reboots ELSE 0

(* The outcome is logged: a remove drops the entry whatever became of it,  *)
(* any other operation is done only if its command ended well.             *)
Finish ==
  /\ phase \in {"ok", "failed", "refused"}
  /\ phase' = "idle" /\ app' = None
  /\ \E outcome \in Outcomes :
       log' = [log EXCEPT ![app] =
         IF log[app].op = "Remove" THEN None
         ELSE [log[app] EXCEPT !.op = outcome, !.reboots = CountAfter]]

(* The command reboots the machine: it runs again, and one more reboot is  *)
(* counted, or it counts as done.                                          *)
Cut ==
  /\ phase = "running" /\ phase' = "idle" /\ app' = None
  /\ LET entry == log[app] IN
     log' = [log EXCEPT ![app] = IF entry.rerun THEN [entry EXCEPT !.reboots = @ + 1]
                                 ELSE [entry EXCEPT !.op = "NoAction"]]

Crash ==
  /\ phase # "idle" /\ phase' = "idle" /\ app' = None
  /\ UNCHANGED log

LogNext ==
  \/ lost'
  \/ /\ UNCHANGED lost
     /\ \/ \E a \in Apps : Begin(a) \/ Skip(a) \/ CleanUp(a)
        \/ Start \/ Refuse \/ End \/ Finish \/ Cut \/ Crash

LogSpec == LogInit /\ [][LogNext]_<<log, app, phase, lost>>
=============================================================================
