----------------------------- MODULE HostRequest -----------------------------
(***************************************************************************)
(* internal/requesthelper: one request to the host (on Azure) or to the    *)
(* Arc agent (elsewhere), with its retries. What is asked and what the     *)
(* answer holds is up to the modules that use this one; here an answer is  *)
(*                                                                         *)
(*   "whole"      status 200                                               *)
(*   "part"       status 206                                               *)
(*   "busy"       a status or transport error that is known to pass        *)
(*   "timeout"    an error that says of itself that it is a timeout        *)
(*   "refused"    any other status or error                                *)
(*   "challenge"  status 401 that names the file of a token                *)
(*                                                                         *)
(* The waits between tries are left out, their number is not.              *)
(***************************************************************************)
EXTENDS Integers

CONSTANT RetryN   \* expRetryN

ASSUME RetryAssumption == RetryN \in Nat \ {0}

VARIABLES
  arc,     \* the Arc agent is present: found out once by each process
  phase,   \* "none", "sent", "token", and then "whole", "part" or "failed"
  tries,   \* the try that is under way, from 1
  answer   \* the last answer, "none" before the first

request == <<arc, phase, tries, answer>>

Delivered == {"whole", "part"}
Answers == Delivered \cup {"busy", "timeout", "refused", "challenge"}
Phases == Delivered \cup {"none", "sent", "token", "failed"}

RequestTypeOK ==
  /\ arc \in BOOLEAN
  /\ phase \in Phases
  /\ tries \in 0..RetryN
  /\ answer \in Answers \cup {"none"}

NoRequest ==
  /\ phase = "none"
  /\ tries = 0
  /\ answer = "none"

(* The caller has read the response, or the process is over.               *)
Forget ==
  /\ phase' = "none"
  /\ tries' = 0
  /\ answer' = "none"

(* A call of WithRetries or WithRetriesArc.                                 *)
Ask ==
  /\ phase' = "sent"
  /\ tries' = 1
  /\ answer' = "none"

TryAgainForEver ==
  /\ phase' = "sent"
  /\ UNCHANGED tries

(* The loop of retryRequest after a transient error.                       *)
TryAgain ==
  \/ /\ tries < RetryN
     /\ phase' = "sent"
     /\ tries' = tries + 1
  \/ /\ tries = RetryN
     /\ phase' = "failed"
     /\ UNCHANGED tries

GiveUp ==
  /\ phase' = "failed"
  /\ UNCHANGED tries

TransientButTimeouts(a) == a = "busy"

(* What retryRequest takes for transient. It asks the error itself, and not *)
(* the errors it wraps, whether it is a timeout; the second request of an  *)
(* Arc try wraps its errors.                                               *)
Transient(a) ==
  \/ a = "busy"
  \/ a = "timeout" /\ phase = "sent"

(* Does the answer make MakeArcRequest go for the token? The same answer to *)
(* the second request, or on Azure, is a refusal.                          *)
Challenged(a) == a = "challenge" /\ arc /\ phase = "sent"

(* One answer, to the first request of a try (MakeRequest) or to the one   *)
(* with the token (makeRequestWithToken).                                  *)
MakeRequest ==
  /\ phase \in {"sent", "token"}
  /\ UNCHANGED arc
  /\ \E a \in Answers :
       /\ answer' = a
       /\ \/ a \in Delivered /\ phase' = a /\ UNCHANGED tries
          \/ Challenged(a) /\ phase' = "token" /\ UNCHANGED tries
          \/ Transient(a) /\ TryAgain
          \/ /\ a \notin Delivered
             /\ ~Challenged(a)
             /\ ~Transient(a)
             /\ GiveUp

(* handleArcChallenge ends before its request: the header is not understood, *)
(* the path is not one of the agent's tokens, or the token cannot be read.  *)
(* None of these errors is transient.                                      *)
RefuseChallenge ==
  /\ phase = "token"
  /\ answer' = "refused"
  /\ GiveUp
  /\ UNCHANGED arc
=============================================================================
