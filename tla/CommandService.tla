----------------------------- MODULE CommandService ----------------------------
(******************************************************************************)
(* What Session::executeCommand promises its callers, without queue,          *)
(* condition variable and message ids that may be stale: one call at a time,  *)
(* each with a number of its own; a call for which an answer was accepted     *)
(* returns that answer, and only a call without one may time out.             *)
(******************************************************************************)
EXTENDS Integers

CONSTANTS
  Threads,   \* the callers
  NoThread,  \* no caller
  Errors     \* what an answer may amount to

NoCall == -2          \* the number of no call
NoAnswer == "none"

VARIABLES
  caller,    \* the thread whose call is in progress, or NoThread
  issued,    \* the number of the last call
  pending,   \* the number of the call that waits for its answer, or NoCall
  answer,    \* what was accepted for it
  outcome    \* what each thread's last call returned

vars == <<caller, issued, pending, answer, outcome>>

Init ==
  /\ caller = NoThread
  /\ issued = -1
  /\ pending = NoCall
  /\ answer = NoAnswer
  /\ outcome = [t \in Threads |-> [error |-> "none", reply |-> NoCall]]

Enter(t) ==
  /\ caller = NoThread
  /\ caller' = t
  /\ UNCHANGED <<issued, pending, answer, outcome>>

\* A call that waits for its answer.
Ask(t) ==
  /\ caller = t
  /\ pending = NoCall
  /\ issued' = issued + 1
  /\ pending' = issued'
  /\ UNCHANGED <<caller, answer, outcome>>

\* A call that does not wait.
Tell(t) ==
  /\ caller = t
  /\ pending = NoCall
  /\ issued' = issued + 1
  /\ UNCHANGED <<caller, pending, answer, outcome>>

Leave(t) ==
  /\ caller = t
  /\ pending = NoCall
  /\ caller' = NoThread
  /\ outcome' = [outcome EXCEPT ![t] = [error |-> "none", reply |-> NoCall]]
  /\ UNCHANGED <<issued, pending, answer>>

\* The peer may answer a call again: the last answer counts.
Accept(error) ==
  /\ pending # NoCall
  /\ answer' = error
  /\ UNCHANGED <<caller, issued, pending, outcome>>

Finish(t) ==
  /\ caller = t
  /\ pending # NoCall
  /\ outcome' = [outcome EXCEPT ![t] =
       IF answer = NoAnswer THEN [error |-> "timed_out", reply |-> NoCall]
                            ELSE [error |-> answer, reply |-> pending]]
  /\ caller' = NoThread
  /\ pending' = NoCall
  /\ answer' = NoAnswer
  /\ UNCHANGED issued

Next ==
  \/ \E t \in Threads : Enter(t) \/ Ask(t) \/ Tell(t) \/ Leave(t) \/ Finish(t)
  \/ \E error \in Errors \ {NoAnswer, "timed_out"} : Accept(error)

Spec == Init /\ [][Next]_vars
================================================================================
