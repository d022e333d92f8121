-------------------------------- MODULE Session --------------------------------
(******************************************************************************)
(* Request/response matching of ldcp_sdk::Session (src/src/session.cpp).      *)
(*                                                                            *)
(* Application threads call the two overloads of executeCommand on one        *)
(* Session; the transport's worker thread delivers the peer's messages to     *)
(* onMessageReceived.  They share id_, response_queue_, command_mutex_,       *)
(* response_queue_mutex_ and response_queue_cv_.                              *)
(*                                                                            *)
(* response_queue_mutex_ has no variable: every section it guards is one      *)
(* atomic step (from taking it, or waking with it, to wait_for or return).    *)
(* The one-way overload changes id_ without that mutex, so its increment and  *)
(* its transmission are steps of their own, which onMessageReceived's read of *)
(* id_ may precede or follow.                                                 *)
(*                                                                            *)
(* The transport is abstracted to the set of request ids it was handed on the *)
(* current connection: the peer may answer each of them late, more than once, *)
(* out of order, with a result or an error, or never; it may also send an     *)
(* answer that carries no usable id.                                          *)
(******************************************************************************)
EXTENDS Integers, Sequences, FiniteSets

CONSTANTS
  Threads,     \* application threads that share the session
  NoThread,    \* holder of command_mutex_ when it is free
  ReplyKinds,  \* the kinds of answers the peer gives, a subset of AllReplyKinds
  MaxId        \* bound: the last id_ a run reaches

(******************************************************************************)
(* An answer has a "result" member, or an "error" whose code is one of        *)
(* ldcp_error_t, another integer, or absent.                                  *)
(******************************************************************************)
ProtocolCodes == {"invalid_message", "checksum_mismatch", "parse_error", "invalid_request"}

AllReplyKinds ==
  {"result", "method_not_found", "invalid_params", "internal_error",
   "other_code", "no_code"} \cup ProtocolCodes

ASSUME SessionAssumption ==
  /\ NoThread \notin Threads
  /\ ReplyKinds \subseteq AllReplyKinds
  /\ MaxId \in Nat

VARIABLES
  transport_,       \* "null", or "connected" once open() succeeded
  id_,              \* id of the last request, -1 at first
  command_mutex_,   \* the thread that holds it, or NoThread
  response_queue_,  \* answers not yet taken by a command
  pc,               \* where each thread is inside executeCommand
  request,          \* the "id" member of the thread's last request
  outcome,          \* what the thread's last executeCommand returned
  accepted          \* ids handed to transmitMessage on this connection

vars == <<transport_, id_, command_mutex_, response_queue_, pc, request, outcome, accepted>>

NoId == -2       \* an absent or null "id", equal to no value of id_
NoOutcome == [error |-> "none", reply |-> NoId]

Ids == Nat
Reply == [id : Ids \cup {NoId}, kind : AllReplyKinds]

(******************************************************************************)
(* idle     not in executeCommand                                             *)
(* locked   in the two-argument overload, holding command_mutex_              *)
(* locked1  in the one-way overload, holding command_mutex_                   *)
(* posting  in the one-way overload, between ++id_ and transmitMessage        *)
(* blocked  asleep in response_queue_cv_.wait_for                             *)
(* woken    notified, or woken spuriously; the predicate is to be evaluated   *)
(* expired  the timeout has passed; the predicate is evaluated a last time    *)
(******************************************************************************)
Waiting == {"blocked", "woken", "expired"}
PCs == {"idle", "locked", "locked1", "posting"} \cup Waiting

(******************************************************************************)
(* The error_t that executeCommand makes of an answer.                        *)
(*                                                                            *)
(* Definitions named X_... are mutated forms of X, which follows them: each   *)
(* is a plausible mistake in the code that one of the properties rules out.   *)
(* The specification does not use them.                                       *)
(******************************************************************************)
ErrorOf(kind) ==
  CASE kind = "result"           -> "no_error"
    [] kind \in ProtocolCodes    -> "protocol_error"
    [] kind = "method_not_found" -> "not_supported"
    [] kind = "invalid_params"   -> "invalid_params"
    [] kind = "internal_error"   -> "device_error"
    [] OTHER                     -> "unknown"

Errors == {"none", "no_error", "protocol_error", "not_supported", "invalid_params",
           "device_error", "unknown", "timed_out"}

--------------------------------------------------------------------------------
Init ==
  /\ transport_ = "null"
  /\ id_ = -1
  /\ command_mutex_ = NoThread
  /\ response_queue_ = <<>>
  /\ pc = [t \in Threads |-> "idle"]
  /\ request = [t \in Threads |-> NoId]
  /\ outcome = [t \in Threads |-> NoOutcome]
  /\ accepted = {}

(******************************************************************************)
(* open() and close() take no lock: calling them while another thread is in   *)
(* executeCommand is a data race on transport_, and the application's         *)
(* obligation not to do.  The same holds for open() on an open session, which *)
(* destroys a running transport.                                              *)
(******************************************************************************)
Quiescent == \A t \in Threads : pc[t] = "idle"

Open ==
  /\ Quiescent
  /\ transport_ = "null"
  /\ transport_' \in {"null", "connected"}   \* connect() failed, or succeeded
  /\ UNCHANGED <<id_, command_mutex_, response_queue_, pc, request, outcome, accepted>>

Close ==
  /\ Quiescent
  /\ transport_' = "null"
  /\ response_queue_' = <<>>
  /\ accepted' = {}
  /\ UNCHANGED <<id_, command_mutex_, pc, request, outcome>>

--------------------------------------------------------------------------------
(******************************************************************************)
(* std::remove_if over the queue with "id < current" as the predicate, its    *)
(* result not erased: the elements kept move to the front, and the deque      *)
(* keeps its length.  A position whose element moved away and that nothing    *)
(* overwrote holds a moved-from document (MovedFrom).                         *)
(******************************************************************************)
MovedFrom == [id |-> NoId, kind |-> "no_code"]

RemoveStale(queue, current) ==
  LET Kept == {i \in DOMAIN queue : queue[i].id >= current}
      Place(i) == Cardinality({j \in Kept : j <= i})
  IN  [p \in DOMAIN queue |->
         IF \E i \in Kept : Place(i) = p
           THEN queue[CHOOSE i \in Kept : Place(i) = p]
           ELSE IF p \in Kept THEN MovedFrom ELSE queue[p]]

(******************************************************************************)
(* The predicate of wait_for, on the queue remove_if left.                    *)
(******************************************************************************)
ReplyAtFront(queue, current) ==
  Len(queue) > 0 /\ Head(queue).id = current

(******************************************************************************)
(* What executeCommand returns for the answer at the front of the queue: a    *)
(* result is moved out of the queue, an error stays in it.                    *)
(******************************************************************************)
Return(t, queue) ==
  LET message == Head(queue)
  IN  /\ outcome' = [outcome EXCEPT ![t] = [error |-> ErrorOf(message.kind), reply |-> message.id]]
      /\ response_queue_' = IF message.kind = "result" THEN Tail(queue) ELSE queue
      /\ pc' = [pc EXCEPT ![t] = "idle"]
      /\ command_mutex_' = NoThread

ReturnTimedOut(t, queue) ==
  /\ outcome' = [outcome EXCEPT ![t] = [error |-> "timed_out", reply |-> NoId]]
  /\ response_queue_' = queue
  /\ pc' = [pc EXCEPT ![t] = "idle"]
  /\ command_mutex_' = NoThread

Sleep(t, queue) ==
  /\ pc' = [pc EXCEPT ![t] = "blocked"]
  /\ response_queue_' = queue
  /\ UNCHANGED <<outcome, command_mutex_>>

--------------------------------------------------------------------------------
(******************************************************************************)
(* Taking command_mutex_ for either overload.  The transport must exist: a    *)
(* command on a session that is not open dereferences a null pointer.         *)
(******************************************************************************)
MutexIsFree == command_mutex_ = NoThread

Lock(t) ==
  /\ transport_ = "connected"
  /\ pc[t] = "idle"
  /\ MutexIsFree
  /\ id_ < MaxId
  /\ command_mutex_' = t
  /\ \E p \in {"locked", "locked1"} : pc' = [pc EXCEPT ![t] = p]
  /\ UNCHANGED <<transport_, id_, response_queue_, request, outcome, accepted>>

(******************************************************************************)
(* ++id_, the "id" of the next request.                                       *)
(******************************************************************************)
NextId == id_ + 1

(******************************************************************************)
(* executeCommand(request, response): under response_queue_mutex_, take an id,*)
(* hand the request to the transport, evaluate the predicate once, and sleep. *)
(******************************************************************************)
SendRequest(t) ==
  LET queue == RemoveStale(response_queue_, NextId)
  IN  /\ pc[t] = "locked"
      /\ id_' = NextId
      /\ request' = [request EXCEPT ![t] = NextId]
      /\ accepted' = accepted \cup {NextId}
      /\ IF ReplyAtFront(queue, NextId) THEN Return(t, queue) ELSE Sleep(t, queue)
      /\ UNCHANGED transport_

(******************************************************************************)
(* A spurious wakeup of the condition variable.                               *)
(******************************************************************************)
SpuriousWake(t) ==
  /\ pc[t] = "blocked"
  /\ pc' = [pc EXCEPT ![t] = "woken"]
  /\ UNCHANGED <<transport_, id_, command_mutex_, response_queue_, request, outcome, accepted>>

(******************************************************************************)
(* timeout_ milliseconds have passed since wait_for began.                    *)
(******************************************************************************)
Expire(t) ==
  /\ pc[t] \in {"blocked", "woken"}
  /\ pc' = [pc EXCEPT ![t] = "expired"]
  /\ UNCHANGED <<transport_, id_, command_mutex_, response_queue_, request, outcome, accepted>>

(******************************************************************************)
(* wait_for ends when the predicate holds, also past the deadline, and        *)
(* otherwise gives up past the deadline.                                      *)
(******************************************************************************)
WaitSucceeds_BeforeDeadline(t, queue) == ReplyAtFront(queue, id_) /\ pc[t] # "expired"

WaitSucceeds(t, queue) == ReplyAtFront(queue, id_)

GivesUp_Never(t) == FALSE

GivesUp(t) == pc[t] = "expired"

(******************************************************************************)
(* The thread runs again with response_queue_mutex_ and evaluates the         *)
(* predicate.                                                                 *)
(******************************************************************************)
Recheck(t) ==
  LET queue == RemoveStale(response_queue_, id_)
  IN  /\ pc[t] \in {"woken", "expired"}
      /\ \/ WaitSucceeds(t, queue) /\ Return(t, queue)
         \/ ~WaitSucceeds(t, queue) /\ GivesUp(t) /\ ReturnTimedOut(t, queue)
         \/ ~WaitSucceeds(t, queue) /\ ~GivesUp(t) /\ Sleep(t, queue)
      /\ UNCHANGED <<transport_, id_, request, accepted>>

--------------------------------------------------------------------------------
(******************************************************************************)
(* executeCommand(request), the overload reboot() uses: no answer is awaited. *)
(******************************************************************************)
IncrementId(t) ==
  /\ pc[t] = "locked1"
  /\ id_' = NextId
  /\ request' = [request EXCEPT ![t] = NextId]
  /\ pc' = [pc EXCEPT ![t] = "posting"]
  /\ UNCHANGED <<transport_, command_mutex_, response_queue_, outcome, accepted>>

PostRequest(t) ==
  /\ pc[t] = "posting"
  /\ accepted' = accepted \cup {request[t]}
  /\ pc' = [pc EXCEPT ![t] = "idle"]
  /\ command_mutex_' = NoThread
  /\ outcome' = [outcome EXCEPT ![t] = NoOutcome]
  /\ UNCHANGED <<transport_, id_, response_queue_, request>>

--------------------------------------------------------------------------------
(******************************************************************************)
(* notify_one wakes one of the sleeping threads, if there is one.             *)
(******************************************************************************)
NotifyOne_Forgotten == pc' = pc

NotifyOne ==
  IF \E t \in Threads : pc[t] = "blocked"
    THEN \E t \in Threads : pc[t] = "blocked" /\ pc' = [pc EXCEPT ![t] = "woken"]
    ELSE pc' = pc

IsCurrent(message) == message.id = id_

\* response_queue_.clear() and push_back()
QueueWith_NotCleared(message) == Append(response_queue_, message)

QueueWith(message) == <<message>>

(******************************************************************************)
(* The response branch of onMessageReceived, on the worker thread: an answer  *)
(* to the last request replaces whatever the queue held, any other answer is  *)
(* dropped.                                                                   *)
(******************************************************************************)
OnMessageReceived(message) ==
  /\ transport_ = "connected"
  /\ IF IsCurrent(message)
       THEN response_queue_' = QueueWith(message) /\ NotifyOne
       ELSE UNCHANGED <<response_queue_, pc>>
  /\ UNCHANGED <<transport_, id_, command_mutex_, request, outcome, accepted>>

(******************************************************************************)
(* The messages the peer may send: answers to requests it was given, and      *)
(* errors that carry a null id.                                               *)
(******************************************************************************)
PeerMessages == [id : accepted \cup {NoId}, kind : ReplyKinds]

Command(t) == SendRequest(t) \/ SpuriousWake(t) \/ Expire(t) \/ Recheck(t)

OneWay(t) == IncrementId(t) \/ PostRequest(t)

Next ==
  \/ Open
  \/ Close
  \/ \E t \in Threads : Lock(t) \/ Command(t) \/ OneWay(t)
  \/ \E message \in PeerMessages : OnMessageReceived(message)

(******************************************************************************)
(* A thread inside executeCommand keeps running, and the deadline of its wait *)
(* comes.  Nothing is assumed of the peer, of the callers, or of the fairness *)
(* of command_mutex_.                                                         *)
(******************************************************************************)
Fairness ==
  \A t \in Threads :
    /\ WF_vars(SendRequest(t))
    /\ WF_vars(Expire(t))
    /\ WF_vars(Recheck(t))
    /\ WF_vars(OneWay(t))

Spec == Init /\ [][Next]_vars /\ Fairness

--------------------------------------------------------------------------------
TypeOK ==
  /\ transport_ \in {"null", "connected"}
  /\ id_ \in Int /\ id_ >= -1
  /\ command_mutex_ \in Threads \cup {NoThread}
  /\ response_queue_ \in Seq(Reply)
  /\ pc \in [Threads -> PCs]
  /\ request \in [Threads -> Ids \cup {NoId}]
  /\ outcome \in [Threads -> [error : Errors, reply : Ids \cup {NoId}]]
  /\ accepted \in SUBSET Ids

(******************************************************************************)
(* A finished executeCommand returned what the peer answered to the request   *)
(* of that very call, never the late answer to a call that had timed out or   *)
(* failed before (session.cpp:92-128).                                        *)
(******************************************************************************)
ReplyBelongsToCall ==
  \A t \in Threads :
    pc[t] = "idle" /\ outcome[t].error \notin {"none", "timed_out"}
      => outcome[t].reply = request[t]

(******************************************************************************)
(* remove_if without erase is harmless: it never has an element to move, so   *)
(* the predicate of wait_for leaves the queue as it is and no moved-from      *)
(* document is ever read (session.cpp:93-96).                                 *)
(******************************************************************************)
RemoveStaleIsNoOp ==
  \A current \in {id_, id_ + 1} : RemoveStale(response_queue_, current) = response_queue_

(******************************************************************************)
(* No lost wakeup: a thread that sleeps in wait_for has no answer waiting for *)
(* it in the queue (session.cpp:92, 166-169).                                 *)
(******************************************************************************)
NoLostWakeup ==
  \A t \in Threads :
    pc[t] = "blocked" => \A i \in DOMAIN response_queue_ : response_queue_[i].id # request[t]

(******************************************************************************)
(* Every request carries an id that no request of this connection and no      *)
(* answer still in the queue has, also after a timeout, an error left in the  *)
(* queue, a one-way command or a reopening (session.cpp:80, 89).              *)
(******************************************************************************)
FreshRequestId ==
  [][\A t \in Threads :
       request'[t] # request[t] =>
         /\ request'[t] \notin accepted
         /\ \A u \in Threads \ {t} : request'[t] # request[u]
         /\ \A i \in DOMAIN response_queue_ : response_queue_[i].id # request'[t]]_vars

(******************************************************************************)
(* Once the answer to a waiting command is in the queue it stays there until  *)
(* the command returns, whatever else the peer sends: the command then        *)
(* returns an answer and not timed_out (session.cpp:98-130, 164-170).         *)
(******************************************************************************)
Answered(t) ==
  /\ pc[t] \in Waiting
  /\ \E i \in DOMAIN response_queue_ : response_queue_[i].id = request[t]

AnswerReachesCommand ==
  [][\A t \in Threads :
       Answered(t) => \/ Answered(t)'
                      \/ pc'[t] = "idle" /\ outcome'[t].error # "timed_out"]_vars

(******************************************************************************)
(* A command that has command_mutex_ returns, and so releases it, even if the *)
(* peer never answers (session.cpp:79-82, 86-131).                            *)
(******************************************************************************)
CommandReturns ==
  \A t \in Threads : command_mutex_ = t ~> pc[t] = "idle"

--------------------------------------------------------------------------------
(******************************************************************************)
(* The inductive invariant behind the properties above.                       *)
(******************************************************************************)

\* The queue holds at most one answer, and none to a request not yet made.
QueueInv ==
  /\ Len(response_queue_) <= 1
  /\ \A i \in DOMAIN response_queue_ : response_queue_[i].id \in 0..id_

\* command_mutex_ is held by exactly the thread that is inside executeCommand.
LockInv == \A t \in Threads : pc[t] # "idle" <=> command_mutex_ = t

\* Ids only grow, and the request of the command in progress is the last one.
IdInv ==
  /\ \A n \in accepted : n <= id_
  /\ \A t \in Threads : request[t] <= id_
  /\ \A t \in Threads : pc[t] \in Waiting \cup {"posting"} => request[t] = id_

(******************************************************************************)
(* The queue, the mutex, the ids and the sleeping threads fit together in     *)
(* every reachable state: one call at a time owns the last id, and the queue  *)
(* holds at most one answer, to that id or an older one (session.cpp:77-131,  *)
(* 163-170).                                                                  *)
(******************************************************************************)
SessionInv ==
  /\ TypeOK
  /\ QueueInv
  /\ LockInv
  /\ IdInv
  /\ NoLostWakeup
  /\ ReplyBelongsToCall

--------------------------------------------------------------------------------
(******************************************************************************)
(* The call in progress and its answer, as the abstract service has them.     *)
(******************************************************************************)
IsWaiting == \E t \in Threads : pc[t] \in Waiting

Service ==
  INSTANCE CommandService WITH
    caller  <- command_mutex_,
    issued  <- id_,
    pending <- IF IsWaiting THEN id_ ELSE NoId,
    answer  <- IF IsWaiting /\ \E i \in DOMAIN response_queue_ : response_queue_[i].id = id_
                 THEN ErrorOf(Head(response_queue_).kind) ELSE "none"

(******************************************************************************)
(* The session implements the abstract service: calls do not overlap, each    *)
(* returns the last answer that was accepted for it, and it times out only    *)
(* when there is none, whatever errors earlier calls left in the queue        *)
(* (session.cpp:77-131, 158-171).                                             *)
(******************************************************************************)
ImplementsCommandService == Service!Spec
================================================================================
