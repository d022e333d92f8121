----------------------------- MODULE SessionProofs -----------------------------
(******************************************************************************)
(* Proofs that Session keeps its invariants for every set of threads, every   *)
(* peer and every number of commands.                                         *)
(******************************************************************************)
EXTENDS Session, FiniteSetTheorems, TLAPS

(******************************************************************************)
(* remove_if on a queue with at most one element returns it unchanged: the    *)
(* element is kept at its place, or is left where it is (session.cpp:93-95).  *)
(******************************************************************************)
LEMMA RemoveStaleShort ==
  ASSUME NEW queue, NEW current \in Int,
         queue = <<>> \/ \E m \in Reply : queue = <<m>>
  PROVE  RemoveStale(queue, current) = queue
<1> DEFINE Kept == {i \in DOMAIN queue : queue[i].id >= current}
           Place(i) == Cardinality({j \in Kept : j <= i})
<1>1. CASE queue = <<>>
  BY <1>1 DEF RemoveStale
<1>2. CASE \E m \in Reply : queue = <<m>>
  <2>1. PICK m \in Reply : queue = <<m>>
    BY <1>2
  <2>2. DOMAIN queue = {1} /\ queue = [p \in {1} |-> m]
    BY <2>1
  <2>3. CASE 1 \in Kept
    <3>1. Kept = {1}
      BY <2>2, <2>3
    <3>2. {j \in Kept : j <= 1} = {1}
      BY <3>1
    <3>3. Place(1) = 1
      BY <3>2, FS_Singleton
    <3>4. (CHOOSE i \in Kept : Place(i) = 1) = 1
      BY <3>1, <3>3
    <3> HIDE DEF Kept, Place
    <3>5. RemoveStale(queue, current) =
            [p \in DOMAIN queue |->
               IF \E i \in Kept : Place(i) = p
                 THEN queue[CHOOSE i \in Kept : Place(i) = p]
                 ELSE IF p \in Kept THEN MovedFrom ELSE queue[p]]
      BY DEF RemoveStale, Kept, Place
    <3> QED
      BY <2>2, <3>1, <3>3, <3>4, <3>5
  <2>4. CASE 1 \notin Kept
    <3>1. Kept = {}
      BY <2>2, <2>4
    <3> HIDE DEF Kept, Place
    <3>2. RemoveStale(queue, current) =
            [p \in DOMAIN queue |->
               IF \E i \in Kept : Place(i) = p
                 THEN queue[CHOOSE i \in Kept : Place(i) = p]
                 ELSE IF p \in Kept THEN MovedFrom ELSE queue[p]]
      BY DEF RemoveStale, Kept, Place
    <3> QED
      BY <2>2, <3>1, <3>2
  <2> QED
    BY <2>3, <2>4
<1> QED
  BY <1>1, <1>2

--------------------------------------------------------------------------------
(******************************************************************************)
(* What the invariant says of the queue, in the form the steps below use.     *)
(******************************************************************************)
LEMMA QueueShape ==
  ASSUME TypeOK, QueueInv
  PROVE  \/ response_queue_ = <<>>
         \/ \E m \in Reply : m.id \in 0..id_ /\ response_queue_ = <<m>>
<1>1. CASE Len(response_queue_) = 0
  BY <1>1 DEF TypeOK
<1>2. CASE Len(response_queue_) = 1
  <2>1. response_queue_ = <<response_queue_[1]>>
    BY <1>2 DEF TypeOK
  <2>2. 1 \in DOMAIN response_queue_
    BY <1>2 DEF TypeOK
  <2>3. response_queue_[1] \in Reply
    BY <2>2 DEF TypeOK
  <2>4. response_queue_[1].id \in 0..id_
    BY <2>2 DEF QueueInv
  <2> QED
    BY <2>1, <2>3, <2>4
<1>3. Len(response_queue_) \in Nat /\ Len(response_queue_) <= 1
  BY DEF TypeOK, QueueInv
<1>4. Len(response_queue_) = 0 \/ Len(response_queue_) = 1
  BY <1>3
<1> QED
  BY <1>1, <1>2, <1>4

(******************************************************************************)
(* The predicate of wait_for has no side effect in a reachable state.         *)
(******************************************************************************)
LEMMA PredicateIsPure ==
  ASSUME TypeOK, QueueInv, NEW current \in Int
  PROVE  RemoveStale(response_queue_, current) = response_queue_
BY QueueShape, RemoveStaleShort

(******************************************************************************)
(* A new Session satisfies the invariant (session.cpp:19-23).                 *)
(******************************************************************************)
LEMMA InitInv == Init => SessionInv
BY SessionAssumption
   DEF Init, SessionInv, TypeOK, QueueInv, LockInv, IdInv, NoLostWakeup,
       ReplyBelongsToCall, NoOutcome, NoId, Ids, PCs, Waiting, Errors

(******************************************************************************)
(* executeCommand makes of every answer an error_t other than timed_out       *)
(* (session.cpp:107-126).                                                     *)
(******************************************************************************)
LEMMA ErrorOfType ==
  ASSUME NEW kind \in AllReplyKinds
  PROVE  ErrorOf(kind) \in Errors \ {"none", "timed_out"}
BY DEF ErrorOf, Errors, AllReplyKinds, ProtocolCodes

(******************************************************************************)
(* Every step of a caller, of the worker and of open() and close() preserves  *)
(* the invariant: one step of the proof for each action.                      *)
(******************************************************************************)
LEMMA StepInv == SessionInv /\ [Next]_vars => SessionInv'
<1> SUFFICES ASSUME SessionInv, [Next]_vars
             PROVE  SessionInv'
  OBVIOUS
<1> USE SessionAssumption DEF SessionInv
<1>1. CASE Open
  BY <1>1 DEF Open, Quiescent, TypeOK, QueueInv, LockInv, IdInv, NoLostWakeup,
              ReplyBelongsToCall
<1>2. CASE Close
  BY <1>2 DEF Close, Quiescent, TypeOK, QueueInv, LockInv, IdInv, NoLostWakeup,
              ReplyBelongsToCall, Reply
<1>3. ASSUME NEW t \in Threads, Lock(t)
      PROVE  SessionInv'
  BY <1>3 DEF Lock, MutexIsFree, TypeOK, QueueInv, LockInv, IdInv, NoLostWakeup,
              ReplyBelongsToCall, PCs, Waiting
<1>4. ASSUME NEW t \in Threads, SpuriousWake(t)
      PROVE  SessionInv'
  BY <1>4 DEF SpuriousWake, TypeOK, QueueInv, LockInv, IdInv, NoLostWakeup,
              ReplyBelongsToCall, PCs, Waiting
<1>5. ASSUME NEW t \in Threads, Expire(t)
      PROVE  SessionInv'
  BY <1>5 DEF Expire, TypeOK, QueueInv, LockInv, IdInv, NoLostWakeup,
              ReplyBelongsToCall, PCs, Waiting
<1>6. ASSUME NEW t \in Threads, IncrementId(t)
      PROVE  SessionInv'
  <2>1. TypeOK'
    BY <1>6 DEF IncrementId, NextId, TypeOK, PCs, Ids
  <2>2. QueueInv'
    BY <1>6 DEF IncrementId, NextId, TypeOK, QueueInv
  <2>3. LockInv'
    BY <1>6 DEF IncrementId, NextId, TypeOK, LockInv, PCs, Waiting
  <2>4. IdInv'
    <3>1. \A u \in Threads \ {t} : pc[u] = "idle"
      BY <1>6 DEF IncrementId, NextId, LockInv
    <3> QED
      BY <1>6, <3>1 DEF IncrementId, NextId, TypeOK, IdInv, Waiting, Ids, NoId
  <2>5. NoLostWakeup' /\ ReplyBelongsToCall'
    BY <1>6 DEF IncrementId, NextId, TypeOK, NoLostWakeup, ReplyBelongsToCall
  <2> QED
    BY <2>1, <2>2, <2>3, <2>4, <2>5
<1>7. ASSUME NEW t \in Threads, PostRequest(t)
      PROVE  SessionInv'
  <2>1. request[t] \in Ids
    BY <1>7 DEF PostRequest, TypeOK, IdInv, Ids, NoId
  <2>2. /\ NoOutcome \in [error : Errors, reply : Ids \cup {NoId}]
        /\ NoOutcome.error = "none"
    BY DEF NoOutcome, Errors
  <2>3. TypeOK'
    BY <1>7, <2>1, <2>2 DEF PostRequest, TypeOK, PCs
  <2> QED
    BY <1>7, <2>1, <2>2, <2>3 DEF PostRequest, TypeOK, QueueInv, LockInv, IdInv,
         NoLostWakeup, ReplyBelongsToCall, PCs, Waiting
<1>8. ASSUME NEW t \in Threads, SendRequest(t)
      PROVE  SessionInv'
  <2>1. RemoveStale(response_queue_, id_ + 1) = response_queue_
    BY PredicateIsPure DEF TypeOK
  <2>2. ~ReplyAtFront(response_queue_, id_ + 1)
    BY QueueShape DEF ReplyAtFront, TypeOK
  <2>3. Sleep(t, response_queue_)
    BY <1>8, <2>1, <2>2 DEF SendRequest, NextId
  <2>4. /\ pc[t] = "locked" /\ id_' = id_ + 1
        /\ request' = [request EXCEPT ![t] = id_ + 1]
        /\ accepted' = accepted \cup {id_ + 1}
        /\ UNCHANGED transport_
    BY <1>8 DEF SendRequest, NextId
  <2>5. /\ pc' = [pc EXCEPT ![t] = "blocked"]
        /\ UNCHANGED <<response_queue_, outcome, command_mutex_>>
    BY <2>3 DEF Sleep
  <2>6. \A u \in Threads \ {t} : pc[u] = "idle"
    BY <2>4 DEF LockInv
  <2>7. TypeOK'
    BY <2>4, <2>5 DEF TypeOK, PCs, Waiting, Ids
  <2>8. QueueInv'
    BY <2>4, <2>5 DEF TypeOK, QueueInv
  <2>9. LockInv'
    BY <2>4, <2>5 DEF TypeOK, LockInv
  <2>10. IdInv'
    BY <2>4, <2>5, <2>6 DEF TypeOK, IdInv, Waiting, Ids, NoId
  <2>11. NoLostWakeup'
    BY <2>4, <2>5, <2>6 DEF TypeOK, QueueInv, NoLostWakeup
  <2>12. ReplyBelongsToCall'
    BY <2>4, <2>5 DEF TypeOK, ReplyBelongsToCall
  <2> QED
    BY <2>7, <2>8, <2>9, <2>10, <2>11, <2>12
<1>9. ASSUME NEW t \in Threads, Recheck(t)
      PROVE  SessionInv'
  <2>1. RemoveStale(response_queue_, id_) = response_queue_
    BY PredicateIsPure DEF TypeOK
  <2>2. pc[t] \in {"woken", "expired"} /\ UNCHANGED <<transport_, id_, request, accepted>>
    BY <1>9 DEF Recheck
  <2>3. CASE ReplyAtFront(response_queue_, id_) /\ Return(t, response_queue_)
    <3>1. PICK m \in Reply : m.id \in 0..id_ /\ response_queue_ = <<m>>
      BY <2>3, QueueShape DEF ReplyAtFront
    <3>2. m.id = id_ /\ Head(response_queue_) = m /\ Tail(response_queue_) = <<>>
      BY <2>3, <3>1 DEF ReplyAtFront
    <3>3. ErrorOf(m.kind) \in Errors
      BY ErrorOfType DEF Reply
    <3>4. /\ outcome' = [outcome EXCEPT ![t] = [error |-> ErrorOf(m.kind), reply |-> m.id]]
          /\ response_queue_' \in {<<>>, response_queue_}
          /\ pc' = [pc EXCEPT ![t] = "idle"]
          /\ command_mutex_' = NoThread
      BY <2>3, <3>2 DEF Return
    <3>5. request[t] = id_ /\ id_ \in Ids
      BY <2>2, <3>1 DEF IdInv, Waiting, TypeOK, Ids
    <3>6. [error |-> ErrorOf(m.kind), reply |-> m.id] \in [error : Errors, reply : Ids \cup {NoId}]
      BY <3>2, <3>3, <3>5
    <3>7. response_queue_' \in Seq(Reply)
      <4>1. CASE response_queue_' = <<>>
        BY <4>1
      <4>2. CASE response_queue_' = response_queue_
        BY <4>2 DEF TypeOK
      <4> QED
        BY <3>4, <4>1, <4>2
    <3>8. TypeOK'
      BY <2>2, <3>4, <3>6, <3>7 DEF TypeOK, PCs
    <3>9. QueueInv'
      <4>1. CASE response_queue_' = <<>>
        BY <4>1 DEF QueueInv
      <4>2. CASE response_queue_' = response_queue_
        BY <2>2, <4>2 DEF QueueInv
      <4> QED
        BY <3>4, <4>1, <4>2
    <3>10. ReplyBelongsToCall'
      BY <2>2, <3>2, <3>4, <3>5 DEF TypeOK, ReplyBelongsToCall
    <3>11. LockInv' /\ IdInv'
      BY <2>2, <3>4 DEF TypeOK, LockInv, IdInv, Waiting
    <3>12. NoLostWakeup'
      BY <2>2, <3>4 DEF TypeOK, LockInv, NoLostWakeup
    <3> QED
      BY <3>8, <3>9, <3>10, <3>11, <3>12
  <2>4. CASE ReturnTimedOut(t, response_queue_)
    BY <2>2, <2>4 DEF ReturnTimedOut, TypeOK, QueueInv, LockInv, IdInv,
         NoLostWakeup, ReplyBelongsToCall, PCs, Waiting, Errors
  <2>5. CASE ~ReplyAtFront(response_queue_, id_) /\ Sleep(t, response_queue_)
    <3>1. \A i \in DOMAIN response_queue_ : response_queue_[i].id # id_
      BY <2>5, QueueShape DEF ReplyAtFront
    <3> QED
      BY <2>2, <2>5, <3>1 DEF Sleep, TypeOK, QueueInv, LockInv, IdInv,
           NoLostWakeup, ReplyBelongsToCall, PCs, Waiting
  <2> QED
    BY <1>9, <2>1, <2>3, <2>4, <2>5 DEF Recheck, WaitSucceeds
<1>10. ASSUME NEW message \in PeerMessages, OnMessageReceived(message)
       PROVE  SessionInv'
  <2>1. CASE ~IsCurrent(message)
    BY <1>10, <2>1 DEF OnMessageReceived, TypeOK, QueueInv, LockInv, IdInv,
         NoLostWakeup, ReplyBelongsToCall
  <2>2. CASE IsCurrent(message)
    <3>1. message \in Reply /\ message.id = id_ /\ id_ \in Ids
      BY <2>2 DEF PeerMessages, IsCurrent, Reply, TypeOK, Ids, NoId
    <3>2. /\ response_queue_' = <<message>>
          /\ UNCHANGED <<transport_, id_, command_mutex_, request, outcome, accepted>>
          /\ NotifyOne
      BY <1>10, <2>2 DEF OnMessageReceived, QueueWith
    <3>3. CASE \A t \in Threads : pc[t] # "blocked"
      BY <3>1, <3>2, <3>3 DEF NotifyOne, TypeOK, QueueInv, LockInv, IdInv,
           NoLostWakeup, ReplyBelongsToCall, Ids
    <3>4. ASSUME NEW t \in Threads, pc[t] = "blocked", pc' = [pc EXCEPT ![t] = "woken"]
          PROVE  SessionInv'
      BY <3>1, <3>2, <3>4 DEF TypeOK, QueueInv, LockInv, IdInv, NoLostWakeup,
           ReplyBelongsToCall, PCs, Waiting, Ids
    <3> QED
      BY <3>2, <3>3, <3>4 DEF NotifyOne
  <2> QED
    BY <2>1, <2>2
<1>11. CASE UNCHANGED vars
  BY <1>11 DEF vars, TypeOK, QueueInv, LockInv, IdInv, NoLostWakeup, ReplyBelongsToCall
<1> QED
  BY <1>1, <1>2, <1>3, <1>4, <1>5, <1>6, <1>7, <1>8, <1>9, <1>10, <1>11
     DEF Next, Command, OneWay

(******************************************************************************)
(* The inductive invariant holds in every reachable state of executeCommand,  *)
(* onMessageReceived, open and close.                                         *)
(******************************************************************************)
THEOREM SessionInvariant == Spec => []SessionInv
BY InitInv, StepInv, PTL DEF Spec

(******************************************************************************)
(* Every state of the session is well formed.                                 *)
(******************************************************************************)
THEOREM TypeCorrectness == Spec => []TypeOK
BY SessionInvariant, PTL DEF SessionInv

(******************************************************************************)
(* A call never returns the answer to another call (session.cpp:92-128).      *)
(******************************************************************************)
THEOREM RepliesBelongToCalls == Spec => []ReplyBelongsToCall
BY SessionInvariant, PTL DEF SessionInv

(******************************************************************************)
(* A sleeping command has no answer in the queue (session.cpp:92, 166-169).   *)
(******************************************************************************)
THEOREM NoWakeupIsLost == Spec => []NoLostWakeup
BY SessionInvariant, PTL DEF SessionInv

(******************************************************************************)
(* The remove_if whose result is not erased never moves a document            *)
(* (session.cpp:93-95).                                                       *)
(******************************************************************************)
THEOREM RemoveStaleNeverMoves == Spec => []RemoveStaleIsNoOp
<1>1. SessionInv => RemoveStaleIsNoOp
  BY PredicateIsPure DEF SessionInv, RemoveStaleIsNoOp, TypeOK
<1> QED
  BY <1>1, SessionInvariant, PTL

(******************************************************************************)
(* No request reuses an id that an answer could still carry                   *)
(* (session.cpp:80, 89).                                                      *)
(******************************************************************************)
THEOREM RequestIdsAreFresh == Spec => FreshRequestId
<1> DEFINE Fresh ==
      \A t \in Threads :
        request'[t] # request[t] =>
          /\ request'[t] \notin accepted
          /\ \A u \in Threads \ {t} : request'[t] # request[u]
          /\ \A i \in DOMAIN response_queue_ : response_queue_[i].id # request'[t]
<1>1. ASSUME SessionInv, [Next]_vars
      PROVE  [Fresh]_vars
  <2>1. ASSUME NEW t \in Threads, request' = [request EXCEPT ![t] = id_ + 1]
        PROVE  Fresh
    BY <1>1, <2>1 DEF SessionInv, TypeOK, IdInv, QueueInv, Ids, NoId
  <2>2. CASE request' = request
    BY <2>2
  <2>3. \/ request' = request
        \/ \E t \in Threads : request' = [request EXCEPT ![t] = id_ + 1]
    BY <1>1 DEF Next, vars, Open, Close, Lock, Command, SendRequest, SpuriousWake,
         Expire, Recheck, OneWay, IncrementId, NextId, PostRequest, OnMessageReceived
  <2> QED
    BY <2>1, <2>2, <2>3
<1> QED
  BY <1>1, SessionInvariant, PTL DEF Spec, FreshRequestId

--------------------------------------------------------------------------------
(******************************************************************************)
(* An answer that has reached the queue of a waiting command is what the      *)
(* command returns: no later message, wakeup or deadline takes it away        *)
(* (session.cpp:98-130, 164-170).                                             *)
(******************************************************************************)
LEMMA AnswerStays ==
  ASSUME SessionInv, [Next]_vars, NEW t \in Threads, Answered(t)
  PROVE  \/ Answered(t)'
         \/ pc'[t] = "idle" /\ outcome'[t].error # "timed_out"
<1> USE SessionAssumption DEF SessionInv
<1>1. /\ pc[t] \in Waiting
      /\ \E i \in DOMAIN response_queue_ : response_queue_[i].id = request[t]
  BY DEF Answered
<1>2. request[t] = id_ /\ command_mutex_ = t
  BY <1>1 DEF IdInv, LockInv, Waiting
<1>3. \A u \in Threads : u # t => pc[u] = "idle"
  BY <1>2 DEF LockInv
<1>4. ~Open /\ ~Close
  BY <1>1 DEF Open, Close, Quiescent, Waiting
<1>5. \A u \in Threads : ~Lock(u)
  BY <1>2 DEF Lock, MutexIsFree
<1>6. \A u \in Threads : ~SendRequest(u) /\ ~IncrementId(u) /\ ~PostRequest(u)
  BY <1>1, <1>3 DEF SendRequest, IncrementId, PostRequest, Waiting
<1>7. ASSUME NEW u \in Threads, SpuriousWake(u) \/ Expire(u)
      PROVE  Answered(t)'
  BY <1>1, <1>7 DEF SpuriousWake, Expire, Answered, TypeOK, Waiting
<1>8. ASSUME NEW u \in Threads, Recheck(u)
      PROVE  pc'[t] = "idle" /\ outcome'[t].error # "timed_out"
  <2>1. u = t
    BY <1>3, <1>8 DEF Recheck
  <2>2. PICK m \in Reply : response_queue_ = <<m>>
    BY <1>1, QueueShape
  <2>3. m.id = id_ /\ Head(response_queue_) = m
    BY <1>1, <1>2, <2>2
  <2>4. RemoveStale(response_queue_, id_) = response_queue_
    BY PredicateIsPure DEF TypeOK
  <2>5. ReplyAtFront(response_queue_, id_)
    BY <2>2, <2>3 DEF ReplyAtFront
  <2>6. Return(t, response_queue_)
    BY <1>8, <2>1, <2>4, <2>5 DEF Recheck, WaitSucceeds
  <2>7. ErrorOf(m.kind) # "timed_out"
    BY ErrorOfType DEF Reply
  <2> QED
    BY <2>3, <2>6, <2>7 DEF Return, TypeOK
<1>9. ASSUME NEW message \in PeerMessages, OnMessageReceived(message)
      PROVE  Answered(t)'
  <2>1. pc'[t] \in Waiting
    BY <1>1, <1>9 DEF OnMessageReceived, NotifyOne, TypeOK, Waiting
  <2>2. request' = request
    BY <1>9 DEF OnMessageReceived
  <2>3. CASE IsCurrent(message)
    <3>1. response_queue_' = <<message>> /\ message.id = request[t]
      BY <1>2, <1>9, <2>3 DEF OnMessageReceived, QueueWith, IsCurrent
    <3> QED
      BY <2>1, <2>2, <3>1 DEF Answered
  <2>4. CASE ~IsCurrent(message)
    BY <1>1, <1>9, <2>1, <2>2, <2>4 DEF OnMessageReceived, Answered
  <2> QED
    BY <2>3, <2>4
<1>10. CASE UNCHANGED vars
  BY <1>1, <1>10 DEF vars, Answered
<1> QED
  BY <1>4, <1>5, <1>6, <1>7, <1>8, <1>9, <1>10 DEF Next, Command, OneWay

(******************************************************************************)
(* Once answered, a waiting command returns the answer and never timed_out    *)
(* (session.cpp:98-130, 164-170).                                             *)
(******************************************************************************)
THEOREM AnswersReachCommands == Spec => AnswerReachesCommand
<1>1. SessionInv /\ [Next]_vars =>
        [\A t \in Threads :
           Answered(t) => \/ Answered(t)'
                          \/ pc'[t] = "idle" /\ outcome'[t].error # "timed_out"]_vars
  BY AnswerStays
<1> QED
  BY <1>1, SessionInvariant, PTL DEF Spec, AnswerReachesCommand

--------------------------------------------------------------------------------
(******************************************************************************)
(* The answer of the abstract service: what the command in progress would     *)
(* return now.                                                                *)
(******************************************************************************)
Pending == IF IsWaiting THEN id_ ELSE NoId

Answer ==
  IF IsWaiting /\ \E i \in DOMAIN response_queue_ : response_queue_[i].id = id_
    THEN ErrorOf(Head(response_queue_).kind) ELSE "none"

(******************************************************************************)
(* While nobody waits, the abstract call has no number and no answer, also    *)
(* when an error of an earlier call is still in the queue (session.cpp:107).  *)
(******************************************************************************)
LEMMA NobodyWaits ==
  ASSUME ~IsWaiting
  PROVE  Pending = NoId /\ Answer = "none"
BY DEF Pending, Answer

(******************************************************************************)
(* The thread that holds command_mutex_ is the only one that can be waiting   *)
(* (session.cpp:86).                                                          *)
(******************************************************************************)
LEMMA OnlyHolderWaits ==
  ASSUME SessionInv, NEW t \in Threads, command_mutex_ = t
  PROVE  IsWaiting <=> pc[t] \in Waiting
BY DEF SessionInv, LockInv, IsWaiting, Waiting

(******************************************************************************)
(* A new session is an initial state of the service (session.cpp:19-23).      *)
(******************************************************************************)
LEMMA InitImplements == Init => Service!Init
<1> SUFFICES ASSUME Init PROVE Service!Init
  OBVIOUS
<1>1. ~IsWaiting
  BY DEF Init, IsWaiting, Waiting
<1> QED
  BY <1>1, NobodyWaits DEF Init, Service!Init, Service!NoCall, Service!NoAnswer,
       NoOutcome, NoId, Pending, Answer

(******************************************************************************)
(* Every step of the session is a step of the service or changes nothing the  *)
(* service shows: taking the mutex enters, the increment asks or tells, an    *)
(* answer to the last request is accepted, and the return finishes            *)
(* (session.cpp:77-131, 158-171).                                             *)
(******************************************************************************)
LEMMA StepImplements == SessionInv /\ SessionInv' /\ [Next]_vars => [Service!Next]_(Service!vars)
<1> SUFFICES ASSUME SessionInv, SessionInv', [Next]_vars
             PROVE  [Service!Next]_(Service!vars)
  OBVIOUS
<1> USE SessionAssumption
<1>0. ASSUME UNCHANGED <<command_mutex_, id_, outcome>>, Pending' = Pending, Answer' = Answer
      PROVE  UNCHANGED Service!vars
  BY <1>0 DEF Service!vars, Pending, Answer
<1>1. CASE Open \/ Close
  <2>1. ~IsWaiting /\ pc' = pc
    BY <1>1 DEF Open, Close, Quiescent, IsWaiting, Waiting
  <2>2. ~IsWaiting'
    BY <2>1 DEF IsWaiting
  <2> QED
    BY <1>0, <1>1, <2>1, <2>2, NobodyWaits DEF Open, Close, Pending, Answer
<1>2. ASSUME NEW t \in Threads, Lock(t)
      PROVE  Service!Enter(t)
  <2>1. \A u \in Threads : pc[u] = "idle"
    BY <1>2 DEF Lock, MutexIsFree, SessionInv, LockInv
  <2>2. ~IsWaiting /\ ~IsWaiting'
    BY <1>2, <2>1 DEF Lock, IsWaiting, Waiting, SessionInv, TypeOK
  <2> QED
    BY <1>2, <2>2 DEF Lock, MutexIsFree, Service!Enter
<1>3. ASSUME NEW t \in Threads, SpuriousWake(t) \/ Expire(t)
      PROVE  UNCHANGED Service!vars
  <2>1. IsWaiting /\ IsWaiting'
    BY <1>3 DEF SpuriousWake, Expire, IsWaiting, Waiting, SessionInv, TypeOK
  <2>2. UNCHANGED <<command_mutex_, id_, outcome, response_queue_>>
    BY <1>3 DEF SpuriousWake, Expire
  <2> QED
    BY <1>0, <2>1, <2>2 DEF Pending, Answer
<1>4. ASSUME NEW t \in Threads, SendRequest(t)
      PROVE  Service!Ask(t)
  <2>1. RemoveStale(response_queue_, id_ + 1) = response_queue_
    BY PredicateIsPure DEF SessionInv, TypeOK
  <2>2. ~ReplyAtFront(response_queue_, id_ + 1)
    BY QueueShape DEF ReplyAtFront, SessionInv, TypeOK
  <2>3. Sleep(t, response_queue_)
    BY <1>4, <2>1, <2>2 DEF SendRequest, NextId
  <2>4. command_mutex_ = t /\ ~IsWaiting
    BY <1>4, OnlyHolderWaits DEF SendRequest, Waiting, SessionInv, LockInv
  <2>5. IsWaiting' /\ id_' = id_ + 1
    BY <1>4, <2>3 DEF SendRequest, NextId, Sleep, IsWaiting, Waiting, SessionInv, TypeOK
  <2>6. \A i \in DOMAIN response_queue_' : response_queue_'[i].id # id_'
    BY <2>3, <2>5 DEF Sleep, SessionInv, TypeOK, QueueInv
  <2> QED
    BY <2>3, <2>4, <2>5, <2>6 DEF Sleep, Service!Ask, Service!NoCall, NoId
<1>5. ASSUME NEW t \in Threads, IncrementId(t)
      PROVE  Service!Tell(t)
  <2>1. command_mutex_ = t /\ command_mutex_' = t
    BY <1>5 DEF IncrementId, SessionInv, LockInv
  <2>2. ~IsWaiting
    BY <1>5, <2>1, OnlyHolderWaits DEF IncrementId, Waiting
  <2>3. ~IsWaiting'
    BY <1>5, <2>2 DEF IncrementId, IsWaiting, Waiting, SessionInv, TypeOK
  <2> QED
    BY <1>5, <2>1, <2>2, <2>3 DEF IncrementId, NextId, Service!Tell, Service!NoCall, NoId
<1>6. ASSUME NEW t \in Threads, PostRequest(t)
      PROVE  Service!Leave(t)
  <2>1. command_mutex_ = t
    BY <1>6 DEF PostRequest, SessionInv, LockInv
  <2>2. ~IsWaiting
    BY <1>6, <2>1, OnlyHolderWaits DEF PostRequest, Waiting
  <2>3. ~IsWaiting'
    BY <1>6, <2>2 DEF PostRequest, IsWaiting, Waiting, SessionInv, TypeOK
  <2> QED
    BY <1>6, <2>1, <2>2, <2>3 DEF PostRequest, NoOutcome, Service!Leave, Service!NoCall, NoId
<1>7. ASSUME NEW t \in Threads, Recheck(t)
      PROVE  Service!Finish(t) \/ UNCHANGED Service!vars
  <2>1. RemoveStale(response_queue_, id_) = response_queue_
    BY PredicateIsPure DEF SessionInv, TypeOK
  <2>2. /\ pc[t] \in {"woken", "expired"}
        /\ UNCHANGED id_
    BY <1>7 DEF Recheck
  <2>3. command_mutex_ = t /\ IsWaiting /\ id_ # NoId
    BY <2>2 DEF SessionInv, TypeOK, LockInv, IsWaiting, Waiting, NoId
  <2>4. \A u \in Threads \ {t} : pc[u] = "idle"
    BY <2>3 DEF SessionInv, LockInv
  <2>5. ASSUME pc' = [pc EXCEPT ![t] = "idle"]
        PROVE  ~IsWaiting'
    BY <2>4, <2>5 DEF IsWaiting, Waiting, SessionInv, TypeOK
  <2>6. CASE ReplyAtFront(response_queue_, id_) /\ Return(t, response_queue_)
    <3>1. PICK m \in Reply : response_queue_ = <<m>>
      BY <2>6, QueueShape DEF ReplyAtFront, SessionInv
    <3>2. m.id = id_ /\ Head(response_queue_) = m
      BY <2>6, <3>1 DEF ReplyAtFront
    <3>3. ErrorOf(m.kind) # "none"
      BY ErrorOfType DEF Reply
    <3>4. \E i \in DOMAIN response_queue_ : response_queue_[i].id = id_
      BY <3>1, <3>2
    <3>5. ~IsWaiting' /\ command_mutex_' = NoThread
      BY <2>5, <2>6 DEF Return
    <3>6. outcome' = [outcome EXCEPT ![t] = [error |-> ErrorOf(m.kind), reply |-> id_]]
      BY <2>6, <3>2 DEF Return
    <3> QED
      BY <2>2, <2>3, <3>2, <3>3, <3>4, <3>5, <3>6
         DEF Service!Finish, Service!NoCall, Service!NoAnswer, NoId
  <2>7. CASE ~ReplyAtFront(response_queue_, id_) /\ ReturnTimedOut(t, response_queue_)
    <3>1. \A i \in DOMAIN response_queue_ : response_queue_[i].id # id_
      BY <2>7, QueueShape DEF ReplyAtFront, SessionInv
    <3>2. ~IsWaiting' /\ command_mutex_' = NoThread
      BY <2>5, <2>7 DEF ReturnTimedOut
    <3>3. outcome' = [outcome EXCEPT ![t] = [error |-> "timed_out", reply |-> NoId]]
      BY <2>7 DEF ReturnTimedOut
    <3> QED
      BY <2>2, <2>3, <3>1, <3>2, <3>3
         DEF Service!Finish, Service!NoCall, Service!NoAnswer, NoId
  <2>8. CASE Sleep(t, response_queue_)
    <3>1. IsWaiting'
      BY <2>8 DEF Sleep, IsWaiting, Waiting, SessionInv, TypeOK
    <3> QED
      BY <1>0, <2>2, <2>3, <2>8, <3>1 DEF Sleep, Pending, Answer
  <2> QED
    BY <1>7, <2>1, <2>6, <2>7, <2>8 DEF Recheck, WaitSucceeds
<1>8. ASSUME NEW message \in PeerMessages, OnMessageReceived(message)
      PROVE  [Service!Next]_(Service!vars)
  <2>1. UNCHANGED <<command_mutex_, id_, outcome>>
    BY <1>8 DEF OnMessageReceived
  <2>2. IsWaiting' <=> IsWaiting
    BY <1>8 DEF OnMessageReceived, NotifyOne, IsWaiting, Waiting, SessionInv, TypeOK
  <2>3. CASE ~IsCurrent(message)
    BY <1>0, <1>8, <2>1, <2>2, <2>3 DEF OnMessageReceived, Pending, Answer
  <2>4. CASE ~IsWaiting
    BY <1>0, <2>1, <2>2, <2>4 DEF Pending, Answer
  <2>5. CASE IsCurrent(message) /\ IsWaiting
    <3>1. response_queue_' = <<message>> /\ message.id = id_
      BY <1>8, <2>5 DEF OnMessageReceived, QueueWith, IsCurrent
    <3>2. ErrorOf(message.kind) \in Errors \ {"none", "timed_out"}
      BY ErrorOfType DEF PeerMessages
    <3>3. \E i \in DOMAIN response_queue_' : response_queue_'[i].id = id_'
      BY <2>1, <3>1
    <3>4. id_ # NoId
      BY DEF SessionInv, TypeOK, NoId
    <3>5. Service!Accept(ErrorOf(message.kind))
      BY <2>1, <2>2, <2>5, <3>1, <3>3, <3>4 DEF Service!Accept, Service!NoCall, NoId
    <3> QED
      BY <3>2, <3>5 DEF Service!Next, Service!NoAnswer
  <2> QED
    BY <2>3, <2>4, <2>5
<1>9. CASE UNCHANGED vars
  BY <1>0, <1>9 DEF vars, Pending, Answer, IsWaiting
<1> QED
  BY <1>1, <1>2, <1>3, <1>4, <1>5, <1>6, <1>7, <1>8, <1>9
     DEF Next, Command, OneWay, Service!Next

(******************************************************************************)
(* executeCommand and onMessageReceived implement the abstract service: one   *)
(* call at a time, each returning the last answer accepted for it, and        *)
(* timed_out only without one (session.cpp:77-131, 158-171).                  *)
(******************************************************************************)
THEOREM SessionImplementsService == Spec => ImplementsCommandService
BY InitImplements, StepImplements, SessionInvariant, PTL
   DEF Spec, ImplementsCommandService, Service!Spec
================================================================================
