---------------------------- MODULE TransportProofs ----------------------------
(******************************************************************************)
(* Proofs that Transport keeps its invariants and implements the FIFO channel *)
(* for every number of messages and every behaviour of the peer.              *)
(* Then proofs about the conversions of Codec, for data of every length, made *)
(* of any bytes.                                                              *)
(******************************************************************************)
EXTENDS Transport, Codec, ListProofs

(******************************************************************************)
(* Pushing to the back of outgoing_message_queue_ leaves its front alone and  *)
(* makes an empty queue a queue of one message (transport.cpp:144).           *)
(******************************************************************************)
LEMMA AppendNonempty ==
  ASSUME NEW S, NEW s \in Seq(S), NEW x \in S
  PROVE  /\ Append(s, x) \in Seq(S)
         /\ Append(s, x) # <<>>
         /\ s = <<>> => Append(s, x) = <<x>>
         /\ s # <<>> => Head(Append(s, x)) = Head(s)
<1>1. Append(s, x) \in Seq(S) /\ Append(s, x) # <<>>
  BY AppendProperties
<1>2. s = <<>> => Append(s, x) = <<x>>
  OBVIOUS
<1>3. s # <<>> => Head(Append(s, x)) = Head(s)
  OBVIOUS
<1> QED
  BY <1>1, <1>2, <1>3

(******************************************************************************)
(* Popping the front of outgoing_message_queue_ commutes with pushing to its  *)
(* back (transport.cpp:144, 209).                                             *)
(******************************************************************************)
LEMMA TailAppend ==
  ASSUME NEW S, NEW s \in Seq(S), s # <<>>, NEW x \in S
  PROVE  Tail(Append(s, x)) = Append(Tail(s), x)
<1>1. Tail(s) \in Seq(S) /\ Append(s, x) \in Seq(S) /\ Append(s, x) # <<>>
  OBVIOUS
<1>2. Len(Tail(Append(s, x))) = Len(Append(Tail(s), x))
  BY <1>1
<1>3. \A i \in 1..Len(Append(Tail(s), x)) : Tail(Append(s, x))[i] = Append(Tail(s), x)[i]
  BY <1>1
<1>4. Tail(Append(s, x)) \in Seq(S) /\ Append(Tail(s), x) \in Seq(S)
  BY <1>1
<1> QED
  BY <1>2, <1>3, <1>4, SeqEqual

(******************************************************************************)
(* A message posted last is the last of all pending messages                  *)
(* (transport.cpp:142).                                                       *)
(******************************************************************************)
LEMMA ConcatAppend ==
  ASSUME NEW S, NEW s \in Seq(S), NEW t \in Seq(S), NEW x \in S
  PROVE  s \o Append(t, x) = Append(s \o t, x)
<1>1. s \o t \in Seq(S) /\ Append(t, x) \in Seq(S)
  BY ConcatProperties
<1>2. s \o Append(t, x) \in Seq(S) /\ Append(s \o t, x) \in Seq(S)
  BY <1>1, ConcatProperties
<1>3. Len(s \o Append(t, x)) = Len(Append(s \o t, x))
  BY <1>1, ConcatProperties
<1>4. \A i \in 1..Len(s \o Append(t, x)) : (s \o Append(t, x))[i] = Append(s \o t, x)[i]
  BY <1>1, <1>3
<1> QED
  BY <1>2, <1>3, <1>4, SeqEqual

(******************************************************************************)
(* Moving the oldest posted message to the back of outgoing_message_queue_    *)
(* keeps the order of the pending messages (transport.cpp:142-144).           *)
(******************************************************************************)
LEMMA AppendHeadConcatTail ==
  ASSUME NEW S, NEW s \in Seq(S), NEW t \in Seq(S), t # <<>>
  PROVE  Append(s, Head(t)) \o Tail(t) = s \o t
<1>1. Head(t) \in S /\ Tail(t) \in Seq(S) /\ Append(s, Head(t)) \in Seq(S)
  OBVIOUS
<1>2. Append(s, Head(t)) \o Tail(t) \in Seq(S) /\ s \o t \in Seq(S)
  BY <1>1, ConcatProperties
<1>3. Len(Append(s, Head(t)) \o Tail(t)) = Len(s \o t)
  BY <1>1, ConcatProperties
<1>4. \A i \in 1..Len(s \o t) : (Append(s, Head(t)) \o Tail(t))[i] = (s \o t)[i]
  BY <1>1, <1>3
<1> QED
  BY <1>2, <1>3, <1>4, SeqEqual

(******************************************************************************)
(* The front of outgoing_message_queue_ is the first of the pending messages  *)
(* (transport.cpp:203-209).                                                   *)
(******************************************************************************)
LEMMA HeadTailConcat ==
  ASSUME NEW S, NEW s \in Seq(S), NEW t \in Seq(S), s # <<>>
  PROVE  /\ s \o t # <<>>
         /\ Head(s \o t) = Head(s)
         /\ Tail(s \o t) = Tail(s) \o t
<1>1. s \o t \in Seq(S) /\ Tail(s) \in Seq(S)
  BY ConcatProperties
<1>2. s \o t # <<>> /\ Head(s \o t) = Head(s)
  OBVIOUS
<1>3. Tail(s \o t) \in Seq(S) /\ Tail(s) \o t \in Seq(S)
  BY <1>1, <1>2, ConcatProperties
<1>4. Len(Tail(s \o t)) = Len(Tail(s) \o t)
  BY <1>1, <1>2, ConcatProperties
<1>5. \A i \in 1..Len(Tail(s \o t)) : Tail(s \o t)[i] = (Tail(s) \o t)[i]
  BY <1>1, <1>2, <1>4
<1> QED
  BY <1>2, <1>3, <1>4, <1>5, SeqEqual

--------------------------------------------------------------------------------
(******************************************************************************)
(* The parts of TransportInv that are inductive together; the others follow.  *)
(******************************************************************************)
Inductive == TypeOK /\ ConnectInv /\ ReadInv /\ WriteInv

(******************************************************************************)
(* What connect() and the write path promise follows from the inductive parts *)
(* (transport.cpp:75-88, 203-221).                                            *)
(******************************************************************************)
LEMMA InductiveSuffices == Inductive => TransportInv
<1>1. ASSUME ConnectInv, ReadInv PROVE ConnectedIsReceiving
  BY <1>1 DEF ConnectedIsReceiving, ConnectInv, ReadInv
<1>2. ASSUME WriteInv PROVE BuffersHoldFront
  BY <1>2 DEF BuffersHoldFront, WriteInv
<1> QED
  BY <1>1, <1>2 DEF TransportInv, Inductive

(******************************************************************************)
(* A new transport satisfies the invariant (transport.cpp:34-47).             *)
(******************************************************************************)
LEMMA InitInv == Init => Inductive
<1> SUFFICES ASSUME Init PROVE Inductive
  OBVIOUS
<1> USE DEF Init, Ops
<1>1. TypeOK
  BY EmptySeq DEF TypeOK, Callers, InConnectScope, OpStates, Completed
<1>2. ConnectInv /\ ReadInv /\ WriteInv
  BY DEF ConnectInv, ReadInv, WriteInv, InConnectScope
<1> QED
  BY <1>1, <1>2 DEF Inductive

(******************************************************************************)
(* connect(), disconnect(), transmitMessage() and enableOob() on the          *)
(* application's thread preserve the invariant (transport.cpp:66-172).        *)
(******************************************************************************)
LEMMA ApplicationInv == Inductive /\ Application => Inductive'
<1> SUFFICES ASSUME TypeOK, ConnectInv, ReadInv, WriteInv, Application
             PROVE  TypeOK' /\ ConnectInv' /\ ReadInv' /\ WriteInv'
  BY DEF Inductive
<1> USE DEF connectVars, sendVars, receiveVars, socketVars, Ops
<1>1. CASE Connect
  <2>1. TypeOK'
    BY <1>1 DEF Connect, TypeOK, Callers, InConnectScope, OpStates, Completed
  <2>2. ConnectInv'
    BY <1>1 DEF Connect, TypeOK, ConnectInv
  <2>3. ReadInv' /\ WriteInv'
    BY <1>1 DEF Connect, TypeOK, ConnectInv, ReadInv, WriteInv
  <2> QED
    BY <2>1, <2>2, <2>3
<1>2. CASE ExpireConnect
  BY <1>2 DEF ExpireConnect, TypeOK, ConnectInv, ReadInv, WriteInv, Callers, InConnectScope
<1>3. CASE EvaluateConnect
  <2>1. TypeOK'
    BY <1>3 DEF EvaluateConnect, TypeOK, Callers, InConnectScope
  <2>2. ConnectInv'
    BY <1>3 DEF EvaluateConnect, TypeOK, ConnectInv
  <2>3. ReadInv' /\ WriteInv'
    BY <1>3 DEF EvaluateConnect, ReadInv, WriteInv
  <2> QED
    BY <2>1, <2>2, <2>3
<1>4. CASE AbortConnect
  <2>1. TypeOK'
    BY <1>4 DEF AbortConnect, Abort, TypeOK, Callers, OpStates, Completed
  <2>2. ConnectInv'
    BY <1>4 DEF AbortConnect, Abort, TypeOK, ConnectInv
  <2>3. ReadInv'
    BY <1>4 DEF AbortConnect, Abort, TypeOK, ConnectInv, ReadInv
  <2>4. WriteInv'
    BY <1>4 DEF AbortConnect, Abort, TypeOK, WriteInv
  <2> QED
    BY <2>1, <2>2, <2>3, <2>4
<1>5. CASE Join
  BY <1>5 DEF Join, WorkerEnded, TypeOK, ConnectInv, ReadInv, WriteInv, Callers
<1>6. CASE TransmitMessage
  <2>1. posted' \in Seq(Nat) /\ sent' \in Nat
    BY <1>6, AppendNonempty DEF TransmitMessage, TypeOK
  <2> QED
    BY <1>6, <2>1 DEF TransmitMessage, TypeOK, ConnectInv, ReadInv, WriteInv
<1>7. CASE EnableOob
  <2>1. op' \in [Ops -> OpStates] /\ oob_open' \in BOOLEAN
    <3>1. CASE oob_open' = TRUE /\ op' = [op EXCEPT !["oob"] = "pending"]
      BY <3>1 DEF TypeOK, OpStates
    <3>2. CASE UNCHANGED <<oob_open, op>>
      BY <3>2 DEF TypeOK
    <3> QED
      BY <1>7, <3>1, <3>2 DEF EnableOob
  <2>2. TypeOK'
    BY <1>7, <2>1 DEF EnableOob, TypeOK
  <2>3. \A o \in Ops \ {"oob"} : op'[o] = op[o]
    BY <1>7 DEF EnableOob, TypeOK
  <2>4. ConnectInv' /\ ReadInv' /\ WriteInv'
    BY <1>7, <2>3 DEF EnableOob, ConnectInv, ReadInv, WriteInv
  <2> QED
    BY <2>2, <2>4
<1>8. CASE Disconnect
  BY <1>8 DEF Disconnect, TypeOK, ConnectInv, ReadInv, WriteInv, Callers
<1> QED
  BY <1>1, <1>2, <1>3, <1>4, <1>5, <1>6, <1>7, <1>8 DEF Application

(******************************************************************************)
(* The lambda of transmitMessage starts a write only when none is in progress *)
(* and the buffers are empty; the write handler refills them with the next    *)
(* message (transport.cpp:142-154, 203-221).                                  *)
(******************************************************************************)
LEMMA TransmitLambdaInv ==
  ASSUME TypeOK, WriteInv, TransmitLambda
  PROVE  /\ posted' \in Seq(Nat) /\ outgoing_message_queue_' \in Seq(Nat)
         /\ outgoing_message_buffers_' \in Seq(Nat)
         /\ op' \in [Ops -> OpStates] /\ \A o \in Ops \ {"write"} : op'[o] = op[o]
         /\ WriteInv'
<1> USE DEF Ops
<1>1. /\ posted \in Seq(Nat) /\ posted # <<>>
      /\ outgoing_message_queue_ \in Seq(Nat) /\ outgoing_message_buffers_ \in Seq(Nat)
      /\ posted' = Tail(posted)
      /\ outgoing_message_queue_' = Append(outgoing_message_queue_, Head(posted))
  BY DEF TransmitLambda, TypeOK
<1>2. Head(posted) \in Nat /\ posted' \in Seq(Nat)
  BY <1>1, HeadTailProperties
<1>3. outgoing_message_queue_' \in Seq(Nat) /\ outgoing_message_queue_' # <<>>
  BY <1>1, <1>2, AppendNonempty
<1>4. CASE TransmitInProgress
  <2>1. UNCHANGED <<op, outgoing_message_buffers_>> /\ outgoing_message_queue_ # <<>>
    BY <1>4 DEF TransmitLambda, TransmitInProgress
  <2>2. Head(outgoing_message_queue_') = Head(outgoing_message_queue_)
    BY <1>1, <1>2, <2>1, AppendNonempty
  <2>3. WriteInv'
    BY <1>3, <2>1, <2>2 DEF WriteInv
  <2> QED
    BY <1>1, <1>2, <1>3, <2>1, <2>3 DEF TypeOK
<1>5. CASE ~TransmitInProgress
  <2>1. outgoing_message_queue_ = <<>> /\ outgoing_message_buffers_ = <<>>
    BY <1>5 DEF TransmitInProgress, WriteInv
  <2>2. outgoing_message_queue_' = <<Head(posted)>>
    BY <1>1, <2>1
  <2>3. /\ outgoing_message_buffers_' = <<Head(posted)>>
        /\ op' = [op EXCEPT !["write"] = Armed(primary_open)]
    BY <1>1, <1>5, <2>1, <2>2 DEF TransmitLambda, WriteFront, EncapsulateOutgoingMessage
  <2>4. op' \in [Ops -> OpStates] /\ \A o \in Ops \ {"write"} : op'[o] = op[o]
    BY <2>3 DEF Armed, TypeOK, OpStates, Completed
  <2>5. WriteInv'
    BY <2>2, <2>3 DEF WriteInv
  <2> QED
    BY <1>2, <1>3, <2>3, <2>4, <2>5
<1> QED
  BY <1>4, <1>5

(******************************************************************************)
(* The write handler pops the message it has written and refills the consumed *)
(* buffers with the next one; after an error it leaves both alone             *)
(* (transport.cpp:203-221).                                                   *)
(******************************************************************************)
LEMMA OutgoingMessageHandlerInv ==
  ASSUME TypeOK, WriteInv, OutgoingMessageHandler
  PROVE  /\ outgoing_message_queue_' \in Seq(Nat) /\ outgoing_message_buffers_' \in Seq(Nat)
         /\ op' \in [Ops -> OpStates] /\ \A o \in Ops \ {"write"} : op'[o] = op[o]
         /\ op'["write"] # "done"
         /\ outgoing_message_queue_' =
              IF op["write"] = "done" THEN Tail(outgoing_message_queue_)
                                      ELSE outgoing_message_queue_
         /\ WriteInv'
<1> USE DEF Ops
<1> DEFINE rest == Tail(outgoing_message_queue_)
<1>1. /\ outgoing_message_queue_ \in Seq(Nat) /\ outgoing_message_buffers_ \in Seq(Nat)
      /\ outgoing_message_queue_ # <<>>
  BY DEF OutgoingMessageHandler, TypeOK, WriteInv, Completed
<1>2. rest \in Seq(Nat)
  BY <1>1, HeadTailProperties
<1>3. CASE op["write"] = "done" /\ rest # <<>>
  <2>1. /\ outgoing_message_queue_' = rest
        /\ outgoing_message_buffers_' = <<Head(rest)>>
        /\ op' = [op EXCEPT !["write"] = Armed(primary_open)]
    BY <1>3 DEF OutgoingMessageHandler, HasNext, WriteFront, EncapsulateOutgoingMessage, Consumed
  <2>2. Head(rest) \in Nat /\ outgoing_message_buffers_' \in Seq(Nat)
    BY <1>2, <1>3, <2>1
  <2>3. op' \in [Ops -> OpStates] /\ op'["write"] # "done" /\ \A o \in Ops \ {"write"} : op'[o] = op[o]
    BY <2>1 DEF Armed, TypeOK, OpStates, Completed
  <2> HIDE DEF rest
  <2>4. WriteInv'
    BY <1>3, <2>1 DEF WriteInv
  <2> QED
    BY <1>2, <1>3, <2>1, <2>2, <2>3, <2>4 DEF rest
<1>4. CASE op["write"] = "done" /\ rest = <<>>
  <2>1. /\ outgoing_message_queue_' = rest
        /\ outgoing_message_buffers_' = <<>>
        /\ op' = [op EXCEPT !["write"] = "none"]
    BY <1>4 DEF OutgoingMessageHandler, HasNext, Consumed
  <2>2. op' \in [Ops -> OpStates] /\ op'["write"] = "none" /\ \A o \in Ops \ {"write"} : op'[o] = op[o]
    BY <2>1 DEF TypeOK, OpStates
  <2> HIDE DEF rest
  <2>3. WriteInv'
    BY <2>1, <2>2 DEF WriteInv
  <2>4. outgoing_message_buffers_' \in Seq(Nat)
    BY <2>1, EmptySeq
  <2> QED
    BY <1>2, <1>4, <2>1, <2>2, <2>3, <2>4 DEF rest
<1>5. CASE op["write"] # "done"
  <2>1. /\ UNCHANGED <<outgoing_message_queue_, outgoing_message_buffers_>>
        /\ op' = [op EXCEPT !["write"] = "none"]
    BY <1>5 DEF OutgoingMessageHandler
  <2>2. op' \in [Ops -> OpStates] /\ op'["write"] = "none" /\ \A o \in Ops \ {"write"} : op'[o] = op[o]
    BY <2>1 DEF TypeOK, OpStates
  <2>3. WriteInv'
    BY <2>1, <2>2 DEF WriteInv
  <2> QED
    BY <1>1, <1>5, <2>1, <2>2, <2>3
<1> QED
  BY <1>3, <1>4, <1>5

(******************************************************************************)
(* The completion handlers and lambdas on worker_thread_ preserve the         *)
(* invariant (transport.cpp:75-92, 121-127, 142-154, 185-243).                *)
(******************************************************************************)
LEMMA WorkerInv == Inductive /\ Worker => Inductive'
<1> SUFFICES ASSUME TypeOK, ConnectInv, ReadInv, WriteInv, Worker
             PROVE  TypeOK' /\ ConnectInv' /\ ReadInv' /\ WriteInv'
  BY DEF Inductive
<1> USE DEF connectVars, sendVars, receiveVars, socketVars, Ops
<1>1. CASE ConnectHandler
  <2> USE <1>1 DEF ConnectHandler, Running, StillConnecting, ArmRead, Armed
  <2>1. TypeOK'
    BY DEF TypeOK, Callers, InConnectScope, OpStates, Completed
  <2>2. ConnectInv'
    BY DEF TypeOK, ConnectInv, Completed
  <2>3. ReadInv'
    BY DEF TypeOK, ConnectInv, ReadInv, Completed
  <2>4. WriteInv'
    BY DEF TypeOK, WriteInv
  <2> QED
    BY <2>1, <2>2, <2>3, <2>4
<1>2. CASE TransmitLambda
  <2>1. UNCHANGED <<caller, worker, connectVars, receiveVars, socketVars, sent, wire>> /\ Running
    BY <1>2 DEF TransmitLambda
  <2>2. TypeOK' /\ WriteInv'
    BY <1>2, <2>1, TransmitLambdaInv DEF TypeOK
  <2>3. ConnectInv' /\ ReadInv'
    BY <1>2, <2>1, TransmitLambdaInv DEF ConnectInv, ReadInv, Running
  <2> QED
    BY <2>2, <2>3
<1>3. CASE OutgoingMessageHandler
  <2>1. /\ UNCHANGED <<caller, worker, connectVars, receiveVars, socketVars, posted, sent, wire>>
        /\ Running
    BY <1>3 DEF OutgoingMessageHandler
  <2>2. TypeOK' /\ WriteInv'
    BY <1>3, <2>1, OutgoingMessageHandlerInv DEF TypeOK
  <2>3. ConnectInv' /\ ReadInv'
    BY <1>3, <2>1, OutgoingMessageHandlerInv DEF ConnectInv, ReadInv, Running
  <2> QED
    BY <2>2, <2>3
<1>4. CASE IncomingMessageHandler
  <2> USE <1>4 DEF IncomingMessageHandler, Running, ReadOn, ArmRead, Armed
  <2>1. TypeOK'
    BY DEF TypeOK, OpStates, Completed
  <2>2. ConnectInv'
    BY DEF TypeOK, ConnectInv, Completed
  <2>3. ReadInv'
    BY DEF TypeOK, ConnectInv, ReadInv, Completed
  <2>4. WriteInv'
    BY DEF TypeOK, WriteInv
  <2> QED
    BY <2>1, <2>2, <2>3, <2>4
<1>5. CASE OobPacketHandler
  <2> USE <1>5 DEF OobPacketHandler, Running, Armed
  <2>1. TypeOK'
    BY DEF TypeOK, OpStates, Completed
  <2>2. ConnectInv' /\ ReadInv' /\ WriteInv'
    BY DEF TypeOK, ConnectInv, ReadInv, WriteInv
  <2> QED
    BY <2>1, <2>2
<1>6. CASE DisconnectLambda
  <2> USE <1>6 DEF DisconnectLambda, Running, Abort, ClosedByDisconnect
  <2>1. CASE link = "reset"
    BY <2>1 DEF TypeOK, ConnectInv, ReadInv, WriteInv
  <2>2. CASE link # "reset"
    <3>1. TypeOK'
      <4>1. op' \in [Ops -> OpStates] /\ inbound' \in Nat
        BY <2>2 DEF TypeOK, OpStates, Completed
      <4> QED
        BY <2>2, <4>1 DEF TypeOK
    <3>2. ConnectInv'
      BY <2>2 DEF TypeOK, ConnectInv
    <3>3. ReadInv' /\ WriteInv'
      BY <2>2 DEF TypeOK, ConnectInv, ReadInv, WriteInv
    <3> QED
      BY <3>1, <3>2, <3>3
  <2> QED
    BY <2>1, <2>2
<1>7. CASE WorkerExit
  BY <1>7 DEF WorkerExit, Running, TypeOK, ConnectInv, ReadInv, WriteInv
<1> QED
  BY <1>1, <1>2, <1>3, <1>4, <1>5, <1>6, <1>7 DEF Worker

(******************************************************************************)
(* The invariant does not depend on what the peer and the network do.         *)
(******************************************************************************)
LEMMA NetworkInv == Inductive /\ Network => Inductive'
<1> SUFFICES ASSUME TypeOK, ConnectInv, ReadInv, WriteInv, Network
             PROVE  TypeOK' /\ ConnectInv' /\ ReadInv' /\ WriteInv'
  BY DEF Inductive
<1> USE DEF connectVars, sendVars, receiveVars, socketVars, Ops
<1>1. CASE ConnectCompletes
  <2>1. TypeOK'
    BY <1>1 DEF ConnectCompletes, Complete, TypeOK, OpStates, Completed
  <2>2. ConnectInv' /\ ReadInv' /\ WriteInv'
    BY <1>1 DEF ConnectCompletes, Complete, TypeOK, ConnectInv, ReadInv, WriteInv
  <2> QED
    BY <2>1, <2>2
<1>2. CASE PeerSends
  BY <1>2 DEF PeerSends, TypeOK, ConnectInv, ReadInv, WriteInv
<1>3. CASE PeerCloses
  BY <1>3 DEF PeerCloses, TypeOK, ConnectInv, ReadInv, WriteInv
<1>4. CASE PeerResets
  BY <1>4 DEF PeerResets, TypeOK, ConnectInv, ReadInv, WriteInv
<1>5. CASE ReadCompletes
  <2>1. TypeOK'
    BY <1>5 DEF ReadCompletes, Complete, TypeOK, OpStates, Completed
  <2>2. ConnectInv' /\ ReadInv' /\ WriteInv'
    BY <1>5 DEF ReadCompletes, Complete, TypeOK, ConnectInv, ReadInv, WriteInv
  <2> QED
    BY <2>1, <2>2
<1>6. CASE WriteCompletes
  <2>1. wire' \in Seq(Nat)
    <3>1. wire' = wire \o outgoing_message_buffers_ \/ wire' = wire
      BY <1>6 DEF WriteCompletes
    <3>2. wire \o outgoing_message_buffers_ \in Seq(Nat) /\ wire \in Seq(Nat)
      BY ConcatProperties DEF TypeOK
    <3> QED
      BY <3>1, <3>2
  <2>2. TypeOK'
    <3>1. op' \in [Ops -> OpStates]
      BY <1>6 DEF WriteCompletes, Complete, TypeOK, OpStates, Completed
    <3> QED
      BY <1>6, <2>1, <3>1 DEF WriteCompletes, TypeOK
  <2>3. ConnectInv' /\ ReadInv' /\ WriteInv'
    BY <1>6 DEF WriteCompletes, Complete, TypeOK, ConnectInv, ReadInv, WriteInv
  <2> QED
    BY <2>2, <2>3
<1>7. CASE OobCompletes
  <2>1. TypeOK'
    BY <1>7 DEF OobCompletes, Complete, TypeOK, OpStates, Completed
  <2>2. ConnectInv'
    BY <1>7 DEF OobCompletes, Complete, TypeOK, ConnectInv
  <2>3. ReadInv'
    BY <1>7 DEF OobCompletes, Complete, TypeOK, ReadInv
  <2>4. WriteInv'
    BY <1>7 DEF OobCompletes, Complete, TypeOK, WriteInv
  <2> QED
    BY <2>1, <2>2, <2>3, <2>4
<1> QED
  BY <1>1, <1>2, <1>3, <1>4, <1>5, <1>6, <1>7 DEF Network

(******************************************************************************)
(* Every step of the application, the worker and the network preserves the    *)
(* inductive invariant (transport.cpp:66-243).                                *)
(******************************************************************************)
LEMMA StepInv == Inductive /\ [Next]_vars => Inductive'
<1>1. Inductive /\ UNCHANGED vars => Inductive'
  BY DEF vars, connectVars, sendVars, receiveVars, socketVars, Inductive, TypeOK,
         ConnectInv, ReadInv, WriteInv
<1> QED
  BY <1>1, ApplicationInv, WorkerInv, NetworkInv DEF Next

(******************************************************************************)
(* The inductive invariant holds in every reachable state                     *)
(* (transport.cpp:66-243).                                                    *)
(******************************************************************************)
LEMMA AlwaysInductive == Spec => []Inductive
BY InitInv, StepInv, PTL DEF Spec

(******************************************************************************)
(* In every reachable state of connect(), transmitMessage(), disconnect() and *)
(* the handlers, a connection that is up is being read and a write in         *)
(* progress has its message, and nothing else, in the buffers                 *)
(* (transport.cpp:66-243).                                                    *)
(******************************************************************************)
THEOREM TransportInvariant == Spec => []TransportInv
BY AlwaysInductive, InductiveSuffices, PTL

(******************************************************************************)
(* The handler of async_connect never writes to connect()'s stack frame once  *)
(* connect() has left the scope it lives in (transport.cpp:70-109).           *)
(******************************************************************************)
THEOREM ConnectFrameIsAlive == Spec => NoDanglingFrame
<1>1. Inductive /\ [Next]_vars =>
        [connect_result' # connect_result => caller \in InConnectScope]_vars
  <2> SUFFICES ASSUME Inductive, Next, connect_result' # connect_result
               PROVE  caller \in InConnectScope
    BY DEF vars, connectVars
  <2>1. ConnectHandler /\ StillConnecting
    BY DEF Next, Application, Worker, Network, connectVars, Connect, ConnectHandler,
         ExpireConnect, EvaluateConnect, AbortConnect, Join, TransmitMessage, EnableOob,
         Disconnect, TransmitLambda, OutgoingMessageHandler, IncomingMessageHandler,
         OobPacketHandler, DisconnectLambda, WorkerExit, ConnectCompletes, PeerSends,
         PeerCloses, PeerResets, ReadCompletes, WriteCompletes, OobCompletes
  <2>2. op["connect"] # "none" /\ result = "no_error"
    BY <2>1 DEF ConnectHandler, StillConnecting, Completed
  <2> QED
    BY <2>2 DEF Inductive, TypeOK, ConnectInv, Callers, Ops
<1> QED
  BY <1>1, AlwaysInductive, PTL DEF Spec, NoDanglingFrame

(******************************************************************************)
(* After disconnect() or a failed connect() has returned, no handler runs and *)
(* no callback is made (transport.cpp:111-114, 128).                          *)
(******************************************************************************)
THEOREM ReturnedIsQuiet == Spec => NoCallbackAfterReturn
<1>1. Inductive /\ [Next]_vars =>
        [(caller \in {"failed", "closed"}) => callbacks' = callbacks /\ worker' = worker]_vars
  <2> SUFFICES ASSUME Inductive, Next, caller \in {"failed", "closed"}
               PROVE  callbacks' = callbacks /\ worker' = worker
    OBVIOUS
  <2>1. worker = "exited"
    BY DEF Inductive, ReadInv
  <2>2. ~Worker /\ ~Connect
    BY <2>1 DEF Worker, Running, Connect, ConnectHandler, TransmitLambda,
         OutgoingMessageHandler, IncomingMessageHandler, OobPacketHandler,
         DisconnectLambda, WorkerExit
  <2> QED
    BY <2>2 DEF Next, Application, Network, receiveVars, ExpireConnect, EvaluateConnect,
         AbortConnect, Join, TransmitMessage, EnableOob, Disconnect, ConnectCompletes,
         PeerSends, PeerCloses, PeerResets, ReadCompletes, WriteCompletes, OobCompletes
<1> QED
  BY <1>1, AlwaysInductive, PTL DEF Spec, NoCallbackAfterReturn

--------------------------------------------------------------------------------
(******************************************************************************)
(* The abstract channel's pending messages.                                   *)
(******************************************************************************)
Pending == Unwritten \o posted

(******************************************************************************)
(* Whether the abstract channel is broken.                                    *)
(******************************************************************************)
Broken == link \in {"fin", "reset", "closed"}

(******************************************************************************)
(* A step that neither ends a write successfully nor touches the queues does  *)
(* not change what is pending (transport.cpp:201-221).                        *)
(******************************************************************************)
LEMMA PendingUnchanged ==
  ASSUME UNCHANGED <<outgoing_message_queue_, posted>>,
         op["write"] = "done" <=> op'["write"] = "done"
  PROVE  Pending' = Pending
BY DEF Pending, Unwritten

(******************************************************************************)
(* Every step is a step of the channel or changes nothing it shows: the call  *)
(* of transmitMessage sends; moving a message from io_service_ to the queue,  *)
(* encoding it and popping it after its write are invisible; the end of a     *)
(* write delivers the front, or loses it on a connection the peer has closed; *)
(* the end of the connection breaks the channel (transport.cpp:119-224).      *)
(******************************************************************************)
LEMMA StepImplements == Inductive /\ [Next]_vars => [Channel!Next]_(Channel!vars)
<1> SUFFICES ASSUME Inductive, [Next]_vars
             PROVE  [Channel!Next]_(Channel!vars)
  OBVIOUS
<1> USE DEF connectVars, sendVars, receiveVars, socketVars, Ops
<1>0. /\ TypeOK /\ ConnectInv /\ ReadInv /\ WriteInv
      /\ posted \in Seq(Nat) /\ outgoing_message_queue_ \in Seq(Nat) /\ wire \in Seq(Nat)
  BY DEF Inductive, TypeOK
<1>1. Unwritten \in Seq(Nat)
  BY <1>0, HeadTailProperties DEF Unwritten, WriteInv
<1>2. ASSUME Pending' = Pending, wire' = wire, link' = link
      PROVE  UNCHANGED Channel!vars
  BY <1>2 DEF Channel!vars, Pending
<1>3. ASSUME Pending' = Pending, wire' = wire, Broken'
      PROVE  Channel!Break
  BY <1>3 DEF Channel!Break, Pending, Broken
<1>4. CASE TransmitMessage
  <2>1. /\ posted' = Append(posted, sent + 1) /\ sent + 1 \in 1..MaxSend /\ sent + 1 \in Nat
        /\ UNCHANGED <<op, outgoing_message_queue_, wire, link>>
    BY <1>0, <1>4, TransportAssumption DEF TransmitMessage, TypeOK
  <2>2. Unwritten' = Unwritten
    BY <2>1 DEF Unwritten
  <2>3. Pending' = Append(Pending, sent + 1)
    <3>1. Unwritten \o Append(posted, sent + 1) = Append(Unwritten \o posted, sent + 1)
      <4>1. posted \in Seq(Nat)
        BY <1>0
      <4>2. \A s, t \in Seq(Nat), x \in Nat : s \o Append(t, x) = Append(s \o t, x)
        BY ConcatAppend
      <4> QED
        BY <1>1, <2>1, <4>1, <4>2
    <3> QED
      BY <2>1, <2>2, <3>1 DEF Pending
  <2>4. Channel!Send(sent + 1)
    BY <2>1, <2>3 DEF Channel!Send, Pending
  <2> QED
    BY <2>1, <2>4 DEF Channel!Next
<1>5. CASE TransmitLambda
  <2>1. /\ posted # <<>> /\ posted' = Tail(posted)
        /\ outgoing_message_queue_' = Append(outgoing_message_queue_, Head(posted))
        /\ UNCHANGED <<wire, link>>
    BY <1>5 DEF TransmitLambda
  <2>2. Head(posted) \in Nat
    BY <1>0, <2>1, HeadTailProperties
  <2>3. Unwritten' = Append(Unwritten, Head(posted))
    <3>1. CASE outgoing_message_queue_ # <<>>
      <4>1. op' = op
        BY <1>5, <3>1 DEF TransmitLambda, TransmitInProgress
      <4>2. Tail(outgoing_message_queue_') = Append(Tail(outgoing_message_queue_), Head(posted))
        BY <1>0, <2>1, <2>2, <3>1, TailAppend
      <4> QED
        BY <2>1, <4>1, <4>2 DEF Unwritten
    <3>2. CASE outgoing_message_queue_ = <<>>
      <4>1. op["write"] = "none" /\ op'["write"] # "done"
        BY <1>0, <1>5, <3>2
           DEF TransmitLambda, TransmitInProgress, WriteFront, Armed, TypeOK, WriteInv
      <4> QED
        BY <2>1, <4>1 DEF Unwritten
    <3> QED
      BY <3>1, <3>2
  <2>4. Pending' = Pending
    BY <1>0, <1>1, <2>1, <2>3, AppendHeadConcatTail DEF Pending
  <2> QED
    BY <1>2, <2>1, <2>4
<1>6. CASE OutgoingMessageHandler
  <2>1. Unwritten' = Unwritten
    BY <1>0, <1>6, OutgoingMessageHandlerInv DEF Unwritten
  <2>2. UNCHANGED <<posted, wire, link>>
    BY <1>6 DEF OutgoingMessageHandler
  <2> QED
    BY <1>2, <2>1, <2>2 DEF Pending
<1>7. CASE WriteCompletes
  <2>1. UNCHANGED <<posted, outgoing_message_queue_, link>>
    BY <1>7 DEF WriteCompletes
  <2>2. CASE link = "reset"
    <3>1. op["write"] = "pending" /\ op'["write"] = "error" /\ wire' = wire
      BY <1>0, <1>7, <2>2 DEF WriteCompletes, Complete, TypeOK
    <3> QED
      BY <1>2, <2>1, <3>1, PendingUnchanged
  <2>3. CASE link # "reset"
    <3>1. op["write"] = "pending" /\ op'["write"] = "done"
      BY <1>0, <1>7, <2>3 DEF WriteCompletes, Complete, TypeOK
    <3>2. /\ outgoing_message_queue_ # <<>>
          /\ outgoing_message_buffers_ = <<Head(outgoing_message_queue_)>>
      BY <1>0, <3>1 DEF WriteInv
    <3>3. Unwritten = outgoing_message_queue_ /\ Unwritten' = Tail(outgoing_message_queue_)
      BY <2>1, <3>1 DEF Unwritten
    <3>4. /\ Pending # <<>>
          /\ Head(Pending) = Head(outgoing_message_queue_)
          /\ Pending' = Tail(Pending)
      BY <1>0, <2>1, <3>2, <3>3, HeadTailConcat DEF Pending
    <3>5. CASE link = "up"
      <4>1. wire' = wire \o <<Head(Pending)>>
        BY <1>7, <3>2, <3>4, <3>5 DEF WriteCompletes
      <4>2. Head(Pending) \in Nat
        BY <1>0, <3>2, <3>4, HeadTailProperties
      <4>3. wire' = Append(wire, Head(Pending))
        BY <1>0, <4>1, <4>2, AppendIsConcat
      <4>4. Channel!Deliver
        BY <2>1, <3>4, <3>5, <4>3 DEF Channel!Deliver, Pending
      <4> QED
        BY <4>4 DEF Channel!Next
    <3>6. CASE link = "fin"
      <4>1. wire' = wire
        BY <1>7, <3>6 DEF WriteCompletes
      <4>2. Channel!Lose
        BY <2>1, <3>4, <3>6, <4>1 DEF Channel!Lose, Pending
      <4> QED
        BY <4>2 DEF Channel!Next
    <3> QED
      BY <1>7, <2>3, <3>5, <3>6 DEF WriteCompletes
  <2> QED
    BY <2>2, <2>3
<1>8. CASE AbortConnect \/ DisconnectLambda
  <2>1. UNCHANGED <<outgoing_message_queue_, posted, wire>>
    BY <1>8 DEF AbortConnect, DisconnectLambda
  <2>2. op["write"] = "done" <=> op'["write"] = "done"
    BY <1>0, <1>8 DEF AbortConnect, DisconnectLambda, Abort, TypeOK
  <2>3. link' = link \/ Broken'
    BY <1>8 DEF AbortConnect, DisconnectLambda, Broken
  <2> QED
    BY <1>2, <1>3, <2>1, <2>2, <2>3, PendingUnchanged DEF Channel!Next
<1>9. CASE PeerCloses \/ PeerResets
  <2>1. UNCHANGED <<outgoing_message_queue_, posted, wire, op>> /\ Broken'
    BY <1>9 DEF PeerCloses, PeerResets, Broken
  <2> QED
    BY <1>3, <2>1, PendingUnchanged DEF Channel!Next
<1>10. CASE ConnectCompletes
  <2>1. /\ UNCHANGED <<outgoing_message_queue_, posted, wire>>
        /\ op'["write"] = op["write"]
    BY <1>0, <1>10 DEF ConnectCompletes, Complete, TypeOK
  <2>2. ~Broken /\ ~Broken'
    BY <1>0, <1>10 DEF ConnectCompletes, Complete, ConnectInv, Broken
  <2> QED
    BY <2>1, <2>2, PendingUnchanged DEF Channel!vars, Pending, Broken
<1>11. CASE \/ Connect \/ ConnectHandler \/ ExpireConnect \/ EvaluateConnect \/ Join \/ EnableOob
            \/ Disconnect \/ IncomingMessageHandler \/ OobPacketHandler \/ WorkerExit
            \/ PeerSends \/ ReadCompletes \/ OobCompletes \/ UNCHANGED vars
  <2>1. UNCHANGED <<outgoing_message_queue_, posted, wire, link>>
    BY <1>11 DEF vars, Connect, ConnectHandler, ExpireConnect, EvaluateConnect, Join, EnableOob,
         Disconnect, IncomingMessageHandler, OobPacketHandler, WorkerExit, PeerSends,
         ReadCompletes, OobCompletes
  <2>2. op'["write"] = op["write"]
    BY <1>0, <1>11 DEF vars, Connect, ConnectHandler, ExpireConnect, EvaluateConnect, Join,
         EnableOob, Disconnect, IncomingMessageHandler, ReadOn, ArmRead, OobPacketHandler,
         WorkerExit, PeerSends, ReadCompletes, OobCompletes, Complete, TypeOK
  <2> QED
    BY <1>2, <2>1, <2>2, PendingUnchanged
<1> QED
  BY <1>4, <1>5, <1>6, <1>7, <1>8, <1>9, <1>10, <1>11 DEF Next, Application, Worker, Network

(******************************************************************************)
(* transmitMessage is a FIFO channel to the peer, for any number of messages: *)
(* whole, once, in order, without a gap, and with losses only when the        *)
(* connection is broken or closed (transport.cpp:137-155, 201-224).           *)
(******************************************************************************)
THEOREM TransportImplementsChannel == Spec => ImplementsFifoChannel
<1>1. Init => Channel!Init
  BY ConcatEmptySeq, EmptySeq DEF Init, Channel!Init, Unwritten, Ops
<1> QED
  BY <1>1, StepImplements, AlwaysInductive, PTL DEF Spec, ImplementsFifoChannel, Channel!Spec

--------------------------------------------------------------------------------
(******************************************************************************)
(* The conversions of a message.  The bits of a word are propositions, so     *)
(* that the exclusive or of words is reasoned about bit by bit.               *)
(******************************************************************************)

(******************************************************************************)
(* The numbers below n: Below(256) are the bytes, Below(65536) the 16-bit     *)
(* words.                                                                     *)
(******************************************************************************)
Below(n) == {x \in Nat : x < n}

(******************************************************************************)
(* The bit of x with this weight, as a proposition.                           *)
(******************************************************************************)
Bit(x, weight) == (x \div weight) % 2 = 1

--------------------------------------------------------------------------------
(******************************************************************************)
(* A word is made of its hexadecimal digits, and they have its bits.          *)
(******************************************************************************)
LEMMA DigitsOfWord ==
  ASSUME NEW x \in Below(65536), NEW u \in {1, 16, 256, 4096}
  PROVE  /\ (x \div u) % 16 \in Below(16)
         /\ \A w \in {1, 2, 4, 8} : Bit((x \div u) % 16, w) <=> Bit(x, u * w)
<1>1. (x \div u) % 16 \in Below(16)
  BY DEF Below
<1> DEFINE Same(w) == Bit((x \div u) % 16, w) <=> Bit(x, u * w)
<1>2. Same(1) /\ Same(2) /\ Same(4) /\ Same(8)
  <2>1. CASE u = 1
    BY <2>1 DEF Below, Bit
  <2>2. CASE u = 16
    BY <2>2 DEF Below, Bit
  <2>3. CASE u = 256
    BY <2>3 DEF Below, Bit
  <2>4. CASE u = 4096
    BY <2>4 DEF Below, Bit
  <2> QED
    BY <2>1, <2>2, <2>3, <2>4
<1> QED
  BY <1>1, <1>2

(******************************************************************************)
(* The digits of a word made of four hexadecimal digits are those digits.     *)
(******************************************************************************)
LEMMA WordOfDigits ==
  ASSUME NEW d \in Below(16), NEW e \in Below(16), NEW f \in Below(16), NEW g \in Below(16),
         NEW x, x = d * 1 + e * 16 + f * 256 + g * 4096
  PROVE  /\ x \in Below(65536)
         /\ (x \div 1) % 16 = d /\ (x \div 16) % 16 = e
         /\ (x \div 256) % 16 = f /\ (x \div 4096) % 16 = g
  BY DEF Below

(******************************************************************************)
(* The table has the exclusive or of two digits.                              *)
(******************************************************************************)
LEMMA XorDigitsIsXor ==
  ASSUME NEW a \in Below(16), NEW b \in Below(16)
  PROVE  /\ XorDigits[a][b] \in Below(16)
         /\ \A w \in {1, 2, 4, 8} : Bit(XorDigits[a][b], w) <=> ~(Bit(a, w) <=> Bit(b, w))
<1>1. a \in 0..15 /\ b \in 0..15
  BY DEF Below
<1>2. XorDigits[a][b] = ((a \div 1 + b \div 1) % 2) * 1 + ((a \div 2 + b \div 2) % 2) * 2
                     + ((a \div 4 + b \div 4) % 2) * 4 + ((a \div 8 + b \div 8) % 2) * 8
  BY <1>1 DEF XorDigits
<1> DEFINE x == XorDigits[a][b]
<1> HIDE DEF x
<1>3. x \in Nat /\ x < 16
  BY <1>2 DEF Below, x
<1>4. /\ Bit(x, 1) <=> ~(Bit(a, 1) <=> Bit(b, 1))
      /\ Bit(x, 2) <=> ~(Bit(a, 2) <=> Bit(b, 2))
      /\ Bit(x, 4) <=> ~(Bit(a, 4) <=> Bit(b, 4))
      /\ Bit(x, 8) <=> ~(Bit(a, 8) <=> Bit(b, 8))
  <2> DEFINE d1 == (a \div 1 + b \div 1) % 2
             d2 == (a \div 2 + b \div 2) % 2
             d4 == (a \div 4 + b \div 4) % 2
             d8 == (a \div 8 + b \div 8) % 2
  <2>1. d1 = 1 <=> ~(Bit(a, 1) <=> Bit(b, 1))
    BY DEF Below, Bit
  <2>2. d2 = 1 <=> ~(Bit(a, 2) <=> Bit(b, 2))
    BY DEF Below, Bit
  <2>3. d4 = 1 <=> ~(Bit(a, 4) <=> Bit(b, 4))
    BY DEF Below, Bit
  <2>4. d8 = 1 <=> ~(Bit(a, 8) <=> Bit(b, 8))
    BY DEF Below, Bit
  <2>5. d1 \in {0, 1} /\ d2 \in {0, 1} /\ d4 \in {0, 1} /\ d8 \in {0, 1}
    BY DEF Below
  <2>6. x = d1 * 1 + d2 * 2 + d4 * 4 + d8 * 8
    BY <1>2 DEF x
  <2> HIDE DEF d1, d2, d4, d8
  <2>7. /\ Bit(x, 1) <=> d1 = 1
        /\ Bit(x, 2) <=> d2 = 1
        /\ Bit(x, 4) <=> d4 = 1
        /\ Bit(x, 8) <=> d8 = 1
    BY <2>5, <2>6 DEF Bit
  <2> QED
    BY <2>1, <2>2, <2>3, <2>4, <2>7
<1> QED
  BY <1>3, <1>4 DEF Below, x

(******************************************************************************)
(* Each bit of XorWord is the exclusive or of the bits of its arguments.      *)
(******************************************************************************)
LEMMA XorWordIsXor ==
  ASSUME NEW a \in Below(65536), NEW b \in Below(65536)
  PROVE  /\ XorWord(a, b) \in Below(65536)
         /\ \A u \in {1, 16, 256, 4096}, w \in {1, 2, 4, 8} :
              Bit(XorWord(a, b), u * w) <=> ~(Bit(a, u * w) <=> Bit(b, u * w))
<1> DEFINE A(u) == (a \div u) % 16
           B(u) == (b \div u) % 16
           X(u) == XorDigits[A(u)][B(u)]
           x == XorWord(a, b)
<1>1. x = X(1) * 1 + X(16) * 16 + X(256) * 256 + X(4096) * 4096
  BY DEF XorWord
<1>2. \A u \in {1, 16, 256, 4096} :
        /\ X(u) \in Below(16)
        /\ \A w \in {1, 2, 4, 8} : Bit(X(u), w) <=> ~(Bit(a, u * w) <=> Bit(b, u * w))
  <2> SUFFICES ASSUME NEW u \in {1, 16, 256, 4096}
               PROVE  /\ X(u) \in Below(16)
                      /\ \A w \in {1, 2, 4, 8} : Bit(X(u), w) <=> ~(Bit(a, u * w) <=> Bit(b, u * w))
    OBVIOUS
  <2>1. /\ A(u) \in Below(16)
        /\ \A w \in {1, 2, 4, 8} : Bit(A(u), w) <=> Bit(a, u * w)
    BY DigitsOfWord
  <2>2. /\ B(u) \in Below(16)
        /\ \A w \in {1, 2, 4, 8} : Bit(B(u), w) <=> Bit(b, u * w)
    BY DigitsOfWord
  <2> HIDE DEF A, B
  <2>3. /\ X(u) \in Below(16)
        /\ \A w \in {1, 2, 4, 8} : Bit(X(u), w) <=> ~(Bit(A(u), w) <=> Bit(B(u), w))
    BY <2>1, <2>2, XorDigitsIsXor
  <2> QED
    BY <2>1, <2>2, <2>3
<1> HIDE DEF X, x
<1>3. X(1) \in Below(16) /\ X(16) \in Below(16) /\ X(256) \in Below(16) /\ X(4096) \in Below(16)
  BY <1>2
<1>4. /\ x \in Below(65536)
      /\ \A u \in {1, 16, 256, 4096} : (x \div u) % 16 = X(u)
  BY <1>1, <1>3, WordOfDigits
<1>5. \A u \in {1, 16, 256, 4096}, w \in {1, 2, 4, 8} : Bit(X(u), w) <=> Bit(x, u * w)
  BY <1>4, DigitsOfWord
<1>6. ASSUME NEW u \in {1, 16, 256, 4096}, NEW w \in {1, 2, 4, 8}
      PROVE  Bit(x, u * w) <=> ~(Bit(a, u * w) <=> Bit(b, u * w))
  BY <1>2, <1>5
<1> QED
  BY <1>4, <1>6 DEF x

(******************************************************************************)
(* The weights of the bits of a word.                                         *)
(******************************************************************************)
Weights == {1, 2, 4, 8, 16, 32, 64, 128, 256, 512, 1024, 2048, 4096, 8192, 16384, 32768}

(******************************************************************************)
(* A bit of the exclusive or of two words is set when it is set in just one   *)
(* of them.                                                                   *)
(******************************************************************************)
LEMMA XorBits ==
  ASSUME NEW a \in Below(65536), NEW b \in Below(65536)
  PROVE  /\ XorWord(a, b) \in Below(65536)
         /\ \A w \in Weights : Bit(XorWord(a, b), w) <=> ~(Bit(a, w) <=> Bit(b, w))
<1>1. ASSUME NEW w \in Weights
      PROVE  \E u \in {1, 16, 256, 4096}, v \in {1, 2, 4, 8} : w = u * v
  BY DEF Weights
<1> QED
  BY <1>1, XorWordIsXor

(******************************************************************************)
(* A word is given by its bits.                                               *)
(******************************************************************************)
LEMMA SameBits ==
  ASSUME NEW a \in Below(65536), NEW b \in Below(65536),
         \A w \in Weights : Bit(a, w) <=> Bit(b, w)
  PROVE  a = b
<1>1. ASSUME NEW u \in {1, 16, 256, 4096} PROVE (a \div u) % 16 = (b \div u) % 16
  <2> DEFINE d == (a \div u) % 16
             e == (b \div u) % 16
  <2>1. /\ d \in Below(16) /\ e \in Below(16)
        /\ \A w \in {1, 2, 4, 8} : Bit(d, w) <=> Bit(a, u * w)
        /\ \A w \in {1, 2, 4, 8} : Bit(e, w) <=> Bit(b, u * w)
    BY DigitsOfWord
  <2>2. \A w \in {1, 2, 4, 8} : u * w \in Weights
    BY DEF Weights
  <2>3. \A w \in {1, 2, 4, 8} : Bit(d, w) <=> Bit(e, w)
    BY <2>1, <2>2
  <2> HIDE DEF d, e
  <2> QED
    <3>1. d = e
      BY <2>1, <2>3 DEF Below, Bit
    <3> QED
      BY <3>1 DEF d, e
<1> QED
  BY <1>1 DEF Below

--------------------------------------------------------------------------------
(******************************************************************************)
(* What shifting by one place does to the bits.                               *)
(******************************************************************************)
LEMMA DoubledBits ==
  ASSUME NEW r \in Below(65536)
  PROVE  LET s == (r * 2) % 65536
         IN  /\ s \in Below(65536)
             /\ ~Bit(s, 1)
             /\ \A w \in Weights \ {32768} : Bit(s, 2 * w) <=> Bit(r, w)
<1> DEFINE s == (r * 2) % 65536
           Same(w) == Bit(s, 2 * w) <=> Bit(r, w)
<1>1. s \in Below(65536) /\ ~Bit(s, 1)
  BY DEF Below, Bit
<1>2. Same(1) /\ Same(2) /\ Same(4) /\ Same(8) /\ Same(16)
  BY DEF Below, Bit
<1>3. Same(32) /\ Same(64) /\ Same(128) /\ Same(256) /\ Same(512)
  BY DEF Below, Bit
<1>4. Same(1024) /\ Same(2048) /\ Same(4096) /\ Same(8192) /\ Same(16384)
  BY DEF Below, Bit
<1> QED
  BY <1>1, <1>2, <1>3, <1>4 DEF Weights

(******************************************************************************)
(* The coefficients of the polynomial: x^12 + x^5 + 1, with x^16 shifted out. *)
(******************************************************************************)
LEMMA PolynomialBits ==
  /\ 4129 \in Below(65536)
  /\ \A w \in Weights : Bit(4129, w) <=> w \in {1, 32, 4096}
  BY DEF Below, Bit, Weights

(******************************************************************************)
(* A shift moves every bit by one place, and feeds the bit that leaves the    *)
(* register, added to the bit of the message, back where the polynomial has   *)
(* its coefficients.                                                          *)
(******************************************************************************)
IsShift(s, r, feedback) ==
  /\ Bit(s, 1) <=> feedback
  /\ (Bit(s, 2) <=> Bit(r, 1)) /\ (Bit(s, 4) <=> Bit(r, 2))
  /\ (Bit(s, 8) <=> Bit(r, 4)) /\ (Bit(s, 16) <=> Bit(r, 8))
  /\ Bit(s, 32) <=> ~(Bit(r, 16) <=> feedback)
  /\ (Bit(s, 64) <=> Bit(r, 32)) /\ (Bit(s, 128) <=> Bit(r, 64))
  /\ (Bit(s, 256) <=> Bit(r, 128)) /\ (Bit(s, 512) <=> Bit(r, 256))
  /\ (Bit(s, 1024) <=> Bit(r, 512)) /\ (Bit(s, 2048) <=> Bit(r, 1024))
  /\ Bit(s, 4096) <=> ~(Bit(r, 2048) <=> feedback)
  /\ (Bit(s, 8192) <=> Bit(r, 4096)) /\ (Bit(s, 16384) <=> Bit(r, 8192))
  /\ Bit(s, 32768) <=> Bit(r, 16384)

(******************************************************************************)
(* The bits of the register after the shift of the reference CRC.             *)
(******************************************************************************)
LEMMA ShiftBitBits ==
  ASSUME NEW r \in Below(65536), NEW bit \in {0, 1}
  PROVE  /\ ShiftBit(r, bit) \in Below(65536)
         /\ IsShift(ShiftBit(r, bit), r, ~(Bit(r, 32768) <=> bit = 1))
<1> DEFINE feedback == ~(Bit(r, 32768) <=> bit = 1)
           shifted == (r * 2) % 65536
           s == ShiftBit(r, bit)
<1>1. (r \div 32768 + bit) % 2 = 1 <=> feedback
  BY DEF Bit, Below
<1>2. s = IF feedback THEN XorWord(shifted, 4129) ELSE shifted
  BY <1>1 DEF ShiftBit
<1>3. /\ shifted \in Below(65536)
      /\ ~Bit(shifted, 1)
      /\ \A w \in Weights \ {32768} : Bit(shifted, 2 * w) <=> Bit(r, w)
  BY DoubledBits
<1> HIDE DEF shifted
<1>4. /\ XorWord(shifted, 4129) \in Below(65536)
      /\ \A w \in Weights :
           Bit(XorWord(shifted, 4129), w) <=> ~(Bit(shifted, w) <=> w \in {1, 32, 4096})
  BY <1>3, XorBits, PolynomialBits
<1>5. \A w \in Weights \ {32768} : 2 * w \in Weights /\ (2 * w \in {1, 32, 4096} <=> w \in {16, 2048})
  BY DEF Weights
<1>6. 1 \in Weights /\ {16, 2048} \subseteq Weights \ {32768}
  BY DEF Weights
<1> HIDE DEF s
<1>7. /\ s \in Below(65536)
      /\ Bit(s, 1) <=> feedback
      /\ \A w \in Weights \ {32768} : Bit(s, 2 * w) <=> ~(Bit(r, w) <=> (feedback /\ w \in {16, 2048}))
  <2>1. CASE feedback
    <3>1. s = XorWord(shifted, 4129)
      BY <1>2, <2>1
    <3>2. s \in Below(65536) /\ Bit(s, 1)
      BY <1>3, <1>4, <1>6, <3>1
    <3>3. ASSUME NEW w \in Weights \ {32768}
          PROVE  Bit(s, 2 * w) <=> ~(Bit(r, w) <=> w \in {16, 2048})
      BY <1>3, <1>4, <1>5, <3>1
    <3> QED
      BY <2>1, <3>2, <3>3
  <2>2. CASE ~feedback
    BY <1>2, <1>3, <2>2
  <2> QED
    BY <2>1, <2>2
<1> HIDE DEF feedback
<1>8. IsShift(s, r, feedback)
  BY <1>7 DEF IsShift, Weights
<1> QED
  BY <1>7, <1>8 DEF s, feedback

(******************************************************************************)
(* The other shifts of CalculateCRC16.                                        *)
(******************************************************************************)
LEMMA ByteBits ==
  ASSUME NEW x \in Below(65536), \A w \in Weights : w >= 256 => ~Bit(x, w)
  PROVE  x \in Below(256)
<1>1. 256 \in Weights /\ 512 \in Weights /\ 1024 \in Weights /\ 2048 \in Weights
      /\ 4096 \in Weights /\ 8192 \in Weights /\ 16384 \in Weights /\ 32768 \in Weights
  BY DEF Weights
<1>2. ~Bit(x, 256) /\ ~Bit(x, 512) /\ ~Bit(x, 1024) /\ ~Bit(x, 2048)
      /\ ~Bit(x, 4096) /\ ~Bit(x, 8192) /\ ~Bit(x, 16384) /\ ~Bit(x, 32768)
  BY <1>1
<1> QED
  BY <1>2 DEF Below, Bit

(******************************************************************************)
(* What a shift of a word by a byte does to its bits.                         *)
(******************************************************************************)
LEMMA ShiftedBits ==
  ASSUME NEW c \in Below(65536)
  PROVE  /\ c \div 256 \in Below(256)
         /\ \A w \in {1, 2, 4, 8, 16, 32, 64, 128} : Bit(c \div 256, w) <=> Bit(c, 256 * w)
         /\ (c * 256) % 65536 \in Below(65536)
         /\ \A w \in {1, 2, 4, 8, 16, 32, 64, 128} :
              ~Bit((c * 256) % 65536, w) /\ (Bit((c * 256) % 65536, 256 * w) <=> Bit(c, w))
<1>1. c \div 256 \in Below(256) /\ (c * 256) % 65536 \in Below(65536)
  BY DEF Below
<1> DEFINE High(w) == Bit(c \div 256, w) <=> Bit(c, 256 * w)
           Low(w) == ~Bit((c * 256) % 65536, w) /\ (Bit((c * 256) % 65536, 256 * w) <=> Bit(c, w))
<1>2. High(1) /\ High(2) /\ High(4) /\ High(8)
  BY DEF Below, Bit
<1>3. High(16) /\ High(32) /\ High(64) /\ High(128)
  BY DEF Below, Bit
<1>4. Low(1) /\ Low(2) /\ Low(4) /\ Low(8)
  BY DEF Below, Bit
<1>5. Low(16) /\ Low(32) /\ Low(64) /\ Low(128)
  BY DEF Below, Bit
<1> QED
  BY <1>1, <1>2, <1>3, <1>4, <1>5

(******************************************************************************)
(* What the shifts in the loop of CalculateCRC16 do to the bits of a byte     *)
(* (utility.h:18-21).                                                         *)
(******************************************************************************)
LEMMA ShiftedByteBits ==
  ASSUME NEW v \in Below(256)
  PROVE  /\ v \div 16 \in Below(65536) /\ v * 32 \in Below(65536) /\ (v * 4096) % 65536 \in Below(65536)
         /\ \A w \in {1, 2, 4, 8} : Bit(v \div 16, w) <=> Bit(v, 16 * w)
         /\ \A w \in Weights : w >= 16 => ~Bit(v \div 16, w)
         /\ \A w \in Weights : w >= 256 => ~Bit(v, w)
         /\ \A w \in {1, 2, 4, 8, 16, 32, 64, 128} : Bit(v * 32, 32 * w) <=> Bit(v, w)
         /\ \A w \in {1, 2, 4, 8, 16, 8192, 16384, 32768} : ~Bit(v * 32, w)
         /\ \A w \in {1, 2, 4, 8} : Bit((v * 4096) % 65536, 4096 * w) <=> Bit(v, w)
         /\ \A w \in Weights : w < 4096 => ~Bit((v * 4096) % 65536, w)
<1>1. v \div 16 \in Below(65536) /\ v * 32 \in Below(65536) /\ (v * 4096) % 65536 \in Below(65536)
  BY DEF Below
<1>2. \A w \in {1, 2, 4, 8} : Bit(v \div 16, w) <=> Bit(v, 16 * w)
  BY DEF Below, Bit
<1>3. \A w \in Weights : w >= 16 => ~Bit(v \div 16, w)
  BY DEF Below, Bit, Weights
<1>4. \A w \in Weights : w >= 256 => ~Bit(v, w)
  BY DEF Below, Bit, Weights
<1>5. \A w \in {1, 2, 4, 8, 16, 32, 64, 128} : Bit(v * 32, 32 * w) <=> Bit(v, w)
  BY DEF Below, Bit
<1>6. \A w \in {1, 2, 4, 8, 16, 8192, 16384, 32768} : ~Bit(v * 32, w)
  BY DEF Below, Bit
<1>7. \A w \in {1, 2, 4, 8} : Bit((v * 4096) % 65536, 4096 * w) <=> Bit(v, w)
  BY DEF Below, Bit
<1>8. \A w \in Weights : w < 4096 => ~Bit((v * 4096) % 65536, w)
  BY DEF Below, Bit, Weights
<1> QED
  BY <1>1, <1>2, <1>3, <1>4, <1>5, <1>6, <1>7, <1>8

(******************************************************************************)
(* The byte that the loop of CalculateCRC16 adds in at three places           *)
(* (utility.h:17-18).                                                         *)
(******************************************************************************)
IsFolded(value, c, b) ==
  LET Folded(w) == ~(Bit(c, 256 * w) <=> Bit(b, w))
  IN  /\ \A w \in {16, 32, 64, 128} : Bit(value, w) <=> Folded(w)
      /\ \A w \in {1, 2, 4, 8} : Bit(value, w) <=> ~(Folded(w) <=> Folded(16 * w))

(******************************************************************************)
(* The loop computes that byte (utility.h:17-18).                             *)
(******************************************************************************)
LEMMA ValueBits ==
  ASSUME NEW c \in Below(65536), NEW b \in Below(256)
  PROVE  LET folded == XorWord(c \div 256, b)
             value == XorWord(folded, folded \div 16)
         IN  value \in Below(256) /\ IsFolded(value, c, b)
<1> DEFINE folded == XorWord(c \div 256, b)
           value == XorWord(folded, folded \div 16)
<1>1. Below(256) \subseteq Below(65536)
  BY DEF Below
<1>2. {1, 2, 4, 8, 16, 32, 64, 128} \subseteq Weights
  BY DEF Weights
<1>3. c \div 256 \in Below(256) /\ \A w \in {1, 2, 4, 8, 16, 32, 64, 128} : Bit(c \div 256, w) <=> Bit(c, 256 * w)
  BY ShiftedBits
<1>4. folded \in Below(65536) /\ \A w \in Weights : Bit(folded, w) <=> ~(Bit(c \div 256, w) <=> Bit(b, w))
  BY <1>1, <1>3, XorBits
<1>5. folded \in Below(256)
  <2>1. \A w \in Weights : w >= 256 => ~Bit(b, w) /\ ~Bit(c \div 256, w)
    BY <1>3, ShiftedByteBits
  <2> HIDE DEF folded
  <2> QED
    BY <1>4, <2>1, ByteBits
<1>6. \A w \in {1, 2, 4, 8, 16, 32, 64, 128} : Bit(folded, w) <=> ~(Bit(c, 256 * w) <=> Bit(b, w))
  BY <1>2, <1>3, <1>4
<1> HIDE DEF folded
<1>7. /\ folded \div 16 \in Below(65536)
      /\ \A w \in {1, 2, 4, 8} : Bit(folded \div 16, w) <=> Bit(folded, 16 * w)
      /\ \A w \in Weights : w >= 16 => ~Bit(folded \div 16, w)
      /\ \A w \in Weights : w >= 256 => ~Bit(folded, w)
  BY <1>5, ShiftedByteBits
<1>8. value \in Below(65536) /\ \A w \in Weights : Bit(value, w) <=> ~(Bit(folded, w) <=> Bit(folded \div 16, w))
  BY <1>4, <1>7, XorBits
<1> HIDE DEF value
<1>9. value \in Below(256)
  <2>1. \A w \in Weights : w >= 256 => ~Bit(value, w)
    BY <1>7, <1>8 DEF Weights
  <2> QED
    BY <1>8, <2>1, ByteBits
<1>10. /\ \A w \in {16, 32, 64, 128} : Bit(value, w) <=> Bit(folded, w)
       /\ \A w \in {1, 2, 4, 8} : Bit(value, w) <=> ~(Bit(folded, w) <=> Bit(folded, 16 * w))
  BY <1>2, <1>7, <1>8
<1>11. IsFolded(value, c, b)
  BY <1>6, <1>10 DEF IsFolded
<1> QED
  BY <1>9, <1>11 DEF value, folded

(******************************************************************************)
(* The bits of a step of CalculateCRC16.                                      *)
(******************************************************************************)
IsCrcStep(s, c, value) ==
  /\ Bit(s, 1) <=> Bit(value, 1)
  /\ Bit(s, 2) <=> Bit(value, 2)
  /\ Bit(s, 4) <=> Bit(value, 4)
  /\ Bit(s, 8) <=> Bit(value, 8)
  /\ Bit(s, 16) <=> Bit(value, 16)
  /\ Bit(s, 32) <=> ~(Bit(value, 32) <=> Bit(value, 1))
  /\ Bit(s, 64) <=> ~(Bit(value, 64) <=> Bit(value, 2))
  /\ Bit(s, 128) <=> ~(Bit(value, 128) <=> Bit(value, 4))
  /\ Bit(s, 256) <=> ~(Bit(c, 1) <=> Bit(value, 8))
  /\ Bit(s, 512) <=> ~(Bit(c, 2) <=> Bit(value, 16))
  /\ Bit(s, 1024) <=> ~(Bit(c, 4) <=> Bit(value, 32))
  /\ Bit(s, 2048) <=> ~(Bit(c, 8) <=> Bit(value, 64))
  /\ Bit(s, 4096) <=> ~(Bit(c, 16) <=> ~(Bit(value, 128) <=> Bit(value, 1)))
  /\ Bit(s, 8192) <=> ~(Bit(c, 32) <=> Bit(value, 2))
  /\ Bit(s, 16384) <=> ~(Bit(c, 64) <=> Bit(value, 4))
  /\ Bit(s, 32768) <=> ~(Bit(c, 128) <=> Bit(value, 8))

(******************************************************************************)
(* Bit by bit, what the loop makes of the checksum and a byte                 *)
(* (utility.h:16-21).                                                         *)
(******************************************************************************)
LEMMA CrcStepBits ==
  ASSUME NEW c \in Below(65536), NEW b \in Below(256)
  PROVE  /\ CrcStep(c, b) \in Below(65536)
         /\ \E value \in Below(256) : IsFolded(value, c, b) /\ IsCrcStep(CrcStep(c, b), c, value)
<1> DEFINE folded == XorWord(c \div 256, b)
           value == XorWord(folded, folded \div 16)
           x == (c * 256) % 65536
           y == (value * 4096) % 65536
           z == value * 32
<1>1. CrcStep(c, b) = XorWord(XorWord(x, y), XorWord(z, value))
  BY DEF CrcStep
<1>2. value \in Below(256) /\ IsFolded(value, c, b)
  BY ValueBits
<1> HIDE DEF value
<1>3. x \in Below(65536)
      /\ \A w \in {1, 2, 4, 8, 16, 32, 64, 128} : ~Bit(x, w) /\ (Bit(x, 256 * w) <=> Bit(c, w))
  BY ShiftedBits
<1>4. /\ z \in Below(65536) /\ y \in Below(65536)
      /\ \A w \in Weights : w >= 256 => ~Bit(value, w)
      /\ \A w \in {1, 2, 4, 8, 16, 32, 64, 128} : Bit(z, 32 * w) <=> Bit(value, w)
      /\ \A w \in {1, 2, 4, 8, 16, 8192, 16384, 32768} : ~Bit(z, w)
      /\ \A w \in {1, 2, 4, 8} : Bit(y, 4096 * w) <=> Bit(value, w)
      /\ \A w \in Weights : w < 4096 => ~Bit(y, w)
  BY <1>2, ShiftedByteBits
<1> HIDE DEF x, y, z
<1>5. XorWord(x, y) \in Below(65536) /\ \A w \in Weights : Bit(XorWord(x, y), w) <=> ~(Bit(x, w) <=> Bit(y, w))
  BY <1>3, <1>4, XorBits
<1>6. XorWord(z, value) \in Below(65536)
      /\ \A w \in Weights : Bit(XorWord(z, value), w) <=> ~(Bit(z, w) <=> Bit(value, w))
  <2>1. value \in Below(65536)
    BY <1>2 DEF Below
  <2> QED
    BY <1>4, <2>1, XorBits
<1>7. CrcStep(c, b) \in Below(65536)
      /\ \A w \in Weights : Bit(CrcStep(c, b), w)
                              <=> ~(~(Bit(x, w) <=> Bit(y, w)) <=> ~(Bit(z, w) <=> Bit(value, w)))
  BY <1>1, <1>5, <1>6, XorBits
<1>8. IsCrcStep(CrcStep(c, b), c, value)
  BY <1>3, <1>4, <1>7 DEF IsCrcStep, Weights
<1> QED
  BY <1>2, <1>7, <1>8

(******************************************************************************)
(* A step of CalculateCRC16 shifts the eight bits of a byte into the          *)
(* register, the most significant one first (utility.h:17-19).                *)
(******************************************************************************)
AreEightShifts(r, c, b) ==
  /\ r[0] = c
  /\ \A k \in 1..8 : r[k] = ShiftBit(r[k - 1], (b \div Weight[k]) % 2)

(******************************************************************************)
(* One turn of the loop is eight shifts of the reference, one for each bit of *)
(* the byte: the heart of CrcIsPolynomialRemainder.                           *)
(******************************************************************************)
LEMMA CrcStepIsEightShifts ==
  ASSUME NEW c \in Below(65536), NEW b \in Below(256),
         NEW r \in [0..8 -> Below(65536)], AreEightShifts(r, c, b)
  PROVE  r[8] = CrcStep(c, b)
<1> USE DEF AreEightShifts
<1>1. PICK value \in Below(256) : IsFolded(value, c, b) /\ IsCrcStep(CrcStep(c, b), c, value)
  BY CrcStepBits
<1>2. CrcStep(c, b) \in Below(65536)
  BY CrcStepBits
<1>3. ASSUME NEW k \in 1..8
      PROVE  IsShift(r[k], r[k - 1], ~(Bit(r[k - 1], 32768) <=> Bit(b, Weight[k])))
  <2>1. (b \div Weight[k]) % 2 \in {0, 1}
    BY DEF Below, Weight
  <2>2. r[k - 1] \in Below(65536)
    OBVIOUS
  <2>3. (b \div Weight[k]) % 2 = 1 <=> Bit(b, Weight[k])
    BY DEF Bit
  <2> QED
    BY <2>1, <2>2, <2>3, ShiftBitBits
<1>4. \A w \in Weights : Bit(r[8], w) <=> Bit(CrcStep(c, b), w)
  <2>1. IsShift(r[1], c, ~(Bit(c, 32768) <=> Bit(b, 128)))
    BY <1>3 DEF Weight
  <2>2. IsShift(r[2], r[1], ~(Bit(r[1], 32768) <=> Bit(b, 64)))
    BY <1>3 DEF Weight
  <2>3. IsShift(r[3], r[2], ~(Bit(r[2], 32768) <=> Bit(b, 32)))
    BY <1>3 DEF Weight
  <2>4. IsShift(r[4], r[3], ~(Bit(r[3], 32768) <=> Bit(b, 16)))
    BY <1>3 DEF Weight
  <2>5. IsShift(r[5], r[4], ~(Bit(r[4], 32768) <=> Bit(b, 8)))
    BY <1>3 DEF Weight
  <2>6. IsShift(r[6], r[5], ~(Bit(r[5], 32768) <=> Bit(b, 4)))
    BY <1>3 DEF Weight
  <2>7. IsShift(r[7], r[6], ~(Bit(r[6], 32768) <=> Bit(b, 2)))
    BY <1>3 DEF Weight
  <2>8. IsShift(r[8], r[7], ~(Bit(r[7], 32768) <=> Bit(b, 1)))
    BY <1>3 DEF Weight
  <2> QED
    BY <1>1, <2>1, <2>2, <2>3, <2>4, <2>5, <2>6, <2>7, <2>8 DEF IsShift, IsFolded, IsCrcStep, Weights
<1> QED
  BY <1>2, <1>4, SameBits

--------------------------------------------------------------------------------
(******************************************************************************)
(* The states of the loop of CalculateCRC16 follow from each other.           *)
(******************************************************************************)
LEMMA ChecksumsUnfold ==
  ASSUME NEW bytes \in Seq(Below(256))
  PROVE  /\ Len(bytes) \in Nat
         /\ Checksums(bytes) \in [0..Len(bytes) -> Below(65536)]
         /\ Checksums(bytes)[0] = 65535
         /\ \A i \in 1..Len(bytes) : Checksums(bytes)[i] = CrcStep(Checksums(bytes)[i - 1], bytes[i])
<1> DEFINE n == Len(bytes)
           S == Below(65536)
           seed == 65535
           next == [i \in 1..n |-> [c \in S |-> CrcStep(c, bytes[i])]]
<1>1. n \in Nat /\ \A i \in 1..n : bytes[i] \in Below(256)
  BY ElementOfSeq
<1>2. seed \in S
  BY DEF Below
<1> HIDE DEF n, S, seed
<1>3. \A i \in 1..n, c \in S : CrcStep(c, bytes[i]) \in S
  BY <1>1, CrcStepBits DEF S
<1>4. next \in [1..n -> [S -> S]]
  BY <1>3
<1>5. \A i \in 1..n, c \in S : next[i][c] = CrcStep(c, bytes[i])
  OBVIOUS
<1> HIDE DEF next
<1>6. PICK f \in [0..n -> S] : IsRecursion(f, seed, n, next)
  BY <1>1, <1>2, <1>4, RecursionExists
<1>7. f = [i \in 0..n |-> IF i = 0 THEN seed ELSE CrcStep(f[i - 1], bytes[i])]
  <2>1. ASSUME NEW i \in 1..n PROVE f[i] = CrcStep(f[i - 1], bytes[i])
    <3>1. i - 1 \in 0..n
      BY <1>1
    <3>2. f[i - 1] \in S
      BY <3>1
    <3> QED
      BY <1>5, <1>6, <3>2 DEF IsRecursion
  <2>2. \A i \in 0..n : i # 0 => i \in 1..n
    BY <1>1
  <2> QED
    BY <1>6, <2>1, <2>2 DEF IsRecursion
<1> DEFINE g == Checksums(bytes)
           h == [i \in 0..n |-> IF i = 0 THEN seed ELSE CrcStep(g[i - 1], bytes[i])]
<1>8. g = h
  <2> DEFINE P(q, m, a) == q = [i \in 0..m |-> IF i = 0 THEN a ELSE CrcStep(q[i - 1], bytes[i])]
  <2>1. P(f, n, seed)
    BY <1>7
  <2>2. g = CHOOSE q : P(q, Len(bytes), 65535)
    BY DEF Checksums
  <2>3. g = CHOOSE q : P(q, n, seed)
    BY <2>2 DEF n, seed
  <2> HIDE DEF P, g
  <2>4. P(g, n, seed)
    BY <2>1, <2>3
  <2> QED
    BY <2>4 DEF P
<1> HIDE DEF g
<1>9. /\ g[0] = seed /\ g = [i \in 0..n |-> g[i]]
      /\ \A i \in 1..n : g[i] = CrcStep(g[i - 1], bytes[i])
  <2>1. 0 \in 0..n /\ \A i \in 1..n : i \in 0..n /\ i # 0
    BY <1>1
  <2>2. /\ h[0] = seed /\ h = [i \in 0..n |-> h[i]]
        /\ \A i \in 1..n : h[i] = CrcStep(g[i - 1], bytes[i])
    BY <2>1
  <2> HIDE DEF h
  <2> QED
    BY <1>8, <2>2
<1> HIDE DEF h
<1>10. IsLooseRecursion(g, S, seed, n, next)
  BY <1>5, <1>9 DEF IsLooseRecursion
<1>11. g = f
  BY <1>1, <1>2, <1>4, <1>6, <1>10, RecursionUnique
<1>12. g \in [0..n -> S]
  BY <1>11
<1>13. g[0] = seed /\ \A i \in 1..n : g[i] = CrcStep(g[i - 1], bytes[i])
  BY <1>9
<1> QED
  BY <1>1, <1>12, <1>13 DEF g, n, S, seed

(******************************************************************************)
(* So do the states of the reference register.                                *)
(******************************************************************************)
LEMMA RegistersUnfold ==
  ASSUME NEW bytes \in Seq(Below(256))
  PROVE  /\ Registers(bytes) \in [0..8 * Len(bytes) -> Below(65536)]
         /\ Registers(bytes)[0] = 65535
         /\ \A k \in 1..8 * Len(bytes) :
              Registers(bytes)[k] = ShiftBit(Registers(bytes)[k - 1], MessageBit(bytes, k))
<1> DEFINE n == 8 * Len(bytes)
           S == Below(65536)
           seed == 65535
           next == [k \in 1..n |-> [c \in S |-> ShiftBit(c, MessageBit(bytes, k))]]
<1>1. n \in Nat /\ \A k \in 1..n : MessageBit(bytes, k) \in {0, 1}
  <2>1. Len(bytes) \in Nat /\ \A i \in 1..Len(bytes) : bytes[i] \in Below(256)
    BY ElementOfSeq
  <2>2. ASSUME NEW k \in 1..n PROVE MessageBit(bytes, k) \in {0, 1}
    <3>1. Ceiling(k, 8) \in 1..Len(bytes) /\ 1 + ((k - 1) % 8) \in 1..8
      BY <2>1 DEF Ceiling
    <3>2. \A j \in 1..8 : Weight[j] \in {1, 2, 4, 8, 16, 32, 64, 128}
      BY DEF Weight
    <3>3. bytes[Ceiling(k, 8)] \in Below(256)
      BY <2>1, <3>1
    <3>4. bytes[Ceiling(k, 8)] \in Nat /\ Weight[1 + ((k - 1) % 8)] \in {1, 2, 4, 8, 16, 32, 64, 128}
      BY <3>1, <3>2, <3>3 DEF Below
    <3>5. \A b \in Nat, w \in {1, 2, 4, 8, 16, 32, 64, 128} : (b \div w) % 2 \in {0, 1}
      OBVIOUS
    <3> DEFINE byte == bytes[Ceiling(k, 8)]
               weight == Weight[1 + ((k - 1) % 8)]
    <3>6. MessageBit(bytes, k) = (byte \div weight) % 2
      BY DEF MessageBit
    <3> HIDE DEF byte, weight
    <3>7. byte \in Nat /\ weight \in {1, 2, 4, 8, 16, 32, 64, 128}
      BY <3>4 DEF byte, weight
    <3> QED
      BY <3>5, <3>6, <3>7
  <2> QED
    BY <2>1, <2>2
<1>2. seed \in S
  BY DEF Below
<1> HIDE DEF n, S, seed
<1>3. \A k \in 1..n, c \in S : ShiftBit(c, MessageBit(bytes, k)) \in S
  BY <1>1, ShiftBitBits DEF S
<1>4. next \in [1..n -> [S -> S]]
  BY <1>3
<1>5. \A k \in 1..n, c \in S : next[k][c] = ShiftBit(c, MessageBit(bytes, k))
  OBVIOUS
<1> HIDE DEF next
<1>6. PICK f \in [0..n -> S] : IsRecursion(f, seed, n, next)
  BY <1>1, <1>2, <1>4, RecursionExists
<1>7. f = [k \in 0..n |-> IF k = 0 THEN seed ELSE ShiftBit(f[k - 1], MessageBit(bytes, k))]
  <2>1. ASSUME NEW k \in 1..n PROVE f[k] = ShiftBit(f[k - 1], MessageBit(bytes, k))
    <3>1. k - 1 \in 0..n
      BY <1>1
    <3>2. f[k - 1] \in S
      BY <3>1
    <3> QED
      BY <1>5, <1>6, <3>2 DEF IsRecursion
  <2>2. \A k \in 0..n : k # 0 => k \in 1..n
    BY <1>1
  <2> QED
    BY <1>6, <2>1, <2>2 DEF IsRecursion
<1> DEFINE g == Registers(bytes)
           h == [k \in 0..n |-> IF k = 0 THEN seed ELSE ShiftBit(g[k - 1], MessageBit(bytes, k))]
<1>8. g = h
  <2> DEFINE P(q, m, a) == q = [k \in 0..m |-> IF k = 0 THEN a ELSE ShiftBit(q[k - 1], MessageBit(bytes, k))]
  <2>1. P(f, n, seed)
    BY <1>7
  <2>2. g = CHOOSE q : P(q, 8 * Len(bytes), 65535)
    BY DEF Registers
  <2> HIDE DEF P, g
  <2>3. P(f, 8 * Len(bytes), 65535)
    BY <2>1 DEF n, seed
  <2>4. P(g, 8 * Len(bytes), 65535)
    BY <2>2, <2>3
  <2>5. P(g, n, seed)
    BY <2>4 DEF n, seed
  <2> QED
    BY <2>5 DEF P
<1> HIDE DEF g
<1>9. /\ g[0] = seed /\ g = [k \in 0..n |-> g[k]]
      /\ \A k \in 1..n : g[k] = ShiftBit(g[k - 1], MessageBit(bytes, k))
  <2>1. 0 \in 0..n /\ \A k \in 1..n : k \in 0..n /\ k # 0
    BY <1>1
  <2>2. /\ h[0] = seed /\ h = [k \in 0..n |-> h[k]]
        /\ \A k \in 1..n : h[k] = ShiftBit(g[k - 1], MessageBit(bytes, k))
    BY <2>1
  <2> HIDE DEF h
  <2> QED
    BY <1>8, <2>2
<1> HIDE DEF h
<1>10. IsLooseRecursion(g, S, seed, n, next)
  BY <1>5, <1>9 DEF IsLooseRecursion
<1>11. g = f
  BY <1>1, <1>2, <1>4, <1>6, <1>10, RecursionUnique
<1>12. g \in [0..n -> S]
  BY <1>11
<1>13. g[0] = seed /\ \A k \in 1..n : g[k] = ShiftBit(g[k - 1], MessageBit(bytes, k))
  BY <1>9
<1> QED
  BY <1>12, <1>13 DEF g, n, S, seed

(******************************************************************************)
(* After every byte the checksum is the remainder of the bits so far: if      *)
(* there were a first byte after which it is not, the step for it would have  *)
(* to differ from eight shifts (utility.h:13-22).                             *)
(******************************************************************************)
LEMMA ChecksumIsRemainder ==
  ASSUME NEW bytes \in Seq(Below(256))
  PROVE  \A i \in 0..Len(bytes) : Checksums(bytes)[i] = Registers(bytes)[8 * i]
<1> DEFINE n == Len(bytes)
           crc == Checksums(bytes)
           reg == Registers(bytes)
           Differ == {i \in 0..n : crc[i] # reg[8 * i]}
<1>1. n \in Nat /\ \A i \in 1..n : bytes[i] \in Below(256)
  BY ElementOfSeq
<1>2. /\ crc \in [0..n -> Below(65536)] /\ crc[0] = 65535
      /\ \A i \in 1..n : crc[i] = CrcStep(crc[i - 1], bytes[i])
  BY ChecksumsUnfold
<1>3. /\ reg \in [0..8 * n -> Below(65536)] /\ reg[0] = 65535
      /\ \A k \in 1..8 * n : reg[k] = ShiftBit(reg[k - 1], MessageBit(bytes, k))
  BY RegistersUnfold
<1> HIDE DEF n, crc, reg
<1>4. ASSUME Differ # {} PROVE FALSE
  <2>1. PICK i \in Differ : \A m \in Differ : i <= m
    <3>1. Differ \subseteq Nat
      BY <1>1
    <3> HIDE DEF Differ
    <3> QED
      BY <1>4, <3>1, LeastNat
  <2>2. i \in 1..n /\ i - 1 \in 0..n /\ ~(i <= i - 1)
    BY <1>1, <1>2, <1>3
  <2>3. crc[i] # reg[8 * i]
    OBVIOUS
  <2>4. crc[i - 1] = reg[8 * (i - 1)]
    BY <2>1, <2>2
  <2> HIDE DEF Differ
  <2> DEFINE base == 8 * (i - 1)
             r == [k \in 0..8 |-> reg[base + k]]
  <2>5. /\ \A k \in 0..8 : base + k \in 0..8 * n
        /\ \A k \in 1..8 : base + k \in 1..8 * n /\ (base + k) - 1 = base + (k - 1) /\ k - 1 \in 0..8
        /\ \A k \in 1..8 : k \in 0..8 /\ k - 1 \in 0..8
        /\ base + 0 = base /\ base + 8 = 8 * i
    BY <1>1, <2>2
  <2>6. r \in [0..8 -> Below(65536)]
    BY <1>3, <2>5
  <2>7. r[0] = crc[i - 1] /\ r[8] = reg[8 * i]
    BY <2>4, <2>5
  <2>8. ASSUME NEW k \in 1..8
        PROVE  r[k] = ShiftBit(r[k - 1], (bytes[i] \div Weight[k]) % 2)
    <3>1. Ceiling(base + k, 8) = i /\ 1 + (((base + k) - 1) % 8) = k
      BY <1>1, <2>2 DEF Ceiling
    <3> HIDE DEF base
    <3>2. MessageBit(bytes, base + k) = (bytes[i] \div Weight[k]) % 2
      BY <3>1 DEF MessageBit
    <3> DEFINE j == base + k
    <3>3. j \in 1..8 * n
      BY <2>5
    <3> HIDE DEF j
    <3>4. reg[j] = ShiftBit(reg[j - 1], MessageBit(bytes, j))
      BY <1>3, <3>3
    <3>5. reg[base + k] = ShiftBit(reg[(base + k) - 1], MessageBit(bytes, base + k))
      BY <3>4 DEF j
    <3>6. r[k] = reg[base + k] /\ r[k - 1] = reg[base + (k - 1)]
      BY <2>5
    <3> QED
      BY <2>5, <3>2, <3>5, <3>6
  <2>9. crc[i - 1] \in Below(65536) /\ bytes[i] \in Below(256)
    BY <1>1, <1>2, <2>2
  <2> HIDE DEF r
  <2>10. r[8] = CrcStep(crc[i - 1], bytes[i])
    <3>1. AreEightShifts(r, crc[i - 1], bytes[i])
      BY <2>7, <2>8 DEF AreEightShifts
    <3> QED
      BY <2>6, <2>9, <3>1, CrcStepIsEightShifts
  <2> QED
    BY <1>2, <2>2, <2>3, <2>7, <2>10
<1> QED
  BY <1>4 DEF n, crc, reg

--------------------------------------------------------------------------------
(******************************************************************************)
(* The data is made of bytes and fits a packet.                               *)
(******************************************************************************)
DataOK == data \in Seq(Bytes) /\ Len(data) <= MaxLength

(******************************************************************************)
(* The data stays a sequence of bytes that fits a packet.                     *)
(******************************************************************************)
LEMMA DataOKInvariant == CodecSpec => []DataOK
<1>1. CodecInit => DataOK
  <2> SUFFICES ASSUME CodecInit PROVE DataOK
    OBVIOUS
  <2>1. data \in Seq(Bytes) /\ Len(data) = 0
    BY EmptySeq DEF CodecInit
  <2> QED
    BY <2>1, CodecAssumption DEF DataOK
<1>2. DataOK /\ [CodecNext]_data => DataOK'
  <2> SUFFICES ASSUME DataOK, [CodecNext]_data PROVE DataOK'
    OBVIOUS
  <2>1. CASE CodecNext
    <3>1. PICK byte \in Bytes : data' = Append(data, byte)
      BY <2>1 DEF CodecNext
    <3>2. data' \in Seq(Bytes) /\ Len(data') = Len(data) + 1
      BY <3>1, AppendProperties DEF DataOK
    <3>3. Len(data) \in Nat /\ Len(data) < MaxLength
      BY <2>1 DEF DataOK, CodecNext
    <3> QED
      BY <3>2, <3>3, CodecAssumption DEF DataOK
  <2>2. CASE UNCHANGED data
    BY <2>2 DEF DataOK
  <2> QED
    BY <2>1, <2>2
<1> QED
  BY <1>1, <1>2, PTL DEF CodecSpec

(******************************************************************************)
(* What the proofs use of the data.                                           *)
(******************************************************************************)
LEMMA DataIsBytes ==
  ASSUME DataOK
  PROVE  data \in Seq(Below(256)) /\ Len(data) \in Nat /\ Len(data) <= 65519
<1>1. Bytes \subseteq Below(256)
  BY CodecAssumption DEF Below
<1>2. \A i \in 1..Len(data) : data[i] \in Below(256)
  BY <1>1, ElementOfSeq DEF DataOK
<1>3. Len(data) \in Nat /\ data = [i \in 1..Len(data) |-> data[i]]
  BY DEF DataOK
<1>4. data \in Seq(Below(256))
  BY <1>1, <1>2, <1>3, SeqDef DEF DataOK
<1>5. Len(data) <= 65519
  BY <1>3, CodecAssumption DEF DataOK, HeaderLength, OOB_PACKET_LENGTH_MAX
<1> QED
  BY <1>3, <1>4, <1>5

(******************************************************************************)
(* For data of any length and any bytes, CalculateCRC16, which folds a byte   *)
(* at a time into the checksum, computes the remainder by x^16 + x^12 + x^5 + *)
(* 1 of the message with the register preset to ones: the checksum the device *)
(* computes bit by bit (utility.h:13-22).                                     *)
(******************************************************************************)
THEOREM CrcCorrect == CodecSpec => []CrcIsPolynomialRemainder
<1>1. DataOK => CrcIsPolynomialRemainder
  <2> SUFFICES ASSUME DataOK PROVE CrcIsPolynomialRemainder
    OBVIOUS
  <2>1. data \in Seq(Below(256)) /\ Len(data) \in 0..Len(data)
    BY DataIsBytes
  <2>2. Checksums(data)[Len(data)] = Registers(data)[8 * Len(data)]
    BY <2>1, ChecksumIsRemainder
  <2> QED
    BY <2>2 DEF CrcIsPolynomialRemainder, CalculateCRC16
<1> QED
  BY <1>1, DataOKInvariant, PTL

--------------------------------------------------------------------------------
(******************************************************************************)
(* A step of CalculateCRC16 loses nothing: from two checksums, or for two     *)
(* bytes, it goes to two checksums.                                           *)
(******************************************************************************)
LEMMA CrcStepInjective ==
  ASSUME NEW c \in Below(65536), NEW d \in Below(65536), NEW b \in Below(256),
         CrcStep(c, b) = CrcStep(d, b)
  PROVE  c = d
<1>1. PICK v \in Below(256) : IsFolded(v, c, b) /\ IsCrcStep(CrcStep(c, b), c, v)
  BY CrcStepBits
<1>2. PICK u \in Below(256) : IsFolded(u, d, b) /\ IsCrcStep(CrcStep(c, b), d, u)
  BY CrcStepBits
<1>3. \A w \in Weights : Bit(c, w) <=> Bit(d, w)
  BY <1>1, <1>2 DEF IsFolded, IsCrcStep, Weights
<1> QED
  BY <1>3, SameBits

(******************************************************************************)
(* Two bytes that leave the same checksum are the same byte.                  *)
(******************************************************************************)
LEMMA CrcStepTellsBytes ==
  ASSUME NEW c \in Below(65536), NEW a \in Below(256), NEW b \in Below(256),
         CrcStep(c, a) = CrcStep(c, b)
  PROVE  a = b
<1>1. PICK v \in Below(256) : IsFolded(v, c, a) /\ IsCrcStep(CrcStep(c, a), c, v)
  BY CrcStepBits
<1>2. PICK u \in Below(256) : IsFolded(u, c, b) /\ IsCrcStep(CrcStep(c, a), c, u)
  BY CrcStepBits
<1>3. \A w \in {1, 2, 4, 8, 16, 32, 64, 128} : Bit(a, w) <=> Bit(b, w)
  BY <1>1, <1>2 DEF IsFolded, IsCrcStep
<1>4. \A w \in Weights : w >= 256 => ~Bit(a, w) /\ ~Bit(b, w)
  BY ShiftedByteBits
<1>5. \A w \in Weights : Bit(a, w) <=> Bit(b, w)
  BY <1>3, <1>4 DEF Weights
<1>6. a \in Below(65536) /\ b \in Below(65536)
  BY DEF Below
<1> QED
  BY <1>5, <1>6, SameBits

(******************************************************************************)
(* Two messages that differ in one byte have different checksums: they are    *)
(* the same up to that byte, differ after it, and can not become the same     *)
(* again (utility.h:13-22).                                                   *)
(******************************************************************************)
LEMMA ChecksumTellsOneByte ==
  ASSUME NEW s \in Seq(Below(256)), NEW t \in Seq(Below(256)), Len(s) = Len(t),
         NEW p \in 1..Len(s), s[p] # t[p], \A i \in 1..Len(s) : i # p => s[i] = t[i]
  PROVE  CalculateCRC16(s) # CalculateCRC16(t)
<1> DEFINE n == Len(s)
           f == Checksums(s)
           g == Checksums(t)
           Early == {i \in 0..(p - 1) : f[i] # g[i]}
           Late == {i \in p..n : f[i] = g[i]}
<1>1. n \in Nat /\ p \in 1..n /\ \A i \in 1..n : s[i] \in Below(256) /\ t[i] \in Below(256)
  BY ElementOfSeq
<1> DEFINE Unfolds(h, x, m) == /\ h \in [0..m -> Below(65536)] /\ h[0] = 65535
                              /\ \A i \in 1..m : h[i] = CrcStep(h[i - 1], x[i])
<1>2. \A x \in Seq(Below(256)) : Unfolds(Checksums(x), x, Len(x))
  BY ChecksumsUnfold
<1> HIDE DEF Unfolds
<1>3. Unfolds(f, s, n) /\ Unfolds(g, t, n)
  BY <1>2
<1>4. /\ f \in [0..n -> Below(65536)] /\ f[0] = 65535
      /\ \A i \in 1..n : f[i] = CrcStep(f[i - 1], s[i])
  BY <1>3 DEF Unfolds
<1>5. /\ g \in [0..n -> Below(65536)] /\ g[0] = 65535
      /\ \A i \in 1..n : g[i] = CrcStep(g[i - 1], t[i])
  BY <1>3 DEF Unfolds
<1>6. \A i \in 1..n : i # p => s[i] = t[i]
  OBVIOUS
<1> HIDE DEF n, f, g
<1>7. Early = {}
  <2> SUFFICES ASSUME Early # {} PROVE FALSE
    OBVIOUS
  <2>1. PICK i \in Early : \A m \in Early : i <= m
    <3>1. Early \subseteq Nat
      BY <1>1
    <3> HIDE DEF Early
    <3> QED
      BY <3>1, LeastNat
  <2>2. i \in 1..n /\ i # p /\ i - 1 \in 0..(p - 1) /\ ~(i <= i - 1)
    BY <1>1, <1>4, <1>5
  <2>3. f[i - 1] = g[i - 1] /\ s[i] = t[i]
    BY <1>6, <2>1, <2>2
  <2>4. f[i] # g[i]
    OBVIOUS
  <2> HIDE DEF Early
  <2> QED
    BY <1>4, <1>5, <2>2, <2>3, <2>4
<1>8. f[p] # g[p]
  <2>1. p - 1 \in 0..(p - 1) /\ p - 1 \in 0..n
    BY <1>1
  <2>2. f[p - 1] \in Below(65536)
    BY <1>4, <2>1
  <2>3. f[p - 1] = g[p - 1]
    <3>1. ~(p - 1 \in Early)
      <4> HIDE DEF Early
      <4> QED
        BY <1>7
    <3> QED
      BY <2>1, <3>1
  <2>4. f[p] = CrcStep(f[p - 1], s[p]) /\ g[p] = CrcStep(g[p - 1], t[p])
    BY <1>1, <1>4, <1>5
  <2> HIDE DEF Early, Late
  <2> QED
    BY <1>1, <2>2, <2>3, <2>4, CrcStepTellsBytes
<1>9. Late = {}
  <2> SUFFICES ASSUME Late # {} PROVE FALSE
    OBVIOUS
  <2>1. PICK i \in Late : \A m \in Late : i <= m
    <3>1. Late \subseteq Nat
      BY <1>1
    <3> HIDE DEF Late
    <3> QED
      BY <3>1, LeastNat
  <2>2. i \in 1..n /\ i # p /\ i - 1 \in p..n /\ i - 1 \in 0..n /\ ~(i <= i - 1)
    BY <1>1, <1>8
  <2>3. f[i - 1] # g[i - 1] /\ s[i] = t[i]
    BY <1>6, <2>1, <2>2
  <2>4. f[i] = g[i]
    OBVIOUS
  <2>5. f[i] = CrcStep(f[i - 1], s[i]) /\ g[i] = CrcStep(g[i - 1], t[i])
    BY <1>4, <1>5, <2>2
  <2>6. f[i - 1] \in Below(65536) /\ g[i - 1] \in Below(65536) /\ s[i] \in Below(256)
    BY <1>1, <1>4, <1>5, <2>2
  <2> HIDE DEF Late
  <2>7. CrcStep(f[i - 1], s[i]) = CrcStep(g[i - 1], s[i])
    BY <2>3, <2>4, <2>5
  <2> QED
    BY <2>3, <2>6, <2>7, CrcStepInjective
<1>10. n \in p..n
  BY <1>1
<1>11. f[n] # g[n]
  BY <1>9, <1>10
<1> QED
  BY <1>11 DEF CalculateCRC16, f, g, n

(******************************************************************************)
(* A checksum is a 16-bit word.                                               *)
(******************************************************************************)
LEMMA ChecksumIsWord ==
  ASSUME NEW s \in Seq(Below(256))
  PROVE  CalculateCRC16(s) \in Below(65536)
<1>1. Checksums(s) \in [0..Len(s) -> Below(65536)] /\ Len(s) \in 0..Len(s)
  BY ChecksumsUnfold
<1> QED
  BY <1>1 DEF CalculateCRC16

--------------------------------------------------------------------------------
(******************************************************************************)
(* Storing a word and reading it again.                                       *)
(******************************************************************************)
HasWord(z, s, p, word) ==
  /\ z \in Seq(Below(256)) /\ Len(z) = Len(s)
  /\ z[p] = word % 256 /\ z[p + 1] = word \div 256
  /\ \A i \in 1..Len(s) : i \notin {p, p + 1} => z[i] = s[i]

(******************************************************************************)
(* That is what SetWord makes of s.                                           *)
(******************************************************************************)
LEMMA SetWordFacts ==
  ASSUME NEW s \in Seq(Below(256)), NEW p \in 1..(Len(s) - 1), NEW word \in Below(65536)
  PROVE  HasWord(SetWord(s, p, word), s, p, word)
<1> DEFINE n == Len(s)
           z == SetWord(s, p, word)
           q == p + 1
<1>1. n \in Nat /\ p \in 1..n /\ q \in 1..n /\ p # q /\ \A i \in 1..n : s[i] \in Below(256)
  BY ElementOfSeq
<1>2. word % 256 \in Below(256) /\ word \div 256 \in Below(256)
  BY DEF Below
<1>3. s \in [1..n -> Below(256)]
  BY <1>1
<1>4. z = [s EXCEPT ![p] = word % 256, ![q] = word \div 256]
  BY DEF SetWord
<1> HIDE DEF z, q, n
<1>5. z \in [1..n -> Below(256)]
  BY <1>1, <1>2, <1>3, <1>4
<1>6. z \in Seq(Below(256)) /\ Len(z) = n
  BY <1>1, <1>5, SeqDef, LenProperties
<1>7. z[p] = word % 256 /\ z[q] = word \div 256
  BY <1>1, <1>3, <1>4
<1>8. \A i \in 1..n : i \notin {p, q} => z[i] = s[i]
  BY <1>1, <1>3, <1>4
<1> QED
  BY <1>6, <1>7, <1>8 DEF HasWord, z, q, n

(******************************************************************************)
(* An error that is not zero changes the byte it hits.                        *)
(******************************************************************************)
LEMMA XorChangesByte ==
  ASSUME NEW x \in Below(256), NEW error \in Below(256), error # 0
  PROVE  XorWord(x, error) \in Below(256) /\ XorWord(x, error) # x
<1> DEFINE y == XorWord(x, error)
<1>1. x \in Below(65536) /\ error \in Below(65536) /\ 0 \in Below(65536)
  BY DEF Below
<1>2. y \in Below(65536) /\ \A w \in Weights : Bit(y, w) <=> ~(Bit(x, w) <=> Bit(error, w))
  BY <1>1, XorBits
<1>3. \A w \in Weights : w >= 256 => ~Bit(x, w) /\ ~Bit(error, w)
  BY ShiftedByteBits
<1> HIDE DEF y
<1>4. \A w \in Weights : w >= 256 => ~Bit(y, w)
  BY <1>2, <1>3
<1>5. y \in Below(256)
  BY <1>2, <1>4, ByteBits
<1>6. y # x
  <2> SUFFICES ASSUME y = x PROVE FALSE
    OBVIOUS
  <2>1. \A w \in Weights : ~Bit(error, w)
    BY <1>2
  <2>2. \A w \in Weights : ~Bit(0, w)
    BY DEF Weights, Bit
  <2>3. error = 0
    BY <1>1, <2>1, <2>2, SameBits
  <2> QED
    BY <2>3
<1> QED
  BY <1>5, <1>6 DEF y

(******************************************************************************)
(* A word is given by its bytes.                                              *)
(******************************************************************************)
LEMMA BytesOfWord ==
  ASSUME NEW low \in Below(256), NEW high \in Below(256)
  PROVE  /\ low + 256 * high \in Below(65536)
         /\ (low + 256 * high) % 256 = low /\ (low + 256 * high) \div 256 = high
  BY DEF Below

(******************************************************************************)
(* verifyOobPacket leaves the packet as it was, and accepts it if it has the  *)
(* signature and the checksum of the packet with the checksum field cleared   *)
(* (transport.cpp:347-359).                                                   *)
(******************************************************************************)
LEMMA VerifyFacts ==
  ASSUME NEW packet \in Seq(Below(256)), Len(packet) >= 16
  PROVE  /\ Word(packet, 1) = 65535 =>
              VerifyOobPacket(packet) =
                [valid |-> CalculateCRC16(SetWord(packet, 13, 0)) = Word(packet, 13),
                 buffer |-> packet]
         /\ Word(packet, 1) # 65535 => VerifyOobPacket(packet) = [valid |-> FALSE, buffer |-> packet]
<1> DEFINE n == Len(packet)
           saved == Word(packet, 13)
           zeroed == SetWord(packet, 13, 0)
           restored == SetWord(zeroed, 13, saved)
<1>1. n \in Nat /\ n >= 16 /\ \A i \in 1..n : packet[i] \in Below(256)
  BY ElementOfSeq
<1>2. 13 \in 1..(n - 1) /\ 14 \in 1..n /\ 13 \in 1..n /\ 0 \in Below(65536)
  BY <1>1 DEF Below
<1>3. saved = packet[13] + 256 * packet[14] /\ packet[13] \in Below(256) /\ packet[14] \in Below(256)
  BY <1>1, <1>2 DEF Word
<1>4. saved \in Below(65536) /\ saved % 256 = packet[13] /\ saved \div 256 = packet[14]
  <2> HIDE DEF saved
  <2> QED
    BY <1>3, BytesOfWord
<1>5. /\ zeroed \in Seq(Below(256)) /\ Len(zeroed) = n
      /\ \A i \in 1..n : i \notin {13, 13 + 1} => zeroed[i] = packet[i]
  <2>1. HasWord(zeroed, packet, 13, 0)
    BY <1>2, SetWordFacts
  <2> HIDE DEF zeroed
  <2> QED
    BY <2>1 DEF HasWord
<1> HIDE DEF saved, zeroed
<1>6. 13 \in 1..(Len(zeroed) - 1)
  BY <1>2, <1>5
<1>7. /\ restored \in Seq(Below(256)) /\ Len(restored) = n
      /\ restored[13] = packet[13] /\ restored[13 + 1] = packet[14]
      /\ \A i \in 1..n : i \notin {13, 13 + 1} => restored[i] = zeroed[i]
  <2>1. HasWord(restored, zeroed, 13, saved)
    BY <1>4, <1>5, <1>6, SetWordFacts
  <2> HIDE DEF restored
  <2> QED
    BY <1>4, <1>5, <2>1 DEF HasWord
<1> HIDE DEF restored
<1>8. \A i \in 1..n : restored[i] = packet[i]
  BY <1>5, <1>7
<1>9. restored = packet
  BY <1>7, <1>8, SeqEqual
<1>10. ~(n < 16)
  BY <1>1
<1> QED
  BY <1>9, <1>10 DEF VerifyOobPacket, HeaderLength, Restored, saved, zeroed, restored, n

(******************************************************************************)
(* A packet that the device sealed is accepted, and no packet that differs    *)
(* from it in one byte is, wherever the byte is: in the signature, in the     *)
(* checksum field, or in what the checksum is of (transport.cpp:347-359).     *)
(******************************************************************************)
LEMMA SealedPacket ==
  ASSUME NEW unsealed \in Seq(Below(256)), Len(unsealed) >= 16,
         unsealed[1] = 255, unsealed[2] = 255, unsealed[13] = 0, unsealed[14] = 0,
         NEW packet, packet = SetWord(unsealed, 13, CalculateCRC16(unsealed))
  PROVE  /\ packet \in Seq(Below(256)) /\ Len(packet) = Len(unsealed)
         /\ packet[1] = 255 /\ packet[2] = 255
         /\ \A i \in 1..Len(packet) : i \notin {13, 14} => packet[i] = unsealed[i]
         /\ SetWord(packet, 13, 0) = unsealed
         /\ CalculateCRC16(unsealed) = Word(packet, 13)
<1> DEFINE n == Len(unsealed)
           crc == CalculateCRC16(unsealed)
           zeroed == SetWord(packet, 13, 0)
<1>1. n \in Nat /\ n >= 16
  OBVIOUS
<1>2. 13 \in 1..(n - 1) /\ {1, 2, 13, 14} \subseteq 1..n /\ 0 \in Below(65536) /\ 13 + 1 = 14
  BY <1>1 DEF Below
<1>3. crc \in Below(65536)
  BY ChecksumIsWord
<1>4. /\ packet \in Seq(Below(256)) /\ Len(packet) = n
      /\ packet[13] = crc % 256 /\ packet[13 + 1] = crc \div 256
      /\ \A i \in 1..n : i \notin {13, 13 + 1} => packet[i] = unsealed[i]
  <2>1. HasWord(packet, unsealed, 13, crc)
    BY <1>2, <1>3, SetWordFacts
  <2> HIDE DEF crc
  <2> QED
    BY <2>1 DEF HasWord
<1> HIDE DEF crc, n
<1>5. 13 \in 1..(Len(packet) - 1)
  BY <1>2, <1>4
<1>6. /\ zeroed \in Seq(Below(256)) /\ Len(zeroed) = n
      /\ zeroed[13] = 0 % 256 /\ zeroed[13 + 1] = 0 \div 256
      /\ \A i \in 1..n : i \notin {13, 13 + 1} => zeroed[i] = packet[i]
  <2>1. packet \in Seq(Below(256)) /\ Len(packet) = n
    BY <1>4
  <2>2. HasWord(zeroed, packet, 13, 0)
    BY <1>2, <1>5, <2>1, SetWordFacts
  <2> HIDE DEF zeroed
  <2> QED
    BY <2>1, <2>2 DEF HasWord
<1> HIDE DEF zeroed
<1>7. 0 % 256 = 0 /\ 0 \div 256 = 0
  OBVIOUS
<1>8. ASSUME NEW i \in 1..n PROVE zeroed[i] = unsealed[i]
  <2>1. CASE i \notin {13, 13 + 1}
    BY <1>4, <1>6, <2>1
  <2>2. CASE i \in {13, 13 + 1}
    BY <1>2, <1>6, <1>7, <2>2
  <2> QED
    BY <2>1, <2>2
<1>9. zeroed = unsealed
  BY <1>6, <1>8, SeqEqual DEF n
<1>10. crc = (crc % 256) + 256 * (crc \div 256)
  BY <1>3 DEF Below
<1>11. Word(packet, 13) = crc
  BY <1>2, <1>4, <1>10 DEF Word
<1>12. packet[1] = 255 /\ packet[2] = 255
  BY <1>2, <1>4
<1> QED
  BY <1>2, <1>4, <1>9, <1>11, <1>12 DEF crc, n, zeroed

(******************************************************************************)
(* A sealed packet with one byte changed is refused, and left as it was       *)
(* received (transport.cpp:347-359).                                          *)
(******************************************************************************)
LEMMA DamageDetected ==
  ASSUME NEW unsealed \in Seq(Below(256)), Len(unsealed) >= 16,
         unsealed[1] = 255, unsealed[2] = 255, unsealed[13] = 0, unsealed[14] = 0,
         NEW packet, packet = SetWord(unsealed, 13, CalculateCRC16(unsealed)),
         NEW p \in 1..Len(packet), NEW byte \in Below(256), byte # packet[p]
  PROVE  VerifyOobPacket([packet EXCEPT ![p] = byte])
           = [valid |-> FALSE, buffer |-> [packet EXCEPT ![p] = byte]]
<1> DEFINE n == Len(packet)
           damaged == [packet EXCEPT ![p] = byte]
           zeroed == SetWord(damaged, 13, 0)
<1>1. /\ packet \in Seq(Below(256)) /\ Len(packet) = Len(unsealed)
      /\ packet[1] = 255 /\ packet[2] = 255
      /\ \A i \in 1..Len(packet) : i \notin {13, 14} => packet[i] = unsealed[i]
      /\ SetWord(packet, 13, 0) = unsealed
      /\ CalculateCRC16(unsealed) = Word(packet, 13)
  BY SealedPacket
<1>2. /\ n \in Nat /\ n >= 16 /\ p \in 1..n
      /\ \A i \in 1..n : packet[i] \in Below(256)
  <2>1. n \in Nat /\ \A i \in 1..n : packet[i] \in Below(256)
    BY <1>1, ElementOfSeq
  <2> QED
    BY <1>1, <2>1
<1>3. packet \in [1..n -> Below(256)]
  BY <1>1
<1> HIDE DEF n
<1>4. /\ damaged \in [1..n -> Below(256)] /\ damaged[p] = byte
      /\ \A i \in 1..n : i # p => damaged[i] = packet[i]
  BY <1>2, <1>3
<1> HIDE DEF damaged
<1> SUFFICES VerifyOobPacket(damaged) = [valid |-> FALSE, buffer |-> damaged]
  BY DEF damaged
<1>5. damaged \in Seq(Below(256)) /\ Len(damaged) = n
  BY <1>2, <1>4, SeqDef, LenProperties
<1>6. 13 \in 1..(Len(damaged) - 1) /\ {1, 2, 13, 14} \subseteq 1..n /\ 0 \in Below(65536) /\ 13 + 1 = 14
  BY <1>2, <1>5 DEF Below
<1>7. /\ zeroed \in Seq(Below(256)) /\ Len(zeroed) = n
      /\ zeroed[13] = 0 % 256 /\ zeroed[13 + 1] = 0 \div 256
      /\ \A i \in 1..n : i \notin {13, 13 + 1} => zeroed[i] = damaged[i]
  <2>1. HasWord(zeroed, damaged, 13, 0)
    BY <1>5, <1>6, SetWordFacts
  <2> HIDE DEF zeroed
  <2> QED
    BY <1>5, <2>1 DEF HasWord
<1>8. 0 % 256 = 0 /\ 0 \div 256 = 0
  OBVIOUS
<1>9. CASE p \in {1, 2}
  <2>1. /\ damaged[1] \in Nat /\ damaged[1] < 256 /\ damaged[2] \in Nat /\ damaged[2] < 256
        /\ damaged[1] # 255 \/ damaged[2] # 255
    <3>1. 1 \in 1..n /\ 2 \in 1..n
      BY <1>6
    <3>2. damaged[1] \in Below(256) /\ damaged[2] \in Below(256)
      BY <1>4, <3>1
    <3>3. damaged[1] # 255 \/ damaged[2] # 255
      <4>1. CASE p = 1
        BY <1>1, <1>4, <4>1
      <4>2. CASE p = 2
        BY <1>1, <1>4, <4>2
      <4> QED
        BY <1>9, <4>1, <4>2
    <3> QED
      BY <3>2, <3>3 DEF Below
  <2>2. damaged[1] + 256 * damaged[2] # 65535
    <3> DEFINE word == damaged[1] + 256 * damaged[2]
    <3>1. damaged[1] \in Below(256) /\ damaged[2] \in Below(256)
      BY <2>1 DEF Below
    <3>2. word \in Below(65536) /\ word % 256 = damaged[1] /\ word \div 256 = damaged[2]
      BY <3>1, BytesOfWord
    <3> HIDE DEF word
    <3>3. 65535 % 256 = 255 /\ 65535 \div 256 = 255
      OBVIOUS
    <3>4. ASSUME word = 65535 PROVE FALSE
      <4>1. damaged[1] = 255 /\ damaged[2] = 255
        BY <3>2, <3>3, <3>4
      <4> QED
        BY <2>1, <4>1
    <3> QED
      BY <3>4 DEF word
  <2>3. Word(damaged, 1) # 65535
    BY <2>2 DEF Word
  <2> QED
    BY <1>2, <1>5, <2>3, VerifyFacts
<1>10. CASE p \in {13, 14}
  <2>1. damaged[1] = 255 /\ damaged[2] = 255
    BY <1>1, <1>4, <1>6, <1>10
  <2>2. Word(damaged, 1) = 65535
    BY <2>1 DEF Word
  <2> HIDE DEF zeroed
  <2>3. \A i \in 1..n : zeroed[i] = unsealed[i]
    BY <1>1, <1>4, <1>6, <1>7, <1>8, <1>10 DEF n
  <2>4. zeroed = unsealed
    BY <1>1, <1>7, <2>3, SeqEqual DEF n
  <2>5. /\ packet[13] \in Below(256) /\ packet[14] \in Below(256)
        /\ damaged[13] \in Below(256) /\ damaged[14] \in Below(256)
        /\ damaged[13] # packet[13] \/ damaged[14] # packet[14]
    BY <1>2, <1>4, <1>6, <1>10
  <2>6. packet[13] + 256 * packet[14] # damaged[13] + 256 * damaged[14]
    <3> DEFINE word == packet[13] + 256 * packet[14]
               other == damaged[13] + 256 * damaged[14]
    <3>1. word % 256 = packet[13] /\ word \div 256 = packet[14]
      BY <2>5, BytesOfWord
    <3>2. other % 256 = damaged[13] /\ other \div 256 = damaged[14]
      BY <2>5, BytesOfWord
    <3> HIDE DEF word, other
    <3>3. ASSUME word = other PROVE FALSE
      <4>1. packet[13] = damaged[13] /\ packet[14] = damaged[14]
        BY <3>1, <3>2, <3>3
      <4> QED
        BY <2>5, <4>1
    <3> QED
      BY <3>3 DEF word, other
  <2>7. Word(packet, 13) # Word(damaged, 13)
    BY <1>6, <2>6 DEF Word
  <2>8. CalculateCRC16(zeroed) # Word(damaged, 13)
    BY <1>1, <2>4, <2>7
  <2>9. VerifyOobPacket(damaged)
          = [valid |-> CalculateCRC16(zeroed) = Word(damaged, 13), buffer |-> damaged]
    BY <1>2, <1>5, <2>2, VerifyFacts DEF zeroed
  <2>10. (CalculateCRC16(zeroed) = Word(damaged, 13)) = FALSE
    BY <2>8
  <2> QED
    BY <2>9, <2>10
<1>11. CASE p \notin {1, 2, 13, 14}
  <2>1. damaged[1] = 255 /\ damaged[2] = 255 /\ damaged[13] = packet[13] /\ damaged[14] = packet[14]
    BY <1>1, <1>4, <1>6, <1>11
  <2>2. Word(damaged, 1) = 65535 /\ Word(damaged, 13) = Word(packet, 13)
    BY <1>6, <2>1 DEF Word
  <2> HIDE DEF zeroed
  <2>3. /\ \A i \in 1..n : i # p => zeroed[i] = unsealed[i]
        /\ zeroed[p] # unsealed[p]
    BY <1>1, <1>2, <1>4, <1>6, <1>7, <1>8, <1>11 DEF n
  <2>4. Len(zeroed) = Len(unsealed) /\ p \in 1..Len(zeroed)
    BY <1>1, <1>2, <1>7 DEF n
  <2>5. CalculateCRC16(zeroed) # CalculateCRC16(unsealed)
    BY <1>7, <2>3, <2>4, ChecksumTellsOneByte
  <2>6. CalculateCRC16(zeroed) # Word(damaged, 13)
    BY <1>1, <2>2, <2>5
  <2>7. VerifyOobPacket(damaged)
          = [valid |-> CalculateCRC16(zeroed) = Word(damaged, 13), buffer |-> damaged]
    BY <1>2, <1>5, <2>2, VerifyFacts DEF zeroed
  <2>8. (CalculateCRC16(zeroed) = Word(damaged, 13)) = FALSE
    BY <2>6
  <2> QED
    BY <2>7, <2>8
<1> QED
  BY <1>9, <1>10, <1>11

(******************************************************************************)
(* The packet that a device makes of the data: a header and the samples.      *)
(******************************************************************************)
IsPacket(packet, unsealed, width, count, total) ==
  /\ Len(unsealed) = 16 + total
  /\ unsealed[1] = 255 /\ unsealed[2] = 255
  /\ unsealed[7] = count % 256 /\ unsealed[8] = count \div 256
  /\ unsealed[13] = 0 /\ unsealed[14] = 0 /\ unsealed[15] = width
  /\ \A i \in 1..total : unsealed[16 + i] = data[i]
  /\ packet = SetWord(unsealed, 13, CalculateCRC16(unsealed))

(******************************************************************************)
(* A packet of either width is one that was sealed, with the count of samples *)
(* and its samples where the reader looks for them.                           *)
(******************************************************************************)
LEMMA PacketShape ==
  ASSUME DataOK, NEW width \in {0, 1},
         NEW count, count = Len(data) \div SampleSize(width),
         NEW total, total = count * SampleSize(width)
  PROVE  /\ count \in Nat /\ count < 65536 /\ total \in Nat /\ total <= Len(data)
         /\ \E unsealed \in Seq(Below(256)) : IsPacket(Packet(width), unsealed, width, count, total)
<1> DEFINE header == <<255, 255, 7, 0, 2, 8, count % 256, count \div 256,
                       1, 2, 3, 4, 0, 0, width, 1>>
           samples == SubSeq(data, 1, total)
           unsealed == header \o samples
<1>1. data \in Seq(Below(256)) /\ Len(data) \in Nat /\ Len(data) <= 65519
  BY DataIsBytes
<1>2. count \in Nat /\ count < 65536 /\ total \in Nat /\ total <= Len(data)
  <2>1. CASE width = 0
    BY <1>1, <2>1 DEF SampleSize
  <2>2. CASE width = 1
    BY <1>1, <2>2 DEF SampleSize
  <2> QED
    BY <2>1, <2>2
<1>3. Packet(width) = SetWord(unsealed, 13, CalculateCRC16(unsealed))
  <2> DEFINE U(c, k) == <<255, 255, 7, 0, 2, 8, c % 256, c \div 256, 1, 2, 3, 4, 0, 0, width, 1>>
                          \o SubSeq(data, 1, k)
             d == Len(data) \div SampleSize(width)
  <2>1. Packet(width) = SetWord(U(d, d * SampleSize(width)), 13, CalculateCRC16(U(d, d * SampleSize(width))))
    BY DEF Packet
  <2>2. unsealed = U(count, total)
    OBVIOUS
  <2> HIDE DEF U, unsealed
  <2>3. count = d /\ total = d * SampleSize(width)
    OBVIOUS
  <2> HIDE DEF d
  <2> QED
    BY <2>1, <2>2, <2>3
<1>4. count % 256 \in Below(256) /\ count \div 256 \in Below(256)
  BY <1>2 DEF Below
<1>5. /\ 255 \in Below(256) /\ 7 \in Below(256) /\ 0 \in Below(256) /\ 2 \in Below(256)
      /\ 8 \in Below(256) /\ 1 \in Below(256) /\ 3 \in Below(256) /\ 4 \in Below(256)
      /\ width \in Below(256)
  BY DEF Below
<1>6. header \in Seq(Below(256)) /\ Len(header) = 16
  BY <1>4, <1>5
<1>7. /\ header[1] = 255 /\ header[2] = 255
      /\ header[7] = count % 256 /\ header[8] = count \div 256
      /\ header[13] = 0 /\ header[14] = 0 /\ header[15] = width
  OBVIOUS
<1>8. \A i \in 1..Len(data) : data[i] \in Below(256)
  BY <1>1, ElementOfSeq
<1>9. /\ samples \in Seq(Below(256)) /\ Len(samples) = total
      /\ \A i \in 1..total : samples[i] = data[i]
  <2>1. 1 \in Int /\ total \in Int /\ \A i \in 1..total : data[i] \in Below(256)
    BY <1>1, <1>2, <1>8
  <2>2. /\ samples \in Seq(Below(256)) /\ Len(samples) = IF 1 <= total + 1 THEN total - 1 + 1 ELSE 0
        /\ \A i \in 1..(total - 1 + 1) : samples[i] = data[1 + i - 1]
    BY <1>1, <2>1, SubSeqProperties
  <2> QED
    BY <1>2, <2>2
<1> HIDE DEF header, samples
<1>10. /\ unsealed \in Seq(Below(256)) /\ Len(unsealed) = 16 + total
       /\ \A i \in 1..16 : unsealed[i] = header[i]
       /\ \A i \in 1..total : unsealed[16 + i] = samples[i]
  <2>1. /\ unsealed \in Seq(Below(256)) /\ Len(unsealed) = Len(header) + Len(samples)
        /\ \A i \in 1..Len(header) + Len(samples) :
             unsealed[i] = IF i <= Len(header) THEN header[i] ELSE samples[i - Len(header)]
    <3>1. header \in Seq(Below(256)) /\ samples \in Seq(Below(256))
      BY <1>6, <1>9
    <3> QED
      BY <3>1, ConcatProperties
  <2>2. /\ unsealed \in Seq(Below(256)) /\ Len(unsealed) = 16 + total
        /\ \A i \in 1..16 + total : unsealed[i] = IF i <= 16 THEN header[i] ELSE samples[i - 16]
    BY <1>6, <1>9, <2>1
  <2> HIDE DEF unsealed
  <2>3. ASSUME NEW i \in 1..16 PROVE unsealed[i] = header[i]
    <3>1. i \in 1..16 + total /\ i <= 16
      BY <1>2
    <3> QED
      BY <2>2, <3>1
  <2>4. ASSUME NEW i \in 1..total PROVE unsealed[16 + i] = samples[i]
    <3>1. 16 + i \in 1..16 + total /\ ~(16 + i <= 16) /\ (16 + i) - 16 = i
      BY <1>2
    <3> QED
      BY <2>2, <3>1
  <2> QED
    BY <2>2, <2>3, <2>4
<1> HIDE DEF unsealed
<1>11. /\ unsealed[1] = 255 /\ unsealed[2] = 255
       /\ unsealed[7] = count % 256 /\ unsealed[8] = count \div 256
       /\ unsealed[13] = 0 /\ unsealed[14] = 0 /\ unsealed[15] = width
  <2>1. /\ unsealed[1] = header[1] /\ unsealed[2] = header[2]
        /\ unsealed[7] = header[7] /\ unsealed[8] = header[8]
        /\ unsealed[13] = header[13] /\ unsealed[14] = header[14] /\ unsealed[15] = header[15]
    BY <1>10
  <2> QED
    BY <1>2, <1>7, <2>1
<1>12. \A i \in 1..total : unsealed[16 + i] = data[i]
  BY <1>9, <1>10
<1>13. IsPacket(Packet(width), unsealed, width, count, total)
  BY <1>3, <1>10, <1>11, <1>12 DEF IsPacket
<1> QED
  BY <1>2, <1>10, <1>13

(******************************************************************************)
(* The packet of any data passes verifyOobPacket as the device sealed it, and *)
(* with any one of its bytes changed it does not, at every length a packet    *)
(* can have; the buffer that the session is handed afterwards is the packet   *)
(* as it was received (transport.cpp:347-359).                                *)
(******************************************************************************)
THEOREM DamageRejected == CodecSpec => []DamagedPacketRejected
<1>1. DataOK => DamagedPacketRejected
  <2> SUFFICES ASSUME DataOK PROVE DamagedPacketRejected
    OBVIOUS
  <2> DEFINE packet == Packet(0)
  <2>1. PICK unsealed \in Seq(Below(256)) :
          /\ Len(unsealed) >= 16
          /\ unsealed[1] = 255 /\ unsealed[2] = 255 /\ unsealed[13] = 0 /\ unsealed[14] = 0
          /\ packet = SetWord(unsealed, 13, CalculateCRC16(unsealed))
    <3> DEFINE count == Len(data) \div SampleSize(0)
               total == count * SampleSize(0)
    <3>1. total \in Nat /\ \E u \in Seq(Below(256)) : IsPacket(packet, u, 0, count, total)
      BY PacketShape
    <3> HIDE DEF packet, count, total
    <3>2. PICK u \in Seq(Below(256)) : IsPacket(packet, u, 0, count, total)
      BY <3>1
    <3>3. /\ Len(u) = 16 + total
          /\ u[1] = 255 /\ u[2] = 255 /\ u[13] = 0 /\ u[14] = 0
          /\ packet = SetWord(u, 13, CalculateCRC16(u))
      BY <3>2 DEF IsPacket
    <3>4. Len(u) >= 16
      BY <3>1, <3>3
    <3> QED
      BY <3>3, <3>4
  <2> HIDE DEF packet
  <2>2. /\ packet \in Seq(Below(256)) /\ Len(packet) = Len(unsealed)
        /\ packet[1] = 255 /\ packet[2] = 255
        /\ SetWord(packet, 13, 0) = unsealed
        /\ CalculateCRC16(unsealed) = Word(packet, 13)
    BY <2>1, SealedPacket
  <2>3. Len(packet) >= 16 /\ \A i \in 1..Len(packet) : packet[i] \in Below(256)
    BY <2>1, <2>2, ElementOfSeq
  <2>4. VerifyOobPacket(packet) = [valid |-> TRUE, buffer |-> packet]
    <3>1. Word(packet, 1) = 65535
      BY <2>2 DEF Word
    <3>2. VerifyOobPacket(packet)
            = [valid |-> CalculateCRC16(SetWord(packet, 13, 0)) = Word(packet, 13), buffer |-> packet]
      BY <2>2, <2>3, <3>1, VerifyFacts
    <3>3. (CalculateCRC16(SetWord(packet, 13, 0)) = Word(packet, 13)) = TRUE
      BY <2>2
    <3> QED
      BY <3>2, <3>3
  <2>5. ASSUME NEW p \in DOMAIN packet, NEW error \in Bytes \ {0}
        PROVE  LET damaged == [packet EXCEPT ![p] = XorWord(@, error)]
               IN  VerifyOobPacket(damaged) = [valid |-> FALSE, buffer |-> damaged]
    <3> DEFINE byte == XorWord(packet[p], error)
    <3>1. p \in 1..Len(packet)
      BY <2>2
    <3>2. error \in Below(256) /\ error # 0 /\ packet[p] \in Below(256)
      BY <2>3, <3>1, CodecAssumption DEF Below
    <3>3. byte \in Below(256) /\ byte # packet[p]
      BY <3>2, XorChangesByte
    <3> HIDE DEF byte
    <3>4. VerifyOobPacket([packet EXCEPT ![p] = byte])
            = [valid |-> FALSE, buffer |-> [packet EXCEPT ![p] = byte]]
      BY <2>1, <3>1, <3>3, DamageDetected
    <3> QED
      BY <3>4 DEF byte
  <2> QED
    BY <2>4, <2>5 DEF DamagedPacketRejected, packet
<1> QED
  BY <1>1, DataOKInvariant, PTL

--------------------------------------------------------------------------------
(******************************************************************************)
(* The decoder's table inverts the encoder's, and no character of the         *)
(* encoder's table is the padding character.                                  *)
(******************************************************************************)
LEMMA LutInvertsBasis64 ==
  ASSUME NEW s \in Below(64)
  PROVE  /\ Basis64[s] \in Below(256) /\ Basis64[s] # PadChar
         /\ Lut[Basis64[s]] = s
<1>1. s \in 0..63 /\ s \in Nat /\ s < 64
  BY DEF Below
<1> DEFINE c == Basis64[s]
<1>2. /\ s < 26 => c = 65 + s
      /\ s >= 26 /\ s < 52 => c = 71 + s
      /\ s >= 52 /\ s < 62 => c = s - 4
      /\ s = 62 => c = 43
      /\ s = 63 => c = 47
  BY <1>1 DEF Basis64
<1> HIDE DEF c
<1>3. c \in Nat /\ c < 256 /\ c # 61
  BY <1>1, <1>2
<1>4. c \in 0..255
  BY <1>3
<1>5. /\ c >= 65 /\ c <= 90 => Lut[c] = c - 65
      /\ c >= 97 /\ c <= 122 => Lut[c] = c - 71
      /\ c >= 48 /\ c <= 57 => Lut[c] = c + 4
      /\ c = 43 => Lut[c] = 62
      /\ c = 47 => Lut[c] = 63
  BY <1>3, <1>4 DEF Lut
<1>6. Lut[c] = s
  BY <1>1, <1>2, <1>5
<1> QED
  BY <1>3, <1>6 DEF Below, PadChar, c

(******************************************************************************)
(* The characters of a group of m bytes, filled up with zeros.                *)
(******************************************************************************)
GroupChar(b1, b2, b3, m, j) ==
  IF j <= m + 1
    THEN Basis64[<<b1 \div 4, (b1 % 4) * 16 + b2 \div 16, (b2 % 16) * 4 + b3 \div 64, b3 % 64>>[j]]
    ELSE PadChar

(******************************************************************************)
(* The four characters of a group stand for numbers below 64.                 *)
(******************************************************************************)
LEMMA SextetsAreBelow64 ==
  ASSUME NEW b1 \in Below(256), NEW b2 \in Below(256), NEW b3 \in Below(256)
  PROVE  /\ b1 \div 4 \in Below(64) /\ (b1 % 4) * 16 + b2 \div 16 \in Below(64)
         /\ (b2 % 16) * 4 + b3 \div 64 \in Below(64) /\ b3 % 64 \in Below(64)
  BY DEF Below
(******************************************************************************)
(* A sequence filled up with zeros.                                           *)
(******************************************************************************)
At(src, i) == IF i <= Len(src) THEN src[i] ELSE 0

(******************************************************************************)
(* What the encoder fills a last group up with.                               *)
(******************************************************************************)
LEMMA ZerosFacts ==
  ASSUME NEW count \in Nat
  PROVE  /\ Zeros(count) \in Seq(Below(256)) /\ Len(Zeros(count)) = count
         /\ \A i \in 1..count : Zeros(count)[i] = 0
<1>1. 0 \in Below(256)
  BY DEF Below
<1>2. Zeros(count) \in [1..count -> Below(256)]
  BY <1>1 DEF Zeros
<1>3. Zeros(count) \in Seq(Below(256)) /\ Len(Zeros(count)) = count
  BY <1>2
<1>4. \A i \in 1..count : Zeros(count)[i] = 0
  BY DEF Zeros
<1> QED
  BY <1>3, <1>4

(******************************************************************************)
(* A group that was filled up has its own bytes and zeros after them.         *)
(******************************************************************************)
LEMMA FilledUp ==
  ASSUME NEW group \in Seq(Below(256)), Len(group) \in 1..3, NEW i \in 1..3
  PROVE  /\ (group \o Zeros(3 - Len(group)))[i] = At(group, i)
         /\ At(group, i) \in Below(256)
<1> DEFINE n == Len(group)
           z == Zeros(3 - n)
<1>1. n \in Nat /\ n \in 1..3 /\ 3 - n \in Nat
  <2>1. n \in 1..3
    OBVIOUS
  <2> HIDE DEF n
  <2> QED
    BY <2>1
<1>2. z \in Seq(Below(256)) /\ Len(z) = 3 - n /\ \A k \in 1..3 - n : z[k] = 0
  BY <1>1, ZerosFacts
<1> HIDE DEF z
<1>3. (group \o z)[i] = IF i <= n THEN group[i] ELSE z[i - n]
  BY <1>1, <1>2
<1>4. CASE i <= n
  <2>1. group[i] \in Below(256)
    BY <1>4, ElementOfSeq
  <2> QED
    BY <1>3, <1>4, <2>1 DEF At, z
<1>5. CASE ~(i <= n)
  <2>1. i - n \in 1..3 - n
    BY <1>1, <1>5
  <2>2. z[i - n] = 0 /\ 0 \in Below(256)
    BY <1>2, <2>1 DEF Below
  <2>3. (group \o z)[i] = 0
    BY <1>3, <1>5, <2>2
  <2>4. At(group, i) = 0
    BY <1>5 DEF At
  <2> QED
    BY <2>2, <2>3, <2>4 DEF z
<1> QED
  BY <1>4, <1>5

(******************************************************************************)
(* The characters of a group, filled up or not (utility.h:43-61).             *)
(******************************************************************************)
LEMMA EncodeGroupFacts ==
  ASSUME NEW group \in Seq(Below(256)), Len(group) \in 1..3, NEW j \in 1..4
  PROVE  EncodeGroup(group)[j]
           = GroupChar(At(group, 1), At(group, 2), At(group, 3), Len(group), j)
<1> DEFINE b == group \o Zeros(3 - Len(group))
           b1 == At(group, 1)
           b2 == At(group, 2)
           b3 == At(group, 3)
           sextets == <<b1 \div 4, (b1 % 4) * 16 + b2 \div 16, (b2 % 16) * 4 + b3 \div 64, b3 % 64>>
<1>1. b[1] = b1 /\ b[2] = b2 /\ b[3] = b3
  <2>1. \A i \in 1..3 : b[i] = At(group, i)
    BY FilledUp
  <2> HIDE DEF b
  <2> QED
    BY <2>1
<1>2. EncodeGroup(group)
        = [k \in 1..4 |-> IF k <= Len(group) + 1 THEN Basis64[sextets[k]] ELSE PadChar]
  <2> DEFINE raw == <<b[1] \div 4, (b[1] % 4) * 16 + b[2] \div 16, (b[2] % 16) * 4 + b[3] \div 64, b[3] % 64>>
  <2>1. EncodeGroup(group)
          = [k \in 1..4 |-> IF k <= Len(group) + 1 THEN Basis64[raw[k]] ELSE PadChar]
    BY DEF EncodeGroup
  <2> HIDE DEF b, b1, b2, b3
  <2>2. raw = sextets
    BY <1>1
  <2> HIDE DEF raw, sextets
  <2>3. EncodeGroup(group)
          = [k \in 1..4 |-> IF k <= Len(group) + 1 THEN Basis64[sextets[k]] ELSE PadChar]
    BY <2>1, <2>2
  <2> QED
    BY <2>3
<1> HIDE DEF sextets
<1>3. EncodeGroup(group)[j] = IF j <= Len(group) + 1 THEN Basis64[sextets[j]] ELSE PadChar
  BY <1>2
<1> QED
  BY <1>3 DEF GroupChar, sextets

(******************************************************************************)
(* The characters of a group are below 256.                                   *)
(******************************************************************************)
LEMMA GroupCharRange ==
  ASSUME NEW b1 \in Below(256), NEW b2 \in Below(256), NEW b3 \in Below(256),
         NEW m \in 1..3, NEW j \in 1..4
  PROVE  GroupChar(b1, b2, b3, m, j) \in Below(256)
<1> DEFINE s1 == b1 \div 4
           s2 == (b1 % 4) * 16 + b2 \div 16
           s3 == (b2 % 16) * 4 + b3 \div 64
           s4 == b3 % 64
<1>1. s1 \in Below(64) /\ s2 \in Below(64) /\ s3 \in Below(64) /\ s4 \in Below(64)
  BY SextetsAreBelow64
<1>2. PadChar \in Below(256)
  BY DEF PadChar, Below
<1>3. GroupChar(b1, b2, b3, m, j) = IF j <= m + 1 THEN Basis64[<<s1, s2, s3, s4>>[j]] ELSE PadChar
  BY DEF GroupChar
<1> HIDE DEF s1, s2, s3, s4
<1>4. <<s1, s2, s3, s4>>[j] \in Below(64)
  BY <1>1
<1>5. Basis64[<<s1, s2, s3, s4>>[j]] \in Below(256)
  BY <1>4, LutInvertsBasis64
<1> QED
  BY <1>2, <1>3, <1>5

(******************************************************************************)
(* The g-th group of a sequence.                                              *)
(******************************************************************************)
GroupLength(src, g) == IF 3 * g <= Len(src) THEN 3 ELSE Len(src) - (3 * g - 3)

(******************************************************************************)
(* Each group holds its three bytes of the source, or those that are left.    *)
(******************************************************************************)
LEMMA GroupFacts ==
  ASSUME NEW src \in Seq(Below(256)), NEW g \in 1..Ceiling(Len(src), 3)
  PROVE  /\ Group(src, g) \in Seq(Below(256))
         /\ Len(Group(src, g)) = GroupLength(src, g) /\ GroupLength(src, g) \in 1..3
         /\ At(Group(src, g), 1) = At(src, 3 * g - 2)
         /\ At(Group(src, g), 2) = At(src, 3 * g - 1)
         /\ At(Group(src, g), 3) = At(src, 3 * g)
         /\ At(src, 3 * g - 2) \in Below(256) /\ At(src, 3 * g - 1) \in Below(256)
         /\ At(src, 3 * g) \in Below(256)
<1> DEFINE n == Len(src)
           m == GroupLength(src, g)
           first == 3 * g - 2
           last == IF 3 * g < n THEN 3 * g ELSE n
           group == Group(src, g)
<1>1. n \in Nat /\ g \in Nat /\ 1 <= g /\ 3 * g - 2 <= n
  BY DEF Ceiling
<1>2. /\ last = first + m - 1 /\ m \in 1..3
      /\ first \in 1..n /\ last \in 1..n /\ first \in Nat /\ last \in Nat
      /\ 3 * g - 1 = first + 1 /\ 3 * g = first + 2
      /\ m < 3 => n = first + m - 1
  <2>1. m = IF 3 * g <= n THEN 3 ELSE n - (3 * g - 3)
    BY DEF GroupLength
  <2> HIDE DEF n, m
  <2>2. CASE 3 * g <= n
    BY <1>1, <2>1, <2>2
  <2>3. CASE ~(3 * g <= n)
    BY <1>1, <2>1, <2>3
  <2> QED
    BY <2>2, <2>3
<1>3. group = SubSeq(src, first, last)
  BY DEF Group
<1> HIDE DEF n, m, first, last, group
<1>4. \A i \in 1..n : src[i] \in Below(256)
  BY ElementOfSeq DEF n
<1>5. group \in Seq(Below(256)) /\ Len(group) = m /\ \A i \in 1..m : group[i] = src[first + i - 1]
  <2>1. last - first + 1 = m /\ m \in Nat /\ \A i \in 1..m : first + i - 1 \in 1..n
    BY <1>1, <1>2
  <2>2. group = [i \in 1..m |-> src[first + i - 1]]
    BY <1>2, <1>3, <2>1
  <2>3. group \in [1..m -> Below(256)]
    BY <1>4, <2>1, <2>2
  <2> QED
    BY <2>1, <2>2, <2>3
<1>6. ASSUME NEW i \in 1..3
      PROVE  At(group, i) = At(src, first + i - 1) /\ At(src, first + i - 1) \in Below(256)
  <2>1. CASE i <= m
    <3>1. first + i - 1 \in 1..n /\ first + i - 1 <= n /\ i \in 1..m
      BY <1>1, <1>2, <2>1
    <3>2. group[i] = src[first + i - 1] /\ src[first + i - 1] \in Below(256)
      BY <1>4, <1>5, <3>1
    <3>3. At(group, i) = group[i]
      BY <1>5, <2>1 DEF At
    <3>4. At(src, first + i - 1) = src[first + i - 1]
      BY <3>1 DEF At, n
    <3> QED
      BY <3>2, <3>3, <3>4
  <2>2. CASE ~(i <= m)
    <3>1. ~(first + i - 1 <= n)
      BY <1>1, <1>2, <2>2
    <3>2. At(group, i) = 0
      BY <1>5, <2>2 DEF At
    <3>3. At(src, first + i - 1) = 0
      BY <3>1 DEF At, n
    <3>4. 0 \in Below(256)
      BY DEF Below
    <3> QED
      BY <3>2, <3>3, <3>4
  <2> QED
    BY <2>1, <2>2
<1>7. first + 1 - 1 = first /\ first + 2 - 1 = first + 1 /\ first + 3 - 1 = first + 2
  BY <1>2
<1>8. /\ At(group, 1) = At(src, first) /\ At(src, first) \in Below(256)
      /\ At(group, 2) = At(src, first + 1) /\ At(src, first + 1) \in Below(256)
      /\ At(group, 3) = At(src, first + 2) /\ At(src, first + 2) \in Below(256)
  <2>1. At(group, 1) = At(src, first) /\ At(src, first) \in Below(256)
    BY <1>6, <1>7
  <2>2. At(group, 2) = At(src, first + 1) /\ At(src, first + 1) \in Below(256)
    BY <1>6, <1>7
  <2>3. At(group, 3) = At(src, first + 2) /\ At(src, first + 2) \in Below(256)
    BY <1>6, <1>7
  <2> QED
    BY <2>1, <2>2, <2>3
<1>9. 3 * g - 2 = first
  BY DEF first
<1> QED
  BY <1>2, <1>5, <1>8, <1>9 DEF group, m

(******************************************************************************)
(* The text of a sequence, a character at a time.                             *)
(******************************************************************************)
CharOf(src, g, j) ==
  GroupChar(At(src, 3 * g - 2), At(src, 3 * g - 1), At(src, 3 * g), GroupLength(src, g), j)

(******************************************************************************)
(* The text that Base64Encode returns, character by character: four for each  *)
(* group (utility.h:38-64).                                                   *)
(******************************************************************************)
LEMMA EncodedText ==
  ASSUME NEW src \in Seq(Below(256))
  PROVE  /\ Base64Encode(src) \in Seq(Below(256))
         /\ Len(Base64Encode(src)) = 4 * Ceiling(Len(src), 3)
         /\ \A g \in 1..Ceiling(Len(src), 3), j \in 1..4 :
              Base64Encode(src)[4 * g - 4 + j] = CharOf(src, g, j)
<1> DEFINE groups == Ceiling(Len(src), 3)
           text == Base64Encode(src)
<1>1. groups \in Nat
  BY DEF Ceiling
<1>2. ASSUME NEW g \in 1..groups, NEW j \in 1..4
      PROVE  EncodeGroup(Group(src, g))[j] = CharOf(src, g, j) /\ CharOf(src, g, j) \in Below(256)
  <2> DEFINE group == Group(src, g)
             m == GroupLength(src, g)
             b1 == At(src, 3 * g - 2)
             b2 == At(src, 3 * g - 1)
             b3 == At(src, 3 * g)
  <2>1. /\ group \in Seq(Below(256)) /\ Len(group) = m /\ m \in 1..3
        /\ At(group, 1) = b1 /\ At(group, 2) = b2 /\ At(group, 3) = b3
        /\ b1 \in Below(256) /\ b2 \in Below(256) /\ b3 \in Below(256)
    BY GroupFacts
  <2>2. CharOf(src, g, j) = GroupChar(b1, b2, b3, m, j)
    BY DEF CharOf
  <2> HIDE DEF group, m, b1, b2, b3
  <2>3. EncodeGroup(group)[j] = GroupChar(b1, b2, b3, m, j)
    BY <2>1, EncodeGroupFacts
  <2>4. GroupChar(b1, b2, b3, m, j) \in Below(256)
    BY <2>1, GroupCharRange
  <2> QED
    BY <2>2, <2>3, <2>4 DEF group
<1> DEFINE index(k) == 1 + ((k - 1) % 4)
<1>3. text = [k \in 1..4 * groups |-> EncodeGroup(Group(src, Ceiling(k, 4)))[index(k)]]
  BY DEF Base64Encode
<1>4. \A k \in 1..4 * groups : Ceiling(k, 4) \in 1..groups /\ index(k) \in 1..4
  BY <1>1 DEF Ceiling
<1>5. ASSUME NEW g \in 1..groups, NEW j \in 1..4
      PROVE  /\ 4 * g - 4 + j \in 1..4 * groups
             /\ Ceiling(4 * g - 4 + j, 4) = g /\ index(4 * g - 4 + j) = j
  BY <1>1 DEF Ceiling
<1> HIDE DEF text, groups, index
<1>6. \A k \in 1..4 * groups : text[k] \in Below(256)
  BY <1>2, <1>3, <1>4
<1>7. text \in [1..4 * groups -> Below(256)]
  BY <1>3, <1>6
<1>8. text \in Seq(Below(256)) /\ Len(text) = 4 * groups
  BY <1>1, <1>7
<1>9. \A g \in 1..groups, j \in 1..4 : text[4 * g - 4 + j] = CharOf(src, g, j)
  BY <1>2, <1>3, <1>5
<1> QED
  BY <1>8, <1>9 DEF text, groups
--------------------------------------------------------------------------------
(******************************************************************************)
(* The states of the decoder's loop.                                          *)
(******************************************************************************)
DecoderState(value, count, ended, dest) ==
  [value |-> value, count |-> count, ended |-> ended, dest |-> dest]

(******************************************************************************)
(* The states of the decoder.                                                 *)
(******************************************************************************)
DecoderStates == [value : Nat, count : Nat, ended : BOOLEAN, dest : Seq(Below(256))]

(******************************************************************************)
(* The table's entries are numbers, so a step of the loop stays among the     *)
(* decoder's states whatever the character.                                   *)
(******************************************************************************)
LEMMA DecodeCharTyped ==
  ASSUME NEW state \in DecoderStates, NEW c \in Below(256)
  PROVE  DecodeChar(state, c) \in DecoderStates
<1>1. Lut[c] \in Nat
  <2>1. c \in Nat /\ c < 256 /\ c \in 0..255
    BY DEF Below
  <2> QED
    BY <2>1 DEF Lut
<1>2. state.value \in Nat /\ state.count \in Nat /\ state.dest \in Seq(Below(256))
  BY DEF DecoderStates
<1> DEFINE value == OrLow(state.value * 64, Lut[c])
           bytes == <<(value \div 65536) % 256, (value \div 256) % 256, value % 256>>
<1>3. value \in Nat
  <2>1. \A v, l \in Nat : OrLow(v * 64, l) \in Nat
    BY DEF OrLow
  <2> QED
    BY <1>1, <1>2, <2>1
<1>4. DecodeChar(state, c)
        = IF state.ended \/ c = PadChar THEN [state EXCEPT !.ended = TRUE]
          ELSE IF state.count < 3
                 THEN [state EXCEPT !.value = value, !.count = @ + 1]
                 ELSE [state EXCEPT !.value = 0, !.count = 0, !.dest = @ \o bytes]
  BY DEF DecodeChar
<1> HIDE DEF value
<1>5. bytes \in Seq(Below(256))
  <2>1. (value \div 65536) % 256 \in Below(256) /\ (value \div 256) % 256 \in Below(256)
    BY <1>3 DEF Below
  <2>2. value % 256 \in Below(256)
    BY <1>3 DEF Below
  <2> QED
    BY <2>1, <2>2
<1> HIDE DEF bytes
<1>6. state.dest \o bytes \in Seq(Below(256))
  BY <1>2, <1>5
<1>7. [state EXCEPT !.ended = TRUE] \in DecoderStates
  BY DEF DecoderStates
<1>8. [state EXCEPT !.value = value, !.count = @ + 1] \in DecoderStates
  <2>1. state.count + 1 \in Nat
    BY <1>2
  <2> QED
    BY <1>3, <2>1 DEF DecoderStates
<1>9. [state EXCEPT !.value = 0, !.count = 0, !.dest = @ \o bytes] \in DecoderStates
  BY <1>6 DEF DecoderStates
<1> QED
  BY <1>4, <1>7, <1>8, <1>9

(******************************************************************************)
(* The loop's states are what the recursion says.                             *)
(******************************************************************************)
LEMMA DecodeStatesUnfold ==
  ASSUME NEW src \in Seq(Below(256))
  PROVE  /\ Len(src) \in Nat
         /\ DecodeStates(src) \in [0..Len(src) -> DecoderStates]
         /\ DecodeStates(src)[0] = DecoderState(0, 0, FALSE, <<>>)
         /\ \A i \in 1..Len(src) : DecodeStates(src)[i] = DecodeChar(DecodeStates(src)[i - 1], src[i])
<1> DEFINE n == Len(src)
           S == DecoderStates
           seed == DecoderState(0, 0, FALSE, <<>>)
           next == [i \in 1..n |-> [s \in S |-> DecodeChar(s, src[i])]]
<1>1. n \in Nat /\ \A i \in 1..n : src[i] \in Below(256)
  BY ElementOfSeq
<1>2. seed \in S
  BY DEF DecoderState, DecoderStates
<1> HIDE DEF n, S, seed
<1>3. \A i \in 1..n, s \in S : DecodeChar(s, src[i]) \in S
  BY <1>1, DecodeCharTyped DEF S
<1>4. next \in [1..n -> [S -> S]]
  BY <1>3
<1>5. \A i \in 1..n, s \in S : next[i][s] = DecodeChar(s, src[i])
  OBVIOUS
<1> HIDE DEF next
<1>6. PICK f \in [0..n -> S] : IsRecursion(f, seed, n, next)
  BY <1>1, <1>2, <1>4, RecursionExists
<1>7. f = [i \in 0..n |-> IF i = 0 THEN seed ELSE DecodeChar(f[i - 1], src[i])]
  <2>1. ASSUME NEW i \in 1..n PROVE f[i] = DecodeChar(f[i - 1], src[i])
    <3>1. i - 1 \in 0..n
      BY <1>1
    <3>2. f[i - 1] \in S
      BY <3>1
    <3> QED
      BY <1>5, <1>6, <3>2 DEF IsRecursion
  <2>2. \A i \in 0..n : i # 0 => i \in 1..n
    BY <1>1
  <2> QED
    BY <1>6, <2>1, <2>2 DEF IsRecursion
<1> DEFINE g == DecodeStates(src)
           h == [i \in 0..n |-> IF i = 0 THEN seed ELSE DecodeChar(g[i - 1], src[i])]
<1>8. g = h
  <2> DEFINE P(q, m, a) == q = [i \in 0..m |-> IF i = 0 THEN a ELSE DecodeChar(q[i - 1], src[i])]
  <2>1. P(f, n, seed)
    BY <1>7
  <2>2. g = CHOOSE q : P(q, Len(src), DecoderState(0, 0, FALSE, <<>>))
    BY DEF DecodeStates, DecoderState
  <2> HIDE DEF P, g
  <2>3. P(f, Len(src), DecoderState(0, 0, FALSE, <<>>))
    BY <2>1 DEF n, seed
  <2>4. P(g, Len(src), DecoderState(0, 0, FALSE, <<>>))
    BY <2>2, <2>3
  <2>5. P(g, n, seed)
    BY <2>4 DEF n, seed
  <2> QED
    BY <2>5 DEF P
<1> HIDE DEF g
<1>9. /\ g[0] = seed /\ g = [i \in 0..n |-> g[i]]
      /\ \A i \in 1..n : g[i] = DecodeChar(g[i - 1], src[i])
  <2>1. 0 \in 0..n /\ \A i \in 1..n : i \in 0..n /\ i # 0
    BY <1>1
  <2>2. /\ h[0] = seed /\ h = [i \in 0..n |-> h[i]]
        /\ \A i \in 1..n : h[i] = DecodeChar(g[i - 1], src[i])
    BY <2>1
  <2> HIDE DEF h
  <2> QED
    BY <1>8, <2>2
<1> HIDE DEF h
<1>10. IsLooseRecursion(g, S, seed, n, next)
  BY <1>5, <1>9 DEF IsLooseRecursion
<1>11. g = f
  BY <1>1, <1>2, <1>4, <1>6, <1>10, RecursionUnique
<1>12. g \in [0..n -> S]
  BY <1>11
<1>13. g[0] = seed /\ \A i \in 1..n : g[i] = DecodeChar(g[i - 1], src[i])
  BY <1>9
<1> QED
  BY <1>1, <1>12, <1>13 DEF g, n, S, seed

(******************************************************************************)
(* The assignments of the loop.                                               *)
(******************************************************************************)
WithEnd(state, e) == [state EXCEPT !.ended = e]

(******************************************************************************)
(* A state after a character that completes no group.                         *)
(******************************************************************************)
WithBits(state, v, k) == [state EXCEPT !.value = v, !.count = k]

(******************************************************************************)
(* A state after a character that completes a group.                          *)
(******************************************************************************)
WithBytes(state, v, k, d) == [state EXCEPT !.value = v, !.count = k, !.dest = d]

(******************************************************************************)
(* What is left of a state whose fields are assigned.                         *)
(******************************************************************************)
LEMMA StateChanged ==
  ASSUME NEW value, NEW count, NEW ended, NEW dest, NEW v, NEW k, NEW d, NEW e
  PROVE  /\ WithEnd(DecoderState(value, count, ended, dest), e) = DecoderState(value, count, e, dest)
         /\ WithBits(DecoderState(value, count, ended, dest), v, k) = DecoderState(v, k, ended, dest)
         /\ WithBytes(DecoderState(value, count, ended, dest), v, k, d) = DecoderState(v, k, ended, d)
<1> DEFINE state == DecoderState(value, count, ended, dest)
<1>1. [state EXCEPT !.ended = e] = DecoderState(value, count, e, dest)
  BY DEF DecoderState
<1>2. [state EXCEPT !.value = v] = DecoderState(v, count, ended, dest)
  BY DEF DecoderState
<1>3. [DecoderState(v, count, ended, dest) EXCEPT !.count = k] = DecoderState(v, k, ended, dest)
  BY DEF DecoderState
<1>4. [DecoderState(v, k, ended, dest) EXCEPT !.dest = d] = DecoderState(v, k, ended, d)
  BY DEF DecoderState
<1>5. [state EXCEPT !.value = v, !.count = k] = [[state EXCEPT !.value = v] EXCEPT !.count = k]
  OBVIOUS
<1>6. [state EXCEPT !.value = v, !.count = k, !.dest = d]
        = [[[state EXCEPT !.value = v] EXCEPT !.count = k] EXCEPT !.dest = d]
  OBVIOUS
<1> QED
  BY <1>1, <1>2, <1>3, <1>4, <1>5, <1>6 DEF WithEnd, WithBits, WithBytes

(******************************************************************************)
(* Padding ends the loop, and leaves the rest of its state alone              *)
(* (utility.h:87).                                                            *)
(******************************************************************************)
LEMMA DecodeCharPadding ==
  ASSUME NEW value, NEW count, NEW ended, NEW dest
  PROVE  DecodeChar(DecoderState(value, count, ended, dest), PadChar)
           = DecoderState(value, count, TRUE, dest)
<1> DEFINE state == DecoderState(value, count, ended, dest)
           yes == TRUE
<1> HIDE DEF yes
<1>1. WithEnd(state, yes) = DecoderState(value, count, yes, dest)
  BY StateChanged
<1> HIDE DEF state
<1>2. DecodeChar(state, PadChar) = WithEnd(state, yes)
  BY DEF DecodeChar, WithEnd, yes
<1>3. DecodeChar(state, PadChar) = DecoderState(value, count, yes, dest)
  BY <1>1, <1>2
<1> QED
  BY <1>3 DEF state, yes

(******************************************************************************)
(* A character of the encoder's table adds its six bits, and the fourth of a  *)
(* group writes three bytes (utility.h:88-102).                               *)
(******************************************************************************)
ThreeBytes(v) == <<(v \div 65536) % 256, (v \div 256) % 256, v % 256>>

(******************************************************************************)
(* What the decoder does with a character that is not padding                 *)
(* (utility.h:77-90).                                                         *)
(******************************************************************************)
LEMMA DecodeCharAdds ==
  ASSUME NEW state, NEW c, state.ended = FALSE, c # PadChar,
         NEW v, v = OrLow(state.value * 64, Lut[c])
  PROVE  /\ state.count < 3 => DecodeChar(state, c) = WithBits(state, v, state.count + 1)
         /\ ~(state.count < 3) =>
              DecodeChar(state, c) = WithBytes(state, 0, 0, state.dest \o ThreeBytes(v))
  BY DEF DecodeChar, ThreeBytes, WithBits, WithBytes

(******************************************************************************)
(* The state while the loop runs, and once padding has ended it.              *)
(******************************************************************************)
Decoding(value, count, dest) == DecoderState(value, count, FALSE, dest)

(******************************************************************************)
(* A decoder that met the padding.                                            *)
(******************************************************************************)
Ended(value, count, dest) == DecoderState(value, count, TRUE, dest)

(******************************************************************************)
(* A character takes its six bits to the decoder; the fourth completes a      *)
(* group.                                                                     *)
(******************************************************************************)
LEMMA DecodeCharTakes ==
  ASSUME NEW value \in Nat, NEW count \in Nat, NEW dest, NEW s \in Below(64),
         NEW sum, sum = value * 64 + s, NEW more, more = count + 1
  PROVE  /\ count < 3 =>
              DecodeChar(Decoding(value, count, dest), Basis64[s]) = Decoding(sum, more, dest)
         /\ ~(count < 3) =>
              DecodeChar(Decoding(value, count, dest), Basis64[s])
                = Decoding(0, 0, dest \o ThreeBytes(sum))
<1> DEFINE no == FALSE
           state == DecoderState(value, count, no, dest)
           c == Basis64[s]
           longer == dest \o ThreeBytes(sum)
<1>1. c # PadChar /\ Lut[c] = s
  BY LutInvertsBasis64
<1> HIDE DEF c
<1>2. OrLow(value * 64, s) = sum
  BY DEF OrLow, Below
<1>3. state.value = value /\ state.count = count /\ state.dest = dest
  BY DEF DecoderState
<1>4. state.ended = FALSE
  BY DEF DecoderState
<1> HIDE DEF no, longer
<1>5. /\ WithBits(state, sum, more) = DecoderState(sum, more, no, dest)
      /\ WithBytes(state, 0, 0, longer) = DecoderState(0, 0, no, longer)
  BY StateChanged
<1> HIDE DEF state
<1>6. sum = OrLow(state.value * 64, Lut[c])
  BY <1>1, <1>2, <1>3
<1>7. /\ state.count < 3 => DecodeChar(state, c) = WithBits(state, sum, state.count + 1)
      /\ ~(state.count < 3) =>
           DecodeChar(state, c) = WithBytes(state, 0, 0, state.dest \o ThreeBytes(sum))
  BY <1>1, <1>4, <1>6, DecodeCharAdds
<1>8. /\ count < 3 => DecodeChar(state, c) = WithBits(state, sum, more)
      /\ ~(count < 3) => DecodeChar(state, c) = WithBytes(state, 0, 0, longer)
  BY <1>3, <1>7 DEF longer
<1>9. /\ count < 3 => DecodeChar(state, c) = DecoderState(sum, more, no, dest)
      /\ ~(count < 3) => DecodeChar(state, c) = DecoderState(0, 0, no, longer)
  BY <1>5, <1>8
<1> QED
  BY <1>9 DEF Decoding, state, c, no, longer
(******************************************************************************)
(* Padding ends the text, and more of it changes nothing.                     *)
(******************************************************************************)
LEMMA PaddingEnds ==
  ASSUME NEW value, NEW count, NEW dest
  PROVE  /\ DecodeChar(Decoding(value, count, dest), PadChar) = Ended(value, count, dest)
         /\ DecodeChar(Ended(value, count, dest), PadChar) = Ended(value, count, dest)
  BY DecodeCharPadding DEF Decoding, Ended

(******************************************************************************)
(* The sextets of a group hold its bytes.                                     *)
(******************************************************************************)
LEMMA SextetsHoldBytes ==
  ASSUME NEW b1 \in Below(256), NEW b2 \in Below(256), NEW b3 \in Below(256),
         NEW s1, s1 = b1 \div 4, NEW s2, s2 = (b1 % 4) * 16 + b2 \div 16,
         NEW s3, s3 = (b2 % 16) * 4 + b3 \div 64, NEW s4, s4 = b3 % 64
  PROVE  /\ s1 \in Below(64) /\ s2 \in Below(64) /\ s3 \in Below(64) /\ s4 \in Below(64)
         /\ (s1 * 64 + s2) * 64 + s3 = b1 * 1024 + b2 * 4 + b3 \div 64
         /\ ((s1 * 64 + s2) * 64 + s3) * 64 + s4 = b1 * 65536 + b2 * 256 + b3
<1>1. b1 \in Nat /\ b1 < 256 /\ b2 \in Nat /\ b2 < 256 /\ b3 \in Nat /\ b3 < 256
  BY DEF Below
<1>2. s1 \in Below(64) /\ s2 \in Below(64) /\ s3 \in Below(64) /\ s4 \in Below(64)
  BY SextetsAreBelow64
<1>3. s1 * 64 + s2 = b1 * 16 + b2 \div 16
  BY <1>1
<1>4. (s1 * 64 + s2) * 64 + s3 = b1 * 1024 + b2 * 4 + b3 \div 64
  BY <1>1, <1>3
<1>5. ((s1 * 64 + s2) * 64 + s3) * 64 + s4 = b1 * 65536 + b2 * 256 + b3
  BY <1>1, <1>4
<1> QED
  BY <1>2, <1>4, <1>5

(******************************************************************************)
(* The decoder after two characters.                                          *)
(******************************************************************************)
DecodeTwo(state, c1, c2) == DecodeChar(DecodeChar(state, c1), c2)

(******************************************************************************)
(* The decoder after four characters.                                         *)
(******************************************************************************)
DecodeFour(state, c1, c2, c3, c4) == DecodeTwo(DecodeTwo(state, c1, c2), c3, c4)

(******************************************************************************)
(* Two characters of the encoder's table at the start of a group, and a third *)
(* one after them.                                                            *)
(******************************************************************************)
TakesThree(dest, s1, s2, s3, a, v) ==
  /\ DecodeTwo(Decoding(0, 0, dest), Basis64[s1], Basis64[s2]) = Decoding(a, 2, dest)
  /\ DecodeChar(Decoding(a, 2, dest), Basis64[s3]) = Decoding(v, 3, dest)
  /\ a \in Nat /\ v \in Nat

(******************************************************************************)
(* Three characters leave their 18 bits in the decoder.                       *)
(******************************************************************************)
LEMMA DecodeThreeTaken ==
  ASSUME NEW dest, NEW s1 \in Below(64), NEW s2 \in Below(64), NEW s3 \in Below(64),
         NEW a, a = s1 * 64 + s2, NEW v, v = a * 64 + s3
  PROVE  TakesThree(dest, s1, s2, s3, a, v)
<1>1. s1 \in Nat /\ s2 \in Nat /\ s3 \in Nat /\ a \in Nat /\ v \in Nat
  BY DEF Below
<1> DEFINE c1 == Basis64[s1]
           c2 == Basis64[s2]
           c3 == Basis64[s3]
<1>2. DecodeChar(Decoding(0, 0, dest), c1) = Decoding(s1, 1, dest)
  <2> DEFINE zero == 0
             sum == zero * 64 + s1
             one == zero + 1
  <2>1. sum = s1 /\ one = 1 /\ zero < 3 /\ zero \in Nat
    BY <1>1
  <2>2. sum = zero * 64 + s1 /\ one = zero + 1
    OBVIOUS
  <2> HIDE DEF zero, one, sum
  <2>3. DecodeChar(Decoding(zero, zero, dest), c1) = Decoding(sum, one, dest)
    BY <2>1, <2>2, DecodeCharTakes
  <2> QED
    BY <2>1, <2>3 DEF zero
<1>3. DecodeChar(Decoding(s1, 1, dest), c2) = Decoding(a, 2, dest)
  <2>1. 2 = 1 + 1 /\ 1 < 3 /\ 1 \in Nat
    OBVIOUS
  <2> QED
    BY <1>1, <2>1, DecodeCharTakes
<1>4. DecodeChar(Decoding(a, 2, dest), c3) = Decoding(v, 3, dest)
  <2>1. 3 = 2 + 1 /\ 2 < 3 /\ 2 \in Nat
    OBVIOUS
  <2> QED
    BY <1>1, <2>1, DecodeCharTakes
<1>5. DecodeTwo(Decoding(0, 0, dest), c1, c2) = Decoding(a, 2, dest)
  <2> HIDE DEF c1, c2
  <2> QED
    BY <1>2, <1>3 DEF DecodeTwo
<1> QED
  BY <1>1, <1>4, <1>5 DEF TakesThree

(******************************************************************************)
(* What the decoder makes of a whole group: its three bytes.                  *)
(******************************************************************************)
LEMMA WholeGroupDecoded ==
  ASSUME NEW b1 \in Below(256), NEW b2 \in Below(256), NEW b3 \in Below(256), NEW dest
  PROVE  DecodeFour(Decoding(0, 0, dest),
                    GroupChar(b1, b2, b3, 3, 1), GroupChar(b1, b2, b3, 3, 2),
                    GroupChar(b1, b2, b3, 3, 3), GroupChar(b1, b2, b3, 3, 4))
           = Decoding(0, 0, dest \o <<b1, b2, b3>>)
<1> DEFINE s1 == b1 \div 4
           s2 == (b1 % 4) * 16 + b2 \div 16
           s3 == (b2 % 16) * 4 + b3 \div 64
           s4 == b3 % 64
           c1 == GroupChar(b1, b2, b3, 3, 1)
           c2 == GroupChar(b1, b2, b3, 3, 2)
           c3 == GroupChar(b1, b2, b3, 3, 3)
           c4 == GroupChar(b1, b2, b3, 3, 4)
           a == s1 * 64 + s2
           v == a * 64 + s3
           w == v * 64 + s4
<1>1. c1 = Basis64[s1] /\ c2 = Basis64[s2] /\ c3 = Basis64[s3] /\ c4 = Basis64[s4]
  BY DEF GroupChar
<1>2. s1 \in Below(64) /\ s2 \in Below(64) /\ s3 \in Below(64) /\ s4 \in Below(64)
  BY SextetsAreBelow64
<1>3. w = b1 * 65536 + b2 * 256 + b3
  BY SextetsHoldBytes
<1> HIDE DEF s1, s2, s3, s4, c1, c2, c3, c4
<1>4. a = s1 * 64 + s2 /\ v = a * 64 + s3 /\ w = v * 64 + s4
  OBVIOUS
<1> HIDE DEF a, v, w
<1>5. /\ DecodeTwo(Decoding(0, 0, dest), Basis64[s1], Basis64[s2]) = Decoding(a, 2, dest)
      /\ DecodeChar(Decoding(a, 2, dest), Basis64[s3]) = Decoding(v, 3, dest)
      /\ v \in Nat
  <2>1. TakesThree(dest, s1, s2, s3, a, v)
    BY <1>2, <1>4, DecodeThreeTaken
  <2> QED
    BY <2>1 DEF TakesThree
<1>6. DecodeChar(Decoding(v, 3, dest), Basis64[s4]) = Decoding(0, 0, dest \o ThreeBytes(w))
  <2> DEFINE three == 3
             more == three + 1
  <2>1. three \in Nat /\ ~(three < 3)
    OBVIOUS
  <2> HIDE DEF three
  <2>2. more = three + 1
    OBVIOUS
  <2> HIDE DEF more
  <2>3. DecodeChar(Decoding(v, three, dest), Basis64[s4]) = Decoding(0, 0, dest \o ThreeBytes(w))
    BY <1>2, <1>4, <1>5, <2>1, <2>2, DecodeCharTakes
  <2> QED
    BY <2>3 DEF three
<1>7. ThreeBytes(w) = <<b1, b2, b3>>
  <2>1. b1 \in Nat /\ b1 < 256 /\ b2 \in Nat /\ b2 < 256 /\ b3 \in Nat /\ b3 < 256
    BY DEF Below
  <2>2. (w \div 65536) % 256 = b1 /\ (w \div 256) % 256 = b2 /\ w % 256 = b3
    BY <1>3, <2>1
  <2> QED
    BY <2>2 DEF ThreeBytes
<1>8. DecodeFour(Decoding(0, 0, dest), c1, c2, c3, c4)
        = Decoding(0, 0, dest \o <<b1, b2, b3>>)
  BY <1>1, <1>5, <1>6, <1>7 DEF DecodeFour, DecodeTwo
<1> QED
  BY <1>8 DEF c1, c2, c3, c4

(******************************************************************************)
(* The assignments after the loop (utility.h:103-109).                        *)
(******************************************************************************)
LEMMA TailWritten ==
  ASSUME NEW v, NEW dest
  PROVE  /\ DecodeTail(Ended(v, 3, dest)) = <<(v \div 1024) % 256, (v \div 4) % 256>>
         /\ DecodeTail(Ended(v, 2, dest)) = <<(v \div 16) % 256>>
         /\ DecodeTail(Decoding(v, 0, dest)) = <<>>
<1>1. \A k : /\ Ended(v, k, dest).value = v /\ Ended(v, k, dest).count = k
             /\ Decoding(v, k, dest).value = v /\ Decoding(v, k, dest).count = k
  BY DEF Ended, Decoding, DecoderState
<1> QED
  BY <1>1 DEF DecodeTail

(******************************************************************************)
(* What it makes of a last group of two bytes, or of one: they are left to    *)
(* the assignments after the loop (utility.h:103-109).                        *)
(******************************************************************************)
LEMMA PartGroupDecoded ==
  ASSUME NEW b1 \in Below(256), NEW b2 \in Below(256), NEW dest, NEW m \in {1, 2}, m = 1 => b2 = 0
  PROVE  \E v \in Nat, k \in Nat :
           /\ DecodeFour(Decoding(0, 0, dest),
                         GroupChar(b1, b2, 0, m, 1), GroupChar(b1, b2, 0, m, 2),
                         GroupChar(b1, b2, 0, m, 3), GroupChar(b1, b2, 0, m, 4))
                = Ended(v, k, dest)
           /\ m = 1 => DecodeTail(Ended(v, k, dest)) = <<b1>>
           /\ m = 2 => DecodeTail(Ended(v, k, dest)) = <<b1, b2>>
<1> DEFINE b3 == 0
           s1 == b1 \div 4
           s2 == (b1 % 4) * 16 + b2 \div 16
           s3 == (b2 % 16) * 4 + b3 \div 64
           s4 == b3 % 64
           c1 == GroupChar(b1, b2, b3, m, 1)
           c2 == GroupChar(b1, b2, b3, m, 2)
           c3 == GroupChar(b1, b2, b3, m, 3)
           c4 == GroupChar(b1, b2, b3, m, 4)
           u == s1 * 64 + s2
           v == u * 64 + s3
<1>1. c1 = Basis64[s1] /\ c2 = Basis64[s2]
  BY DEF GroupChar
<1>2. m = 2 => c3 = Basis64[s3] /\ c4 = PadChar
  BY DEF GroupChar
<1>3. m = 1 => c3 = PadChar /\ c4 = PadChar
  BY DEF GroupChar
<1>4. b3 \in Below(256) /\ b3 \div 64 = 0
  BY DEF Below
<1> HIDE DEF b3
<1>5. v = b1 * 1024 + b2 * 4 + b3 \div 64
  BY <1>4, SextetsHoldBytes
<1>6. s1 \in Below(64) /\ s2 \in Below(64) /\ s3 \in Below(64)
  BY <1>4, SextetsAreBelow64
<1>7. b1 \in Nat /\ b1 < 256 /\ b2 \in Nat /\ b2 < 256
  BY DEF Below
<1>8. u = b1 * 16 + b2 \div 16 /\ u \in Nat
  BY <1>7
<1> HIDE DEF s1, s2, s3, s4, c1, c2, c3, c4
<1>9. u = s1 * 64 + s2 /\ v = u * 64 + s3
  OBVIOUS
<1> HIDE DEF u, v
<1>10. /\ DecodeTwo(Decoding(0, 0, dest), Basis64[s1], Basis64[s2]) = Decoding(u, 2, dest)
      /\ DecodeChar(Decoding(u, 2, dest), Basis64[s3]) = Decoding(v, 3, dest)
      /\ v \in Nat
  <2>1. TakesThree(dest, s1, s2, s3, u, v)
    BY <1>9, <1>6, DecodeThreeTaken
  <2> QED
    BY <2>1 DEF TakesThree
<1>11. CASE m = 2
  <2>1. DecodeFour(Decoding(0, 0, dest), c1, c2, c3, c4) = Ended(v, 3, dest)
    BY <1>1, <1>2, <1>10, <1>11, PaddingEnds DEF DecodeFour, DecodeTwo
  <2>2. DecodeTail(Ended(v, 3, dest)) = <<(v \div 1024) % 256, (v \div 4) % 256>>
    BY TailWritten
  <2>3. (v \div 1024) % 256 = b1 /\ (v \div 4) % 256 = b2
    BY <1>4, <1>5, <1>7
  <2>4. DecodeTail(Ended(v, 3, dest)) = <<b1, b2>>
    BY <2>2, <2>3
  <2> QED
    BY <1>10, <1>11, <2>1, <2>4 DEF c1, c2, c3, c4, b3
<1>12. CASE m = 1
  <2>1. DecodeFour(Decoding(0, 0, dest), c1, c2, c3, c4) = Ended(u, 2, dest)
    BY <1>1, <1>3, <1>10, <1>12, PaddingEnds DEF DecodeFour, DecodeTwo
  <2>2. DecodeTail(Ended(u, 2, dest)) = <<(u \div 16) % 256>>
    BY TailWritten
  <2>3. (u \div 16) % 256 = b1
    BY <1>7, <1>8, <1>12
  <2>4. DecodeTail(Ended(u, 2, dest)) = <<b1>>
    BY <2>2, <2>3
  <2> QED
    BY <1>8, <1>12, <2>1, <2>4 DEF c1, c2, c3, c4, b3
<1> QED
  BY <1>11, <1>12
(******************************************************************************)
(* A prefix and the elements after it make a longer prefix.                   *)
(******************************************************************************)
LEMMA PrefixExtended ==
  ASSUME NEW S, NEW src \in Seq(S), NEW k \in Nat, NEW tail \in Seq(S), k + Len(tail) <= Len(src),
         \A i \in 1..Len(tail) : tail[i] = src[k + i]
  PROVE  SubSeq(src, 1, k) \o tail = SubSeq(src, 1, k + Len(tail))
<1> DEFINE n == Len(src)
           m == Len(tail)
           head == SubSeq(src, 1, k)
<1>1. n \in Nat /\ m \in Nat
  OBVIOUS
<1> HIDE DEF n, m
<1>2. k <= n /\ k + m <= n /\ k + m \in Nat
  BY <1>1 DEF n, m
<1>3. head \in Seq(S) /\ Len(head) = k /\ \A i \in 1..k : head[i] = src[i]
  <2>1. head = [i \in 1..k |-> src[i]]
    BY <1>1, <1>2 DEF n
  <2>2. \A i \in 1..k : i \in 1..n
    BY <1>1, <1>2
  <2>3. \A i \in 1..k : src[i] \in S
    BY <2>2, ElementOfSeq DEF n
  <2>4. head \in [1..k -> S]
    BY <2>1, <2>3
  <2> QED
    BY <2>1, <2>4
<1> DEFINE whole == SubSeq(src, 1, k + m)
<1>4. whole = [i \in 1..k + m |-> src[i]]
  BY <1>1, <1>2 DEF n
<1> HIDE DEF head, whole
<1>5. /\ head \o tail \in Seq(S) /\ Len(head \o tail) = k + m
      /\ \A i \in 1..k + m : (head \o tail)[i] = IF i <= k THEN head[i] ELSE tail[i - k]
  <2>1. head \o tail \in Seq(S) /\ Len(head \o tail) = Len(head) + Len(tail)
    BY <1>3, ConcatProperties
  <2>2. \A i \in 1..Len(head) + Len(tail) :
          (head \o tail)[i] = IF i <= Len(head) THEN head[i] ELSE tail[i - Len(head)]
    BY <1>3, ConcatProperties
  <2> QED
    BY <1>3, <2>1, <2>2 DEF m
<1>6. ASSUME NEW i \in 1..k + m
      PROVE  src[i] = IF i <= k THEN head[i] ELSE tail[i - k]
  <2>1. CASE i <= k
    <3>1. i \in 1..k
      BY <1>1, <2>1
    <3> QED
      BY <1>3, <2>1, <3>1
  <2>2. CASE ~(i <= k)
    <3> DEFINE j == i - k
    <3>1. j \in 1..m /\ k + j = i
      BY <1>1, <2>2
    <3> HIDE DEF j
    <3>2. tail[j] = src[k + j]
      BY <3>1 DEF m
    <3> QED
      BY <2>2, <3>1, <3>2 DEF j
  <2> QED
    BY <2>1, <2>2
<1>7. whole \in Seq(S) /\ Len(whole) = k + m
  <2>1. \A i \in 1..k + m : i \in 1..n
    BY <1>1, <1>2
  <2>2. \A i \in 1..k + m : src[i] \in S
    BY <2>1, ElementOfSeq DEF n
  <2>3. whole = [i \in 1..k + m |-> src[i]] /\ k + m \in Nat
    BY <1>2, <1>4
  <2> HIDE DEF whole, m
  <2>4. whole \in [1..k + m -> S]
    BY <2>2, <2>3
  <2> QED
    <3> DEFINE l == k + m
    <3>1. l \in Nat /\ whole \in [1..l -> S]
      BY <2>3, <2>4
    <3> HIDE DEF l
    <3>2. whole \in Seq(S) /\ Len(whole) = l
      BY <3>1
    <3> QED
      BY <3>2 DEF l
<1>8. \A i \in 1..k + m : (head \o tail)[i] = whole[i]
  BY <1>4, <1>5, <1>6
<1>9. head \o tail = whole
  BY <1>5, <1>7, <1>8, SeqEqual
<1> QED
  BY <1>9 DEF head, whole, m

(******************************************************************************)
(* A sequence is its own longest prefix.                                      *)
(******************************************************************************)
LEMMA WholePrefix ==
  ASSUME NEW S, NEW src \in Seq(S)
  PROVE  SubSeq(src, 1, Len(src)) = src /\ SubSeq(src, 1, 0) = <<>> /\ src \o <<>> = src
  OBVIOUS

(******************************************************************************)
(* The decoder takes a group of the text at a time.                           *)
(******************************************************************************)
LEMMA GroupTaken ==
  ASSUME NEW src \in Seq(Below(256)), NEW g \in 1..Ceiling(Len(src), 3)
  PROVE  DecodeStates(Base64Encode(src))[4 * g]
           = DecodeFour(DecodeStates(Base64Encode(src))[4 * g - 4],
                        CharOf(src, g, 1), CharOf(src, g, 2), CharOf(src, g, 3), CharOf(src, g, 4))
<1> DEFINE text == Base64Encode(src)
           st == DecodeStates(text)
           groups == Ceiling(Len(src), 3)
           base == 4 * g - 4
<1>1. /\ text \in Seq(Below(256)) /\ Len(text) = 4 * groups
      /\ \A j \in 1..4 : text[base + j] = CharOf(src, g, j)
  BY EncodedText
<1>2. groups \in Nat /\ g \in 1..groups
  BY DEF Ceiling
<1> HIDE DEF text, groups
<1>3. \A i \in 1..4 * groups : st[i] = DecodeChar(st[i - 1], text[i])
  BY <1>1, DecodeStatesUnfold
<1> HIDE DEF st
<1>4. base \in Nat /\ base + 4 <= 4 * groups /\ base + 4 = 4 * g
  BY <1>2
<1>5. base = 4 * g - 4
  OBVIOUS
<1> HIDE DEF base
<1>6. \A j \in 1..4 : st[base + j] = DecodeChar(st[base + (j - 1)], CharOf(src, g, j))
  <2> SUFFICES ASSUME NEW j \in 1..4
               PROVE  st[base + j] = DecodeChar(st[base + (j - 1)], CharOf(src, g, j))
    OBVIOUS
  <2> DEFINE i == base + j
  <2>1. i \in 1..4 * groups /\ i - 1 = base + (j - 1)
    BY <1>2, <1>4
  <2>2. text[i] = CharOf(src, g, j)
    BY <1>1
  <2> HIDE DEF i
  <2>3. st[i] = DecodeChar(st[i - 1], text[i])
    BY <1>3, <2>1
  <2> QED
    BY <2>1, <2>2, <2>3 DEF i
<1>7. 1 - 1 = 0 /\ 2 - 1 = 1 /\ 3 - 1 = 2 /\ 4 - 1 = 3 /\ base + 0 = base
  BY <1>4
<1>8. st[base + 1] = DecodeChar(st[base], CharOf(src, g, 1))
  BY <1>6, <1>7
<1>9. /\ st[base + 2] = DecodeChar(st[base + 1], CharOf(src, g, 2))
      /\ st[base + 3] = DecodeChar(st[base + 2], CharOf(src, g, 3))
      /\ st[base + 4] = DecodeChar(st[base + 3], CharOf(src, g, 4))
  BY <1>6, <1>7
<1>10. st[base + 4] = DecodeFour(st[base], CharOf(src, g, 1), CharOf(src, g, 2),
                                 CharOf(src, g, 3), CharOf(src, g, 4))
  BY <1>8, <1>9 DEF DecodeFour, DecodeTwo
<1> QED
  BY <1>4, <1>5, <1>10 DEF st, text

(******************************************************************************)
(* After every whole group the decoder has the bytes up to it: if there were  *)
(* a first group after which it has not, its four characters would have to    *)
(* give something else than its three bytes (utility.h:84-102).               *)
(******************************************************************************)
LEMMA WholeGroupsDecoded ==
  ASSUME NEW src \in Seq(Below(256)), NEW g \in 0..Len(src) \div 3
  PROVE  DecodeStates(Base64Encode(src))[4 * g] = Decoding(0, 0, SubSeq(src, 1, 3 * g))
<1> DEFINE n == Len(src)
           st == DecodeStates(Base64Encode(src))
           Decoded(k) == st[4 * k] = Decoding(0, 0, SubSeq(src, 1, 3 * k))
           Wrong == {k \in 0..n \div 3 : ~Decoded(k)}
<1>1. n \in Nat /\ \A i \in 1..n : src[i] \in Below(256)
  BY ElementOfSeq
<1>2. Wrong \subseteq Nat
  OBVIOUS
<1>3. SUFFICES ASSUME Wrong # {} PROVE FALSE
  <2>1. g \notin Wrong => Decoded(g)
    OBVIOUS
  <2> QED
    BY <2>1
<1>4. PICK k \in Wrong : \A m \in Wrong : k <= m
  <2> HIDE DEF Wrong
  <2> QED
    BY <1>2, <1>3, LeastNat
<1> HIDE DEF Decoded
<1>5. k \in 0..n \div 3 /\ ~Decoded(k)
  OBVIOUS
<1>6. k # 0
  <2>1. Base64Encode(src) \in Seq(Below(256))
    BY EncodedText
  <2>2. st[0] = Decoding(0, 0, <<>>)
    BY <2>1, DecodeStatesUnfold DEF Decoding
  <2>3. SubSeq(src, 1, 0) = <<>>
    BY WholePrefix
  <2>4. 4 * 0 = 0 /\ 3 * 0 = 0
    OBVIOUS
  <2> HIDE DEF st
  <2>5. Decoded(0)
    BY <2>2, <2>3, <2>4 DEF Decoded
  <2> QED
    BY <1>5, <2>5
<1> HIDE DEF n
<1>7. /\ k - 1 \in 0..n \div 3 /\ ~(k <= k - 1) /\ k \in 1..Ceiling(n, 3)
      /\ 3 * k <= n /\ k \in Nat /\ k >= 1 /\ 4 * (k - 1) = 4 * k - 4
      /\ 3 * (k - 1) = 3 * k - 3 /\ 3 * k - 3 \in Nat
  BY <1>1, <1>5, <1>6 DEF Ceiling
<1>8. Decoded(k - 1)
  BY <1>4, <1>7
<1> HIDE DEF Wrong
<1> DEFINE p == 3 * k - 3
           head == SubSeq(src, 1, p)
           b1 == At(src, 3 * k - 2)
           b2 == At(src, 3 * k - 1)
           b3 == At(src, 3 * k)
<1>9. st[4 * k - 4] = Decoding(0, 0, head)
  <2> HIDE DEF st
  <2> QED
    BY <1>7, <1>8 DEF Decoded
<1>10. st[4 * k] = DecodeFour(st[4 * k - 4], CharOf(src, k, 1), CharOf(src, k, 2),
                              CharOf(src, k, 3), CharOf(src, k, 4))
  BY <1>7, GroupTaken DEF n
<1> HIDE DEF st
<1>11. b1 \in Below(256) /\ b2 \in Below(256) /\ b3 \in Below(256)
  BY <1>7, GroupFacts DEF n
<1>12. \A j \in 1..4 : CharOf(src, k, j) = GroupChar(b1, b2, b3, 3, j)
  <2>1. GroupLength(src, k) = 3
    BY <1>7 DEF GroupLength, n
  <2> QED
    BY <2>1 DEF CharOf
<1>13. /\ CharOf(src, k, 1) = GroupChar(b1, b2, b3, 3, 1) /\ CharOf(src, k, 2) = GroupChar(b1, b2, b3, 3, 2)
       /\ CharOf(src, k, 3) = GroupChar(b1, b2, b3, 3, 3) /\ CharOf(src, k, 4) = GroupChar(b1, b2, b3, 3, 4)
  <2> HIDE DEF b1, b2, b3
  <2> QED
    BY <1>12
<1>14. b1 = src[p + 1] /\ b2 = src[p + 2] /\ b3 = src[p + 3]
  <2>1. /\ 3 * k - 2 = p + 1 /\ 3 * k - 1 = p + 2 /\ 3 * k = p + 3
        /\ 3 * k - 2 <= n /\ 3 * k - 1 <= n /\ 3 * k <= n
    BY <1>1, <1>7
  <2> HIDE DEF p
  <2> QED
    BY <2>1 DEF At, n
<1> HIDE DEF head, b1, b2, b3
<1>15. st[4 * k] = Decoding(0, 0, head \o <<b1, b2, b3>>)
  BY <1>9, <1>10, <1>11, <1>13, WholeGroupDecoded
<1>16. head \o <<b1, b2, b3>> = SubSeq(src, 1, 3 * k)
  <2> DEFINE tail == <<b1, b2, b3>>
  <2>1. p \in Nat /\ p + 3 <= n /\ p + 3 = 3 * k
    BY <1>1, <1>7
  <2> HIDE DEF p
  <2>2. tail \in Seq(Below(256)) /\ Len(tail) = 3
    BY <1>11
  <2>3. \A i \in 1..3 : tail[i] = src[p + i]
    BY <1>14
  <2> HIDE DEF tail
  <2>4. SubSeq(src, 1, p) \o tail = SubSeq(src, 1, p + Len(tail))
    <3>1. p + Len(tail) <= Len(src) /\ \A i \in 1..Len(tail) : tail[i] = src[p + i]
      BY <2>1, <2>2, <2>3 DEF n
    <3> QED
      BY <2>1, <2>2, <3>1, PrefixExtended
  <2> QED
    BY <2>1, <2>2, <2>4 DEF head, tail
<1> QED
  BY <1>5, <1>15, <1>16 DEF Decoded

(******************************************************************************)
(* The decoder inverts the encoder (utility.h:24-115).                        *)
(******************************************************************************)
LEMMA DecodeInvertsEncode ==
  ASSUME NEW src \in Seq(Below(256))
  PROVE  Base64Decode(Base64Encode(src)) = src
<1> DEFINE n == Len(src)
           whole == n \div 3
           text == Base64Encode(src)
           st == DecodeStates(text)
           head == SubSeq(src, 1, 3 * whole)
           g == whole + 1
<1>1. n \in Nat
  OBVIOUS
<1>2. text \in Seq(Below(256)) /\ Len(text) = 4 * Ceiling(n, 3)
  BY EncodedText
<1>3. Base64Decode(text) = st[Len(text)].dest \o DecodeTail(st[Len(text)])
  BY DEF Base64Decode
<1>4. st[4 * whole] = Decoding(0, 0, head)
  <2>1. whole \in 0..n \div 3
    BY <1>1
  <2> HIDE DEF whole, st
  <2>2. DecodeStates(Base64Encode(src))[4 * whole] = Decoding(0, 0, SubSeq(src, 1, 3 * whole))
    BY <2>1, WholeGroupsDecoded
  <2> QED
    BY <2>2 DEF st
<1> HIDE DEF n
<1>5. CASE n % 3 = 0
  <2>1. Len(text) = 4 * whole /\ 3 * whole = n
    BY <1>1, <1>2, <1>5 DEF Ceiling
  <2>2. head = src
    <3>1. SubSeq(src, 1, Len(src)) = src
      BY WholePrefix
    <3> QED
      BY <2>1, <3>1 DEF n
  <2> HIDE DEF text, st, whole, head
  <2>3. st[Len(text)] = Decoding(0, 0, src)
    BY <1>4, <2>1, <2>2
  <2>4. Decoding(0, 0, src).dest = src /\ DecodeTail(Decoding(0, 0, src)) = <<>>
    BY TailWritten DEF Decoding, DecoderState
  <2>5. src \o <<>> = src
    BY WholePrefix
  <2> QED
    BY <1>3, <2>3, <2>4, <2>5 DEF text
<1>6. CASE n % 3 # 0
  <2> DEFINE m == n % 3
             p == 3 * whole
             b1 == At(src, 3 * g - 2)
             b2 == At(src, 3 * g - 1)
             b3 == At(src, 3 * g)
             tail == IF m = 1 THEN <<b1>> ELSE <<b1, b2>>
  <2>1. /\ g \in 1..Ceiling(n, 3) /\ Ceiling(n, 3) = g /\ 4 * g - 4 = 4 * whole
        /\ ~(3 * g <= n) /\ n - (3 * g - 3) = m /\ m \in {1, 2} /\ n = p + m /\ p \in Nat
        /\ 3 * g - 2 = p + 1 /\ 3 * g - 1 = p + 2 /\ 3 * g - 2 <= n
        /\ m = 1 => ~(3 * g - 1 <= n)
        /\ m = 2 => 3 * g - 1 <= n
    BY <1>1, <1>6 DEF Ceiling
  <2>2. st[4 * g] = DecodeFour(st[4 * g - 4], CharOf(src, g, 1), CharOf(src, g, 2),
                               CharOf(src, g, 3), CharOf(src, g, 4))
    <3> HIDE DEF g
    <3> QED
      BY <2>1, GroupTaken DEF n
  <2>3. b1 \in Below(256) /\ b2 \in Below(256)
    <3> HIDE DEF g
    <3> QED
      BY <2>1, GroupFacts DEF n
  <2> HIDE DEF whole, g, p, m
  <2>4. b3 = 0 /\ (m = 1 => b2 = 0) /\ b1 = src[p + 1] /\ (m = 2 => b2 = src[p + 2])
    BY <2>1 DEF At, n
  <2>5. GroupLength(src, g) = m
    BY <2>1 DEF GroupLength, n
  <2>6. \A j \in 1..4 : CharOf(src, g, j) = GroupChar(b1, b2, 0, m, j)
    BY <2>4, <2>5 DEF CharOf
  <2> HIDE DEF b1, b2, b3
  <2>7. /\ CharOf(src, g, 1) = GroupChar(b1, b2, 0, m, 1) /\ CharOf(src, g, 2) = GroupChar(b1, b2, 0, m, 2)
        /\ CharOf(src, g, 3) = GroupChar(b1, b2, 0, m, 3) /\ CharOf(src, g, 4) = GroupChar(b1, b2, 0, m, 4)
    BY <2>6
  <2> HIDE DEF head, st, text
  <2>8. PICK v \in Nat, k \in Nat :
          /\ DecodeFour(Decoding(0, 0, head),
                        GroupChar(b1, b2, 0, m, 1), GroupChar(b1, b2, 0, m, 2),
                        GroupChar(b1, b2, 0, m, 3), GroupChar(b1, b2, 0, m, 4))
               = Ended(v, k, head)
          /\ m = 1 => DecodeTail(Ended(v, k, head)) = <<b1>>
          /\ m = 2 => DecodeTail(Ended(v, k, head)) = <<b1, b2>>
    BY <2>1, <2>3, <2>4, PartGroupDecoded
  <2>9. st[Len(text)] = Ended(v, k, head)
    BY <1>2, <1>4, <2>1, <2>2, <2>7, <2>8
  <2>10. DecodeTail(Ended(v, k, head)) = tail
    BY <2>1, <2>8
  <2>11. Ended(v, k, head).dest = head
    BY DEF Ended, DecoderState
  <2>12. Base64Decode(text) = head \o tail
    <3> HIDE DEF tail
    <3> QED
      BY <1>3, <2>9, <2>10, <2>11
  <2>13. head \o tail = src
    <3>1. tail \in Seq(Below(256)) /\ Len(tail) = m /\ m \in Nat
      BY <2>1, <2>3
    <3>2. \A i \in 1..m : tail[i] = src[p + i]
      BY <2>1, <2>4
    <3> HIDE DEF tail
    <3>3. SubSeq(src, 1, p) \o tail = SubSeq(src, 1, p + Len(tail))
      <4>1. p + Len(tail) <= Len(src) /\ \A i \in 1..Len(tail) : tail[i] = src[p + i]
        BY <1>1, <2>1, <3>1, <3>2 DEF n
      <4> QED
        BY <2>1, <3>1, <4>1, PrefixExtended
    <3>4. p + Len(tail) = Len(src)
      BY <2>1, <3>1 DEF n
    <3>5. SubSeq(src, 1, Len(src)) = src
      BY WholePrefix
    <3> QED
      BY <3>3, <3>4, <3>5 DEF head, p
  <2> QED
    BY <2>12, <2>13 DEF text
<1> QED
  BY <1>5, <1>6

(******************************************************************************)
(* The scan for padding ends at the last character that is none, one for each *)
(* byte that the last group lacks, and the length computed from it is the     *)
(* length of what was encoded (utility.h:67-78).                              *)
(******************************************************************************)
LEMMA DecodedLength ==
  ASSUME NEW src \in Seq(Below(256)), src # <<>>
  PROVE  /\ PaddingScanEnd(Base64Encode(src)) > 0
         /\ CalculateBase64DecodedLength(Base64Encode(src)) = Len(src)
<1> DEFINE n == Len(src)
           g == Ceiling(n, 3)
           text == Base64Encode(src)
           m == GroupLength(src, g)
           base == 4 * g - 4
           end == base + m + 1
<1>1. n \in Nat /\ n > 0
  <2>1. n \in Nat /\ n # 0
    BY EmptySeq
  <2> HIDE DEF n
  <2> QED
    BY <2>1
<1>2. text \in Seq(Below(256)) /\ Len(text) = 4 * g /\ \A j \in 1..4 : g \in 1..g => text[base + j] = CharOf(src, g, j)
  BY EncodedText
<1>3. /\ g \in Nat /\ g >= 1 /\ g \in 1..g /\ n = 3 * g - 3 + m /\ m \in 1..3
      /\ base \in Nat /\ base + 4 = 4 * g
  <2>1. g \in Nat /\ g >= 1 /\ 3 * g - 2 <= n /\ n <= 3 * g
    BY <1>1 DEF Ceiling
  <2> HIDE DEF n, g
  <2>2. m = IF 3 * g <= n THEN 3 ELSE n - (3 * g - 3)
    BY DEF GroupLength, n
  <2> HIDE DEF m
  <2> QED
    BY <1>1, <2>1, <2>2
<1> DEFINE b1 == At(src, 3 * g - 2)
           b2 == At(src, 3 * g - 1)
           b3 == At(src, 3 * g)
<1>4. b1 \in Below(256) /\ b2 \in Below(256) /\ b3 \in Below(256)
  <2> HIDE DEF g
  <2>1. g \in 1..Ceiling(Len(src), 3)
    BY <1>3 DEF g
  <2> QED
    BY <2>1, GroupFacts
<1>5. \A j \in 1..4 : CharOf(src, g, j) = GroupChar(b1, b2, b3, m, j)
  BY DEF CharOf
<1> HIDE DEF n, g, text, m, base, b1, b2, b3
<1>6. ASSUME NEW j \in 1..4
      PROVE  /\ j <= m + 1 => text[base + j] # PadChar
             /\ ~(j <= m + 1) => text[base + j] = PadChar
  <2> DEFINE s1 == b1 \div 4
             s2 == (b1 % 4) * 16 + b2 \div 16
             s3 == (b2 % 16) * 4 + b3 \div 64
             s4 == b3 % 64
  <2>1. s1 \in Below(64) /\ s2 \in Below(64) /\ s3 \in Below(64) /\ s4 \in Below(64)
    BY <1>4, SextetsAreBelow64
  <2>2. text[base + j] = IF j <= m + 1 THEN Basis64[<<s1, s2, s3, s4>>[j]] ELSE PadChar
    BY <1>2, <1>3, <1>5 DEF GroupChar
  <2> HIDE DEF s1, s2, s3, s4
  <2>3. <<s1, s2, s3, s4>>[j] \in Below(64)
    BY <2>1
  <2>4. Basis64[<<s1, s2, s3, s4>>[j]] # PadChar
    BY <2>3, LutInvertsBasis64
  <2> QED
    BY <2>2, <2>4
<1>7. end \in 1..4 * g /\ end > 0 /\ text[end] # PadChar
  <2> DEFINE j == m + 1
  <2>1. j \in 1..4 /\ end = base + j /\ j <= m + 1
    BY <1>3
  <2> HIDE DEF j, end
  <2>2. text[end] # PadChar
    BY <1>6, <2>1
  <2>3. end \in 1..4 * g /\ end > 0
    BY <1>3, <2>1
  <2> QED
    BY <2>2, <2>3
<1>8. ASSUME NEW q \in end + 1..4 * g PROVE text[q] = PadChar
  <2> DEFINE j == q - base
  <2>1. j \in 1..4 /\ q = base + j /\ ~(j <= m + 1)
    BY <1>3
  <2> HIDE DEF j
  <2> QED
    BY <1>6, <2>1
<1> HIDE DEF end
<1> DEFINE Final(p) == text[p] # PadChar /\ \A q \in p + 1..4 * g : text[q] = PadChar
<1>9. PaddingScanEnd(text) = CHOOSE p \in 1..4 * g : Final(p)
  <2>1. \E p \in 1..4 * g : text[p] # PadChar
    BY <1>7
  <2> QED
    BY <1>2, <2>1 DEF PaddingScanEnd
<1>10. Final(end)
  BY <1>7, <1>8
<1>11. ASSUME NEW p \in 1..4 * g, Final(p) PROVE p = end
  <2>1. ~(p < end)
    <3>1. p < end => end \in p + 1..4 * g
      BY <1>3, <1>7
    <3> QED
      BY <1>7, <1>11, <3>1
  <2>2. ~(end < p)
    <3>1. end < p => p \in end + 1..4 * g
      BY <1>3, <1>7
    <3> QED
      BY <1>8, <1>11, <3>1
  <2> QED
    BY <1>3, <1>7, <2>1, <2>2
<1> HIDE DEF Final
<1>12. PaddingScanEnd(text) = end
  BY <1>7, <1>9, <1>10, <1>11
<1>13. (4 * g * 3) \div 4 - (4 * g - end) = n
  <2>1. end = base + m + 1
    BY DEF end
  <2> QED
    BY <1>3, <2>1
<1>14. CalculateBase64DecodedLength(text) = n
  BY <1>2, <1>12, <1>13 DEF CalculateBase64DecodedLength
<1> QED
  BY <1>7, <1>12, <1>14 DEF text, n

(******************************************************************************)
(* Whatever the data, the text fits the string resized for it, decodes to the *)
(* data, and has the decoded length that is computed for it                   *)
(* (utility.h:24-115, bootloader.cpp:29-30, 56-57, device.cpp:260-263,        *)
(* 271-274).                                                                  *)
(******************************************************************************)
THEOREM Base64Correct == CodecSpec => []Base64RoundTrip
<1>1. DataOK => Base64RoundTrip
  <2> SUFFICES ASSUME DataOK PROVE Base64RoundTrip
    OBVIOUS
  <2>1. data \in Seq(Below(256))
    BY DataIsBytes
  <2>2. Len(Base64Encode(data)) = CalculateBase64EncodedLength(Len(data))
    <3>1. Len(Base64Encode(data)) = 4 * Ceiling(Len(data), 3) /\ Len(data) \in Nat
      BY <2>1, EncodedText
    <3> QED
      BY <3>1 DEF CalculateBase64EncodedLength, Ceiling
  <2>3. Base64Decode(Base64Encode(data)) = data
    BY <2>1, DecodeInvertsEncode
  <2>4. data # <<>> => /\ PaddingScanEnd(Base64Encode(data)) > 0
                       /\ CalculateBase64DecodedLength(Base64Encode(data)) = Len(data)
    BY <2>1, DecodedLength
  <2> QED
    BY <2>2, <2>3, <2>4 DEF Base64RoundTrip
<1> QED
  BY <1>1, DataOKInvariant, PTL
--------------------------------------------------------------------------------
(******************************************************************************)
(* The words that are read from bytes, and the bytes they are made of.        *)
(******************************************************************************)
LEMMA WordsFacts ==
  ASSUME NEW bytes \in Seq(Below(256)), NEW count \in Nat, 2 * count <= Len(bytes)
  PROVE  /\ Words(bytes, count) \in Seq(Below(65536)) /\ Len(Words(bytes, count)) = count
         /\ \A i \in 1..count :
              /\ Words(bytes, count)[i] = bytes[2 * i - 1] + 256 * bytes[2 * i]
              /\ Words(bytes, count)[i] % 256 = bytes[2 * i - 1]
              /\ Words(bytes, count)[i] \div 256 = bytes[2 * i]
<1> DEFINE words == Words(bytes, count)
<1>1. ASSUME NEW i \in 1..count
      PROVE  /\ words[i] = bytes[2 * i - 1] + 256 * bytes[2 * i]
             /\ words[i] \in Below(65536)
             /\ words[i] % 256 = bytes[2 * i - 1] /\ words[i] \div 256 = bytes[2 * i]
  <2> DEFINE low == bytes[2 * i - 1]
             high == bytes[2 * i]
  <2>1. 2 * i - 1 \in 1..Len(bytes) /\ 2 * i \in 1..Len(bytes) /\ (2 * i - 1) + 1 = 2 * i
    OBVIOUS
  <2>2. low \in Below(256) /\ high \in Below(256)
    BY <2>1, ElementOfSeq
  <2>3. words[i] = low + 256 * high
    BY <2>1 DEF Words, Word
  <2> HIDE DEF low, high, words
  <2>4. words[i] \in Below(65536) /\ words[i] % 256 = low /\ words[i] \div 256 = high
    BY <2>2, <2>3, BytesOfWord
  <2> QED
    BY <2>3, <2>4 DEF low, high
<1>2. words = [i \in 1..count |-> words[i]]
  BY DEF Words
<1> HIDE DEF words
<1>3. words \in [1..count -> Below(65536)]
  BY <1>1, <1>2
<1>4. words \in Seq(Below(65536)) /\ Len(words) = count
  BY <1>3
<1> QED
  BY <1>1, <1>4 DEF words

(******************************************************************************)
(* Words read from a sequence and split into their bytes again.               *)
(******************************************************************************)
LEMMA UnpairedWords ==
  ASSUME NEW bytes \in Seq(Below(256)), NEW count \in Nat, 2 * count <= Len(bytes)
  PROVE  Unpaired(Words(bytes, count)) = SubSeq(bytes, 1, 2 * count)
<1> DEFINE words == Words(bytes, count)
           unpaired == Unpaired(words)
           prefix == SubSeq(bytes, 1, 2 * count)
<1>1. /\ words \in Seq(Below(65536)) /\ Len(words) = count
      /\ \A i \in 1..count : words[i] % 256 = bytes[2 * i - 1] /\ words[i] \div 256 = bytes[2 * i]
  BY WordsFacts
<1> HIDE DEF words
<1>2. unpaired = [i \in 1..2 * count |->
                    IF i % 2 = 1 THEN words[Ceiling(i, 2)] % 256 ELSE words[Ceiling(i, 2)] \div 256]
  BY <1>1 DEF Unpaired
<1>3. ASSUME NEW i \in 1..2 * count
      PROVE  bytes[i] = IF i % 2 = 1 THEN words[Ceiling(i, 2)] % 256 ELSE words[Ceiling(i, 2)] \div 256
  <2> DEFINE k == Ceiling(i, 2)
  <2>1. k \in 1..count /\ (i % 2 = 1 => 2 * k - 1 = i) /\ (i % 2 # 1 => 2 * k = i)
    BY DEF Ceiling
  <2> HIDE DEF k
  <2>2. words[k] % 256 = bytes[2 * k - 1] /\ words[k] \div 256 = bytes[2 * k]
    BY <1>1, <2>1
  <2>3. bytes[i] = IF i % 2 = 1 THEN words[k] % 256 ELSE words[k] \div 256
    BY <2>1, <2>2
  <2> QED
    BY <2>3 DEF k
<1>4. prefix = [i \in 1..2 * count |-> bytes[i]]
  OBVIOUS
<1> HIDE DEF unpaired, prefix
<1>5. unpaired = prefix
  BY <1>2, <1>3, <1>4
<1> QED
  BY <1>5 DEF unpaired, prefix, words

(******************************************************************************)
(* What readScanBlock takes out of a packet: the words the samples start      *)
(* with, and the piece after them, as bytes or as words (device.cpp:286-308). *)
(******************************************************************************)
HasSize(width, count, total) ==
  count = Len(data) \div SampleSize(width) /\ total = count * SampleSize(width)

(******************************************************************************)
(* What the reader takes from a packet of either width: as many samples as    *)
(* the packet counts (device.cpp:640-684).                                    *)
(******************************************************************************)
LEMMA PacketRead ==
  ASSUME DataOK, NEW width \in {0, 1}, NEW count, NEW total, HasSize(width, count, total)
  PROVE  /\ count \in Nat /\ total \in Nat /\ total <= Len(data) /\ 2 * count <= total
         /\ ReadPacket(Packet(width)).ranges = Words(data, count)
         /\ width = 0 => ReadPacket(Packet(width)).intensities = SubSeq(data, 2 * count + 1, total)
         /\ width = 1 => ReadPacket(Packet(width)).intensities
                           = Words(SubSeq(data, 2 * count + 1, total), count)
         /\ ReadPacket(Packet(width)) = [ranges |-> ReadPacket(Packet(width)).ranges,
                                         intensities |-> ReadPacket(Packet(width)).intensities]
<1> DEFINE packet == Packet(width)
           payload == SubSeq(packet, HeaderLength + 1, Len(packet))
           rest == SubSeq(payload, 2 * count + 1, Len(payload))
           piece == SubSeq(data, 2 * count + 1, total)
<1>1. data \in Seq(Below(256)) /\ Len(data) \in Nat
  BY DataIsBytes
<1>2. /\ count \in Nat /\ count < 65536 /\ total \in Nat /\ total <= Len(data)
      /\ \E u \in Seq(Below(256)) : IsPacket(packet, u, width, count, total)
  BY PacketShape DEF HasSize
<1>3. /\ width = 0 => total = 3 * count
      /\ width = 1 => total = 4 * count
      /\ 2 * count <= total
  <2>1. CASE width = 0
    BY <1>2, <2>1 DEF HasSize, SampleSize
  <2>2. CASE width = 1
    BY <1>2, <2>2 DEF HasSize, SampleSize
  <2> QED
    BY <2>1, <2>2
<1> HIDE DEF packet
<1>4. PICK u \in Seq(Below(256)) : IsPacket(packet, u, width, count, total)
  BY <1>2
<1>5. /\ Len(u) = 16 + total /\ u[1] = 255 /\ u[2] = 255
      /\ u[7] = count % 256 /\ u[8] = count \div 256
      /\ u[13] = 0 /\ u[14] = 0 /\ u[15] = width
      /\ \A i \in 1..total : u[16 + i] = data[i]
      /\ packet = SetWord(u, 13, CalculateCRC16(u))
  BY <1>4 DEF IsPacket
<1>6. /\ packet \in Seq(Below(256)) /\ Len(packet) = 16 + total
      /\ \A i \in 1..16 + total : i \notin {13, 14} => packet[i] = u[i]
  <2>1. Len(u) >= 16 /\ u[1] = 255 /\ u[2] = 255 /\ u[13] = 0 /\ u[14] = 0
    BY <1>2, <1>5
  <2>2. packet = SetWord(u, 13, CalculateCRC16(u))
    BY <1>5
  <2>3. /\ packet \in Seq(Below(256)) /\ Len(packet) = Len(u)
        /\ \A i \in 1..Len(packet) : i \notin {13, 14} => packet[i] = u[i]
    BY <2>1, <2>2, SealedPacket
  <2> QED
    BY <1>5, <2>3
<1>7. packet[7] = count % 256 /\ packet[8] = count \div 256 /\ packet[15] = width
  <2>1. 7 \in 1..16 + total /\ 8 \in 1..16 + total /\ 15 \in 1..16 + total
    BY <1>2
  <2>2. packet[7] = u[7] /\ packet[8] = u[8] /\ packet[15] = u[15]
    BY <1>6, <2>1
  <2> QED
    BY <1>5, <2>2
<1>8. Word(packet, 7) = count
  <2>1. (count % 256) + 256 * (count \div 256) = count
    BY <1>2
  <2>2. Word(packet, 7) = packet[7] + 256 * packet[8]
    BY DEF Word
  <2> QED
    BY <1>7, <2>1, <2>2
<1>9. /\ payload \in Seq(Below(256)) /\ Len(payload) = total
      /\ \A i \in 1..total : payload[i] = data[i]
  <2>1. HeaderLength = 16 /\ 16 \in Nat /\ 16 + total <= Len(packet)
    BY <1>2, <1>6 DEF HeaderLength
  <2>2. payload = SubSeq(packet, 16 + 1, 16 + total)
    BY <1>6, <2>1
  <2> HIDE DEF payload
  <2>3. payload \in Seq(Below(256)) /\ Len(payload) = total /\ \A i \in 1..total : payload[i] = packet[16 + i]
    <3> DEFINE h == 16
    <3>1. h \in Nat /\ total \in Nat /\ h + total <= Len(packet) /\ payload = SubSeq(packet, h + 1, h + total)
      BY <1>2, <2>1, <2>2
    <3> HIDE DEF h
    <3>2. IsPiece(payload, Below(256), packet, h, total)
      BY <1>6, <3>1, Slice
    <3> QED
      BY <3>2 DEF IsPiece, h
  <2>4. \A i \in 1..total : 16 + i \in 1..16 + total /\ 16 + i \notin {13, 14}
    BY <1>2
  <2> QED
    BY <1>5, <1>6, <2>3, <2>4
<1> HIDE DEF payload
<1> DEFINE k == 2 * count
           m == total - k
<1>10. k \in Nat /\ m \in Nat /\ k + m = total /\ k + m <= Len(data) /\ k + m <= Len(payload)
       /\ k = 2 * count
  <2>1. Len(payload) = total
    BY <1>9
  <2> QED
    BY <1>1, <1>2, <1>3, <2>1
<1> HIDE DEF k, m
<1>11. /\ piece \in Seq(Below(256)) /\ Len(piece) = m
       /\ \A i \in 1..m : piece[i] = data[k + i]
  <2>1. piece = SubSeq(data, k + 1, k + m)
    BY <1>10
  <2> HIDE DEF piece
  <2>2. IsPiece(piece, Below(256), data, k, m)
    BY <1>1, <1>10, <2>1, Slice
  <2> QED
    BY <2>2 DEF IsPiece
<1>12. /\ rest \in Seq(Below(256)) /\ Len(rest) = m
       /\ \A i \in 1..m : rest[i] = payload[k + i]
  <2>1. rest = SubSeq(payload, k + 1, k + m)
    BY <1>9, <1>10
  <2> HIDE DEF rest
  <2>2. IsPiece(rest, Below(256), payload, k, m)
    BY <1>9, <1>10, <2>1, Slice
  <2> QED
    BY <2>2 DEF IsPiece
<1>13. rest = piece
  <2> HIDE DEF rest, piece
  <2>1. \A i \in 1..m : k + i \in 1..k + m
    BY <1>10
  <2>2. \A i \in 1..m : rest[i] = piece[i]
    BY <1>9, <1>10, <1>11, <1>12, <2>1
  <2> QED
    BY <1>11, <1>12, <2>2, SeqEqual
<1>14. Words(payload, count) = Words(data, count)
  <2>1. \A i \in 1..count : 2 * i - 1 \in 1..total /\ 2 * i \in 1..total /\ (2 * i - 1) + 1 = 2 * i
    BY <1>2, <1>3
  <2>2. \A i \in 1..count : Word(payload, 2 * i - 1) = Word(data, 2 * i - 1)
    BY <1>9, <2>1 DEF Word
  <2> QED
    BY <2>2 DEF Words
<1>15. ReadPacket(packet)
         = [ranges |-> Words(payload, count),
            intensities |-> IF packet[15] % 2 = 0 THEN SubSeq(rest, 1, count) ELSE Words(rest, count)]
  BY <1>8 DEF ReadPacket, payload
<1> HIDE DEF rest, piece
<1>16. /\ ReadPacket(packet).ranges = Words(data, count)
       /\ ReadPacket(packet).intensities
            = IF width % 2 = 0 THEN SubSeq(rest, 1, count) ELSE Words(rest, count)
       /\ ReadPacket(packet) = [ranges |-> ReadPacket(packet).ranges,
                                intensities |-> ReadPacket(packet).intensities]
  BY <1>7, <1>14, <1>15
<1>17. width = 0 => ReadPacket(packet).intensities = piece
  <2> SUFFICES ASSUME width = 0 PROVE ReadPacket(packet).intensities = piece
    OBVIOUS
  <2>1. m = count /\ 0 % 2 = 0
    BY <1>2, <1>3, <1>10
  <2>2. SubSeq(rest, 1, Len(rest)) = rest
    BY <1>12, WholePrefix
  <2> QED
    BY <1>12, <1>13, <1>16, <2>1, <2>2
<1>18. width = 1 => ReadPacket(packet).intensities = Words(piece, count)
  <2>1. 1 % 2 # 0
    OBVIOUS
  <2> QED
    BY <1>13, <1>16, <2>1
<1>19. count \in Nat /\ total \in Nat /\ total <= Len(data) /\ 2 * count <= total
  BY <1>2, <1>3
<1>20. /\ ReadPacket(packet).ranges = Words(data, count)
       /\ ReadPacket(packet) = [ranges |-> ReadPacket(packet).ranges,
                                intensities |-> ReadPacket(packet).intensities]
  BY <1>16
<1> QED
  BY <1>17, <1>18, <1>19, <1>20 DEF packet, piece

(******************************************************************************)
(* The readings of a packet, as they are used below.                          *)
(******************************************************************************)
LEMMA NarrowRead ==
  ASSUME DataOK, NEW count, count = Len(data) \div 3
  PROVE  /\ count \in Nat /\ 3 * count <= Len(data)
         /\ ReadPacket(Packet(0)) = [ranges |-> Words(data, count),
                                     intensities |-> SubSeq(data, 2 * count + 1, 3 * count)]
<1> DEFINE total == 3 * count
           read == ReadPacket(Packet(0))
<1>1. Len(data) \in Nat /\ count \in Nat
  BY DataIsBytes
<1>2. HasSize(0, count, total)
  BY <1>1 DEF HasSize, SampleSize
<1> HIDE DEF total
<1>3. /\ total <= Len(data) /\ read.ranges = Words(data, count)
      /\ read.intensities = SubSeq(data, 2 * count + 1, total)
      /\ read = [ranges |-> read.ranges, intensities |-> read.intensities]
  BY <1>2, PacketRead
<1> HIDE DEF read
<1>4. read = [ranges |-> Words(data, count), intensities |-> SubSeq(data, 2 * count + 1, total)]
  BY <1>3
<1> QED
  BY <1>1, <1>3, <1>4 DEF read, total

(******************************************************************************)
(* The same for a packet with two bytes for each intensity.                   *)
(******************************************************************************)
LEMMA WideRead ==
  ASSUME DataOK, NEW count, count = Len(data) \div 4
  PROVE  /\ count \in Nat /\ 4 * count <= Len(data)
         /\ ReadPacket(Packet(1)).ranges = Words(data, count)
         /\ ReadPacket(Packet(1)).intensities
              = Words(SubSeq(data, 2 * count + 1, 4 * count), count)
<1> DEFINE total == 4 * count
<1>1. Len(data) \in Nat /\ count \in Nat
  BY DataIsBytes
<1>2. HasSize(1, count, total)
  BY <1>1 DEF HasSize, SampleSize
<1> HIDE DEF total
<1>3. /\ total <= Len(data)
      /\ ReadPacket(Packet(1)).ranges = Words(data, count)
      /\ ReadPacket(Packet(1)).intensities = Words(SubSeq(data, 2 * count + 1, total), count)
  BY <1>2, PacketRead
<1> QED
  BY <1>1, <1>3 DEF total

(******************************************************************************)
(* What readScanBlock takes out of a notification: what was encoded           *)
(* (device.cpp:257-279).                                                      *)
(******************************************************************************)
LEMMA LayerRead ==
  ASSUME NEW a \in Seq(Below(256)), NEW b \in Seq(Below(256)), a # <<>>, b # <<>>
  PROVE  ReadLayer(Base64Encode(a), Base64Encode(b)) = [ranges |-> Words(a, Len(a) \div 2), intensities |-> b]
<1>1. Base64Decode(Base64Encode(a)) = a /\ Base64Decode(Base64Encode(b)) = b
  BY DecodeInvertsEncode
<1>2. /\ CalculateBase64DecodedLength(Base64Encode(a)) = Len(a)
      /\ CalculateBase64DecodedLength(Base64Encode(b)) = Len(b)
  BY DecodedLength
<1>3. SubSeq(b, 1, Len(b)) = b
  BY WholePrefix
<1> QED
  BY <1>1, <1>2, <1>3 DEF ReadLayer

(******************************************************************************)
(* A block has the same samples whichever way it comes, however long it is    *)
(* (device.cpp:257-279, 286-308).                                             *)
(******************************************************************************)
THEOREM SamplesCorrect == CodecSpec => []SamplesSurvive
<1>1. DataOK => SamplesSurvive
  <2> SUFFICES ASSUME DataOK PROVE SamplesSurvive
    OBVIOUS
  <2> DEFINE count == Len(data) \div 3
             half == Len(data) \div 4
             samples == ReadPacket(Packet(0))
             wide == ReadPacket(Packet(1))
             k == 2 * count
             ranges == SubSeq(data, 1, k)
             intensities == SubSeq(data, k + 1, k + count)
             split == 2 * Len(samples.ranges)
  <2>1. data \in Seq(Below(256)) /\ Len(data) \in Nat
    BY DataIsBytes
  <2>2. /\ count \in Nat /\ 3 * count <= Len(data)
        /\ samples = [ranges |-> Words(data, count), intensities |-> SubSeq(data, 2 * count + 1, 3 * count)]
    <3> HIDE DEF samples
    <3>1. count = Len(data) \div 3
      OBVIOUS
    <3> HIDE DEF count
    <3> QED
      BY <3>1, NarrowRead DEF samples
  <2>3. /\ half \in Nat /\ 4 * half <= Len(data) /\ wide.ranges = Words(data, half)
        /\ wide.intensities = Words(SubSeq(data, 2 * half + 1, 4 * half), half)
    <3> HIDE DEF wide
    <3>1. half = Len(data) \div 4
      OBVIOUS
    <3> HIDE DEF half
    <3> QED
      BY <3>1, WideRead DEF wide
  <2> HIDE DEF count, half, samples, wide
  <2>4. k \in Nat /\ k + count = 3 * count /\ k + count <= Len(data) /\ k <= Len(data) /\ k = 2 * count
    BY <2>1, <2>2
  <2> HIDE DEF k
  <2>5. IsPiece(intensities, Below(256), data, k, count)
    BY <2>1, <2>2, <2>4, Slice
  <2>6. samples = [ranges |-> Words(data, count), intensities |-> intensities]
    BY <2>2, <2>4
  <2>7. Len(Words(data, count)) = count /\ Unpaired(Words(data, count)) = ranges
    <3>1. 2 * count <= Len(data)
      BY <2>4
    <3>2. Len(Words(data, count)) = count
      BY <2>1, <2>2, <3>1, WordsFacts
    <3>3. Unpaired(Words(data, count)) = SubSeq(data, 1, 2 * count)
      BY <2>1, <2>2, <3>1, UnpairedWords
    <3> QED
      BY <2>4, <3>2, <3>3
  <2>8. split = k /\ samples.ranges = Words(data, count) /\ samples.intensities = intensities
    <3> HIDE DEF intensities
    <3>1. samples.ranges = Words(data, count) /\ samples.intensities = intensities
      BY <2>6
    <3> QED
      BY <2>4, <2>7, <3>1
  <2>9. ranges \o intensities = SubSeq(data, 1, 3 * count)
    <3> HIDE DEF intensities
    <3>1. /\ intensities \in Seq(Below(256)) /\ Len(intensities) = count
          /\ \A i \in 1..count : intensities[i] = data[k + i]
      BY <2>5 DEF IsPiece
    <3>2. k + Len(intensities) <= Len(data) /\ \A i \in 1..Len(intensities) : intensities[i] = data[k + i]
      BY <2>4, <3>1
    <3>3. data \in Seq(Below(256)) /\ k \in Nat /\ intensities \in Seq(Below(256))
      BY <2>1, <2>4, <3>1
    <3>4. SubSeq(data, 1, k) \o intensities = SubSeq(data, 1, k + Len(intensities))
      BY <3>2, <3>3, PrefixExtended
    <3> QED
      BY <2>4, <3>1, <3>4
  <2>10. IsPiece(ranges, Below(256), data, 0, k)
    <3> DEFINE zero == 0
    <3>1. zero \in Nat /\ zero + k <= Len(data) /\ zero + 1 = 1 /\ zero + k = k
      BY <2>4
    <3> HIDE DEF zero
    <3>2. ranges = SubSeq(data, zero + 1, zero + k)
      BY <3>1
    <3> HIDE DEF ranges
    <3>3. IsPiece(ranges, Below(256), data, zero, k)
      BY <2>1, <2>4, <3>1, <3>2, Slice
    <3> QED
      BY <3>3 DEF zero
  <2>11. ASSUME split > 0
         PROVE  ReadLayer(Base64Encode(SubSeq(data, 1, split)),
                          Base64Encode(SubSeq(data, split + 1, split + split \div 2))) = samples
    <3>1. split \div 2 = count /\ k > 0 /\ count > 0 /\ k \div 2 = count
      BY <2>2, <2>4, <2>8, <2>11
    <3>2. SubSeq(data, 1, split) = ranges /\ SubSeq(data, split + 1, split + split \div 2) = intensities
      BY <2>8, <3>1
    <3> HIDE DEF ranges, intensities, split
    <3>3. /\ ranges \in Seq(Below(256)) /\ Len(ranges) = k /\ \A i \in 1..k : ranges[i] = data[0 + i]
          /\ intensities \in Seq(Below(256)) /\ Len(intensities) = count
      BY <2>5, <2>10 DEF IsPiece
    <3>4. ranges # <<>> /\ intensities # <<>>
      BY <3>1, <3>3
    <3>5. ReadLayer(Base64Encode(ranges), Base64Encode(intensities))
            = [ranges |-> Words(ranges, Len(ranges) \div 2), intensities |-> intensities]
      BY <3>3, <3>4, LayerRead
    <3>6. Words(ranges, count) = Words(data, count)
      <4>1. \A i \in 1..count : 2 * i - 1 \in 1..k /\ 2 * i \in 1..k /\ (2 * i - 1) + 1 = 2 * i
                                /\ 0 + (2 * i - 1) = 2 * i - 1 /\ 0 + 2 * i = 2 * i
        BY <2>2, <2>4
      <4>2. \A i \in 1..count : Word(ranges, 2 * i - 1) = Word(data, 2 * i - 1)
        BY <3>3, <4>1 DEF Word
      <4> QED
        BY <4>2 DEF Words
    <3> QED
      BY <2>6, <3>1, <3>2, <3>3, <3>5, <3>6
  <2>12. Unpaired(samples.ranges) \o samples.intensities = SubSeq(data, 1, 3 * (Len(data) \div 3))
    <3> HIDE DEF ranges, intensities, split
    <3> QED
      BY <2>7, <2>8, <2>9 DEF count
  <2>13. Unpaired(wide.ranges \o wide.intensities) = SubSeq(data, 1, 4 * (Len(data) \div 4))
    <3> DEFINE j == 2 * half
               piece == SubSeq(data, j + 1, j + j)
               first == Words(data, half)
               second == Words(piece, half)
               all == Words(data, j)
    <3>1. j \in Nat /\ j + j = 4 * half /\ j + j <= Len(data) /\ 2 * half <= Len(data) /\ 2 * j <= Len(data)
          /\ 2 * j = 4 * half
      BY <2>1, <2>3
    <3>2. wide.ranges = first /\ wide.intensities = second
      BY <2>3, <3>1
    <3>3. j = 2 * half
      OBVIOUS
    <3> HIDE DEF j
    <3>4. IsPiece(piece, Below(256), data, j, j)
      BY <2>1, <3>1, Slice
    <3> HIDE DEF piece
    <3>5. piece \in Seq(Below(256)) /\ Len(piece) = j /\ \A i \in 1..j : piece[i] = data[j + i]
      BY <3>4 DEF IsPiece
    <3>6. /\ first \in Seq(Below(65536)) /\ Len(first) = half
          /\ \A i \in 1..half : first[i] = data[2 * i - 1] + 256 * data[2 * i]
      BY <2>1, <2>3, <3>1, WordsFacts
    <3>7. /\ second \in Seq(Below(65536)) /\ Len(second) = half
          /\ \A i \in 1..half : second[i] = piece[2 * i - 1] + 256 * piece[2 * i]
      <4>1. half \in Nat /\ piece \in Seq(Below(256)) /\ 2 * half <= Len(piece)
        BY <2>3, <3>3, <3>5
      <4> QED
        BY <4>1, WordsFacts
    <3>8. /\ all \in Seq(Below(65536)) /\ Len(all) = j
          /\ \A i \in 1..j : all[i] = data[2 * i - 1] + 256 * data[2 * i]
      BY <2>1, <3>1, WordsFacts
    <3> HIDE DEF first, second, all
    <3>9. first \o second = all
      <4> DEFINE S == Below(65536)
      <4>1. first \in Seq(S) /\ second \in Seq(S) /\ all \in Seq(S) /\ Len(first) = half /\ Len(second) = half
        BY <3>6, <3>7, <3>8
      <4> HIDE DEF S
      <4>2. /\ first \o second \in Seq(S) /\ Len(first \o second) = half + half
            /\ \A i \in 1..half + half : (first \o second)[i] = IF i <= half THEN first[i] ELSE second[i - half]
        <5>1. /\ first \o second \in Seq(S) /\ Len(first \o second) = Len(first) + Len(second)
              /\ \A i \in 1..Len(first) + Len(second) :
                   (first \o second)[i] = IF i <= Len(first) THEN first[i] ELSE second[i - Len(first)]
          BY <4>1, ConcatProperties
        <5> QED
          BY <4>1, <5>1
      <4>3. half + half = j
        BY <2>3, <3>3
      <4>4. ASSUME NEW i \in 1..j PROVE (first \o second)[i] = all[i]
        <5>1. CASE i <= half
          <6>1. i \in 1..half
            BY <2>3, <5>1
          <6> QED
            BY <3>6, <3>8, <4>2, <4>3, <5>1, <6>1
        <5>2. CASE ~(i <= half)
          <6> DEFINE q == i - half
          <6>1. /\ q \in 1..half /\ 2 * q - 1 \in 1..j /\ 2 * q \in 1..j
                /\ j + (2 * q - 1) = 2 * i - 1 /\ j + 2 * q = 2 * i
            BY <2>3, <3>3, <5>2
          <6>2. (first \o second)[i] = second[q]
            BY <4>2, <4>3, <5>2
          <6> HIDE DEF q
          <6>3. second[q] = piece[2 * q - 1] + 256 * piece[2 * q]
            BY <3>7, <6>1
          <6>4. piece[2 * q - 1] = data[2 * i - 1] /\ piece[2 * q] = data[2 * i]
            BY <3>5, <6>1
          <6> QED
            BY <3>8, <6>2, <6>3, <6>4
        <5> QED
          BY <5>1, <5>2
      <4> QED
        <5> DEFINE both == first \o second
        <5>1. both \in Seq(S) /\ all \in Seq(S) /\ Len(both) = j /\ Len(all) = j
          BY <3>8, <4>2, <4>3, <4>1
        <5>2. \A i \in 1..j : both[i] = all[i]
          BY <4>4
        <5> HIDE DEF both
        <5>3. both = all
          BY <5>1, <5>2, SeqEqual
        <5> QED
          BY <5>3 DEF both
    <3>10. Unpaired(all) = SubSeq(data, 1, 2 * j)
      BY <2>1, <3>1, UnpairedWords DEF all
    <3> QED
      BY <3>1, <3>2, <3>9, <3>10 DEF half
  <2> QED
    BY <2>11, <2>12, <2>13 DEF SamplesSurvive, samples, wide
<1> QED
  BY <1>1, DataOKInvariant, PTL
================================================================================
