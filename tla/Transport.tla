------------------------------- MODULE Transport -------------------------------
(******************************************************************************)
(* The life of one NetworkTransport (src/src/transport.cpp): connect(),       *)
(* transmitMessage(), enableOob() and disconnect() on the thread of the       *)
(* application, the completion handlers on worker_thread_, the peer, and the  *)
(* part of Asio and of the TCP stack they rely on.  Session makes a new       *)
(* transport for every connection, so the life ends with disconnect() or with *)
(* a connect() that fails.                                                    *)
(*                                                                            *)
(* A completion handler is one step of the worker.  connect()'s stack frame   *)
(* (mutex, cv, connect_result, result) is shared with the handler of          *)
(* async_connect, which holds the mutex from its first to its last line.      *)
(* Messages are numbered in the order of the calls of transmitMessage.        *)
(*                                                                            *)
(* Definitions named X_... are mutated forms of X, which follows them: each   *)
(* is a plausible mistake in the code that one of the properties rules out.   *)
(* The specification does not use them.                                       *)
(******************************************************************************)
EXTENDS Integers, Sequences

CONSTANTS
  MaxSend,     \* bound: calls of transmitMessage
  MaxReceive   \* bound: messages and packets the peer sends

ASSUME TransportAssumption == MaxSend \in Nat /\ MaxReceive \in Nat

VARIABLES
  caller,            \* where the application's thread is
  result,            \* connect(): the error_t to return
  connect_result,    \* connect(): what the handler reported
  worker,            \* worker_thread_, inside io_service_.run()
  op,                \* the asynchronous operations
  posted,            \* transmitMessage lambdas in io_service_, oldest first
  closing,           \* the lambda of disconnect()
  outgoing_message_queue_,
  outgoing_message_buffers_,  \* the messages encoded into the three buffers
  primary_open,      \* primary_socket_.is_open()
  oob_open,          \* oob_socket_.is_open()
  link,              \* the TCP connection
  inbound,           \* messages of the peer not read yet
  peer_sent,         \* messages and packets the peer sent
  callbacks,         \* received messages and packets handed to the session
  sent,              \* calls of transmitMessage
  wire               \* messages the peer received

connectVars == <<result, connect_result>>
sendVars == <<posted, outgoing_message_queue_, outgoing_message_buffers_, sent, wire>>
receiveVars == <<inbound, peer_sent, callbacks>>
socketVars == <<closing, primary_open, oob_open, link>>
vars == <<caller, worker, op, connectVars, sendVars, receiveVars, socketVars>>

(******************************************************************************)
(* evaluating  about to evaluate the predicate of cv.wait_for                 *)
(* waiting     asleep in it                                                   *)
(* expired     its deadline has passed; it evaluates the predicate once more  *)
(* aborting    connect() failed: its inner scope is left, the socket is open  *)
(* joining0    connect() failed: in worker_thread_.join()                     *)
(* joining     disconnect(): in worker_thread_.join()                         *)
(******************************************************************************)
InConnectScope == {"evaluating", "waiting", "expired"}
Callers == {"new", "aborting", "joining0", "failed", "connected", "joining", "closed"}
             \cup InConnectScope

Ops == {"connect", "read", "write", "oob"}
Completed == {"done", "refused", "error", "aborted"}  \* the handler is ready to run
OpStates == {"none", "pending"} \cup Completed

--------------------------------------------------------------------------------
Init ==
  /\ caller = "new"
  /\ result = "no_error" /\ connect_result = "would_block"
  /\ worker = "none"
  /\ op = [o \in Ops |-> "none"]
  /\ posted = <<>> /\ closing = "no"
  /\ outgoing_message_queue_ = <<>> /\ outgoing_message_buffers_ = <<>>
  /\ primary_open = FALSE /\ oob_open = FALSE
  /\ link = "none"
  /\ inbound = 0 /\ peer_sent = 0 /\ callbacks = 0
  /\ sent = 0 /\ wire = <<>>

(******************************************************************************)
(* io_service_: starting an operation on a socket that was closed completes   *)
(* with an error at once; closing a socket aborts the operations pending on   *)
(* it and leaves those whose handler is ready.                                *)
(******************************************************************************)
Armed(open) == IF open THEN "pending" ELSE "error"

Abort(operations) ==
  [o \in Ops |-> IF o \in operations /\ op[o] = "pending" THEN "aborted" ELSE op[o]]

(******************************************************************************)
(* async_read_until: a message already in incoming_message_buffer_ completes  *)
(* the read without the socket.                                               *)
(******************************************************************************)
ArmRead(ops) ==
  IF ~primary_open /\ inbound > 0
    THEN op' = [ops EXCEPT !["read"] = "done"] /\ inbound' = inbound - 1
    ELSE op' = [ops EXCEPT !["read"] = Armed(primary_open)] /\ UNCHANGED inbound

Running == worker = "running"

--------------------------------------------------------------------------------
(******************************************************************************)
(* connect(): the asynchronous connect is started before the thread that runs *)
(* its handler, so run() has work from the start.                             *)
(******************************************************************************)
Connect ==
  /\ caller = "new"
  /\ op' = [op EXCEPT !["connect"] = "pending"]
  /\ primary_open' = TRUE
  /\ worker' = "running"
  /\ caller' = "evaluating"
  /\ UNCHANGED <<connectVars, sendVars, receiveVars, closing, oob_open, link>>

(******************************************************************************)
(* The handler of async_connect.  Once connect() has given up it touches      *)
(* nothing but the mutex and result, which outlive the join.                  *)
(******************************************************************************)
StillConnecting_Unchecked == TRUE

StillConnecting == result = "no_error"

ConnectHandler ==
  LET idle == [op EXCEPT !["connect"] = "none"]
  IN  /\ Running
      /\ op["connect"] \in Completed
      /\ IF StillConnecting
           THEN /\ IF op["connect"] # "aborted"
                     THEN /\ connect_result' = op["connect"]
                          /\ caller' = IF caller = "waiting" THEN "evaluating" ELSE caller
                     ELSE UNCHANGED <<connect_result, caller>>
                /\ IF op["connect"] = "done"
                     THEN ArmRead(idle)
                     ELSE op' = idle /\ UNCHANGED inbound
           ELSE op' = idle /\ UNCHANGED <<connect_result, caller, inbound>>
      /\ UNCHANGED <<result, worker, sendVars, peer_sent, callbacks, socketVars>>

ExpireConnect ==
  /\ caller \in {"evaluating", "waiting"}
  /\ caller' = "expired"
  /\ UNCHANGED <<worker, op, connectVars, sendVars, receiveVars, socketVars>>

(******************************************************************************)
(* The predicate of wait_for and, when the wait is over, the choice of the    *)
(* result; the scope of cv and connect_result ends with it.                   *)
(******************************************************************************)
EvaluateConnect ==
  LET reported == connect_result # "would_block"
  IN  /\ caller \in {"evaluating", "expired"}
      /\ \/ /\ reported /\ connect_result = "done"
            /\ caller' = "connected"
            /\ UNCHANGED result
         \/ /\ reported /\ connect_result # "done"
            /\ result' = IF connect_result = "refused" THEN "connection_refused" ELSE "unknown"
            /\ caller' = "aborting"
         \/ /\ ~reported /\ caller = "expired"
            /\ result' = "timed_out"
            /\ caller' = "aborting"
         \/ /\ ~reported /\ caller = "evaluating"
            /\ caller' = "waiting"
            /\ UNCHANGED result
      /\ UNCHANGED <<connect_result, worker, op, sendVars, receiveVars, socketVars>>

AbortConnect_NoClose ==
  /\ caller = "aborting"
  /\ caller' = "joining0"
  /\ UNCHANGED <<worker, op, connectVars, sendVars, receiveVars, socketVars>>

AbortConnect ==
  /\ caller = "aborting"
  /\ primary_open' = FALSE
  /\ op' = Abort({"connect", "read", "write"})
  /\ link' = "closed"
  /\ caller' = "joining0"
  /\ UNCHANGED <<worker, connectVars, sendVars, receiveVars, closing, oob_open>>

(******************************************************************************)
(* worker_thread_.join(), in connect() and in disconnect().                   *)
(******************************************************************************)
WorkerEnded_Detached == TRUE

WorkerEnded == worker = "exited"

Join ==
  /\ WorkerEnded
  /\ \/ caller = "joining0" /\ caller' = "failed"
     \/ caller = "joining" /\ caller' = "closed"
  /\ UNCHANGED <<worker, op, connectVars, sendVars, receiveVars, socketVars>>

--------------------------------------------------------------------------------
TransmitMessage ==
  /\ caller = "connected"
  /\ sent < MaxSend
  /\ sent' = sent + 1
  /\ posted' = Append(posted, sent + 1)
  /\ UNCHANGED <<caller, worker, op, connectVars, receiveVars, socketVars, wire,
                 outgoing_message_queue_, outgoing_message_buffers_>>

(******************************************************************************)
(* encapsulateOutgoingMessage adds a message to what the buffers hold, and    *)
(* async_write transmits their contents.                                      *)
(******************************************************************************)
EncapsulateOutgoingMessage(buffers, message) == Append(buffers, message)

WriteFront(queue, buffers) ==
  /\ outgoing_message_buffers_' = EncapsulateOutgoingMessage(buffers, Head(queue))
  /\ op' = [op EXCEPT !["write"] = Armed(primary_open)]

TransmitInProgress_Ignored == FALSE

TransmitInProgress == outgoing_message_queue_ # <<>>

TransmitLambda ==
  LET queue == Append(outgoing_message_queue_, Head(posted))
  IN  /\ Running
      /\ posted # <<>>
      /\ posted' = Tail(posted)
      /\ outgoing_message_queue_' = queue
      /\ IF TransmitInProgress
           THEN UNCHANGED <<op, outgoing_message_buffers_>>
           ELSE WriteFront(queue, outgoing_message_buffers_)
      /\ UNCHANGED <<caller, worker, connectVars, receiveVars, socketVars, sent, wire>>

(******************************************************************************)
(* On an error the message stays at the front of the queue, and no later      *)
(* message starts a write.                                                    *)
(******************************************************************************)
Consumed_Kept(buffers) == buffers

Consumed(buffers) == <<>>

HasNext_Forgotten(queue) == FALSE

HasNext(queue) == queue # <<>>

OutgoingMessageHandler ==
  LET rest == Tail(outgoing_message_queue_)
  IN  /\ Running
      /\ op["write"] \in Completed
      /\ IF op["write"] = "done"
           THEN /\ outgoing_message_queue_' = rest
                /\ IF HasNext(rest)
                     THEN WriteFront(rest, Consumed(outgoing_message_buffers_))
                     ELSE /\ outgoing_message_buffers_' = Consumed(outgoing_message_buffers_)
                          /\ op' = [op EXCEPT !["write"] = "none"]
           ELSE /\ op' = [op EXCEPT !["write"] = "none"]
                /\ UNCHANGED <<outgoing_message_queue_, outgoing_message_buffers_>>
      /\ UNCHANGED <<caller, worker, connectVars, receiveVars, socketVars, posted, sent, wire>>

(******************************************************************************)
(* A received message is handed to the session if it parses; the next read is *)
(* started either way, and never after an error.                              *)
(******************************************************************************)
ReadOn(parsed) == ArmRead(op)

IncomingMessageHandler ==
  /\ Running
  /\ op["read"] \in Completed
  /\ IF op["read"] = "done"
       THEN \E parsed \in {0, 1} : callbacks' = callbacks + parsed /\ ReadOn(parsed)
       ELSE op' = [op EXCEPT !["read"] = "none"] /\ UNCHANGED <<callbacks, inbound>>
  /\ UNCHANGED <<caller, worker, connectVars, sendVars, socketVars, peer_sent>>

--------------------------------------------------------------------------------
(******************************************************************************)
(* enableOob() on the application's thread.  Device::open calls it once.      *)
(******************************************************************************)
EnableOob ==
  /\ caller = "connected"
  /\ ~oob_open /\ op["oob"] = "none"
  /\ \/ oob_open' = TRUE /\ op' = [op EXCEPT !["oob"] = "pending"]
     \/ UNCHANGED <<oob_open, op>>      \* bind failed: the socket is closed again
  /\ UNCHANGED <<caller, worker, connectVars, sendVars, receiveVars, closing, primary_open, link>>

(******************************************************************************)
(* A packet is handed to the session if its sender and checksum are right.    *)
(******************************************************************************)
OobPacketHandler ==
  /\ Running
  /\ op["oob"] \in Completed
  /\ IF op["oob"] = "done"
       THEN /\ \E verified \in {0, 1} : callbacks' = callbacks + verified
            /\ op' = [op EXCEPT !["oob"] = Armed(oob_open)]
       ELSE op' = [op EXCEPT !["oob"] = "none"] /\ UNCHANGED callbacks
  /\ UNCHANGED <<caller, worker, connectVars, sendVars, socketVars, inbound, peer_sent>>

--------------------------------------------------------------------------------
Disconnect ==
  /\ caller = "connected"
  /\ primary_open
  /\ closing' = "posted"
  /\ caller' = "joining"
  /\ UNCHANGED <<worker, op, connectVars, sendVars, receiveVars, primary_open, oob_open, link>>

(******************************************************************************)
(* The lambda of disconnect(), posted after every message.  shutdown() throws *)
(* on a connection the peer has reset, and the exception leaves run() and the *)
(* thread: the process terminates.                                            *)
(******************************************************************************)
ClosedByDisconnect == {"connect", "read", "write", "oob"}

DisconnectLambda ==
  /\ Running
  /\ closing = "posted" /\ posted = <<>>
  /\ closing' = "done"
  /\ IF link = "reset"
       THEN worker' = "terminated" /\ UNCHANGED <<op, primary_open, oob_open, link, inbound>>
       ELSE /\ primary_open' = FALSE
            /\ oob_open' = FALSE
            /\ op' = Abort(ClosedByDisconnect)
            /\ link' = "closed"
            /\ inbound' \in 0..inbound   \* those incoming_message_buffer_ holds stay
            /\ UNCHANGED worker
  /\ UNCHANGED <<caller, connectVars, sendVars, peer_sent, callbacks>>

(******************************************************************************)
(* run() returns when nothing is left to do; what is posted later never runs. *)
(******************************************************************************)
WorkerExit ==
  /\ Running
  /\ \A o \in Ops : op[o] = "none"
  /\ posted = <<>> /\ closing # "posted"
  /\ worker' = "exited"
  /\ UNCHANGED <<caller, op, connectVars, sendVars, receiveVars, socketVars>>

--------------------------------------------------------------------------------
(******************************************************************************)
(* The peer and the TCP/UDP stack.                                            *)
(******************************************************************************)
Complete(o, how) == op[o] = "pending" /\ op' = [op EXCEPT ![o] = how]

ConnectCompletes ==
  /\ \/ Complete("connect", "done") /\ link' = "up"
     \/ \E how \in {"refused", "error"} : Complete("connect", how) /\ UNCHANGED link
  /\ UNCHANGED <<caller, worker, connectVars, sendVars, receiveVars, closing, primary_open, oob_open>>

PeerSends ==
  /\ link = "up"
  /\ peer_sent < MaxReceive
  /\ peer_sent' = peer_sent + 1
  /\ inbound' = inbound + 1
  /\ UNCHANGED <<caller, worker, op, connectVars, sendVars, callbacks, socketVars>>

PeerCloses ==
  /\ link = "up"
  /\ link' = "fin"
  /\ UNCHANGED <<caller, worker, op, connectVars, sendVars, receiveVars, closing, primary_open, oob_open>>

PeerResets ==
  /\ link \in {"up", "fin"}
  /\ link' = "reset"
  /\ inbound' \in 0..inbound            \* those incoming_message_buffer_ holds stay
  /\ UNCHANGED <<caller, worker, op, connectVars, sendVars, peer_sent, callbacks,
                 closing, primary_open, oob_open>>

ReadCompletes ==
  /\ \/ inbound > 0 /\ Complete("read", "done") /\ inbound' = inbound - 1
     \/ inbound = 0 /\ link # "up" /\ Complete("read", "error") /\ UNCHANGED inbound
  /\ UNCHANGED <<caller, worker, connectVars, sendVars, peer_sent, callbacks, socketVars>>

(******************************************************************************)
(* What the buffers hold when the write ends is what the peer receives.  A    *)
(* peer that has closed its side accepts a message without reading it.        *)
(******************************************************************************)
WriteCompletes ==
  /\ \/ link = "up" /\ Complete("write", "done") /\ wire' = wire \o outgoing_message_buffers_
     \/ link = "fin" /\ Complete("write", "done") /\ UNCHANGED wire
     \/ link = "reset" /\ Complete("write", "error") /\ UNCHANGED wire
  /\ UNCHANGED <<caller, worker, connectVars, receiveVars, socketVars, posted, sent,
                 outgoing_message_queue_, outgoing_message_buffers_>>

OobCompletes ==
  /\ \/ peer_sent < MaxReceive /\ peer_sent' = peer_sent + 1 /\ Complete("oob", "done")
     \/ Complete("oob", "error") /\ UNCHANGED peer_sent
  /\ UNCHANGED <<caller, worker, connectVars, sendVars, inbound, callbacks, socketVars>>

--------------------------------------------------------------------------------
Application ==
  \/ Connect \/ ExpireConnect \/ EvaluateConnect \/ AbortConnect \/ Join
  \/ TransmitMessage \/ EnableOob \/ Disconnect

Worker ==
  \/ ConnectHandler \/ TransmitLambda \/ OutgoingMessageHandler \/ IncomingMessageHandler
  \/ OobPacketHandler \/ DisconnectLambda \/ WorkerExit

Network ==
  \/ ConnectCompletes \/ PeerSends \/ PeerCloses \/ PeerResets
  \/ ReadCompletes \/ WriteCompletes \/ OobCompletes

\* std::terminate in the worker ends the application's thread too.
Next == worker # "terminated" /\ (Application \/ Worker \/ Network)

(******************************************************************************)
(* The worker runs every handler that stays ready (Asio's queue is FIFO), the *)
(* application's thread keeps running inside a call, and deadlines come.      *)
(* Nothing is assumed of the peer or of when the application calls.           *)
(******************************************************************************)
Fairness ==
  /\ WF_vars(ExpireConnect) /\ WF_vars(EvaluateConnect)
  /\ WF_vars(AbortConnect) /\ WF_vars(Join)
  /\ WF_vars(ConnectHandler) /\ WF_vars(TransmitLambda)
  /\ WF_vars(OutgoingMessageHandler) /\ WF_vars(IncomingMessageHandler)
  /\ WF_vars(OobPacketHandler) /\ WF_vars(DisconnectLambda) /\ WF_vars(WorkerExit)

Spec == Init /\ [][Next]_vars /\ Fairness

\* A peer that keeps reading lets every write end.
ReadingPeerSpec == Spec /\ WF_vars(WriteCompletes)

--------------------------------------------------------------------------------
TypeOK ==
  /\ caller \in Callers
  /\ result \in {"no_error", "timed_out", "connection_refused", "unknown"}
  /\ connect_result \in {"would_block", "done", "refused", "error"}
  /\ worker \in {"none", "running", "exited", "terminated"}
  /\ op \in [Ops -> OpStates]
  /\ posted \in Seq(Nat)
  /\ closing \in {"no", "posted", "done"}
  /\ outgoing_message_queue_ \in Seq(Nat)
  /\ outgoing_message_buffers_ \in Seq(Nat)
  /\ primary_open \in BOOLEAN /\ oob_open \in BOOLEAN
  /\ link \in {"none", "up", "fin", "reset", "closed"}
  /\ inbound \in Nat /\ peer_sent \in Nat /\ callbacks \in Nat
  /\ sent \in Nat
  /\ wire \in Seq(Nat)

(******************************************************************************)
(* The handler of async_connect uses cv and connect_result only while the     *)
(* scope of connect() that holds them is alive, whatever the deadline, the    *)
(* network and the two threads do (transport.cpp:70-109).                     *)
(******************************************************************************)
NoDanglingFrame ==
  [][connect_result' # connect_result => caller \in InConnectScope]_vars

(******************************************************************************)
(* connect() returned no_error: as long as the connection is up and           *)
(* disconnect() was not called, the worker runs and a read is in progress or  *)
(* its handler is ready, so an answer of the peer is received                 *)
(* (transport.cpp:75-88, 185-199).                                            *)
(******************************************************************************)
ConnectedIsReceiving ==
  caller = "connected" =>
    /\ op["connect"] = "none"
    /\ link = "up" => worker = "running" /\ op["read"] # "none"

(******************************************************************************)
(* While a write is in progress the buffers it reads hold exactly the message *)
(* at the front of the queue: no other message is encoded into them, and no   *)
(* second write is started (transport.cpp:140-154, 203-221).                  *)
(******************************************************************************)
BuffersHoldFront ==
  op["write"] \in {"pending", "done"} =>
    /\ outgoing_message_queue_ # <<>>
    /\ outgoing_message_buffers_ = <<Head(outgoing_message_queue_)>>

\* connect_result, result and the operation of async_connect follow connect().
ConnectInv ==
  /\ caller = "new" <=> worker = "none"
  /\ caller = "new" =>
       link = "none" /\ connect_result = "would_block" /\ \A o \in Ops : op[o] = "none"
  /\ result = "no_error" <=> caller \notin {"aborting", "joining0", "failed"}
  /\ caller \in {"connected", "joining", "closed"} => connect_result = "done"
  /\ connect_result # "would_block" => op["connect"] = "none"
  /\ op["connect"] # "none" => op["read"] = "none"
  /\ op["connect"] = "pending" => link = "none" /\ primary_open

\* A read or the worker ends only when the connection does.
ReadInv ==
  /\ worker = "exited" => \A o \in Ops \ {"oob"} : op[o] = "none"
  /\ caller \in {"failed", "closed"} => worker = "exited"
  /\ link = "up" => primary_open /\ op["read"] \notin {"refused", "error", "aborted"}
  /\ connect_result = "done" /\ link = "up" => worker = "running" /\ op["read"] # "none"

\* The buffers hold the front of the queue while it is written, and stay as
\* they are when the write fails.
WriteInv ==
  /\ outgoing_message_queue_ = <<>> => outgoing_message_buffers_ = <<>>
  /\ op["write"] # "none" =>
       /\ outgoing_message_queue_ # <<>>
       /\ outgoing_message_buffers_ = <<Head(outgoing_message_queue_)>>

(******************************************************************************)
(* The state of the transport is well formed: a connection that is up is      *)
(* being read, and a write in progress has its message in the buffers, in     *)
(* every interleaving of connect, transmit and disconnect with the handlers   *)
(* (transport.cpp:66-243).                                                    *)
(******************************************************************************)
TransportInv ==
  /\ TypeOK
  /\ ConnectInv
  /\ ReadInv
  /\ WriteInv
  /\ ConnectedIsReceiving
  /\ BuffersHoldFront

(******************************************************************************)
(* Once disconnect() or a failed connect() has returned, the transport calls  *)
(* back no more: Session may clear its queues and go away                     *)
(* (transport.cpp:111-114, 128).                                              *)
(******************************************************************************)
NoCallbackAfterReturn ==
  [][(caller \in {"failed", "closed"}) => callbacks' = callbacks /\ worker' = worker]_vars

(******************************************************************************)
(* transmitMessage implements a FIFO channel: the peer receives the messages  *)
(* whole, once, in order and without a gap, and messages are lost only when   *)
(* the connection is broken or closed (transport.cpp:137-155, 201-224).       *)
(******************************************************************************)
Unwritten ==
  IF op["write"] = "done" THEN Tail(outgoing_message_queue_) ELSE outgoing_message_queue_

Channel ==
  INSTANCE FifoChannel WITH
    Messages <- 1..MaxSend,
    pending <- Unwritten \o posted,
    broken <- link \in {"fin", "reset", "closed"}

ImplementsFifoChannel == Channel!Spec

(******************************************************************************)
(* connect() returns, also when the network never answers and when the answer *)
(* races with the deadline (transport.cpp:94-116).                            *)
(******************************************************************************)
ConnectReturns ==
  caller = "evaluating" ~> caller \in {"connected", "failed"}

(******************************************************************************)
(* disconnect() returns: the lambda it posts, or the end of the worker, ends  *)
(* every operation that keeps run() going, the reception of out-of-band       *)
(* packets included.  Only a connection the peer has reset can keep it from   *)
(* returning, and then the process has terminated (transport.cpp:119-130).    *)
(******************************************************************************)
DisconnectReturns ==
  /\ caller = "joining" ~> caller = "closed" \/ worker = "terminated"
  /\ caller = "joining" ~> caller = "closed" \/ link = "reset"

(******************************************************************************)
(* Neither of the calls that join the worker blocks its caller for ever,      *)
(* whatever the network does (transport.cpp:66-130).                          *)
(******************************************************************************)
CallsReturn == ConnectReturns /\ DisconnectReturns

(******************************************************************************)
(* A message handed to transmitMessage reaches a peer that keeps reading,     *)
(* unless the connection breaks or is closed (transport.cpp:137-155,          *)
(* 201-221).                                                                  *)
(******************************************************************************)
MessageReachesPeer ==
  \A n \in 1..MaxSend : sent >= n ~> Len(wire) >= n \/ link # "up"
================================================================================
