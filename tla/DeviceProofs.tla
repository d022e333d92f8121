----------------------------- MODULE DeviceProofs ------------------------------
(******************************************************************************)
(* Proofs about the classes of the application: that DeviceOpen keeps its     *)
(* invariants for every number of devices and every order of the calls on     *)
(* their objects, and Commands for every set of arguments and every number of *)
(* calls.                                                                     *)
(******************************************************************************)
EXTENDS DeviceOpen, Commands, SequenceTheorems, TLAPS

--------------------------------------------------------------------------------
(******************************************************************************)
(* Device::open. The invariant of the runs, with the promise of a failed      *)
(* open().                                                                    *)
(******************************************************************************)
OpenInductive == OpenInv /\ FailedOpenIsClosed

(******************************************************************************)
(* Objects that were not constructed yet satisfy the invariant                *)
(* (device_base.cpp:9-17).                                                    *)
(******************************************************************************)
LEMMA OpenInitInv == OpenInit => OpenInductive
<1> SUFFICES ASSUME OpenInit PROVE OpenInductive
  OBVIOUS
<1>1. OpenTypeOK
  BY EmptySeq DEF OpenInit, OpenTypeOK, Objects
<1>2. NegotiationInv /\ SocketBelongsToOpenDevice /\ OpenHasOneOwner /\ FailedOpenIsClosed
  BY DEF OpenInit, NegotiationInv, SocketBelongsToOpenDevice, OpenHasOneOwner, FailedOpenIsClosed,
         IsOpened, Objects
<1> QED
  BY <1>1, <1>2 DEF OpenInductive, OpenInv

(******************************************************************************)
(* Session::close leaves the device without connection and socket and does    *)
(* not touch the other devices (session.cpp:47-58).                           *)
(******************************************************************************)
LEMMA CloseCloses ==
  ASSUME OpenTypeOK, NEW d \in Devices, Close(d)
  PROVE  /\ transport_' \in [Devices -> {"null", "connected"}]
         /\ link' \in [Devices -> BOOLEAN]
         /\ sockets' \in [Devices -> Seq(Ports)]
         /\ transport_'[d] = "null" /\ sockets'[d] = <<>>
         /\ \A e \in Devices \ {d} : transport_'[e] = transport_[e] /\ sockets'[e] = sockets[e]
<1>1. transport_' \in [Devices -> {"null", "connected"}] /\ link' \in [Devices -> BOOLEAN]
  BY DEF Close, OpenTypeOK
<1>2. sockets' \in [Devices -> Seq(Ports)]
  BY EmptySeq DEF Close, Unbound, OpenTypeOK
<1>3. /\ transport_'[d] = "null" /\ sockets'[d] = <<>>
      /\ \A e \in Devices \ {d} : transport_'[e] = transport_[e] /\ sockets'[e] = sockets[e]
  BY DEF Close, Unbound, OpenTypeOK
<1> QED
  BY <1>1, <1>2, <1>3

(******************************************************************************)
(* Every call on the objects, every step of Device::open and every change of  *)
(* the connection or of the settings preserves the invariant                  *)
(* (device.cpp:22-42, device_base.cpp:9-52).                                  *)
(******************************************************************************)
LEMMA OpenStepInv == OpenInductive /\ [OpenNext]_applicationVars => OpenInductive'
<1> SUFFICES ASSUME OpenInductive, [OpenNext]_applicationVars
             PROVE  OpenInductive'
  OBVIOUS
<1> USE DEF OpenInductive, OpenInv, objectVars, openVars, settings, Objects, IsOpened
<1>1. ASSUME NEW d \in Devices, NEW o \in Objects, Construct(d, o)
      PROVE  OpenInductive'
  <2>1. OpenTypeOK'
    BY <1>1 DEF Construct, OpenTypeOK
  <2>2. ~IsOpened(d)
    BY <1>1 DEF Construct, OpenHasOneOwner
  <2>3. NegotiationInv' /\ OpenHasOneOwner'
    BY <1>1, <2>2 DEF Construct, OpenTypeOK, NegotiationInv, OpenHasOneOwner
  <2>4. SocketBelongsToOpenDevice' /\ FailedOpenIsClosed'
    BY <1>1 DEF Construct, SocketBelongsToOpenDevice, FailedOpenIsClosed
  <2> QED
    BY <2>1, <2>3, <2>4
<1>2. ASSUME NEW d \in Devices, Move(d)
      PROVE  OpenInductive'
  <2>1. OpenTypeOK'
    BY <1>2 DEF Move, OpenTypeOK
  <2>2. NegotiationInv' /\ OpenHasOneOwner'
    BY <1>2 DEF Move, OpenTypeOK, NegotiationInv, OpenHasOneOwner
  <2>3. SocketBelongsToOpenDevice' /\ FailedOpenIsClosed'
    BY <1>2 DEF Move, SocketBelongsToOpenDevice, FailedOpenIsClosed
  <2> QED
    BY <2>1, <2>2, <2>3
<1>3. ASSUME NEW d \in Devices, NEW o \in Objects, Destroy(d, o)
      PROVE  OpenInductive'
  <2>1. /\ pc[d] = "idle" /\ session_[d][o] # "none"
        /\ session_' = [session_ EXCEPT ![d][o] = "none"]
        /\ UNCHANGED <<pc, result, target_port, enabled, port>>
    BY <1>3 DEF Destroy
  <2>2. CASE session_[d][o] = "held" /\ transport_[d] = "connected"
    <3>1. Close(d)
      BY <1>3, <2>2 DEF Destroy
    <3>2. OpenTypeOK'
      BY <2>1, <3>1, CloseCloses DEF OpenTypeOK
    <3>3. NegotiationInv' /\ OpenHasOneOwner'
      BY <2>1, <3>1, CloseCloses DEF OpenTypeOK, NegotiationInv, OpenHasOneOwner
    <3>4. SocketBelongsToOpenDevice'
      BY <2>1, <3>1, CloseCloses DEF SocketBelongsToOpenDevice
    <3>5. FailedOpenIsClosed'
      BY <2>1, <3>1, CloseCloses DEF FailedOpenIsClosed
    <3> QED
      BY <3>2, <3>3, <3>4, <3>5
  <2>3. CASE ~(session_[d][o] = "held" /\ transport_[d] = "connected")
    <3>1. UNCHANGED <<transport_, link, sockets>>
      BY <1>3, <2>3 DEF Destroy
    <3>2. OpenTypeOK'
      BY <2>1, <3>1 DEF OpenTypeOK
    <3>3. NegotiationInv' /\ OpenHasOneOwner'
      BY <2>1, <2>3, <3>1 DEF OpenTypeOK, NegotiationInv, OpenHasOneOwner
    <3>4. SocketBelongsToOpenDevice' /\ FailedOpenIsClosed'
      BY <2>1, <3>1 DEF SocketBelongsToOpenDevice, FailedOpenIsClosed
    <3> QED
      BY <3>2, <3>3, <3>4
  <2> QED
    BY <2>2, <2>3
<1>4. ASSUME NEW d \in Devices, NEW o \in Objects, CloseCalled(d, o)
      PROVE  OpenInductive'
  <2>1. Close(d) /\ pc[d] = "idle" /\ UNCHANGED <<session_, pc, result, target_port, enabled, port>>
    BY <1>4 DEF CloseCalled
  <2>2. OpenTypeOK'
    BY <2>1, CloseCloses DEF OpenTypeOK
  <2>3. NegotiationInv' /\ OpenHasOneOwner'
    BY <2>1, CloseCloses DEF OpenTypeOK, NegotiationInv, OpenHasOneOwner
  <2>4. SocketBelongsToOpenDevice' /\ FailedOpenIsClosed'
    BY <2>1, CloseCloses DEF SocketBelongsToOpenDevice, FailedOpenIsClosed
  <2> QED
    BY <2>2, <2>3, <2>4
<1>5. ASSUME NEW d \in Devices, NEW o \in Objects, Open(d, o)
      PROVE  OpenInductive'
  <2>1. /\ pc[d] = "idle" /\ session_[d][o] = "held" /\ transport_[d] = "null"
        /\ target_port' = [target_port EXCEPT ![d] = NoPort]
        /\ UNCHANGED <<session_, sockets, enabled, port>>
    BY <1>5 DEF Open, OpenTypeOK
  <2>2. sockets[d] = <<>>
    BY <2>1 DEF SocketBelongsToOpenDevice
  <2>3. CASE /\ transport_' = [transport_ EXCEPT ![d] = "connected"]
             /\ link' = [link EXCEPT ![d] = TRUE]
             /\ \/ pc' = [pc EXCEPT ![d] = "isOobEnabled"] /\ UNCHANGED result
                \/ OpenReturns(d, "no_error")
    <3>1. OpenTypeOK'
      <4>1. transport_' \in [Devices -> {"null", "connected"}] /\ link' \in [Devices -> BOOLEAN]
        BY <2>3 DEF OpenTypeOK
      <4>2. target_port' \in [Devices -> Ports \cup {NoPort}]
        BY <2>1 DEF OpenTypeOK
      <4> QED
        BY <2>1, <2>3, <4>1, <4>2 DEF OpenReturns, OpenTypeOK
    <3>2. NegotiationInv' /\ FailedOpenIsClosed'
      BY <2>1, <2>2, <2>3 DEF OpenReturns, OpenTypeOK, NegotiationInv, FailedOpenIsClosed
    <3>3. SocketBelongsToOpenDevice'
      BY <2>1, <2>2, <2>3 DEF OpenTypeOK, SocketBelongsToOpenDevice
    <3>4. OpenHasOneOwner'
      BY <2>1, <2>3 DEF OpenTypeOK, NegotiationInv, OpenHasOneOwner
    <3> QED
      BY <3>1, <3>2, <3>3, <3>4
  <2>4. ASSUME NEW error \in {"timed_out", "connection_refused", "unknown"},
               OpenReturns(d, error), UNCHANGED <<transport_, link>>
        PROVE  OpenInductive'
    <3>1. OpenTypeOK'
      BY <2>1, <2>4 DEF OpenReturns, OpenTypeOK
    <3>2. NegotiationInv' /\ FailedOpenIsClosed'
      BY <2>1, <2>2, <2>4 DEF OpenReturns, OpenTypeOK, NegotiationInv, FailedOpenIsClosed
    <3>3. SocketBelongsToOpenDevice' /\ OpenHasOneOwner'
      BY <2>1, <2>2, <2>4 DEF OpenTypeOK, SocketBelongsToOpenDevice, OpenHasOneOwner
    <3> QED
      BY <3>1, <3>2, <3>3
  <2> QED
    BY <1>5, <2>3, <2>4 DEF Open
<1>6. ASSUME NEW d \in Devices, IsOobEnabled(d)
      PROVE  OpenInductive'
  <2>1. OpenTypeOK'
    BY <1>6 DEF IsOobEnabled, OpenReturns, OpenTypeOK
  <2>2. NegotiationInv' /\ FailedOpenIsClosed'
    <3>1. /\ pc[d] = "isOobEnabled"
          /\ UNCHANGED <<session_, transport_, sockets, target_port>>
      BY <1>6 DEF IsOobEnabled
    <3>2. \/ pc' = [pc EXCEPT ![d] = "getOobTargetPort"] /\ result' = result
          \/ pc' = [pc EXCEPT ![d] = "idle"] /\ result' = [result EXCEPT ![d] = "no_error"]
      BY <1>6 DEF IsOobEnabled, OpenReturns
    <3>3. NegotiationInv'
      BY <3>1, <3>2 DEF OpenTypeOK, NegotiationInv
    <3>4. FailedOpenIsClosed'
      BY <3>1, <3>2 DEF OpenTypeOK, FailedOpenIsClosed
    <3> QED
      BY <3>3, <3>4
  <2>3. SocketBelongsToOpenDevice' /\ OpenHasOneOwner'
    BY <1>6 DEF IsOobEnabled, SocketBelongsToOpenDevice, OpenHasOneOwner
  <2> QED
    BY <2>1, <2>2, <2>3
<1>7. ASSUME NEW d \in Devices, GetOobTargetPort(d)
      PROVE  OpenInductive'
  <2>1. /\ pc[d] = "getOobTargetPort" /\ sockets[d] = <<>>
        /\ UNCHANGED <<session_, enabled, port>>
    BY <1>7 DEF GetOobTargetPort, NegotiationInv
  <2>2. CASE Close(d) /\ OpenReturns(d, "unknown") /\ UNCHANGED target_port
    <3>1. OpenTypeOK'
      BY <2>1, <2>2, CloseCloses DEF OpenReturns, OpenTypeOK
    <3>2. NegotiationInv' /\ FailedOpenIsClosed'
      BY <2>1, <2>2, CloseCloses DEF OpenReturns, OpenTypeOK, NegotiationInv, FailedOpenIsClosed
    <3>3. SocketBelongsToOpenDevice'
      BY <2>1, <2>2, CloseCloses DEF SocketBelongsToOpenDevice
    <3>4. OpenHasOneOwner'
      BY <2>1, <2>2, CloseCloses DEF OpenHasOneOwner
    <3> QED
      BY <3>1, <3>2, <3>3, <3>4
  <2>3. CASE /\ target_port' = [target_port EXCEPT ![d] = port[d]]
             /\ pc' = [pc EXCEPT ![d] = "enableOob"]
             /\ UNCHANGED <<transport_, link, sockets, result>>
    <3>1. OpenTypeOK'
      BY <2>1, <2>3 DEF OpenTypeOK
    <3>2. NegotiationInv' /\ FailedOpenIsClosed'
      BY <2>1, <2>3 DEF OpenTypeOK, NegotiationInv, FailedOpenIsClosed
    <3>3. SocketBelongsToOpenDevice' /\ OpenHasOneOwner'
      BY <2>1, <2>3 DEF OpenTypeOK, SocketBelongsToOpenDevice, OpenHasOneOwner
    <3> QED
      BY <3>1, <3>2, <3>3
  <2> QED
    BY <1>7, <2>2, <2>3 DEF GetOobTargetPort
<1>8. ASSUME NEW d \in Devices, EnableOobTransport(d)
      PROVE  OpenInductive'
  <2>1. /\ pc[d] = "enableOob" /\ sockets[d] = <<>> /\ transport_[d] = "connected"
        /\ target_port[d] \in Ports
        /\ UNCHANGED <<session_, target_port, enabled, port>>
    BY <1>8 DEF EnableOobTransport, NegotiationInv
  <2>2. ASSUME NEW error \in {"address_in_use", "unknown"}, Close(d), OpenReturns(d, error)
        PROVE  OpenInductive'
    <3>1. OpenTypeOK'
      BY <2>1, <2>2, CloseCloses DEF OpenReturns, OpenTypeOK
    <3>2. NegotiationInv' /\ FailedOpenIsClosed'
      BY <2>1, <2>2, CloseCloses DEF OpenReturns, OpenTypeOK, NegotiationInv, FailedOpenIsClosed
    <3>3. SocketBelongsToOpenDevice'
      BY <2>1, <2>2, CloseCloses DEF SocketBelongsToOpenDevice
    <3>4. OpenHasOneOwner'
      <4>1. \A e \in Devices : IsOpened(e)' => IsOpened(e)
        BY <2>2, CloseCloses
      <4> QED
        BY <2>1, <4>1 DEF OpenHasOneOwner
    <3> QED
      BY <3>1, <3>2, <3>3, <3>4
  <2>3. CASE /\ sockets' = [sockets EXCEPT ![d] = Append(sockets[d], target_port[d])]
             /\ OpenReturns(d, "no_error")
             /\ UNCHANGED <<transport_, link>>
    <3>1. /\ Append(sockets[d], target_port[d]) = <<target_port[d]>>
          /\ <<target_port[d]>> \in Seq(Ports)
      BY <2>1
    <3>2. sockets' = [sockets EXCEPT ![d] = <<target_port[d]>>]
      BY <2>3, <3>1
    <3>3. OpenTypeOK'
      <4>1. sockets' \in [Devices -> Seq(Ports)]
        BY <3>1, <3>2 DEF OpenTypeOK
      <4> QED
        BY <2>1, <2>3, <4>1 DEF OpenReturns, OpenTypeOK
    <3>4. NegotiationInv' /\ FailedOpenIsClosed'
      BY <2>1, <2>3, <3>2 DEF OpenReturns, OpenTypeOK, NegotiationInv, FailedOpenIsClosed
    <3>5. SocketBelongsToOpenDevice' /\ OpenHasOneOwner'
      BY <2>1, <2>3, <3>2 DEF OpenTypeOK, SocketBelongsToOpenDevice, OpenHasOneOwner
    <3> QED
      BY <3>3, <3>4, <3>5
  <2> QED
    BY <1>8, <2>2, <2>3 DEF EnableOobTransport, AfterBindError
<1>9. ASSUME NEW d \in Devices, LoseLink(d)
      PROVE  OpenInductive'
  BY <1>9 DEF LoseLink, OpenTypeOK, NegotiationInv, SocketBelongsToOpenDevice, OpenHasOneOwner,
       FailedOpenIsClosed
<1>10. ASSUME NEW d \in Devices, ChangeSettings(d)
       PROVE  OpenInductive'
  BY <1>10 DEF ChangeSettings, OpenTypeOK, NegotiationInv, SocketBelongsToOpenDevice,
       OpenHasOneOwner, FailedOpenIsClosed
<1>11. CASE UNCHANGED applicationVars
  BY <1>11 DEF applicationVars, OpenTypeOK, NegotiationInv, SocketBelongsToOpenDevice, OpenHasOneOwner,
       FailedOpenIsClosed
<1> QED
  BY <1>1, <1>2, <1>3, <1>4, <1>5, <1>6, <1>7, <1>8, <1>9, <1>10, <1>11 DEF OpenNext

(******************************************************************************)
(* Through every sequence of constructions, moves, opens, closes and          *)
(* destructions, an open connection has one owner and an out-of-band socket   *)
(* belongs to an open connection and to the port its device answered          *)
(* (device_base.cpp:19-29, device.cpp:22-42, session.cpp:47-58).              *)
(******************************************************************************)
THEOREM OpenInvariant == OpenSpec => []OpenInv
BY OpenInitInv, OpenStepInv, PTL DEF OpenSpec, OpenInductive

(******************************************************************************)
(* Whichever step of Device::open fails, neither the connection nor a socket  *)
(* is left behind (device.cpp:35-39).                                         *)
(******************************************************************************)
THEOREM FailedOpenLeavesNothing == OpenSpec => []FailedOpenIsClosed
BY OpenInitInv, OpenStepInv, PTL DEF OpenSpec, OpenInductive

--------------------------------------------------------------------------------
(******************************************************************************)
(* The commands. The inductive invariant.  First what TypeOK leaves open:     *)
(* answers, the last outcome, and that a request which sets or writes carries *)
(* a value.                                                                   *)
(******************************************************************************)
Requests == Range(inbox) \cup Range(writing) \cup Range(documents)

MessagesOK ==
  /\ outbox \in Seq(Range(outbox)) /\ \A answer \in Range(outbox) : answer.id \in Nat
  /\ returned.call \in Request \cup {NoCall} /\ returned.intact \in BOOLEAN
  /\ \A request \in Requests : IsSet(request.kind) => request.value \in Values \cup {Garbage}
  /\ IsSet(call.kind) => call.value \in Values

(******************************************************************************)
(* Requests and answers are in the order of their ids, through all the        *)
(* queues.                                                                    *)
(******************************************************************************)
Ordered(messages) ==
  \A i, j \in 1..Len(messages) : i < j => messages[i].id < messages[j].id

Precede(earlier, later) == \A a \in earlier, b \in later : a.id < b.id

OrderInv ==
  /\ Ordered(outbox) /\ Ordered(inbox) /\ Ordered(documents) /\ Ordered(image)
  /\ Len(writing) <= 1
  /\ Precede(Range(outbox), Requests)
  /\ Precede(Range(inbox), Range(writing) \cup Range(documents))
  /\ Precede(Range(writing), Range(documents))
  /\ Precede(Range(image), Requests)
  /\ \A m \in Range(outbox) \cup Requests \cup Range(image) : m.id <= id_

(******************************************************************************)
(* While a call waits, its request carries the caller's argument wherever it  *)
(* is, in bytes only if nothing overwrote the argument before; and its        *)
(* answer, once there, is about what the request carried and about the state  *)
(* of the device.                                                             *)
(******************************************************************************)
Stored(request, exact) ==
  \E block \in Range(image) : block.id = request.id /\ (exact => block = request)

Answered(answer) ==
  /\ IsSet(call.kind) => setting = call.value
  /\ call.kind = "get" => answer.value \in during
  /\ call.kind = "verify" /\ intact => answer.value = HashMatches(call.value)
  /\ call.kind = "write" => Stored(call, intact)

CurrentInv ==
  call # NoCall =>
    /\ call.id = id_
    /\ ~IsFirmware(call.kind) => intact
    /\ \A request \in Range(documents) : request.id = id_ => request = call
    /\ \A request \in Requests :
         request.id = id_ => request.kind = call.kind /\ (intact => request = call)
    /\ \A answer \in Range(outbox) : answer.id = id_ /\ answer.error = "no_error" => Answered(answer)

(******************************************************************************)
(* When a call has returned no_error nothing is left on its way to the        *)
(* device.                                                                    *)
(******************************************************************************)
ReturnedInv ==
  /\ call = NoCall /\ returned.error = "no_error" => Requests = {}
  /\ VerdictIsAboutImage
  /\ GetReturnsCurrentValue
  /\ returned.call.kind = "write" /\ returned.error = "no_error"
       => Stored(returned.call, returned.intact)

(******************************************************************************)
(* After an acknowledged set call no other one is on its way.                 *)
(******************************************************************************)
AcknowledgedInv ==
  acknowledged # NoValue =>
    /\ setting = acknowledged
    /\ \A request \in Requests : ~IsSet(request.kind)
    /\ call # NoCall => ~IsSet(call.kind)

Inductive ==
  /\ TypeOK
  /\ MessagesOK
  /\ OrderInv
  /\ CurrentInv
  /\ ReturnedInv
  /\ AcknowledgedInv

--------------------------------------------------------------------------------
(******************************************************************************)
(* What a queue holds after push_back (session.cpp:84-92,                     *)
(* transport.cpp:137-144).                                                    *)
(******************************************************************************)
LEMMA RangeAppend ==
  ASSUME NEW S, NEW s \in Seq(S), NEW x
  PROVE  /\ Append(s, x) \in Seq(S \cup {x})
         /\ Range(Append(s, x)) = Range(s) \cup {x}
<1> DEFINE T == S \cup {x}
<1>1. s \in Seq(T) /\ x \in T
  BY SeqMonotonic
<1> HIDE DEF T
<1>2. /\ Append(s, x) \in Seq(T) /\ Len(Append(s, x)) = Len(s) + 1 /\ Len(s) \in Nat
      /\ \A i \in 1..Len(s) : Append(s, x)[i] = s[i]
      /\ Append(s, x)[Len(s) + 1] = x
  BY <1>1, AppendProperties
<1>3. Range(s) = {s[i] : i \in 1..Len(s)}
  BY <1>1, RangeEquality
<1>4. Range(Append(s, x)) = {Append(s, x)[i] : i \in 1..Len(s) + 1}
  BY <1>2, RangeEquality
<1>5. 1..Len(s) + 1 = 1..Len(s) \cup {Len(s) + 1}
  BY <1>2
<1> QED
  BY <1>2, <1>3, <1>4, <1>5 DEF T

(******************************************************************************)
(* What it holds before and after pop_front.                                  *)
(******************************************************************************)
LEMMA RangeTail ==
  ASSUME NEW S, NEW s \in Seq(S), s # <<>>
  PROVE  /\ Head(s) \in S /\ Head(s) = s[1] /\ Tail(s) \in Seq(S)
         /\ Range(s) = {Head(s)} \cup Range(Tail(s))
<1>1. /\ Tail(s) \in Seq(S) /\ Len(Tail(s)) = Len(s) - 1 /\ Head(s) \in S /\ Head(s) = s[1]
      /\ \A i \in 1..Len(Tail(s)) : Tail(s)[i] = s[i + 1]
  BY HeadTailProperties
<1>2. Len(s) \in Nat \ {0}
  BY EmptySeq
<1>3. Range(s) = {s[i] : i \in 1..Len(s)}
  BY RangeEquality
<1>4. Range(Tail(s)) = {Tail(s)[i] : i \in 1..Len(s) - 1}
  BY <1>1, RangeEquality
<1>5. \A x : x \in Range(s) => x = s[1] \/ x \in Range(Tail(s))
  <2> SUFFICES ASSUME NEW i \in 1..Len(s), i # 1
               PROVE  s[i] \in Range(Tail(s))
    BY <1>3
  <2>1. i - 1 \in 1..Len(s) - 1 /\ (i - 1) + 1 = i
    BY <1>2
  <2>2. Tail(s)[i - 1] = s[i]
    BY <1>1, <2>1
  <2> QED
    BY <1>4, <2>1, <2>2
<1>6. \A x : x = s[1] \/ x \in Range(Tail(s)) => x \in Range(s)
  BY <1>1, <1>2, <1>3, <1>4
<1> QED
  BY <1>1, <1>5, <1>6

(******************************************************************************)
(* An empty queue holds nothing.                                              *)
(******************************************************************************)
LEMMA RangeEmpty ==
  /\ Range(<<>>) = {}
  /\ \A S : \A s \in Seq(S) : Range(s) = {} => s = <<>>
<1>1. Range(<<>>) = {}
  BY DEF Range
<1>2. ASSUME NEW S, NEW s \in Seq(S), Range(s) = {}
      PROVE  s = <<>>
  BY <1>2, RangeTail
<1> QED
  BY <1>1, <1>2

(******************************************************************************)
(* Order is kept by appending a later message.                                *)
(******************************************************************************)
LEMMA OrderedAppend ==
  ASSUME NEW S, NEW s \in Seq(S), Ordered(s), NEW x, \A m \in Range(s) : m.id < x.id
  PROVE  Ordered(Append(s, x))
<1> DEFINE longer == Append(s, x)
           T == S \cup {x}
<1>0. s \in Seq(T) /\ x \in T
  BY SeqMonotonic
<1> HIDE DEF T
<1>1. /\ Len(longer) = Len(s) + 1 /\ Len(s) \in Nat
      /\ \A i \in 1..Len(s) : longer[i] = s[i]
      /\ longer[Len(s) + 1] = x
  BY <1>0, AppendProperties
<1>2. \A i \in 1..Len(s) : s[i].id < x.id
  BY RangeEquality
<1> HIDE DEF longer
<1> SUFFICES ASSUME NEW i \in 1..Len(longer), NEW j \in 1..Len(longer), i < j
             PROVE  longer[i].id < longer[j].id
  BY DEF Ordered, longer
<1>3. i \in 1..Len(s) /\ longer[i] = s[i]
  BY <1>1
<1>4. CASE j = Len(s) + 1
  BY <1>1, <1>2, <1>3, <1>4
<1>5. CASE j # Len(s) + 1
  <2>1. j \in 1..Len(s) /\ longer[j] = s[j]
    BY <1>1, <1>5
  <2> QED
    BY <1>3, <2>1 DEF Ordered
<1> QED
  BY <1>4, <1>5

(******************************************************************************)
(* The first message of a queue is older than the rest, which stays ordered.  *)
(******************************************************************************)
LEMMA OrderedTail ==
  ASSUME NEW S, NEW s \in Seq(S), s # <<>>, Ordered(s)
  PROVE  Ordered(Tail(s)) /\ \A m \in Range(Tail(s)) : Head(s).id < m.id
<1> DEFINE rest == Tail(s)
<1>1. /\ rest \in Seq(S) /\ Len(rest) = Len(s) - 1 /\ Head(s) = s[1]
      /\ \A i \in 1..Len(rest) : rest[i] = s[i + 1]
  BY HeadTailProperties
<1>2. Len(s) \in Nat \ {0}
  BY EmptySeq
<1> HIDE DEF rest
<1>3. Range(rest) = {rest[i] : i \in 1..Len(rest)}
  BY <1>1, RangeEquality
<1>4. \A i \in 1..Len(rest) : i + 1 \in 1..Len(s) /\ rest[i] = s[i + 1]
  BY <1>1, <1>2
<1>5. \A i, j \in 1..Len(s) : i < j => s[i].id < s[j].id
  BY DEF Ordered
<1>6. ASSUME NEW i \in 1..Len(rest), NEW j \in 1..Len(rest), i < j
      PROVE  rest[i].id < rest[j].id
  <2>1. i + 1 \in 1..Len(s) /\ j + 1 \in 1..Len(s) /\ i + 1 < j + 1
    BY <1>4, <1>6
  <2> QED
    BY <1>4, <1>5, <2>1
<1>7. Ordered(rest)
  BY <1>6 DEF Ordered
<1>8. ASSUME NEW i \in 1..Len(rest) PROVE s[1].id < rest[i].id
  <2>1. i + 1 \in 1..Len(s) /\ 1 \in 1..Len(s) /\ 1 < i + 1
    BY <1>2, <1>4
  <2> QED
    BY <1>4, <1>5, <2>1
<1> QED
  BY <1>1, <1>3, <1>7, <1>8 DEF rest

(******************************************************************************)
(* Two queues, the one before the other, are in order together.               *)
(******************************************************************************)
LEMMA OrderedConcat ==
  ASSUME NEW S, NEW s \in Seq(S), NEW t \in Seq(S), Ordered(s), Ordered(t),
         Precede(Range(s), Range(t))
  PROVE  s \o t \in Seq(S) /\ Ordered(s \o t) /\ Range(s \o t) = Range(s) \cup Range(t)
<1> DEFINE both == s \o t
<1>1. /\ both \in Seq(S) /\ Len(both) = Len(s) + Len(t) /\ Len(s) \in Nat /\ Len(t) \in Nat
      /\ \A i \in 1..Len(s) + Len(t) : both[i] = IF i <= Len(s) THEN s[i] ELSE t[i - Len(s)]
  BY ConcatProperties
<1>2. Range(both) = Range(s) \cup Range(t)
  BY RangeConcatenation
<1> HIDE DEF both
<1>3. Ordered(both)
  <2> SUFFICES ASSUME NEW i \in 1..Len(s) + Len(t), NEW j \in 1..Len(s) + Len(t), i < j
               PROVE  both[i].id < both[j].id
    BY <1>1 DEF Ordered
  <2>1. CASE j <= Len(s)
    <3>1. i \in 1..Len(s) /\ j \in 1..Len(s) /\ both[i] = s[i] /\ both[j] = s[j]
      BY <1>1, <2>1
    <3> QED
      BY <3>1 DEF Ordered
  <2>2. CASE i <= Len(s) /\ ~(j <= Len(s))
    <3>1. i \in 1..Len(s) /\ j - Len(s) \in 1..Len(t) /\ both[i] = s[i] /\ both[j] = t[j - Len(s)]
      BY <1>1, <2>2
    <3>2. s[i] \in Range(s) /\ t[j - Len(s)] \in Range(t)
      BY <3>1, RangeEquality
    <3> QED
      BY <3>1, <3>2 DEF Precede
  <2>3. CASE ~(i <= Len(s))
    <3>1. /\ i - Len(s) \in 1..Len(t) /\ j - Len(s) \in 1..Len(t) /\ i - Len(s) < j - Len(s)
          /\ both[i] = t[i - Len(s)] /\ both[j] = t[j - Len(s)]
      BY <1>1, <2>3
    <3> QED
      BY <3>1 DEF Ordered
  <2> QED
    BY <1>1, <2>1, <2>2, <2>3
<1> QED
  BY <1>1, <1>2, <1>3 DEF both

--------------------------------------------------------------------------------
(******************************************************************************)
(* The calls, with the arguments they pass.                                   *)
(******************************************************************************)
Called(thread, kind, value) ==
  /\ thread \in Threads /\ kind \in Kinds /\ value \in Values \cup {NoValue}
  /\ IsSet(kind) => value \in Values
  /\ Call(thread, kind, value)

Refused ==
  /\ returned' = [call |-> NoCall, error |-> "not_supported", value |-> NoValue, intact |-> TRUE]
  /\ UNCHANGED <<id_, preparing, holder, call, encoded, acknowledged>>
  /\ UNCHANGED <<documents, writing, inbox, outbox, deviceVars, intact, during>>

(******************************************************************************)
(* The steps of the specification, the calls taken together.                  *)
(******************************************************************************)
LEMMA NextCases ==
  ASSUME Next
  PROVE  \/ \E thread, kind, value : Called(thread, kind, value)
         \/ Encode \/ EndEncode \/ EncodeElsewhere
         \/ Refused \/ TimeOut \/ Receive \/ Serialize \/ WriteCompletes \/ Execute
<1>1. ASSUME NEW thread \in Threads, NEW v \in Values
      PROVE  /\ Call(thread, "set", v) => Called(thread, "set", v)
             /\ Call(thread, "setRef", v) => Called(thread, "setRef", v)
             /\ Call(thread, "write", v) => Called(thread, "write", v)
             /\ Call(thread, "verify", v) => Called(thread, "verify", v)
  BY DEF Called, Kinds, IsSet
<1>2. \A thread \in Threads : Call(thread, "get", NoValue) => Called(thread, "get", NoValue)
  BY DEF Called, Kinds, IsSet
<1>3. \A thread \in Threads : Call(thread, "command", NoValue) => Called(thread, "command", NoValue)
  BY DEF Called, Kinds, IsSet
<1>4. SetScanResolution => Refused \/ \E thread \in Threads, v \in Values : Call(thread, "setRef", v)
  BY DEF SetScanResolution, IsSupported, Refused
<1> QED
  BY <1>1, <1>2, <1>3, <1>4
     DEF Next, GetSetting, SetSetting, WriteData, VerifyHash, PlainCommand, BeginUpdate, EndUpdate,
         CommitUpdate, PersistSettings, QueryOperationMode

(******************************************************************************)
(* Every message has the id of a call that was made.                          *)
(******************************************************************************)
LEMMA MessageIds ==
  ASSUME Inductive
  PROVE  /\ Requests \subseteq Request /\ Range(image) \subseteq Request
         /\ \A m \in Range(outbox) \cup Requests \cup Range(image) : m.id <= id_ /\ m.id \in Nat
<1>1. /\ inbox \in Seq(Request) /\ writing \in Seq(Request) /\ documents \in Seq(Request)
      /\ image \in Seq(Request)
  BY DEF Inductive, TypeOK
<1>2. /\ Range(inbox) \subseteq Request /\ Range(writing) \subseteq Request
      /\ Range(documents) \subseteq Request /\ Range(image) \subseteq Request
  BY <1>1, RangeOfSeq
<1>3. \A request \in Request : request.id \in Nat
  BY DEF Request
<1> QED
  BY <1>2, <1>3 DEF Inductive, OrderInv, MessagesOK, Requests

(******************************************************************************)
(* A call leaves everything before it as it was, and puts its request behind  *)
(* it (session.cpp:84-92).                                                    *)
(******************************************************************************)
LEMMA CallStep ==
  ASSUME Inductive, NEW thread, NEW kind, NEW value, Called(thread, kind, value)
  PROVE  Inductive'
<1> USE CommandsAssumption
<1> DEFINE request == [id |-> id_ + 1, kind |-> kind, value |-> value]
<1>1. /\ holder = NoThread /\ id_ < MaxId /\ id_' = id_ + 1 /\ call' = request
      /\ \/ encoded' = encoded
         \/ kind \in FirmwareKinds /\ encoded' = [encoded EXCEPT ![kind] = id_ + 1]
      /\ preparing' = [preparing EXCEPT ![thread] = NoText]
      /\ holder' = thread
      /\ documents' = Append(documents, request)
      /\ intact' = TRUE
      /\ during' = {setting}
      /\ acknowledged' = IF IsSet(kind) THEN NoValue ELSE acknowledged
      /\ UNCHANGED <<returned, writing, inbox, outbox, setting, image>>
  BY DEF Called, Call, deviceVars, IsFirmware
<1>2. /\ thread \in Threads /\ thread # NoThread
      /\ id_ \in -1..MaxId /\ documents \in Seq(Request)
      /\ kind \in Kinds /\ value \in Values \cup {NoValue} /\ (IsSet(kind) => value \in Values)
  BY DEF Inductive, TypeOK, Called
<1>3. /\ request \in Request /\ request # NoCall
      /\ request.id = id_ + 1 /\ request.kind = kind /\ request.value = value
  BY <1>2 DEF Request, NoCall, Kinds
<1> HIDE DEF request
<1>4. documents' \in Seq(Request) /\ Range(documents') = Range(documents) \cup {request}
  <2>1. Request \cup {request} = Request
    BY <1>3
  <2> QED
    BY <1>1, <1>2, <2>1, RangeAppend
<1>5. Requests' = Requests \cup {request}
  BY <1>1, <1>4 DEF Requests
<1>6. \A m \in Range(outbox) \cup Requests \cup Range(image) : m.id <= id_ /\ m.id \in Nat
  BY MessageIds
<1>7. TypeOK'
  <2>1. encoded' \in [FirmwareKinds -> Threads \cup -1..MaxId]
    <3>1. encoded \in [FirmwareKinds -> Threads \cup -1..MaxId] /\ id_ + 1 \in -1..MaxId
      BY <1>1, <1>2 DEF Inductive, TypeOK
    <3> QED
      BY <1>1, <3>1
  <2>2. id_' \in -1..MaxId /\ call' \in Request \cup {NoCall}
    BY <1>1, <1>2, <1>3
  <2>3. during' \subseteq Values \cup {Garbage} /\ acknowledged' \in Values \cup {NoValue}
    BY <1>1 DEF Inductive, TypeOK
  <2>4. preparing' \in [Threads -> Text \cup {NoText}]
    BY <1>1 DEF Inductive, TypeOK
  <2>5. holder' \in Threads \cup {NoThread} /\ (holder' = NoThread <=> call' = NoCall)
    BY <1>1, <1>2, <1>3
  <2> QED
    BY <1>1, <1>4, <2>1, <2>2, <2>3, <2>4, <2>5 DEF Inductive, TypeOK
<1>8. MessagesOK'
  BY <1>1, <1>2, <1>3, <1>5 DEF Inductive, MessagesOK
<1>9. OrderInv'
  <2>1. \A m \in Range(outbox) \cup Requests \cup Range(image) : m.id < request.id /\ m.id <= id_ + 1
    BY <1>2, <1>3, <1>6
  <2>2. Ordered(documents')
    BY <1>1, <1>2, <2>1, OrderedAppend DEF Inductive, OrderInv, Requests
  <2>3. request.id <= id_ + 1
    BY <1>2, <1>3
  <2> QED
    BY <1>1, <1>4, <1>5, <2>1, <2>2, <2>3 DEF Inductive, OrderInv, Precede, Requests
<1>10. CurrentInv'
  <2>1. \A m \in Requests \cup Range(outbox) : m.id # id_ + 1
    BY <1>2, <1>6
  <2>2. Range(documents) \subseteq Requests
    BY DEF Requests
  <2>3. \A m \in Range(documents') : m.id = id_ + 1 => m = request
    BY <1>4, <2>1, <2>2
  <2>4. \A m \in Requests' : m.id = id_ + 1 => m = request
    BY <1>5, <2>1
  <2> QED
    BY <1>1, <1>3, <2>1, <2>3, <2>4 DEF CurrentInv
<1>11. ReturnedInv'
  BY <1>1, <1>3 DEF Inductive, ReturnedInv, VerdictIsAboutImage, GetReturnsCurrentValue, Stored
<1>12. AcknowledgedInv'
  BY <1>1, <1>3, <1>5 DEF Inductive, AcknowledgedInv
<1> QED
  BY <1>7, <1>8, <1>9, <1>10, <1>11, <1>12 DEF Inductive

(******************************************************************************)
(* Encoding, in whatever thread, only changes what the static strings hold:   *)
(* no request is in the making without its call (bootloader.cpp:26-43,        *)
(* 53-72).                                                                    *)
(******************************************************************************)
LEMMA EncodeStep ==
  ASSUME Inductive, Encode \/ EndEncode \/ EncodeElsewhere
  PROVE  Inductive'
<1>1. /\ UNCHANGED <<id_, holder, call, returned, acknowledged>>
      /\ UNCHANGED <<documents, writing, inbox, outbox, setting, image, intact, during>>
  BY DEF Encode, EndEncode, EncodeElsewhere, deviceVars
<1>2. /\ preparing \in [Threads -> Text \cup {NoText}]
      /\ encoded \in [FirmwareKinds -> Threads \cup -1..MaxId]
  BY DEF Inductive, TypeOK
<1>3. Nobody \in -1..MaxId
  BY CommandsAssumption DEF Nobody
<1>4. preparing' \in [Threads -> Text \cup {NoText}]
  <2>1. CASE Encode
    <3>1. PICK thread \in Threads, kind \in FirmwareKinds :
            preparing' = [preparing EXCEPT ![thread] = [kind |-> kind, done |-> FALSE]]
      BY <2>1 DEF Encode
    <3>2. [kind |-> kind, done |-> FALSE] \in Text
      BY DEF Text
    <3> QED
      BY <1>2, <3>1, <3>2
  <2>2. CASE EndEncode
    <3>1. PICK thread \in Threads, kind \in FirmwareKinds :
            preparing' = [preparing EXCEPT ![thread] = [kind |-> kind, done |-> TRUE]]
      BY <2>2 DEF EndEncode
    <3>2. [kind |-> kind, done |-> TRUE] \in Text
      BY DEF Text
    <3> QED
      BY <1>2, <3>1, <3>2
  <2>3. CASE EncodeElsewhere
    BY <1>2, <2>3 DEF EncodeElsewhere
  <2> QED
    BY <2>1, <2>2, <2>3
<1>5. encoded' \in [FirmwareKinds -> Threads \cup -1..MaxId]
  <2>1. CASE Encode
    <3>1. PICK thread \in Threads, kind \in FirmwareKinds, text \in Threads \cup {Nobody} :
            encoded' = [encoded EXCEPT ![kind] = text]
      BY <2>1 DEF Encode
    <3> QED
      BY <1>2, <1>3, <3>1
  <2>2. CASE EndEncode
    BY <1>2, <2>2 DEF EndEncode
  <2>3. CASE EncodeElsewhere
    BY <1>2, <1>3, <2>3 DEF EncodeElsewhere
  <2> QED
    BY <2>1, <2>2, <2>3
<1>6. Requests' = Requests
  BY <1>1 DEF Requests
<1>7. TypeOK'
  BY <1>1, <1>4, <1>5 DEF Inductive, TypeOK
<1>8. MessagesOK' /\ OrderInv'
  BY <1>1, <1>6 DEF Inductive, MessagesOK, OrderInv
<1>9. CurrentInv' /\ AcknowledgedInv'
  BY <1>1, <1>6 DEF Inductive, CurrentInv, AcknowledgedInv, Answered, Stored, HashMatches
<1>10. ReturnedInv'
  BY <1>1, <1>6
     DEF Inductive, ReturnedInv, VerdictIsAboutImage, GetReturnsCurrentValue, Stored, HashMatches
<1> QED
  BY <1>7, <1>8, <1>9, <1>10 DEF Inductive

(******************************************************************************)
(* An argument outside the enumeration sends nothing (device.cpp:755-803).    *)
(******************************************************************************)
LEMMA RefusedStep ==
  ASSUME Inductive, Refused
  PROVE  Inductive'
<1>1. /\ returned' = [call |-> NoCall, error |-> "not_supported", value |-> NoValue,
                      intact |-> TRUE]
      /\ UNCHANGED <<id_, preparing, holder, call, encoded, acknowledged>>
      /\ UNCHANGED <<documents, writing, inbox, outbox, setting, image, intact, during>>
  BY DEF Refused, deviceVars
<1>2. Requests' = Requests
  BY <1>1 DEF Requests
<1>3. TypeOK' /\ OrderInv'
  BY <1>1, <1>2 DEF Inductive, TypeOK, OrderInv
<1>4. MessagesOK'
  BY <1>1, <1>2 DEF Inductive, MessagesOK
<1>5. CurrentInv'
  BY <1>1, <1>2 DEF Inductive, CurrentInv, Answered, Stored, HashMatches
<1>6. ReturnedInv'
  BY <1>1 DEF ReturnedInv, VerdictIsAboutImage, GetReturnsCurrentValue
<1>7. AcknowledgedInv'
  BY <1>1, <1>2 DEF Inductive, AcknowledgedInv
<1> QED
  BY <1>3, <1>4, <1>5, <1>6, <1>7 DEF Inductive

(******************************************************************************)
(* A call that gives up leaves its request where it is; nothing is said about *)
(* that request any more (session.cpp:106-131).                               *)
(******************************************************************************)
LEMMA TimeOutStep ==
  ASSUME Inductive, TimeOut
  PROVE  Inductive'
<1>1. /\ call # NoCall /\ call' = NoCall /\ holder' = NoThread
      /\ returned' = [call |-> call, error |-> "timed_out", value |-> NoValue, intact |-> intact]
      /\ UNCHANGED <<id_, preparing, encoded, acknowledged>>
      /\ UNCHANGED <<documents, writing, inbox, outbox, setting, image, intact, during>>
  BY DEF TimeOut, Return, deviceVars
<1>2. Requests' = Requests /\ ~IsSet(NoCall.kind)
  BY <1>1 DEF Requests, IsSet, NoCall
<1>3. TypeOK' /\ OrderInv'
  BY <1>1, <1>2 DEF Inductive, TypeOK, OrderInv
<1>4. MessagesOK'
  BY <1>1, <1>2 DEF Inductive, MessagesOK, TypeOK
<1>5. CurrentInv'
  BY <1>1 DEF CurrentInv
<1>6. ReturnedInv'
  BY <1>1 DEF ReturnedInv, VerdictIsAboutImage, GetReturnsCurrentValue
<1>7. AcknowledgedInv'
  BY <1>1, <1>2 DEF Inductive, AcknowledgedInv
<1> QED
  BY <1>3, <1>4, <1>5, <1>6, <1>7 DEF Inductive

(******************************************************************************)
(* An answer that is not about the waiting call is dropped; one that is ends  *)
(* it, and then nothing is left on its way to the device                      *)
(* (session.cpp:110-131, 158-172).                                            *)
(******************************************************************************)
LEMMA ReceiveStep ==
  ASSUME Inductive, Receive
  PROVE  Inductive'
<1> DEFINE answer == Head(outbox)
<1>1. /\ outbox # <<>> /\ outbox' = Tail(outbox)
      /\ UNCHANGED <<id_, preparing, encoded>>
      /\ UNCHANGED <<documents, writing, inbox, setting, image, intact, during>>
  BY DEF Receive, Return, deviceVars, callVars
<1>2. Requests' = Requests
  BY <1>1 DEF Requests
<1>3. outbox \in Seq(Range(outbox)) /\ Ordered(outbox)
  BY DEF Inductive, MessagesOK, OrderInv
<1>4. /\ answer \in Range(outbox) /\ Range(outbox') \subseteq Range(outbox)
      /\ outbox' \in Seq(Range(outbox))
  BY <1>1, <1>3, RangeTail
<1>5. outbox' \in Seq(Range(outbox'))
  BY <1>4, SeqOfRange
<1>6. Ordered(outbox')
  BY <1>1, <1>3, OrderedTail
<1>7. OrderInv'
  BY <1>1, <1>2, <1>4, <1>6 DEF Inductive, OrderInv, Precede
<1> HIDE DEF answer
<1>8. CASE UNCHANGED <<holder, call, returned, acknowledged>>
  <2>1. TypeOK'
    BY <1>1, <1>8 DEF Inductive, TypeOK
  <2>2. MessagesOK'
    BY <1>1, <1>2, <1>4, <1>5, <1>8 DEF Inductive, MessagesOK
  <2>3. CurrentInv'
    BY <1>1, <1>2, <1>4, <1>8 DEF Inductive, CurrentInv, Answered, Stored, HashMatches
  <2>4. ReturnedInv'
    BY <1>1, <1>2, <1>8
       DEF Inductive, ReturnedInv, VerdictIsAboutImage, GetReturnsCurrentValue, Stored, HashMatches
  <2>5. AcknowledgedInv'
    BY <1>1, <1>2, <1>8 DEF Inductive, AcknowledgedInv
  <2> QED
    BY <1>7, <2>1, <2>2, <2>3, <2>4, <2>5 DEF Inductive
<1>9. CASE call # NoCall /\ AnswersCall(answer)
  <2>1. PICK outcome \in Results(answer) :
          /\ call' = NoCall /\ holder' = NoThread
          /\ returned' = [call |-> call, error |-> outcome.error, value |-> outcome.value,
                          intact |-> intact]
          /\ acknowledged' = IF IsSet(call.kind) /\ outcome.error = "no_error"
                               THEN call.value ELSE acknowledged
    BY <1>9 DEF Receive, Return, answer
  <2>2. answer.id = id_
    BY <1>9 DEF AnswersCall
  <2>3. Requests = {}
    <3> SUFFICES ASSUME NEW request \in Requests
                 PROVE  FALSE
      OBVIOUS
    <3>1. answer.id < request.id
      BY <1>4 DEF Inductive, OrderInv, Precede
    <3>2. request.id <= id_ /\ request.id \in Nat /\ answer.id \in Nat
      BY <1>4, MessageIds
    <3> QED
      BY <2>2, <3>1, <3>2
  <2>4. outcome.error = "no_error" => outcome.value = answer.value /\ Answered(answer)
    <3>1. outcome.error = "no_error" => answer.error = "no_error" /\ outcome.value = answer.value
      BY <2>1 DEF Results
    <3> QED
      BY <1>4, <1>9, <2>2, <3>1 DEF Inductive, CurrentInv
  <2>5. IsSet(call.kind) => call.value \in Values
    BY DEF Inductive, MessagesOK
  <2>6. TypeOK'
    BY <1>1, <2>1, <2>5 DEF Inductive, TypeOK
  <2>7. ~IsSet(NoCall.kind)
    BY DEF IsSet, NoCall
  <2>8. MessagesOK'
    BY <1>1, <1>2, <1>4, <1>5, <2>1, <2>7 DEF Inductive, MessagesOK, TypeOK
  <2>9. CurrentInv'
    BY <2>1 DEF CurrentInv
  <2>10. /\ returned'.call = call /\ returned'.error = outcome.error
         /\ returned'.value = outcome.value /\ returned'.intact = intact
    BY <2>1
  <2>11. ReturnedInv'
    <3>1. VerdictIsAboutImage'
      BY <1>1, <2>4, <2>10 DEF VerdictIsAboutImage, Answered, HashMatches
    <3>2. GetReturnsCurrentValue'
      BY <1>1, <2>4, <2>10 DEF GetReturnsCurrentValue, Answered
    <3>3. returned'.call.kind = "write" /\ returned'.error = "no_error"
            => Stored(returned.call, returned.intact)'
      BY <1>1, <2>4, <2>10 DEF Answered, Stored
    <3> QED
      BY <1>2, <2>3, <3>1, <3>2, <3>3 DEF ReturnedInv
  <2>12. AcknowledgedInv'
    BY <1>1, <1>2, <2>1, <2>3, <2>4 DEF Inductive, AcknowledgedInv, Answered
  <2> QED
    BY <1>7, <2>6, <2>8, <2>9, <2>11, <2>12 DEF Inductive
<1> QED
  BY <1>8, <1>9 DEF Receive, answer, callVars

(******************************************************************************)
(* A document is turned into bytes: the request of the waiting call keeps its *)
(* argument unless it is in a static string that was overwritten, which       *)
(* intact records (session.cpp:84-131, transport.cpp:140-154,                 *)
(* bootloader.cpp:26-43).                                                     *)
(******************************************************************************)
LEMMA SerializeStep ==
  ASSUME Inductive, Serialize
  PROVE  Inductive'
<1> DEFINE document == documents[1]
<1>1. /\ documents # <<>> /\ writing = <<>>
      /\ documents' = SubSeq(documents, 1, 0) \o SubSeq(documents, 2, Len(documents))
      /\ intact' = IF document.id = id_ THEN ReferenceIsValid(document) ELSE intact
      /\ UNCHANGED <<id_, preparing, holder, call, returned, encoded, acknowledged>>
      /\ UNCHANGED <<inbox, outbox, setting, image, during>>
  BY DEF Serialize, FirstDocument, deviceVars, callVars
<1>2. PICK value \in Contents(document) : writing' = <<[document EXCEPT !.value = value]>>
  BY DEF Serialize, FirstDocument
<1> DEFINE written == [document EXCEPT !.value = value]
<1>3. documents \in Seq(Request) /\ Ordered(documents)
  BY DEF Inductive, TypeOK, OrderInv
<1>4. documents' = Tail(documents)
  <2>1. Tail(documents) = SubSeq(documents, 2, Len(documents)) /\ Tail(documents) \in Seq(Request)
    BY <1>1, <1>3, TailIsSubSeq, RangeTail
  <2>2. SubSeq(documents, 1, 0) = <<>>
    BY SubSeqEmpty
  <2> QED
    BY <1>1, <2>1, <2>2, ConcatEmptySeq
<1>5. /\ document \in Request /\ documents' \in Seq(Request)
      /\ Range(documents) = {document} \cup Range(documents')
      /\ Ordered(documents') /\ \A m \in Range(documents') : document.id < m.id
  BY <1>1, <1>3, <1>4, RangeTail, OrderedTail
<1> HIDE DEF document
<1>6. value \in Values \cup {Garbage} \/ value = document.value
  BY <1>2 DEF Contents
<1>7. /\ written \in Request /\ written.id = document.id /\ written.kind = document.kind
      /\ written.value = value
  BY <1>5, <1>6 DEF Request
<1>8. ASSUME call # NoCall, document.id = id_
      PROVE  /\ written.kind = call.kind
             /\ ~IsFirmware(call.kind) => intact'
             /\ intact' => written = call
  <2>1. document = call
    BY <1>5, <1>8 DEF Inductive, CurrentInv
  <2>2. document.kind \in Kinds
    BY <1>5 DEF Request
  <2>3. ~IsFirmware(call.kind) => ReferenceIsValid(document)
    BY <2>1, <2>2 DEF ReferenceIsValid, StoredIn, IsFirmware, FirmwareKinds, Kinds
  <2>4. intact' = ReferenceIsValid(document)
    BY <1>1, <1>8
  <2>5. ReferenceIsValid(document) => value = document.value
    BY <1>2 DEF Contents
  <2>6. value = document.value => written = document
    BY <1>5 DEF Request
  <2> QED
    BY <1>7, <2>1, <2>3, <2>4, <2>5, <2>6
<1> HIDE DEF written
<1>9. writing' = <<written>> /\ writing' \in Seq(Request) /\ Len(writing') = 1
      /\ Range(writing') = {written}
  <2>1. writing' = <<written>>
    BY <1>2 DEF written
  <2> QED
    BY <1>7, <2>1 DEF Range
<1>10. /\ Requests = Range(inbox) \cup {document} \cup Range(documents')
       /\ Requests' = Range(inbox) \cup {written} \cup Range(documents')
  BY <1>1, <1>5, <1>9, RangeEmpty DEF Requests
<1>11. TypeOK'
  <2>1. ReferenceIsValid(document) \in BOOLEAN
    <3>1. document.kind \in Kinds
      BY <1>5 DEF Request
    <3> QED
      BY <3>1 DEF ReferenceIsValid, StoredIn, IsFirmware, FirmwareKinds, Kinds
  <2>2. intact' \in BOOLEAN
    BY <1>1, <2>1 DEF Inductive, TypeOK
  <2> QED
    BY <1>1, <1>5, <1>9, <2>2 DEF Inductive, TypeOK
<1>12. MessagesOK'
  BY <1>1, <1>6, <1>7, <1>10 DEF Inductive, MessagesOK
<1>13. OrderInv'
  <2>1. Len(writing') <= 1
    BY <1>9
  <2>2. Precede(Range(outbox), Requests') /\ Precede(Range(image), Requests')
    BY <1>7, <1>10 DEF Inductive, OrderInv, Precede
  <2>3. Precede(Range(inbox), Range(writing') \cup Range(documents'))
    BY <1>5, <1>7, <1>9 DEF Inductive, OrderInv, Precede
  <2>4. Precede(Range(writing'), Range(documents'))
    BY <1>5, <1>7, <1>9 DEF Precede
  <2>5. \A m \in Range(outbox) \cup Requests' \cup Range(image) : m.id <= id_
    BY <1>7, <1>10 DEF Inductive, OrderInv
  <2> QED
    BY <1>1, <1>5, <2>1, <2>2, <2>3, <2>4, <2>5 DEF Inductive, OrderInv
<1>14. CurrentInv'
  <2> SUFFICES ASSUME call # NoCall
               PROVE  CurrentInv'
    BY <1>1 DEF CurrentInv
  <2>1. /\ call.id = id_
        /\ ~IsFirmware(call.kind) => intact
        /\ \A m \in Range(documents) : m.id = id_ => m = call
        /\ \A m \in Requests : m.id = id_ => m.kind = call.kind /\ (intact => m = call)
        /\ \A a \in Range(outbox) : a.id = id_ /\ a.error = "no_error" => Answered(a)
    BY DEF Inductive, CurrentInv
  <2>2. CASE document.id = id_
    <3>1. \A m \in Requests' : m.id = id_ => m = written
      <4>1. \A m \in Range(inbox) : m.id < id_ /\ m.id \in Nat
        <5>1. \A m \in Range(inbox) : m.id < document.id
          BY <1>5 DEF Inductive, OrderInv, Precede
        <5> QED
          BY <2>2, <5>1, MessageIds DEF Requests
      <4>2. \A m \in Range(documents') : id_ < m.id /\ m.id \in Nat
        BY <1>5, <2>2, MessageIds DEF Requests
      <4>3. id_ \in Int
        BY DEF Inductive, TypeOK
      <4> QED
        BY <1>10, <4>1, <4>2, <4>3
    <3>2. \A a \in Range(outbox) : a.id # id_
      <4>1. \A a \in Range(outbox) : a.id < document.id /\ a.id \in Nat
        BY <1>10, MessageIds DEF Inductive, OrderInv, Precede
      <4> QED
        BY <2>2, <4>1
    <3>3. \A m \in Range(documents') : m.id = id_ => m = call
      BY <1>5, <2>1
    <3>4. \A m \in Requests' : m.id = id_ => m.kind = call.kind /\ (intact' => m = call)
      BY <1>8, <2>2, <3>1
    <3>5. ~IsFirmware(call.kind) => intact'
      BY <1>8, <2>2
    <3> QED
      BY <1>1, <2>1, <3>2, <3>3, <3>4, <3>5 DEF CurrentInv
  <2>3. CASE document.id # id_
    <3>1. intact' = intact
      BY <1>1, <2>3
    <3>2. \A m \in Range(documents') : m.id = id_ => m = call
      BY <1>5, <2>1
    <3>3. \A m \in Requests' : m.id = id_ => m \in Requests
      BY <1>7, <1>10, <2>3
    <3>4. \A a : Answered(a)' <=> Answered(a)
      BY <1>1, <3>1 DEF Answered, Stored, HashMatches
    <3>5. \A m \in Requests' : m.id = id_ => m.kind = call.kind /\ (intact' => m = call)
      BY <2>1, <3>1, <3>3
    <3> QED
      BY <1>1, <2>1, <3>1, <3>2, <3>4, <3>5 DEF CurrentInv
  <2> QED
    BY <2>2, <2>3
<1>15. ReturnedInv'
  BY <1>1, <1>10
     DEF Inductive, ReturnedInv, VerdictIsAboutImage, GetReturnsCurrentValue, Stored, HashMatches
<1>16. AcknowledgedInv'
  BY <1>1, <1>7, <1>10 DEF Inductive, AcknowledgedInv
<1> QED
  BY <1>11, <1>12, <1>13, <1>14, <1>15, <1>16 DEF Inductive

(******************************************************************************)
(* The bytes of a request are on their way behind those of the earlier ones   *)
(* (transport.cpp:208-219).                                                   *)
(******************************************************************************)
LEMMA WriteCompletesStep ==
  ASSUME Inductive, WriteCompletes
  PROVE  Inductive'
<1>1. /\ writing # <<>> /\ inbox' = inbox \o writing /\ writing' = <<>>
      /\ UNCHANGED <<id_, preparing, holder, call, returned, encoded, acknowledged>>
      /\ UNCHANGED <<documents, outbox, setting, image, intact, during>>
  BY DEF WriteCompletes, deviceVars, callVars
<1>2. inbox \in Seq(Request) /\ writing \in Seq(Request) /\ Len(writing) <= 1
  BY DEF Inductive, TypeOK, OrderInv
<1>3. Ordered(writing)
  BY <1>2 DEF Ordered
<1>4. inbox' \in Seq(Request) /\ Ordered(inbox') /\ Range(inbox') = Range(inbox) \cup Range(writing)
  <2>1. Ordered(inbox) /\ Precede(Range(inbox), Range(writing))
    BY DEF Inductive, OrderInv, Precede
  <2> QED
    BY <1>1, <1>2, <1>3, <2>1, OrderedConcat
<1>5. Range(writing') = {} /\ Len(writing') = 0 /\ writing' \in Seq(Request)
  BY <1>1, RangeEmpty, EmptySeq
<1>6. Requests' = Requests
  BY <1>1, <1>4, <1>5 DEF Requests
<1>7. TypeOK'
  BY <1>1, <1>4, <1>5 DEF Inductive, TypeOK
<1>8. MessagesOK'
  BY <1>1, <1>6 DEF Inductive, MessagesOK
<1>9. OrderInv'
  <2>1. Precede(Range(inbox'), Range(writing') \cup Range(documents))
    BY <1>4, <1>5 DEF Inductive, OrderInv, Precede
  <2>2. Precede(Range(writing'), Range(documents))
    BY <1>5 DEF Precede
  <2>3. Len(writing') <= 1
    BY <1>5
  <2> QED
    BY <1>1, <1>4, <1>6, <2>1, <2>2, <2>3 DEF Inductive, OrderInv
<1>10. CurrentInv'
  BY <1>1, <1>6 DEF Inductive, CurrentInv, Answered, Stored, HashMatches
<1>11. ReturnedInv'
  BY <1>1, <1>6
     DEF Inductive, ReturnedInv, VerdictIsAboutImage, GetReturnsCurrentValue, Stored, HashMatches
<1>12. AcknowledgedInv'
  BY <1>1, <1>6 DEF Inductive, AcknowledgedInv
<1> QED
  BY <1>7, <1>8, <1>9, <1>10, <1>11, <1>12 DEF Inductive

(******************************************************************************)
(* The device takes the oldest request and answers it.  No answer to the      *)
(* waiting call can be under way before, and after an acknowledged set call   *)
(* no other one is executed (session.cpp:84-131).                             *)
(******************************************************************************)
LEMMA ExecuteStep ==
  ASSUME Inductive, Execute
  PROVE  Inductive'
<1> DEFINE request == Head(inbox)
<1>1. /\ inbox # <<>> /\ inbox' = Tail(inbox) /\ during' = during \cup {setting'}
      /\ UNCHANGED <<id_, preparing, holder, call, returned, encoded, acknowledged>>
      /\ UNCHANGED <<documents, writing, intact>>
  BY DEF Execute, callVars
<1>2. PICK error \in {"no_error", "device_error"} :
        /\ outbox' = Append(outbox, Answer(request, error))
        /\ setting' = IF error = "no_error" /\ IsSet(request.kind) THEN request.value ELSE setting
        /\ image' = IF error = "no_error" /\ request.kind = "write"
                      THEN Append(image, request) ELSE image
  BY DEF Execute, deviceVars
<1> DEFINE answer == Answer(request, error)
<1>3. inbox \in Seq(Request) /\ Ordered(inbox)
  BY DEF Inductive, TypeOK, OrderInv
<1>4. /\ request \in Request /\ inbox' \in Seq(Request)
      /\ Range(inbox) = {request} \cup Range(inbox')
      /\ Ordered(inbox') /\ \A m \in Range(inbox') : request.id < m.id
  BY <1>1, <1>3, RangeTail, OrderedTail
<1>5. /\ Requests = {request} \cup Range(inbox') \cup Range(writing) \cup Range(documents)
      /\ Requests' = Range(inbox') \cup Range(writing) \cup Range(documents)
      /\ request \in Requests /\ Requests' \subseteq Requests
  BY <1>1, <1>4 DEF Requests
<1> HIDE DEF request
<1>6. /\ answer.id = request.id /\ answer.error = error
      /\ error = "no_error" /\ request.kind = "get" => answer.value = setting
      /\ error = "no_error" /\ request.kind = "verify" => answer.value = HashMatches(request.value)
  BY DEF Answer
<1> HIDE DEF answer
<1>7. /\ Range(outbox') = Range(outbox) \cup {answer} /\ outbox' \in Seq(Range(outbox) \cup {answer})
      /\ outbox \in Seq(Range(outbox))
  BY <1>2, RangeAppend DEF Inductive, MessagesOK, answer
<1>8. /\ image' \in Seq(Request)
      /\ \/ image' = image /\ ~(error = "no_error" /\ request.kind = "write")
         \/ /\ error = "no_error" /\ request.kind = "write"
            /\ image' = Append(image, request) /\ Range(image') = Range(image) \cup {request}
  <2>1. image \in Seq(Request) /\ Request \cup {request} = Request
    BY <1>4 DEF Inductive, TypeOK
  <2> QED
    BY <1>2, <2>1, RangeAppend
<1>9. Range(image) \subseteq Range(image') /\ Range(image') \subseteq Range(image) \cup {request}
  BY <1>8
<1>10. request.id \in Nat /\ request.id <= id_
  BY <1>5, MessageIds
<1>11. setting' \in Values \cup {Garbage}
  BY <1>2, <1>5 DEF Inductive, TypeOK, MessagesOK
<1>12. TypeOK'
  BY <1>1, <1>4, <1>8, <1>11 DEF Inductive, TypeOK
<1>13. MessagesOK'
  <2>1. outbox' \in Seq(Range(outbox'))
    BY <1>7
  <2> QED
    BY <1>1, <1>5, <1>6, <1>7, <1>10, <2>1 DEF Inductive, MessagesOK
<1>14. OrderInv'
  <2>1. Ordered(outbox')
    <3>1. \A m \in Range(outbox) : m.id < answer.id
      BY <1>5, <1>6 DEF Inductive, OrderInv, Precede
    <3> QED
      BY <1>2, <1>7, <3>1, OrderedAppend DEF Inductive, OrderInv, answer
  <2>2. Ordered(image')
    <3>1. \A m \in Range(image) : m.id < request.id
      BY <1>5 DEF Inductive, OrderInv, Precede
    <3>2. image \in Seq(Request) /\ Ordered(image)
      BY DEF Inductive, TypeOK, OrderInv
    <3> QED
      BY <1>8, <3>1, <3>2, OrderedAppend
  <2>3. \A m \in Requests' : request.id < m.id
    BY <1>4, <1>5 DEF Inductive, OrderInv, Precede
  <2>4. Precede(Range(outbox'), Requests')
    BY <1>5, <1>6, <1>7, <2>3 DEF Inductive, OrderInv, Precede
  <2>5. Precede(Range(image'), Requests')
    BY <1>5, <1>9, <2>3 DEF Inductive, OrderInv, Precede
  <2>6. Precede(Range(inbox'), Range(writing) \cup Range(documents))
    BY <1>4 DEF Inductive, OrderInv, Precede
  <2>7. \A m \in Range(outbox') \cup Requests' \cup Range(image') : m.id <= id_
    BY <1>5, <1>6, <1>7, <1>9, <1>10 DEF Inductive, OrderInv
  <2> QED
    BY <1>1, <1>4, <2>1, <2>2, <2>4, <2>5, <2>6, <2>7 DEF Inductive, OrderInv
<1>15. CurrentInv'
  <2> SUFFICES ASSUME call # NoCall
               PROVE  \A a \in Range(outbox') : a.id = id_ /\ a.error = "no_error" => Answered(a)'
    BY <1>1, <1>5 DEF Inductive, CurrentInv
  <2>1. \A a \in Range(outbox) : a.id # id_
    <3> SUFFICES ASSUME NEW a \in Range(outbox), a.id = id_
                 PROVE  FALSE
      OBVIOUS
    <3>1. a.id < request.id /\ a.id \in Nat
      BY <1>5, MessageIds DEF Inductive, OrderInv, Precede
    <3> QED
      BY <1>10, <3>1
  <2>2. ASSUME answer.id = id_, error = "no_error"
        PROVE  /\ IsSet(call.kind) => setting' = call.value
               /\ call.kind = "get" => answer.value \in during'
               /\ call.kind = "verify" /\ intact => answer.value = HashMatches(call.value)'
               /\ call.kind = "write" => Stored(call, intact)'
    <3>1. /\ call.id = id_ /\ request.id = id_ /\ request.kind = call.kind
          /\ intact => request = call
          /\ ~IsFirmware(call.kind) => request = call
      BY <1>5, <1>6, <2>2 DEF Inductive, CurrentInv
    <3>2. IsSet(call.kind) => setting' = call.value
      <4>1. IsSet(call.kind) => ~IsFirmware(call.kind)
        BY DEF IsSet, IsFirmware, FirmwareKinds
      <4> QED
        BY <1>2, <2>2, <3>1, <4>1
    <3>3. call.kind = "get" => answer.value \in during'
      BY <1>1, <1>2, <1>6, <2>2, <3>1 DEF IsSet
    <3>4. call.kind = "verify" /\ intact => answer.value = HashMatches(call.value)'
      BY <1>1, <1>2, <1>6, <2>2, <3>1 DEF HashMatches
    <3>5. call.kind = "write" => Stored(call, intact)'
      BY <1>1, <1>8, <2>2, <3>1 DEF Stored
    <3> QED
      BY <3>2, <3>3, <3>4, <3>5
  <2> QED
    BY <1>1, <1>6, <1>7, <2>1, <2>2 DEF Answered
<1>16. ReturnedInv'
  <2>1. ~(call = NoCall /\ returned.error = "no_error")
    BY <1>5 DEF Inductive, ReturnedInv
  <2> QED
    BY <1>1, <1>9, <2>1
       DEF Inductive, ReturnedInv, VerdictIsAboutImage, GetReturnsCurrentValue, Stored
<1>17. AcknowledgedInv'
  BY <1>1, <1>2, <1>5 DEF Inductive, AcknowledgedInv
<1> QED
  BY <1>12, <1>13, <1>14, <1>15, <1>16, <1>17 DEF Inductive

--------------------------------------------------------------------------------
(******************************************************************************)
(* The inductive invariant holds in the beginning.                            *)
(******************************************************************************)
LEMMA InitInductive ==
  ASSUME Init
  PROVE  Inductive
<1> USE CommandsAssumption DEF Init
<1>1. TypeOK
  BY EmptySeq DEF TypeOK, Nobody
<1>2. /\ Range(inbox) = {} /\ Range(writing) = {} /\ Range(documents) = {} /\ Range(outbox) = {}
      /\ Range(image) = {}
  BY RangeEmpty
<1>3. Requests = {}
  BY <1>2 DEF Requests
<1>4. MessagesOK
  <2>1. outbox \in Seq(Range(outbox))
    BY EmptySeq
  <2> QED
    BY <1>2, <1>3, <2>1 DEF MessagesOK, NoCall, IsSet
<1>5. OrderInv
  BY <1>2, <1>3 DEF OrderInv, Ordered, Precede
<1>6. CurrentInv /\ AcknowledgedInv
  BY DEF CurrentInv, AcknowledgedInv
<1>7. ReturnedInv
  BY DEF ReturnedInv, VerdictIsAboutImage, GetReturnsCurrentValue, NoCall
<1> QED
  BY <1>1, <1>4, <1>5, <1>6, <1>7 DEF Inductive

(******************************************************************************)
(* Every step keeps it.                                                       *)
(******************************************************************************)
LEMMA StepInductive ==
  ASSUME Inductive, [Next]_vars
  PROVE  Inductive'
<1>1. CASE Next
  BY <1>1, NextCases, CallStep, EncodeStep, RefusedStep, TimeOutStep, ReceiveStep, SerializeStep,
     WriteCompletesStep, ExecuteStep
<1>2. CASE UNCHANGED vars
  <2>1. /\ UNCHANGED <<id_, preparing, holder, call, returned, encoded, acknowledged>>
        /\ UNCHANGED <<documents, writing, inbox, outbox, setting, image, intact, during>>
        /\ Requests' = Requests
    BY <1>2 DEF vars, callVars, deviceVars, Requests
  <2>2. TypeOK' /\ MessagesOK' /\ OrderInv'
    BY <2>1 DEF Inductive, TypeOK, MessagesOK, OrderInv
  <2>3. CurrentInv' /\ AcknowledgedInv'
    BY <2>1 DEF Inductive, CurrentInv, AcknowledgedInv, Answered, Stored, HashMatches
  <2>4. ReturnedInv'
    BY <2>1
       DEF Inductive, ReturnedInv, VerdictIsAboutImage, GetReturnsCurrentValue, Stored, HashMatches
  <2> QED
    BY <2>2, <2>3, <2>4 DEF Inductive
<1> QED
  BY <1>1, <1>2

(******************************************************************************)
(* So it always holds.                                                        *)
(******************************************************************************)
LEMMA AlwaysInductive == Spec => []Inductive
BY InitInductive, StepInductive, PTL DEF Spec

(******************************************************************************)
(* Requests and answers stay in the order of the calls, one of each at most   *)
(* (session.cpp:84-92, transport.cpp:137-154, 208-219).                       *)
(******************************************************************************)
THEOREM CommandsInvariant == Spec => []CommandsInv
<1>1. Inductive => CommandsInv
  <2> SUFFICES ASSUME Inductive
               PROVE  CommandsInv
    OBVIOUS
  <2> DEFINE S == Request \cup Range(outbox)
             ab == outbox \o inbox
             abc == ab \o writing
             all == abc \o documents
  <2>1. outbox \in Seq(S) /\ inbox \in Seq(S) /\ writing \in Seq(S) /\ documents \in Seq(S)
    BY SeqMonotonic DEF Inductive, TypeOK, MessagesOK
  <2>2. /\ Precede(Range(outbox), Range(inbox))
        /\ Precede(Range(outbox) \cup Range(inbox), Range(writing))
        /\ Precede(Range(outbox) \cup Range(inbox) \cup Range(writing), Range(documents))
    BY DEF Inductive, OrderInv, Precede, Requests
  <2>3. Ordered(outbox) /\ Ordered(inbox) /\ Ordered(writing) /\ Ordered(documents)
    BY <2>1 DEF Inductive, OrderInv, Ordered
  <2> HIDE DEF S
  <2>4. ab \in Seq(S) /\ Ordered(ab) /\ Range(ab) = Range(outbox) \cup Range(inbox)
    BY <2>1, <2>2, <2>3, OrderedConcat
  <2> HIDE DEF ab
  <2>5. /\ abc \in Seq(S) /\ Ordered(abc)
        /\ Range(abc) = Range(outbox) \cup Range(inbox) \cup Range(writing)
    <3>1. Precede(Range(ab), Range(writing))
      BY <2>2, <2>4
    <3>2. ab \in Seq(S) /\ writing \in Seq(S) /\ Ordered(ab) /\ Ordered(writing)
      BY <2>1, <2>3, <2>4
    <3>3. abc \in Seq(S) /\ Ordered(abc) /\ Range(abc) = Range(ab) \cup Range(writing)
      BY <3>2, <3>1, OrderedConcat, ZenonT(30)
    <3> QED
      BY <2>4, <3>3
  <2> HIDE DEF abc
  <2>6. /\ all \in Seq(S) /\ Ordered(all)
        /\ Range(all) = Range(outbox) \cup Requests
    <3>1. Precede(Range(abc), Range(documents))
      BY <2>2, <2>5
    <3>2. abc \in Seq(S) /\ documents \in Seq(S) /\ Ordered(abc) /\ Ordered(documents)
      BY <2>1, <2>3, <2>5
    <3>3. all \in Seq(S) /\ Ordered(all) /\ Range(all) = Range(abc) \cup Range(documents)
      BY <3>2, <3>1, OrderedConcat, ZenonT(30)
    <3> QED
      BY <2>5, <3>3 DEF Requests
  <2> HIDE DEF all
  <2>7. all = outbox \o inbox \o writing \o documents
    BY DEF all, abc, ab
  <2>8. \A i \in 1..Len(all) - 1 : all[i].id < all[i + 1].id
    <3>1. Len(all) \in Nat
      BY <2>6
    <3>2. \A i \in 1..Len(all) - 1 : i \in 1..Len(all) /\ i + 1 \in 1..Len(all) /\ i < i + 1
      BY <3>1
    <3> QED
      BY <2>6, <3>2 DEF Ordered
  <2>9. \A i \in DOMAIN all : all[i].id <= id_
    <3>1. \A i \in DOMAIN all : all[i] \in Range(all)
      BY DEF Range
    <3> QED
      BY <2>6, <3>1, MessageIds
  <2> QED
    BY <2>7, <2>8, <2>9 DEF Inductive, CommandsInv
<1> QED
  BY <1>1, AlwaysInductive, PTL

(******************************************************************************)
(* A writeData that returned no_error stored one block, exactly once, and its *)
(* own content unless another firmware call overwrote the static string       *)
(* before the request was turned into bytes (bootloader.cpp:26-43,            *)
(* session.cpp:84-131).                                                       *)
(******************************************************************************)
THEOREM AcknowledgedWrites == Spec => []AcknowledgedWriteIsStored
<1>1. Inductive => AcknowledgedWriteIsStored
  <2> SUFFICES ASSUME Inductive, returned.call.kind = "write", returned.error = "no_error"
               PROVE  \E i \in DOMAIN image :
                        /\ image[i].id = returned.call.id
                        /\ returned.intact => image[i] = returned.call
                        /\ \A j \in DOMAIN image : image[j].id = returned.call.id => j = i
    BY DEF AcknowledgedWriteIsStored
  <2>1. Stored(returned.call, returned.intact)
    BY DEF Inductive, ReturnedInv
  <2>2. PICK i \in DOMAIN image : image[i].id = returned.call.id
    BY <2>1 DEF Stored, Range
  <2>3. image \in Seq(Request) /\ DOMAIN image = 1..Len(image) /\ Len(image) \in Nat
    BY DEF Inductive, TypeOK
  <2>4. \A j \in DOMAIN image : image[j].id \in Nat
    <3>1. \A j \in DOMAIN image : image[j] \in Request
      BY <2>3, ElementOfSeq
    <3> QED
      BY <3>1 DEF Request
  <2>5. \A j \in DOMAIN image : image[j].id = image[i].id => j = i
    <3> SUFFICES ASSUME NEW j \in DOMAIN image, j # i, image[j].id = image[i].id
                 PROVE  FALSE
      OBVIOUS
    <3>1. i < j \/ j < i
      BY <2>3
    <3>2. image[i].id < image[j].id \/ image[j].id < image[i].id
      BY <2>3, <3>1 DEF Inductive, OrderInv, Ordered
    <3> QED
      BY <2>4, <3>2
  <2>6. returned.intact => image[i] = returned.call
    <3> SUFFICES ASSUME returned.intact
                 PROVE  image[i] = returned.call
      OBVIOUS
    <3>1. PICK j \in DOMAIN image : image[j] = returned.call
      BY <2>1 DEF Stored, Range
    <3> QED
      BY <2>2, <2>5, <3>1
  <2>7. \A j \in DOMAIN image : image[j].id = returned.call.id => j = i
    BY <2>2, <2>5
  <2> QED
    BY <2>2, <2>6, <2>7
<1> QED
  BY <1>1, AlwaysInductive, PTL

(******************************************************************************)
(* What verifyHash reports holds of the image the device has when it returns, *)
(* for the hash it was given unless another firmware call overwrote the text  *)
(* of that hash (bootloader.cpp:53-72, session.cpp:84-131).                   *)
(******************************************************************************)
THEOREM VerdictsHold == Spec => []VerdictIsAboutImage
<1>1. Inductive => VerdictIsAboutImage
  BY DEF Inductive, ReturnedInv
<1> QED
  BY <1>1, AlwaysInductive, PTL

(******************************************************************************)
(* A set call that returned no_error is in effect until the next one begins   *)
(* (device.cpp:555-803, session.cpp:84-131, transport.cpp:140-154).           *)
(******************************************************************************)
THEOREM AcknowledgedSets == Spec => []AcknowledgedSetIsInEffect
<1>1. Inductive => AcknowledgedSetIsInEffect
  BY DEF Inductive, AcknowledgedInv, AcknowledgedSetIsInEffect
<1> QED
  BY <1>1, AlwaysInductive, PTL

(******************************************************************************)
(* A get call returns a value the setting had during that call                *)
(* (device.cpp:315-553, session.cpp:84-131).                                  *)
(******************************************************************************)
THEOREM GetsAreCurrent == Spec => []GetReturnsCurrentValue
<1>1. Inductive => GetReturnsCurrentValue
  BY DEF Inductive, ReturnedInv
<1> QED
  BY <1>1, AlwaysInductive, PTL
================================================================================
