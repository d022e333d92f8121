------------------------------ MODULE DeviceOpen -------------------------------
(******************************************************************************)
(* The objects of the application: DeviceBase and the Device made from it by  *)
(* a move (src/src/device_base.cpp), Device::open with its negotiation of     *)
(* out-of-band reception (src/src/device.cpp), and the out-of-band sockets    *)
(* of several devices in one process.                                         *)
(*                                                                            *)
(* Each command of Device::open is one step: it is answered, or fails.        *)
(* Between the steps the connection may be lost, and other clients may change *)
(* the settings of the device.  The lambda of disconnect() and the join that  *)
(* waits for it are one step here; Transport has their interleavings.         *)
(*                                                                            *)
(* Definitions named X_... are mutated forms of X, which follows them: each   *)
(* is a plausible mistake in the code that one of the properties rules out.   *)
(* The specification does not use them.                                       *)
(******************************************************************************)
EXTENDS Integers, Sequences

CONSTANTS
  Devices,   \* the devices of the network, each with its objects
  Ports,     \* the out-of-band ports they may be set to
  NoPort

ASSUME OpenAssumption == NoPort \notin Ports

VARIABLES
  session_,      \* for each device and each object made for it, its session_
  transport_,    \* "null" or "connected"
  link,          \* whether worker_thread_ still reads from the connection
  pc,            \* where Device::open is
  result,        \* what the last open() returned
  target_port,   \* the port the device answered, NoPort if it was not asked
  sockets,       \* for each device, the ports of the sockets bound for it
  enabled,       \* setting of the device: out-of-band streaming
  port           \* setting of the device: where it streams to

objectVars == <<session_, transport_, link, sockets>>
settings == <<enabled, port>>
openVars == <<pc, result, target_port>>
applicationVars == <<objectVars, openVars, settings>>

Objects == {"base", "device"}

IsOpened(d) == transport_[d] = "connected"

OpenInit ==
  /\ session_ = [d \in Devices |-> [o \in Objects |-> "none"]]
  /\ transport_ = [d \in Devices |-> "null"]
  /\ link = [d \in Devices |-> FALSE]
  /\ pc = [d \in Devices |-> "idle"]
  /\ result = [d \in Devices |-> "none"]
  /\ target_port = [d \in Devices |-> NoPort]
  /\ sockets = [d \in Devices |-> <<>>]
  /\ enabled \in [Devices -> BOOLEAN]
  /\ port \in [Devices -> Ports]

--------------------------------------------------------------------------------
(******************************************************************************)
(* Session::close.                                                            *)
(******************************************************************************)
Unbound_Kept(d) == sockets

Unbound(d) == [sockets EXCEPT ![d] = <<>>]

Close(d) ==
  /\ transport_' = [transport_ EXCEPT ![d] = "null"]
  /\ link' = [link EXCEPT ![d] = FALSE]
  /\ sockets' = Unbound(d)

(******************************************************************************)
(* The constructors.  A Device that is moved from a DeviceBase takes its      *)
(* session, open or not.                                                      *)
(******************************************************************************)
Construct(d, o) ==
  /\ session_[d] = [x \in Objects |-> "none"]
  /\ session_' = [session_ EXCEPT ![d][o] = "held"]
  /\ UNCHANGED <<transport_, link, sockets, openVars, settings>>

Move(d) ==
  /\ pc[d] = "idle"
  /\ session_[d]["base"] = "held" /\ session_[d]["device"] = "none"
  /\ session_' = [session_ EXCEPT ![d]["base"] = "null", ![d]["device"] = "held"]
  /\ UNCHANGED <<transport_, link, sockets, openVars, settings>>

(******************************************************************************)
(* ~DeviceBase.                                                               *)
(******************************************************************************)
Destroy(d, o) ==
  /\ pc[d] = "idle"
  /\ session_[d][o] # "none"
  /\ session_' = [session_ EXCEPT ![d][o] = "none"]
  /\ IF session_[d][o] = "held" /\ IsOpened(d)
       THEN Close(d)
       ELSE UNCHANGED <<transport_, link, sockets>>
  /\ UNCHANGED <<openVars, settings>>

CloseCalled(d, o) ==
  /\ pc[d] = "idle"
  /\ session_[d][o] = "held"
  /\ Close(d)
  /\ UNCHANGED <<session_, openVars, settings>>

--------------------------------------------------------------------------------
(******************************************************************************)
(* DeviceBase::open, for either class: on a session that is not open, since   *)
(* it would otherwise destroy a transport whose thread runs.                  *)
(******************************************************************************)
OpenReturns(d, error) ==
  /\ pc' = [pc EXCEPT ![d] = "idle"]
  /\ result' = [result EXCEPT ![d] = error]

Open(d, o) ==
  /\ pc[d] = "idle"
  /\ session_[d][o] = "held"
  /\ ~IsOpened(d)
  /\ target_port' = [target_port EXCEPT ![d] = NoPort]
  /\ \/ /\ transport_' = [transport_ EXCEPT ![d] = "connected"]
        /\ link' = [link EXCEPT ![d] = TRUE]
        /\ IF o = "device"
             THEN pc' = [pc EXCEPT ![d] = "isOobEnabled"] /\ UNCHANGED result
             ELSE OpenReturns(d, "no_error")
     \/ /\ \E error \in {"timed_out", "connection_refused", "unknown"} : OpenReturns(d, error)
        /\ UNCHANGED <<transport_, link>>
  /\ UNCHANGED <<session_, sockets, settings>>

(******************************************************************************)
(* A failed isOobEnabled counts as "not enabled".                             *)
(******************************************************************************)
IsOobEnabled(d) ==
  /\ pc[d] = "isOobEnabled"
  /\ \/ link[d] /\ enabled[d] /\ pc' = [pc EXCEPT ![d] = "getOobTargetPort"] /\ UNCHANGED result
     \/ link[d] /\ ~enabled[d] /\ OpenReturns(d, "no_error")
     \/ OpenReturns(d, "no_error")
  /\ UNCHANGED <<objectVars, target_port, settings>>

GetOobTargetPort(d) ==
  /\ pc[d] = "getOobTargetPort"
  /\ \/ /\ link[d]
        /\ target_port' = [target_port EXCEPT ![d] = port[d]]
        /\ pc' = [pc EXCEPT ![d] = "enableOob"]
        /\ UNCHANGED <<objectVars, result>>
     \/ /\ Close(d)
        /\ OpenReturns(d, "unknown")
        /\ UNCHANGED <<session_, target_port>>
  /\ UNCHANGED settings

(******************************************************************************)
(* enableOob: the socket is bound with reuse_address, so another device of    *)
(* this process does not prevent it; some other program may.                  *)
(******************************************************************************)
AfterBindError_StaysOpen(d) == UNCHANGED <<transport_, link, sockets>>

AfterBindError(d) == Close(d)

EnableOobTransport(d) ==
  /\ pc[d] = "enableOob"
  /\ \/ /\ sockets' = [sockets EXCEPT ![d] = Append(@, target_port[d])]
        /\ OpenReturns(d, "no_error")
        /\ UNCHANGED <<transport_, link>>
     \/ /\ AfterBindError(d)
        /\ \E error \in {"address_in_use", "unknown"} : OpenReturns(d, error)
  /\ UNCHANGED <<session_, target_port, settings>>

--------------------------------------------------------------------------------
(******************************************************************************)
(* The connection is lost: nothing is read from it any more.  worker_thread_  *)
(* ends unless a reception from the out-of-band socket keeps it running.      *)
(******************************************************************************)
LoseLink(d) ==
  /\ link[d]
  /\ link' = [link EXCEPT ![d] = FALSE]
  /\ UNCHANGED <<session_, transport_, sockets, openVars, settings>>

ChangeSettings(d) ==
  /\ enabled' \in [Devices -> BOOLEAN] /\ \A e \in Devices \ {d} : enabled'[e] = enabled[e]
  /\ port' \in [Devices -> Ports] /\ \A e \in Devices \ {d} : port'[e] = port[e]
  /\ UNCHANGED <<objectVars, openVars>>

--------------------------------------------------------------------------------
OpenNext ==
  \E d \in Devices :
    \/ \E o \in Objects : Construct(d, o) \/ Destroy(d, o) \/ Open(d, o) \/ CloseCalled(d, o)
    \/ Move(d)
    \/ IsOobEnabled(d) \/ GetOobTargetPort(d) \/ EnableOobTransport(d)
    \/ LoseLink(d) \/ ChangeSettings(d)

OpenSpec == OpenInit /\ [][OpenNext]_applicationVars

--------------------------------------------------------------------------------
OpenTypeOK ==
  /\ session_ \in [Devices -> [Objects -> {"none", "held", "null"}]]
  /\ transport_ \in [Devices -> {"null", "connected"}]
  /\ link \in [Devices -> BOOLEAN]
  /\ pc \in [Devices -> {"idle", "isOobEnabled", "getOobTargetPort", "enableOob"}]
  /\ result \in [Devices -> {"none", "no_error", "timed_out", "connection_refused",
                             "unknown", "address_in_use"}]
  /\ target_port \in [Devices -> Ports \cup {NoPort}]
  /\ sockets \in [Devices -> Seq(Ports)]
  /\ enabled \in [Devices -> BOOLEAN] /\ port \in [Devices -> Ports]

(******************************************************************************)
(* A Device::open that fails at any of its steps leaves nothing behind: no    *)
(* connection and no socket (device.cpp:35-39).                               *)
(******************************************************************************)
FailedOpenIsClosed ==
  \A d \in Devices :
    pc[d] = "idle" /\ result[d] \notin {"none", "no_error"} => ~IsOpened(d) /\ sockets[d] = <<>>

(******************************************************************************)
(* A socket exists only while the connection it belongs to is open, is the    *)
(* only one of its device, and is bound to the port the device answered,      *)
(* across moves, lost connections, failures and reopenings (device.cpp:30-34, *)
(* session.cpp:47-58, transport.cpp:125-126, 157-183).                        *)
(******************************************************************************)
SocketBelongsToOpenDevice ==
  \A d \in Devices : sockets[d] # <<>> => IsOpened(d) /\ sockets[d] = <<target_port[d]>>

(******************************************************************************)
(* A connection is open only while exactly one object holds its session:      *)
(* a move leaves no second owner, whose destructor would close it, and no     *)
(* object ends without closing it (device_base.cpp:19-29).                    *)
(******************************************************************************)
OpenHasOneOwner ==
  \A d \in Devices :
    IsOpened(d) => \E o \in Objects : \A x \in Objects : session_[d][x] = "held" <=> x = o

\* A negotiation in progress has a connection and no socket yet, and no two
\* objects hold one session, open or not.
NegotiationInv ==
  \A d \in Devices :
    /\ pc[d] # "idle" => IsOpened(d) /\ sockets[d] = <<>>
    /\ pc[d] = "enableOob" => target_port[d] \in Ports
    /\ ~(session_[d]["base"] = "held" /\ session_[d]["device"] = "held")

(******************************************************************************)
(* The state has its type, and all of these hold (see there).                 *)
(******************************************************************************)
OpenInv ==
  /\ OpenTypeOK
  /\ NegotiationInv
  /\ SocketBelongsToOpenDevice
  /\ OpenHasOneOwner
================================================================================
