---------------------------- MODULE WindowsNotifier ----------------------------
(******************************************************************************)
(* NetworkDeviceNotifierWindows (src/src/device_notifier.cpp): the thread     *)
(* that select()s over the sockets of the pending DNS-SD requests and runs    *)
(* their callbacks, and start() and stop() on the application's thread.       *)
(*                                                                            *)
(* A service is browsed, then resolved to a host, then the host to an         *)
(* address; between the last two it is a record in mdns_records_, which the   *)
(* answer finds by its host alone.  A request gives one result, or two, of    *)
(* which the first is flagged kDNSServiceFlagsMoreComing.                     *)
(*                                                                            *)
(* Definitions named X_... are mutated forms of X, which follows them: each   *)
(* is a plausible mistake in the code that one of the properties rules out.   *)
(* The specification does not use them.                                       *)
(******************************************************************************)
EXTENDS Integers, Lists

CONSTANTS
  Services,     \* the services of the network
  Hosts,
  HostOf,       \* the host that offers each service
  MaxRequests   \* bound: DNS-SD requests made

ASSUME NotifierAssumption == HostOf \in [Services -> Hosts] /\ MaxRequests \in Nat \ {0}

VARIABLES
  caller,             \* the application: idle, joining in stop(), terminated
  monitoring,         \* between start() and stop()
  thread,             \* where the thread is
  thread_,            \* the std::thread object: joinable or not
  active_flag_,
  pending_requests_,  \* DNSServiceRefs, the newest first
  read_set_,          \* those whose socket is in the set
  mdns_records_,      \* services resolved to their host
  iter, ready,        \* the loop over the list: next element, copyed_read_set_
  requests,           \* DNS-SD: every request made
  resolved, attached  \* results of resolving and attach events, per service

controlVars == <<caller, monitoring, thread, thread_, active_flag_>>
listVars == <<pending_requests_, read_set_, mdns_records_, requests, resolved, attached>>
vars == <<controlVars, listVars, iter, ready>>

End == 0      \* pending_requests_.end()
Browse == [kind |-> "browse", of |-> ""]
Resolve(s) == [kind |-> "resolve", of |-> s]
GetAddrInfo(h) == [kind |-> "address", of |-> h]
NoResults == [s \in Services |-> 0]

(******************************************************************************)
(* The constructor and init(), which starts the browsing.                     *)
(******************************************************************************)
Init ==
  /\ caller = "idle" /\ monitoring = FALSE
  /\ thread = "none" /\ thread_ = "empty" /\ active_flag_ = FALSE
  /\ pending_requests_ = <<1>> /\ read_set_ = {1} /\ requests = <<Browse>>
  /\ mdns_records_ = <<>>
  /\ iter = End /\ ready = {}
  /\ resolved = NoResults /\ attached = NoResults

--------------------------------------------------------------------------------
(******************************************************************************)
(* Assigning to a std::thread that is joinable terminates the process.        *)
(******************************************************************************)
Start ==
  /\ caller = "idle" /\ ~monitoring
  /\ IF thread_ = "joinable"
       THEN caller' = "terminated" /\ UNCHANGED <<monitoring, thread, thread_>>
       ELSE /\ monitoring' = TRUE
            /\ thread_' = "joinable" /\ thread' = "started"
            /\ UNCHANGED caller
  /\ UNCHANGED <<active_flag_, listVars, iter, ready>>

(******************************************************************************)
(* stop() joins only if the thread has already set active_flag_.              *)
(******************************************************************************)
Stop ==
  /\ caller = "idle" /\ monitoring
  /\ monitoring' = FALSE
  /\ IF active_flag_ THEN active_flag_' = FALSE /\ caller' = "joining"
                     ELSE UNCHANGED <<active_flag_, caller>>
  /\ UNCHANGED <<thread, thread_, listVars, iter, ready>>

ThreadEnded_Detached == TRUE

ThreadEnded == thread = "exited"

Join ==
  /\ caller = "joining"
  /\ ThreadEnded
  /\ caller' = "idle"
  /\ thread_' = "empty"
  /\ UNCHANGED <<monitoring, thread, active_flag_, listVars, iter, ready>>

--------------------------------------------------------------------------------
ThreadBegins ==
  /\ thread = "started"
  /\ active_flag_' = TRUE
  /\ thread' = "select"
  /\ UNCHANGED <<caller, monitoring, thread_, listVars, iter, ready>>

(******************************************************************************)
(* The test of active_flag_ and select(), which returns after a millisecond   *)
(* if no socket is ready.                                                     *)
(******************************************************************************)
LoopEnds_OnResult == ~active_flag_ /\ ready # {}

LoopEnds == ~active_flag_

Select ==
  /\ thread = "select"
  /\ IF LoopEnds
       THEN thread' = "exited" /\ UNCHANGED <<iter, ready>>
       ELSE /\ ready' \in (SUBSET read_set_) \ {{}}
            /\ iter' = Head(pending_requests_)
            /\ thread' = "iterating"
  /\ UNCHANGED <<caller, monitoring, thread_, active_flag_, listVars>>

(******************************************************************************)
(* What the callbacks change, as a record of the variables: a new request, if *)
(* DNS-SD accepts it, goes to the front of the list and into the set.  The    *)
(* list has no request twice (ListMatchesReadSet): remove() takes one out.    *)
(* That FD_SET ignores a socket beyond the FD_SETSIZE-th (64) is left out.    *)
(******************************************************************************)
State == [pending |-> pending_requests_, read |-> read_set_, records |-> mdns_records_,
          requests |-> requests, resolved |-> resolved, attached |-> attached]

Request(s, request) ==
  LET id == Len(s.requests) + 1
  IN  [s EXCEPT !.requests = Append(@, request),
                !.pending = <<id>> \o @, !.read = @ \cup {id}]

Release_SetOnly(s, id) == [s EXCEPT !.read = @ \ {id}]

Release(s, id) ==
  [s EXCEPT !.pending = RemoveFirst(@, id), !.read = @ \ {id}]

(******************************************************************************)
(* serviceBrowseCallback: a service appeared.  One that disappeared changes   *)
(* nothing here: only the handler of DeviceManager is called (Discovery).     *)
(******************************************************************************)
BrowseCallback(s) == {Request(s, Resolve(service)) : service \in Services} \cup {s}

Recorded_Replaced(records, service) ==
  Append(SelectSeq(records, LAMBDA r : HostOf[r] # HostOf[service]), service)

Recorded(records, service) == Append(records, service)

ResolveCallback(s, id, more) ==
  LET service == s.requests[id].of
      accepted == [Request(s, GetAddrInfo(HostOf[service])) EXCEPT
                     !.records = Recorded(@, service), !.resolved[service] = @ + 1]
  IN  IF more THEN {accepted, s} ELSE {Release(accepted, id), Release(s, id)}

(******************************************************************************)
(* serviceGetAddrInfoCallback: the first record with the host is reported.    *)
(******************************************************************************)
Erased(records, p) == RemoveAt(records, p)

GetAddrInfoCallback(s, id, more) ==
  LET p == SelectInSeq(s.records, LAMBDA r : HostOf[r] = s.requests[id].of)
      found == IF p = 0 THEN s
               ELSE [s EXCEPT !.records = Erased(@, p), !.attached[s.records[p]] = @ + 1]
  IN  {IF more THEN found ELSE Release(found, id)}

Callback(s, id, more) ==
  CASE s.requests[id].kind = "browse"  -> BrowseCallback(s)
    [] s.requests[id].kind = "resolve" -> ResolveCallback(s, id, more)
    [] s.requests[id].kind = "address" -> GetAddrInfoCallback(s, id, more)

\* DNSServiceProcessResult: one result, or two
ProcessResult(id) ==
  Callback(State, id, FALSE) \cup
  UNION {Callback(s, id, FALSE) : s \in Callback(State, id, TRUE)}

(******************************************************************************)
(* The body of the loop over the list.  The iterator moves on before the      *)
(* callback runs, which may remove the current element.                       *)
(******************************************************************************)
After(pending, id) ==
  LET p == SelectInSeq(pending, LAMBDA r : r = id)
  IN  IF p = Len(pending) THEN End ELSE pending[p + 1]

Iterate ==
  /\ thread = "iterating"
  /\ \/ /\ iter = End
        /\ thread' = "select" /\ ready' = {}
        /\ UNCHANGED <<listVars, iter>>
     \/ /\ iter # End
        /\ iter' = After(pending_requests_, iter)
        /\ \E s \in IF iter \in ready THEN ProcessResult(iter) ELSE {State} :
             /\ Len(s.requests) <= MaxRequests
             /\ pending_requests_' = s.pending /\ read_set_' = s.read
             /\ mdns_records_' = s.records /\ requests' = s.requests
             /\ resolved' = s.resolved /\ attached' = s.attached
        /\ UNCHANGED <<thread, ready>>
  /\ UNCHANGED <<caller, monitoring, thread_, active_flag_>>

--------------------------------------------------------------------------------
Next == Start \/ Stop \/ Join \/ ThreadBegins \/ Select \/ Iterate

(******************************************************************************)
(* The thread runs, its callbacks return, and select() returns after its      *)
(* millisecond, so that the flag is tested again.  Results may never come.    *)
(******************************************************************************)
Fairness ==
  /\ WF_vars(ThreadBegins) /\ WF_vars(Select /\ LoopEnds) /\ WF_vars(Iterate)
  /\ WF_vars(Join)

Spec == Init /\ [][Next]_vars /\ Fairness

--------------------------------------------------------------------------------
Ids == 1..Len(requests)

Requests == {Browse} \cup {Resolve(s) : s \in Services} \cup {GetAddrInfo(h) : h \in Hosts}

TypeOK ==
  /\ caller \in {"idle", "joining", "terminated"} /\ monitoring \in BOOLEAN
  /\ thread \in {"none", "started", "select", "iterating", "exited"}
  /\ thread_ \in {"empty", "joinable"} /\ active_flag_ \in BOOLEAN
  /\ requests \in Seq(Requests)
  /\ pending_requests_ \in Seq(Ids) /\ read_set_ \subseteq Ids /\ ready \subseteq Ids
  /\ mdns_records_ \in Seq(Services)
  /\ resolved \in [Services -> Nat] /\ attached \in [Services -> Nat]

(******************************************************************************)
(* The list and the set of sockets agree, and the iterator of the loop is at  *)
(* an element of the list or at its end, although the callbacks the loop runs *)
(* add and remove elements: a request outside the set would never be served,  *)
(* one outside the list would make select() return at once for ever           *)
(* (device_notifier.cpp:229-234, 261-262, 287-294, 325-328).                  *)
(******************************************************************************)
ListMatchesReadSet ==
  /\ ToSet(pending_requests_) = read_set_
  /\ \A i, j \in DOMAIN pending_requests_ : pending_requests_[i] = pending_requests_[j] => i = j
  /\ iter \in read_set_ \cup {End}

(******************************************************************************)
(* The notifier's state is well formed and its two lists of requests agree,   *)
(* wherever in the loop a callback changes them (device_notifier.cpp:219-329).*)
(******************************************************************************)
NotifierInv == TypeOK /\ ListMatchesReadSet

\* For each host, every record that waits for its address has a request pending.
RecordsAwaitAddress ==
  \A h \in Hosts :
    Count(mdns_records_, {service \in Services : HostOf[service] = h})
      <= Count(pending_requests_, {id \in Ids : requests[id] = GetAddrInfo(h)})

(******************************************************************************)
(* Each time a service was resolved it is reported once, or still waits for   *)
(* its address, and then there is a pending request that will report it:      *)
(* services on one host do not hide each other, although an answer may take   *)
(* the record another request was made for (device_notifier.cpp:284-289,      *)
(* 304-323).                                                                  *)
(******************************************************************************)
ResolvedOnceReportedOnce ==
  /\ \A service \in Services :
       resolved[service] = attached[service] + Count(mdns_records_, {service})
  /\ RecordsAwaitAddress

(******************************************************************************)
(* Once a stop() that found active_flag_ set has returned, the thread is gone *)
(* and its object can be assigned again.  A stop() that overtakes the start   *)
(* of the thread is the only way to leave one running, or to terminate the    *)
(* process with the next start() (device_notifier.cpp:219-246).               *)
(******************************************************************************)
StoppedOrOvertaken ==
  caller = "idle" /\ ~monitoring =>
    \/ thread_ = "empty" /\ thread \in {"none", "exited"}
    \/ thread_ = "joinable" /\ (thread = "started" \/ active_flag_)

(******************************************************************************)
(* stop() returns: the loop sees active_flag_ within one round of select(),   *)
(* whether or not there are results (device_notifier.cpp:223-228, 242-245).   *)
(******************************************************************************)
StopReturns == caller = "joining" ~> caller = "idle"
================================================================================
