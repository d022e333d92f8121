------------------------------- MODULE Discovery -------------------------------
(******************************************************************************)
(* Device discovery: DeviceManager (src/src/device_manager.cpp) and the       *)
(* notifiers that feed it, each on a thread of its own, modelled on           *)
(* NetworkDeviceNotifierLinux (src/src/device_notifier.cpp).                  *)
(*                                                                            *)
(* A notifier's thread runs the loop of Avahi, which reports that a service   *)
(* has appeared (the notifier then starts a resolver) or disappeared, and the *)
(* end of each resolver.  device_entries_ changes under data_mutex_; the      *)
(* application's callback is called without it, but under event_mutex_.       *)
(* data_mutex_ has no variable: every section it guards is one step.          *)
(*                                                                            *)
(* The application mirrors the list in its callback (known): what it can know *)
(* of the devices without calling deviceEntries().                            *)
(*                                                                            *)
(* Definitions named X_... are mutated forms of X, which follows them: each   *)
(* is a plausible mistake in the code that one of the properties rules out.   *)
(* The specification does not use them.                                       *)
(******************************************************************************)
EXTENDS Naturals, Lists

CONSTANTS
  Notifiers,    \* the notifiers, and their threads
  NoNotifier,   \* holder of event_mutex_ when it is free
  Names,        \* service names, the ids of the devices
  MaxChanges    \* bound: appearances and disappearances on the network

ASSUME DiscoveryAssumption ==
  /\ NoNotifier \notin Notifiers /\ IsFiniteSet(Notifiers)
  /\ MaxChanges \in Nat

VARIABLES
  notifiers_,       \* the notifiers added to the manager
  avahi,            \* of each notifier, simple_poll_, client_ and service_browser_:
                    \* a null pointer, or one to an object that lives or is freed
  freed_twice,      \* history: what could not be made when an object was freed again
  monitoring,       \* "off", "on", or "stopping" inside stopMonitoring()
  thread,           \* thread_ of each notifier: in its loop, waiting for
                    \* event_mutex_, or in the application's callback
  quit,             \* avahi_simple_poll_quit was called
  present,          \* the services a notifier's network offers
  events,           \* browser events Avahi has yet to report
  resolving,        \* resolvers in progress, for each service
  event_mutex_,     \* the notifier that holds it, or NoNotifier
  device_entries_,  \* entries of the list: the service and who found it
  report,           \* the event a notifier is reporting to the manager
  known,            \* the list as the application knows it from its callback
  changes,          \* number of changes on the network
  unsettled         \* history: services whose removal overtook their resolver,
                    \* or whose resolver failed

networkVars == <<present, events, changes>>
initVars == <<notifiers_, avahi, freed_twice>>
managerVars == <<initVars, monitoring, quit>>
vars == <<managerVars, thread, networkVars, resolving, event_mutex_, device_entries_,
          report, known, unsettled>>

Entry == [name : Names, from : Notifiers]
Nothing == [event |-> "none"]

Pointers == [{"poll", "client", "browser"} -> {"null", "live", "freed"}]

Init ==
  /\ notifiers_ = {}
  /\ avahi = [n \in Notifiers |-> [p \in {"poll", "client", "browser"} |-> "null"]]
  /\ freed_twice = {}
  /\ monitoring = "off"
  /\ thread = [n \in Notifiers |-> "none"]
  /\ quit = [n \in Notifiers |-> FALSE]
  /\ present = [n \in Notifiers |-> {}]
  /\ events = [n \in Notifiers |-> <<>>]
  /\ resolving = [n \in Notifiers |-> [d \in Names |-> 0]]
  /\ event_mutex_ = NoNotifier
  /\ device_entries_ = <<>>
  /\ report = [n \in Notifiers |-> Nothing]
  /\ known = <<>>
  /\ changes = 0
  /\ unsettled = {}

--------------------------------------------------------------------------------
(******************************************************************************)
(* init() of the notifier: it makes its three Avahi objects one after the     *)
(* other.  At the first that cannot be made it frees those its pointers lead  *)
(* to, and leaves the pointers as they are.                                   *)
(******************************************************************************)
Failed_KeepsPointer(pointer) == pointer

Failed(pointer) == "null"

Attempts(o) ==
  {[failed |-> "poll", made |-> [o EXCEPT !["poll"] = Failed(@)]],
   [failed |-> "client", made |-> [o EXCEPT !["poll"] = "live", !["client"] = Failed(@)]],
   [failed |-> "browser", made |-> [o EXCEPT !["poll"] = "live", !["client"] = "live",
                                             !["browser"] = Failed(@)]],
   [failed |-> "none", made |-> [p \in DOMAIN o |-> "live"]]}

CleanUp(o) == [p \in DOMAIN o |-> IF o[p] = "null" THEN "null" ELSE "freed"]

(******************************************************************************)
(* The application's thread.  A notifier is added before monitoring starts,   *)
(* again if that failed, and monitoring is not started twice: starting a      *)
(* notifier whose thread runs ends the process.                               *)
(******************************************************************************)
AddDeviceNotifier(n) ==
  /\ monitoring = "off"
  /\ n \notin notifiers_
  /\ \E attempt \in Attempts(avahi[n]) :
       IF attempt.failed = "none"
         THEN /\ notifiers_' = notifiers_ \cup {n}
              /\ avahi' = [avahi EXCEPT ![n] = attempt.made]
              /\ UNCHANGED freed_twice
         ELSE /\ avahi' = [avahi EXCEPT ![n] = CleanUp(attempt.made)]
              /\ freed_twice' = IF \E p \in DOMAIN attempt.made : attempt.made[p] = "freed"
                                  THEN freed_twice \cup {attempt.failed} ELSE freed_twice
              /\ UNCHANGED notifiers_
  /\ UNCHANGED <<monitoring, quit, thread, networkVars, resolving, event_mutex_,
                 device_entries_, report, known, unsettled>>

StartMonitoring ==
  /\ monitoring = "off"
  /\ monitoring' = "on"
  /\ thread' = [n \in Notifiers |-> IF n \in notifiers_ THEN "loop" ELSE "none"]
  /\ quit' = [n \in Notifiers |-> FALSE]
  /\ UNCHANGED <<initVars, networkVars, resolving, event_mutex_, device_entries_,
                 report, known, unsettled>>

(******************************************************************************)
(* stopMonitoring() tells the notifiers to quit, one after the other, and     *)
(* joins the thread of each before it goes on to the next.                    *)
(******************************************************************************)
StopMonitoring ==
  /\ monitoring = "on"
  /\ monitoring' = "stopping"
  /\ UNCHANGED <<initVars, quit, thread, networkVars, resolving, event_mutex_,
                 device_entries_, report, known, unsettled>>

StopNotifier(n) ==
  /\ monitoring = "stopping"
  /\ n \in notifiers_ /\ ~quit[n]
  /\ \A m \in notifiers_ : quit[m] => thread[m] = "none"
  /\ quit' = [quit EXCEPT ![n] = TRUE]
  /\ UNCHANGED <<initVars, monitoring, thread, networkVars, resolving, event_mutex_,
                 device_entries_, report, known, unsettled>>

Joined_Never(n) == TRUE

Joined(n) == thread[n] = "none"

MonitoringStopped ==
  /\ monitoring = "stopping"
  /\ \A n \in notifiers_ : quit[n] /\ Joined(n)
  /\ monitoring' = "off"
  /\ UNCHANGED <<initVars, quit, thread, networkVars, resolving, event_mutex_,
                 device_entries_, report, known, unsettled>>

--------------------------------------------------------------------------------
(******************************************************************************)
(* onDeviceAttached and onDeviceDetached up to the callback: event_mutex_ is  *)
(* taken and the list changed.  A removal concerns the first entry with the   *)
(* name, whoever found it, and is not reported if there is none.              *)
(******************************************************************************)
EventMutexIsFree_Unchecked == TRUE

EventMutexIsFree == event_mutex_ = NoNotifier

Positions(list, name) == {i \in DOMAIN list : list[i].name = name}

OnDeviceAttached(n) ==
  /\ thread[n] = "waiting" /\ report[n].event = "attached"
  /\ EventMutexIsFree
  /\ event_mutex_' = n
  /\ device_entries_' = Append(device_entries_, report[n].entry)
  /\ thread' = [thread EXCEPT ![n] = "callback"]
  /\ UNCHANGED <<managerVars, networkVars, resolving, report, known, unsettled>>

Erase_Kept(list, i) == list

Erase(list, i) == RemoveAt(list, i)

OnDeviceDetached(n) ==
  LET positions == Positions(device_entries_, report[n].entry.name)
      position == Min(positions)
  IN  /\ thread[n] = "waiting" /\ report[n].event = "detached"
      /\ EventMutexIsFree
      /\ IF positions # {}
           THEN /\ event_mutex_' = n
                /\ device_entries_' = Erase(device_entries_, position)
                /\ report' = [report EXCEPT ![n].entry = device_entries_[position]]
                /\ thread' = [thread EXCEPT ![n] = "callback"]
           ELSE /\ report' = [report EXCEPT ![n] = Nothing]
                /\ thread' = [thread EXCEPT ![n] = "loop"]
                /\ UNCHANGED <<event_mutex_, device_entries_>>
      /\ UNCHANGED <<managerVars, networkVars, resolving, known, unsettled>>

(******************************************************************************)
(* The callback of the application runs, and event_mutex_ is released.        *)
(******************************************************************************)
Released_Never == event_mutex_

Released == NoNotifier

CallbackReturns(n) ==
  LET mirrored == {i \in DOMAIN known : known[i] = report[n].entry}
  IN  /\ thread[n] = "callback"
      /\ known' = IF report[n].event = "attached" THEN Append(known, report[n].entry)
                   ELSE IF mirrored = {} THEN known
                   ELSE RemoveAt(known, Min(mirrored))
      /\ report' = [report EXCEPT ![n] = Nothing]
      /\ event_mutex_' = Released
      /\ thread' = [thread EXCEPT ![n] = "loop"]
      /\ UNCHANGED <<managerVars, networkVars, resolving, device_entries_, unsettled>>

--------------------------------------------------------------------------------
(******************************************************************************)
(* A notifier calls device_attach_handler_ or device_detach_handler_.         *)
(******************************************************************************)
Report(n, event, name) ==
  /\ report' = [report EXCEPT ![n] = [event |-> event, entry |-> [name |-> name, from |-> n]]]
  /\ thread' = [thread EXCEPT ![n] = "waiting"]

(******************************************************************************)
(* serviceBrowserCallback: a new service is resolved first, a removal is      *)
(* reported at once.                                                          *)
(******************************************************************************)
ServiceBrowserCallback(n) ==
  LET event == Head(events[n])
  IN  /\ thread[n] = "loop"
      /\ events[n] # <<>>
      /\ events' = [events EXCEPT ![n] = Tail(@)]
      /\ \/ /\ event.kind = "NEW"
            /\ resolving' = [resolving EXCEPT ![n][event.name] = @ + 1]
            /\ UNCHANGED <<report, thread, unsettled>>
         \/ /\ event.kind = "REMOVE"
            /\ Report(n, "detached", event.name)
            /\ unsettled' = IF resolving[n][event.name] > 0
                              THEN unsettled \cup {event.name} ELSE unsettled
            /\ UNCHANGED resolving
      /\ UNCHANGED <<managerVars, present, changes, event_mutex_, device_entries_, known>>

(******************************************************************************)
(* serviceResolverCallback: the service was resolved, or the resolver failed; *)
(* the resolver is freed.                                                     *)
(******************************************************************************)
Freed(resolvers) == resolvers - 1

ServiceResolverCallback(n) ==
  \E name \in Names :
    /\ thread[n] = "loop"
    /\ resolving[n][name] > 0
    /\ resolving' = [resolving EXCEPT ![n][name] = Freed(@)]
    /\ \/ Report(n, "attached", name) /\ UNCHANGED unsettled
       \/ unsettled' = unsettled \cup {name} /\ UNCHANGED <<report, thread>>
    /\ UNCHANGED <<managerVars, networkVars, event_mutex_, device_entries_, known>>

LeaveLoop(n) ==
  /\ thread[n] = "loop"
  /\ quit[n]
  /\ thread' = [thread EXCEPT ![n] = "none"]
  /\ UNCHANGED <<managerVars, networkVars, resolving, event_mutex_, device_entries_,
                 report, known, unsettled>>

(******************************************************************************)
(* The network, as the browser of the notifier sees it.                       *)
(******************************************************************************)
Change(n, name) ==
  LET gone == name \in present[n]
      kind == IF gone THEN "REMOVE" ELSE "NEW"
  IN  /\ n \in notifiers_
      /\ changes < MaxChanges
      /\ changes' = changes + 1
      /\ present' = [present EXCEPT ![n] = IF gone THEN @ \ {name} ELSE @ \cup {name}]
      /\ events' = [events EXCEPT ![n] = Append(@, [kind |-> kind, name |-> name])]
      /\ UNCHANGED <<managerVars, thread, resolving, event_mutex_, device_entries_,
                     report, known, unsettled>>

Loop(n) ==
  \/ ServiceBrowserCallback(n) \/ ServiceResolverCallback(n)
  \/ OnDeviceAttached(n) \/ OnDeviceDetached(n) \/ CallbackReturns(n)
  \/ LeaveLoop(n)

Next ==
  \/ StartMonitoring \/ StopMonitoring \/ MonitoringStopped
  \/ \E n \in Notifiers : AddDeviceNotifier(n) \/ StopNotifier(n) \/ Loop(n)
  \/ \E n \in Notifiers, name \in Names : Change(n, name)

(******************************************************************************)
(* The threads run: a callback returns, a thread that waits for event_mutex_  *)
(* gets it, one told to quit leaves its loop, and stopMonitoring goes on.     *)
(******************************************************************************)
Fairness ==
  /\ \A n \in Notifiers :
       /\ WF_vars(OnDeviceAttached(n)) /\ WF_vars(OnDeviceDetached(n))
       /\ WF_vars(CallbackReturns(n))
       /\ WF_vars(LeaveLoop(n))
       /\ WF_vars(StopNotifier(n))
  /\ WF_vars(MonitoringStopped)

Spec == Init /\ [][Next]_vars /\ Fairness

--------------------------------------------------------------------------------
TypeOK ==
  /\ notifiers_ \subseteq Notifiers
  /\ avahi \in [Notifiers -> Pointers]
  /\ freed_twice \subseteq {"poll", "client", "browser"}
  /\ monitoring \in {"off", "on", "stopping"}
  /\ thread \in [Notifiers -> {"none", "loop", "waiting", "callback"}]
  /\ quit \in [Notifiers -> BOOLEAN]
  /\ present \in [Notifiers -> SUBSET Names]
  /\ events \in [Notifiers -> Seq([kind : {"NEW", "REMOVE"}, name : Names])]
  /\ resolving \in [Notifiers -> [Names -> Nat]]
  /\ event_mutex_ \in Notifiers \cup {NoNotifier}
  /\ device_entries_ \in Seq(Entry)
  /\ report \in [Notifiers -> {Nothing} \cup [event : {"attached", "detached"}, entry : Entry]]
  /\ known \in Seq(Entry)
  /\ changes \in 0..MaxChanges
  /\ unsettled \subseteq Names

(******************************************************************************)
(* A notifier that was added has live Avahi objects, however often adding it  *)
(* failed before.  An object is freed a second time in one case only, when    *)
(* not even the poll can be made after an attempt that failed at the browser  *)
(* (device_notifier.cpp:50-73, device_manager.cpp:26-34).                     *)
(******************************************************************************)
AddedNotifierIsLive ==
  /\ \A n \in notifiers_ : \A p \in DOMAIN avahi[n] : avahi[n][p] = "live"
  /\ freed_twice \subseteq {"poll"}

(******************************************************************************)
(* The state of the manager and its notifiers is well formed, and no notifier *)
(* runs on objects that init() has freed (device_manager.cpp:26-90,           *)
(* device_notifier.cpp:50-84).                                                *)
(******************************************************************************)
DiscoveryInv == TypeOK /\ AddedNotifierIsLive

(******************************************************************************)
(* The callback reports every change of the list, and in the order in which   *)
(* they happen although several notifiers report at once: an application that *)
(* follows its callback knows the list, but for the one event being reported  *)
(* (device_manager.cpp:63-90).                                                *)
(******************************************************************************)
CallbackMirrorsList ==
  /\ event_mutex_ = NoNotifier => known = device_entries_
  /\ \A n \in Notifiers :
       thread[n] = "callback" /\ report[n].event = "attached" =>
         device_entries_ = Append(known, report[n].entry)

(******************************************************************************)
(* Once all events are handled, the list has an entry for every network that  *)
(* offers the service, unless a removal overtook a resolver (the list then    *)
(* keeps an entry of a device that is gone) or a resolver failed              *)
(* (device_notifier.cpp:98-110, 122-143, device_manager.cpp:74-87).           *)
(******************************************************************************)
Settled ==
  \A n \in Notifiers :
    events[n] = <<>> /\ thread[n] # "waiting" /\ \A name \in Names : resolving[n][name] = 0

ListMatchesNetwork ==
  Settled =>
    \A name \in Names \ unsettled :
      Cardinality(Positions(device_entries_, name))
        = Cardinality({n \in Notifiers : name \in present[n]})

(******************************************************************************)
(* When stopMonitoring() has returned no callback is running or will run      *)
(* until monitoring is started again (device_manager.cpp:43-50,               *)
(* device_notifier.cpp:80-84).                                                *)
(******************************************************************************)
NoCallbackWhenStopped ==
  [][monitoring = "off" /\ monitoring' = "off" =>
       known' = known /\ device_entries_' = device_entries_]_vars

(******************************************************************************)
(* stopMonitoring() returns, also when it is called while notifiers report    *)
(* events and wait for event_mutex_ (device_manager.cpp:43-50, 65, 76).       *)
(******************************************************************************)
StopReturns == monitoring = "stopping" ~> monitoring = "off"
================================================================================
