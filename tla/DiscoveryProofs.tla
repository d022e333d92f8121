---------------------------- MODULE DiscoveryProofs ----------------------------
(******************************************************************************)
(* Proofs that Discovery keeps its invariants for every set of notifiers and  *)
(* service names and every number of changes on the network.                  *)
(******************************************************************************)
EXTENDS Discovery, ListProofs

(******************************************************************************)
(* The inductive invariant.  A notifier that was not added has no browser to  *)
(* be freed again: its init() either never came that far, or failed there and *)
(* left a null pointer.                                                       *)
(******************************************************************************)
PointersInv ==
  /\ AddedNotifierIsLive
  /\ \A n \in Notifiers \ notifiers_ : avahi[n]["browser"] = "null"

(******************************************************************************)
(* Threads run only for notifiers that were added, and only while monitoring. *)
(******************************************************************************)
ThreadsInv ==
  /\ monitoring = "off" => \A n \in Notifiers : thread[n] = "none"
  /\ \A n \in Notifiers : thread[n] # "none" => n \in notifiers_
  /\ \A n \in Notifiers : thread[n] \in {"waiting", "callback"} => report[n] # Nothing

(******************************************************************************)
(* event_mutex_ is held by the one notifier whose callback runs; that         *)
(* callback is told the one difference between the list and what the          *)
(* application knows.                                                         *)
(******************************************************************************)
Mirrored(list, entry) == {i \in DOMAIN list : list[i] = entry}

MutexInv ==
  /\ \A n \in Notifiers : thread[n] = "callback" <=> event_mutex_ = n
  /\ event_mutex_ = NoNotifier => known = device_entries_
  /\ \A n \in Notifiers :
       thread[n] = "callback" =>
         \/ report[n].event = "attached" /\ device_entries_ = Append(known, report[n].entry)
         \/ /\ report[n].event = "detached" /\ Mirrored(known, report[n].entry) # {}
            /\ device_entries_ = RemoveAt(known, Min(Mirrored(known, report[n].entry)))

Inductive == TypeOK /\ PointersInv /\ ThreadsInv /\ MutexInv

--------------------------------------------------------------------------------
(******************************************************************************)
(* There is only one least element.                                           *)
(******************************************************************************)
LEMMA MinIsUnique ==
  ASSUME NEW positions, positions \subseteq Nat, NEW i \in positions,
         \A j \in positions : i <= j
  PROVE  Min(positions) = i
<1>1. Min(positions) \in positions /\ \A j \in positions : Min(positions) <= j
  BY MinIsLeast
<1>2. Min(positions) \in Nat /\ i \in Nat /\ Min(positions) <= i /\ i <= Min(positions)
  BY <1>1
<1> QED
  BY <1>2

(******************************************************************************)
(* Erasing an entry leaves a list (device_manager.cpp:80-83).                 *)
(******************************************************************************)
LEMMA WithoutType ==
  ASSUME NEW list \in Seq(Entry), NEW i \in DOMAIN list
  PROVE  RemoveAt(list, i) \in Seq(Entry)
<1>1. i \in 1..Len(list)
  OBVIOUS
<1> QED
  BY <1>1, RemoveAtFacts

(******************************************************************************)
(* The entry a removal erases is the first with its name, hence the first of  *)
(* its kind, which is the one the application drops from its mirror           *)
(* (device_manager.cpp:77-87).                                                *)
(******************************************************************************)
LEMMA ErasedIsFirst ==
  ASSUME NEW list \in Seq(Entry), NEW name, Positions(list, name) # {}
  PROVE  LET position == Min(Positions(list, name))
         IN  /\ position \in DOMAIN list /\ list[position] \in Entry
             /\ Mirrored(list, list[position]) # {}
             /\ Min(Mirrored(list, list[position])) = position
<1> DEFINE position == Min(Positions(list, name))
           same == Mirrored(list, list[position])
<1>1. DOMAIN list = 1..Len(list) /\ Len(list) \in Nat
  OBVIOUS
<1>2. Positions(list, name) \subseteq Nat
  BY <1>1 DEF Positions
<1>3. position \in Positions(list, name) /\ \A j \in Positions(list, name) : position <= j
  BY <1>2, MinIsLeast
<1>4. position \in DOMAIN list /\ list[position].name = name
  BY <1>3 DEF Positions
<1> HIDE DEF position
<1>5. list[position] \in Entry
  BY <1>1, <1>4, ElementOfSeq
<1>6. same \subseteq Nat /\ position \in same /\ same \subseteq Positions(list, name)
  BY <1>1, <1>4 DEF Mirrored, Positions
<1> HIDE DEF same
<1>7. Min(same) = position
  BY <1>3, <1>6, MinIsUnique
<1> QED
  BY <1>4, <1>5, <1>6, <1>7 DEF position, same

--------------------------------------------------------------------------------
(******************************************************************************)
(* A report is Nothing or an event with the entry it is about.                *)
(******************************************************************************)
LEMMA ReportFacts ==
  ASSUME TypeOK, NEW n \in Notifiers
  PROVE  /\ report[n] # Nothing =>
              report[n].event \in {"attached", "detached"} /\ report[n].entry \in Entry
         /\ report[n].event = "attached" \/ report[n].event = "detached" => report[n] # Nothing
<1>1. report[n] \in {Nothing} \cup [event : {"attached", "detached"}, entry : Entry]
  BY DEF TypeOK
<1> QED
  BY <1>1 DEF Nothing

(******************************************************************************)
(* The reports a notifier makes are of that form                              *)
(* (device_notifier.cpp:98-143).                                              *)
(******************************************************************************)
LEMMA ReportType ==
  ASSUME NEW n \in Notifiers, NEW name \in Names, NEW event \in {"attached", "detached"},
         report \in [Notifiers -> {Nothing} \cup [event : {"attached", "detached"}, entry : Entry]]
  PROVE  [report EXCEPT ![n] = [event |-> event, entry |-> [name |-> name, from |-> n]]]
           \in [Notifiers -> {Nothing} \cup [event : {"attached", "detached"}, entry : Entry]]
<1>1. [name |-> name, from |-> n] \in Entry
  BY DEF Entry
<1>2. [event |-> event, entry |-> [name |-> name, from |-> n]]
        \in [event : {"attached", "detached"}, entry : Entry]
  BY <1>1
<1> QED
  BY <1>2

(******************************************************************************)
(* What one attempt of init() leaves (device_notifier.cpp:50-73).             *)
(******************************************************************************)
Tried(n, attempt) ==
  IF attempt.failed = "none"
    THEN /\ notifiers_' = notifiers_ \cup {n}
         /\ avahi' = [avahi EXCEPT ![n] = attempt.made]
         /\ freed_twice' = freed_twice
    ELSE /\ avahi' = [avahi EXCEPT ![n] = CleanUp(attempt.made)]
         /\ freed_twice' = IF \E p \in DOMAIN attempt.made : attempt.made[p] = "freed"
                             THEN freed_twice \cup {attempt.failed} ELSE freed_twice
         /\ notifiers_' = notifiers_

(******************************************************************************)
(* The state stays well formed under the calls of the application             *)
(* (device_manager.cpp:26-50, device_notifier.cpp:50-84).                     *)
(******************************************************************************)
LEMMA TypeOfCalls ==
  ASSUME TypeOK, NEW n \in Notifiers,
         AddDeviceNotifier(n) \/ StopNotifier(n)
  PROVE  TypeOK'
<1> USE DiscoveryAssumption DEF initVars, networkVars
<1>1. CASE AddDeviceNotifier(n)
  <2>1. avahi[n] \in Pointers
    BY DEF TypeOK
  <2>2. \A attempt \in Attempts(avahi[n]) :
          /\ attempt.made \in Pointers /\ CleanUp(attempt.made) \in Pointers
          /\ attempt.failed \in {"poll", "client", "browser", "none"}
    BY <2>1 DEF Attempts, Failed, CleanUp, Pointers
  <2>3. PICK attempt \in Attempts(avahi[n]) : Tried(n, attempt)
    BY <1>1 DEF AddDeviceNotifier, Tried
  <2>4. avahi' \in [Notifiers -> Pointers]
    BY <2>2, <2>3 DEF Tried, TypeOK
  <2>5. notifiers_' \subseteq Notifiers /\ freed_twice' \subseteq {"poll", "client", "browser"}
    <3>1. notifiers_ \subseteq Notifiers /\ freed_twice \subseteq {"poll", "client", "browser"}
      BY DEF TypeOK
    <3>2. CASE attempt.failed = "none"
      <4>1. notifiers_' = notifiers_ \cup {n} /\ freed_twice' = freed_twice
        BY <2>3, <3>2 DEF Tried
      <4> QED
        BY <3>1, <4>1
    <3>3. CASE attempt.failed # "none"
      <4>1. attempt.failed \in {"poll", "client", "browser"}
        BY <2>2, <3>3
      <4>2. /\ notifiers_' = notifiers_
            /\ freed_twice' = freed_twice \/ freed_twice' = freed_twice \cup {attempt.failed}
        BY <2>3, <3>3 DEF Tried
      <4> QED
        BY <3>1, <4>1, <4>2
    <3> QED
      BY <3>2, <3>3
  <2>6. UNCHANGED <<monitoring, quit, thread, present, events, changes, resolving, event_mutex_,
                    device_entries_, report, known, unsettled>>
    BY <1>1 DEF AddDeviceNotifier
  <2> QED
    BY <2>4, <2>5, <2>6 DEF TypeOK
<1>2. CASE StopNotifier(n)
  BY <1>2 DEF StopNotifier, TypeOK
<1> QED
  BY <1>1, <1>2

(******************************************************************************)
(* As well as under those that concern all notifiers                          *)
(* (device_manager.cpp:36-50).                                                *)
(******************************************************************************)
LEMMA TypeOfStart ==
  ASSUME TypeOK, StartMonitoring \/ StopMonitoring \/ MonitoringStopped
  PROVE  TypeOK'
<1> USE DEF initVars, networkVars
<1>1. CASE StartMonitoring
  BY <1>1 DEF StartMonitoring, TypeOK
<1>2. CASE StopMonitoring \/ MonitoringStopped
  BY <1>2 DEF StopMonitoring, MonitoringStopped, TypeOK
<1> QED
  BY <1>1, <1>2

(******************************************************************************)
(* And under the steps of a notifier's thread and the network                 *)
(* (device_manager.cpp:63-90, device_notifier.cpp:92-146).                    *)
(******************************************************************************)
LEMMA TypeOfThread ==
  ASSUME TypeOK, NEW n \in Notifiers, Loop(n) \/ \E name \in Names : Change(n, name)
  PROVE  TypeOK'
<1> USE DiscoveryAssumption DEF managerVars, initVars, networkVars
<1>0. /\ device_entries_ \in Seq(Entry) /\ known \in Seq(Entry)
      /\ thread \in [Notifiers -> {"none", "loop", "waiting", "callback"}]
      /\ report \in [Notifiers -> {Nothing} \cup [event : {"attached", "detached"}, entry : Entry]]
      /\ resolving \in [Notifiers -> [Names -> Nat]]
      /\ events \in [Notifiers -> Seq([kind : {"NEW", "REMOVE"}, name : Names])]
  BY DEF TypeOK
<1>1. CASE OnDeviceAttached(n)
  <2>1. report[n].entry \in Entry
    BY <1>1, ReportFacts DEF OnDeviceAttached
  <2>2. device_entries_' \in Seq(Entry)
    BY <1>0, <1>1, <2>1, AppendProperties DEF OnDeviceAttached
  <2> QED
    BY <1>1, <2>2 DEF OnDeviceAttached, TypeOK
<1>2. CASE OnDeviceDetached(n)
  <2> DEFINE positions == Positions(device_entries_, report[n].entry.name)
             position == Min(positions)
  <2>1. CASE positions # {}
    <3>1. position \in DOMAIN device_entries_ /\ device_entries_[position] \in Entry
      BY <1>0, <2>1, ErasedIsFirst
    <3>2. /\ event_mutex_' = n
          /\ device_entries_' = RemoveAt(device_entries_, position)
          /\ report' = [report EXCEPT ![n].entry = device_entries_[position]]
          /\ thread' = [thread EXCEPT ![n] = "callback"]
      BY <1>2, <2>1 DEF OnDeviceDetached, Erase
    <3>3. device_entries_' \in Seq(Entry)
      BY <1>0, <3>1, <3>2, WithoutType
    <3>4. report[n] \in [event : {"attached", "detached"}, entry : Entry]
      BY <1>0, <1>2, ReportFacts DEF OnDeviceDetached
    <3> HIDE DEF positions, position
    <3>5. [report[n] EXCEPT !.entry = device_entries_[position]]
            \in [event : {"attached", "detached"}, entry : Entry]
      BY <3>1, <3>4
    <3>6. report' \in [Notifiers -> {Nothing} \cup [event : {"attached", "detached"}, entry : Entry]]
      BY <1>0, <3>2, <3>5
    <3>7. thread' \in [Notifiers -> {"none", "loop", "waiting", "callback"}]
      BY <1>0, <3>2
    <3> QED
      BY <1>2, <3>2, <3>3, <3>6, <3>7 DEF OnDeviceDetached, TypeOK
  <2>2. CASE positions = {}
    <3>1. /\ report' = [report EXCEPT ![n] = Nothing] /\ thread' = [thread EXCEPT ![n] = "loop"]
          /\ UNCHANGED <<event_mutex_, device_entries_>>
      BY <1>2, <2>2 DEF OnDeviceDetached
    <3> HIDE DEF positions
    <3> QED
      BY <1>2, <3>1 DEF OnDeviceDetached, TypeOK
  <2> QED
    BY <2>1, <2>2
<1>3. CASE CallbackReturns(n)
  <2> DEFINE mirrored == Mirrored(known, report[n].entry)
  <2>1. \/ report[n].event = "attached" /\ known' = Append(known, report[n].entry)
        \/ known' = known
        \/ mirrored # {} /\ known' = RemoveAt(known, Min(mirrored))
    BY <1>3 DEF CallbackReturns, Mirrored
  <2>2. mirrored # {} => Min(mirrored) \in DOMAIN known
    <3>1. mirrored \subseteq Nat /\ mirrored \subseteq DOMAIN known
      BY <1>0 DEF Mirrored
    <3> QED
      BY <3>1, MinIsLeast
  <2> HIDE DEF mirrored
  <2>3. known' \in Seq(Entry)
    <3>1. CASE report[n].event = "attached" /\ known' = Append(known, report[n].entry)
      <4>1. report[n].entry \in Entry
        BY <3>1, ReportFacts
      <4> QED
        BY <1>0, <3>1, <4>1, AppendProperties
    <3>2. CASE mirrored # {} /\ known' = RemoveAt(known, Min(mirrored))
      BY <1>0, <2>2, <3>2, WithoutType
    <3> QED
      BY <1>0, <2>1, <3>1, <3>2
  <2>4. event_mutex_' = NoNotifier
    BY <1>3 DEF CallbackReturns, Released
  <2> QED
    BY <1>3, <2>3, <2>4 DEF CallbackReturns, TypeOK
<1>4. CASE ServiceBrowserCallback(n)
  <2> DEFINE event == Head(events[n])
  <2>1. /\ events[n] \in Seq([kind : {"NEW", "REMOVE"}, name : Names]) /\ events[n] # <<>>
        /\ events' = [events EXCEPT ![n] = Tail(events[n])]
    BY <1>0, <1>4 DEF ServiceBrowserCallback
  <2>2. /\ event \in [kind : {"NEW", "REMOVE"}, name : Names]
        /\ Tail(events[n]) \in Seq([kind : {"NEW", "REMOVE"}, name : Names])
    BY <2>1, HeadTailProperties
  <2>3. event.name \in Names
    BY <2>2
  <2>4. events' \in [Notifiers -> Seq([kind : {"NEW", "REMOVE"}, name : Names])]
    BY <1>0, <2>1, <2>2
  <2>5. /\ resolving' = resolving \/ resolving' = [resolving EXCEPT ![n][event.name] = @ + 1]
        /\ unsettled' = unsettled \/ unsettled' = unsettled \cup {event.name}
        /\ thread' = thread \/ thread' = [thread EXCEPT ![n] = "waiting"]
        /\ \/ report' = report
           \/ report' = [report EXCEPT ![n] = [event |-> "detached",
                                               entry |-> [name |-> event.name, from |-> n]]]
    BY <1>4 DEF ServiceBrowserCallback, Report
  <2> HIDE DEF event
  <2>6. resolving' \in [Notifiers -> [Names -> Nat]]
    <3>1. [resolving[n] EXCEPT ![event.name] = @ + 1] \in [Names -> Nat]
      BY <1>0, <2>3
    <3> QED
      BY <1>0, <2>3, <2>5, <3>1
  <2>7. unsettled' \subseteq Names
    BY <2>3, <2>5 DEF TypeOK
  <2>8. report' \in [Notifiers -> {Nothing} \cup [event : {"attached", "detached"}, entry : Entry]]
    <3>1. "detached" \in {"attached", "detached"}
      OBVIOUS
    <3>2. [report EXCEPT ![n] = [event |-> "detached", entry |-> [name |-> event.name, from |-> n]]]
            \in [Notifiers -> {Nothing} \cup [event : {"attached", "detached"}, entry : Entry]]
      BY <1>0, <2>3, <3>1, ReportType, ZenonT(30)
    <3> QED
      BY <1>0, <2>5, <3>2, ZenonT(30)
  <2>9. thread' \in [Notifiers -> {"none", "loop", "waiting", "callback"}]
    BY <1>0, <2>5
  <2> QED
    BY <1>4, <2>4, <2>6, <2>7, <2>8, <2>9 DEF ServiceBrowserCallback, TypeOK
<1>5. CASE ServiceResolverCallback(n)
  <2>1. PICK name \in Names :
          /\ resolving[n][name] > 0
          /\ resolving' = [resolving EXCEPT ![n][name] = @ - 1]
          /\ unsettled' = unsettled \/ unsettled' = unsettled \cup {name}
          /\ thread' = thread \/ thread' = [thread EXCEPT ![n] = "waiting"]
          /\ \/ report' = report
             \/ report' = [report EXCEPT ![n] = [event |-> "attached",
                                                 entry |-> [name |-> name, from |-> n]]]
    BY <1>5 DEF ServiceResolverCallback, Report, Freed
  <2>2. resolving' \in [Notifiers -> [Names -> Nat]] /\ unsettled' \subseteq Names
    BY <1>0, <2>1 DEF TypeOK
  <2>3. report' \in [Notifiers -> {Nothing} \cup [event : {"attached", "detached"}, entry : Entry]]
    <3>1. "attached" \in {"attached", "detached"}
      OBVIOUS
    <3>2. [report EXCEPT ![n] = [event |-> "attached", entry |-> [name |-> name, from |-> n]]]
            \in [Notifiers -> {Nothing} \cup [event : {"attached", "detached"}, entry : Entry]]
      BY <1>0, <3>1, ReportType, ZenonT(30)
    <3> QED
      BY <1>0, <2>1, <3>2, ZenonT(30)
  <2>4. thread' \in [Notifiers -> {"none", "loop", "waiting", "callback"}]
    BY <1>0, <2>1
  <2> QED
    BY <1>5, <2>2, <2>3, <2>4 DEF ServiceResolverCallback, TypeOK
<1>6. CASE LeaveLoop(n)
  BY <1>6 DEF LeaveLoop, TypeOK
<1>7. CASE \E name \in Names : Change(n, name)
  <2>1. PICK name \in Names, kind \in {"NEW", "REMOVE"} :
          /\ changes < MaxChanges /\ changes' = changes + 1
          /\ present' \in {[present EXCEPT ![n] = @ \ {name}], [present EXCEPT ![n] = @ \cup {name}]}
          /\ events' = [events EXCEPT ![n] = Append(@, [kind |-> kind, name |-> name])]
          /\ UNCHANGED <<managerVars, thread, resolving, event_mutex_, device_entries_, report,
                         known, unsettled>>
    BY <1>7 DEF Change
  <2>2. Append(events[n], [kind |-> kind, name |-> name])
          \in Seq([kind : {"NEW", "REMOVE"}, name : Names])
    BY <1>0, AppendProperties
  <2>3. events' \in [Notifiers -> Seq([kind : {"NEW", "REMOVE"}, name : Names])]
    BY <1>0, <2>1, <2>2
  <2>4. present' \in [Notifiers -> SUBSET Names]
    <3>1. present \in [Notifiers -> SUBSET Names]
      BY DEF TypeOK
    <3>2. present[n] \ {name} \in SUBSET Names /\ present[n] \cup {name} \in SUBSET Names
      BY <3>1
    <3> QED
      BY <2>1, <3>1, <3>2
  <2>5. changes' \in 0..MaxChanges
    <3>1. changes \in 0..MaxChanges
      BY DEF TypeOK
    <3> QED
      BY <2>1, <3>1
  <2> QED
    BY <2>1, <2>3, <2>4, <2>5 DEF TypeOK
<1> QED
  BY <1>1, <1>2, <1>3, <1>4, <1>5, <1>6, <1>7 DEF Loop

--------------------------------------------------------------------------------
(******************************************************************************)
(* init() leaves every pointer live, or none of a notifier that was not added *)
(* to a browser (device_notifier.cpp:50-73).                                  *)
(******************************************************************************)
LEMMA PointersStep ==
  ASSUME Inductive, Next
  PROVE  PointersInv'
<1> USE DEF Inductive
<1>1. CASE \E n \in Notifiers : AddDeviceNotifier(n)
  <2>1. PICK n \in Notifiers : AddDeviceNotifier(n)
    BY <1>1
  <2>2. PICK attempt \in Attempts(avahi[n]) : Tried(n, attempt)
    BY <2>1 DEF AddDeviceNotifier, Tried
  <2>3. /\ avahi \in [Notifiers -> Pointers] /\ avahi[n] \in Pointers
        /\ n \notin notifiers_ /\ avahi[n]["browser"] = "null"
        /\ notifiers_ \subseteq Notifiers
        /\ freed_twice \subseteq {"poll"}
        /\ \A m \in notifiers_ : \A p \in DOMAIN avahi[m] : avahi[m][p] = "live"
    BY <2>1 DEF AddDeviceNotifier, PointersInv, AddedNotifierIsLive, TypeOK
  <2>4. CASE attempt.failed = "none"
    <3>1. /\ notifiers_' = notifiers_ \cup {n} /\ freed_twice' = freed_twice
          /\ avahi' = [avahi EXCEPT ![n] = attempt.made]
      BY <2>2, <2>4 DEF Tried
    <3>2. attempt.made = [p \in DOMAIN avahi[n] |-> "live"]
      BY <2>4 DEF Attempts
    <3>3. \A m \in notifiers_' : \A p \in DOMAIN avahi'[m] : avahi'[m][p] = "live"
      BY <2>3, <3>1, <3>2
    <3>4. \A m \in Notifiers \ notifiers_' : avahi'[m]["browser"] = "null"
      BY <2>3, <3>1 DEF PointersInv
    <3> QED
      BY <2>3, <3>1, <3>3, <3>4 DEF PointersInv, AddedNotifierIsLive
  <2>5. CASE attempt.failed # "none"
    <3>1. /\ notifiers_' = notifiers_ /\ avahi' = [avahi EXCEPT ![n] = CleanUp(attempt.made)]
          /\ freed_twice' = IF \E p \in DOMAIN attempt.made : attempt.made[p] = "freed"
                              THEN freed_twice \cup {attempt.failed} ELSE freed_twice
      BY <2>2, <2>5 DEF Tried
    <3>2. DOMAIN attempt.made = {"poll", "client", "browser"} /\ attempt.made["browser"] = "null"
      BY <2>3, <2>5 DEF Attempts, Failed, Pointers
    <3>3. CleanUp(attempt.made)["browser"] = "null"
      BY <3>2 DEF CleanUp
    <3>4. attempt.failed # "poll" => \A p \in DOMAIN attempt.made : attempt.made[p] # "freed"
      BY <2>3, <2>5, <3>2 DEF Attempts, Failed, Pointers
    <3>5. freed_twice' \subseteq {"poll"}
      BY <2>3, <3>1, <3>4
    <3>6. \A m \in Notifiers \ notifiers_' : avahi'[m]["browser"] = "null"
      BY <2>3, <3>1, <3>3 DEF PointersInv
    <3>7. \A m \in notifiers_' : avahi'[m] = avahi[m]
      BY <2>3, <3>1
    <3> QED
      BY <2>3, <3>1, <3>5, <3>6, <3>7 DEF PointersInv, AddedNotifierIsLive
  <2> QED
    BY <2>4, <2>5
<1>2. CASE UNCHANGED initVars
  BY <1>2 DEF PointersInv, AddedNotifierIsLive, initVars
<1>3. CASE StartMonitoring \/ StopMonitoring \/ MonitoringStopped
  BY <1>2, <1>3 DEF StartMonitoring, StopMonitoring, MonitoringStopped
<1>4. CASE \E n \in Notifiers : StopNotifier(n) \/ Loop(n)
  BY <1>2, <1>4 DEF StopNotifier, Loop, ServiceBrowserCallback, ServiceResolverCallback,
       OnDeviceAttached, OnDeviceDetached, CallbackReturns, LeaveLoop, managerVars
<1>5. CASE \E n \in Notifiers, name \in Names : Change(n, name)
  BY <1>2, <1>5 DEF Change, managerVars
<1> QED
  BY <1>1, <1>3, <1>4, <1>5 DEF Next

(******************************************************************************)
(* A thread is started for a notifier that was added, and stopMonitoring()    *)
(* returns only once it has ended (device_notifier.cpp:75-84).                *)
(******************************************************************************)
LEMMA ThreadsStep ==
  ASSUME Inductive, Next
  PROVE  ThreadsInv'
<1> USE DEF Inductive
<1>0. /\ thread \in [Notifiers -> {"none", "loop", "waiting", "callback"}]
      /\ report \in [Notifiers -> {Nothing} \cup [event : {"attached", "detached"}, entry : Entry]]
      /\ notifiers_ \subseteq Notifiers
  BY DEF TypeOK
<1>1. CASE \E n \in Notifiers : AddDeviceNotifier(n)
  <2>1. PICK n \in Notifiers : AddDeviceNotifier(n)
    BY <1>1
  <2>2. notifiers_ \subseteq notifiers_' /\ UNCHANGED <<monitoring, thread, report>>
    BY <2>1 DEF AddDeviceNotifier
  <2> QED
    BY <2>2 DEF ThreadsInv
<1>2. CASE StartMonitoring
  <2>1. monitoring' = "on" /\ notifiers_' = notifiers_ /\ report' = report
        /\ thread' = [n \in Notifiers |-> IF n \in notifiers_ THEN "loop" ELSE "none"]
    BY <1>2 DEF StartMonitoring, initVars
  <2> QED
    BY <2>1 DEF ThreadsInv
<1>3. CASE StopMonitoring \/ \E n \in Notifiers : StopNotifier(n)
  BY <1>3 DEF StopMonitoring, StopNotifier, ThreadsInv, initVars
<1>4. CASE MonitoringStopped
  <2>1. (\A n \in notifiers_ : thread[n] = "none") /\ UNCHANGED <<notifiers_, thread, report>>
    BY <1>4 DEF MonitoringStopped, Joined, initVars
  <2> QED
    BY <2>1 DEF ThreadsInv
<1>5. CASE \E n \in Notifiers : Loop(n)
  <2>1. PICK n \in Notifiers : Loop(n)
    BY <1>5
  <2>2. thread[n] # "none" /\ UNCHANGED <<monitoring, notifiers_>>
    BY <2>1 DEF Loop, ServiceBrowserCallback, ServiceResolverCallback,
         OnDeviceAttached, OnDeviceDetached, CallbackReturns, LeaveLoop, managerVars, initVars
  <2>3. monitoring # "off" /\ n \in notifiers_
    BY <2>2 DEF ThreadsInv
  <2>4. /\ \A m \in Notifiers \ {n} : thread'[m] = thread[m] /\ report'[m] = report[m]
        /\ thread'[n] \in {"waiting", "callback"} => report'[n] # Nothing
    <3>1. CASE ServiceBrowserCallback(n) \/ ServiceResolverCallback(n)
      <4>1. \/ thread' = thread /\ report' = report
            \/ /\ thread' = [thread EXCEPT ![n] = "waiting"]
               /\ \E event \in {"attached", "detached"} : \E name :
                    report' = [report EXCEPT ![n] =
                                 [event |-> event, entry |-> [name |-> name, from |-> n]]]
        BY <3>1 DEF ServiceBrowserCallback, ServiceResolverCallback, Report
      <4>2. thread[n] = "loop"
        BY <3>1 DEF ServiceBrowserCallback, ServiceResolverCallback
      <4>3. \A event \in {"attached", "detached"} : \A entry :
              [event |-> event, entry |-> entry] # Nothing
        BY DEF Nothing
      <4> QED
        BY <1>0, <4>1, <4>2, <4>3
    <3>2. CASE OnDeviceAttached(n)
      <4>1. thread' = [thread EXCEPT ![n] = "callback"] /\ report' = report /\ thread[n] = "waiting"
        BY <3>2 DEF OnDeviceAttached
      <4> QED
        BY <1>0, <4>1 DEF ThreadsInv
    <3>3. CASE OnDeviceDetached(n)
      <4>1. thread[n] = "waiting" /\ report[n].event = "detached"
        BY <3>3 DEF OnDeviceDetached
      <4>2. report[n] \in [event : {"attached", "detached"}, entry : Entry]
        BY <1>0, <4>1 DEF Nothing
      <4>3. \A entry : [report[n] EXCEPT !.entry = entry] # Nothing
        BY <4>1, <4>2 DEF Nothing
      <4>4. \/ /\ thread' = [thread EXCEPT ![n] = "callback"]
               /\ \E entry : report' = [report EXCEPT ![n].entry = entry]
            \/ thread' = [thread EXCEPT ![n] = "loop"] /\ report' = [report EXCEPT ![n] = Nothing]
        BY <3>3 DEF OnDeviceDetached
      <4>5. CASE /\ thread' = [thread EXCEPT ![n] = "callback"]
                 /\ \E entry : report' = [report EXCEPT ![n].entry = entry]
        <5>1. PICK entry : report' = [report EXCEPT ![n].entry = entry]
          BY <4>5
        <5>2. report'[n] = [report[n] EXCEPT !.entry = entry]
          BY <1>0, <5>1
        <5> QED
          BY <1>0, <4>3, <4>5, <5>1, <5>2
      <4>6. CASE thread' = [thread EXCEPT ![n] = "loop"] /\ report' = [report EXCEPT ![n] = Nothing]
        BY <1>0, <4>6
      <4> QED
        BY <4>4, <4>5, <4>6
    <3>4. CASE CallbackReturns(n)
      <4>1. thread' = [thread EXCEPT ![n] = "loop"] /\ report' = [report EXCEPT ![n] = Nothing]
        BY <3>4 DEF CallbackReturns
      <4> QED
        BY <1>0, <4>1
    <3>5. CASE LeaveLoop(n)
      <4>1. thread' = [thread EXCEPT ![n] = "none"] /\ report' = report
        BY <3>5 DEF LeaveLoop
      <4> QED
        BY <1>0, <4>1
    <3> QED
      BY <2>1, <3>1, <3>2, <3>3, <3>4, <3>5 DEF Loop
  <2> QED
    BY <1>0, <2>2, <2>3, <2>4 DEF ThreadsInv
<1>6. CASE \E n \in Notifiers, name \in Names : Change(n, name)
  BY <1>6 DEF Change, ThreadsInv, managerVars, initVars
<1> QED
  BY <1>1, <1>2, <1>3, <1>4, <1>5, <1>6 DEF Next

(******************************************************************************)
(* A step that leaves event_mutex_, the list and the mirror alone, and the    *)
(* threads that are in a callback, keeps what event_mutex_ guards.            *)
(******************************************************************************)
LEMMA MutexKept ==
  ASSUME Inductive, UNCHANGED <<event_mutex_, device_entries_, known>>,
         \A m \in Notifiers : thread'[m] = "callback" <=> thread[m] = "callback",
         \A m \in Notifiers : thread[m] = "callback" => report'[m] = report[m]
  PROVE  MutexInv'
BY DEF Inductive, MutexInv

(******************************************************************************)
(* event_mutex_ is taken when it is free, with the list and the mirror equal, *)
(* and the callback makes them equal again before it is released              *)
(* (device_manager.cpp:63-90).                                                *)
(******************************************************************************)
LEMMA MutexStep ==
  ASSUME Inductive, Next
  PROVE  MutexInv'
<1> USE DiscoveryAssumption DEF managerVars, initVars, networkVars
<1>0. /\ thread \in [Notifiers -> {"none", "loop", "waiting", "callback"}]
      /\ report \in [Notifiers -> {Nothing} \cup [event : {"attached", "detached"}, entry : Entry]]
      /\ device_entries_ \in Seq(Entry) /\ known \in Seq(Entry)
  BY DEF Inductive, TypeOK
<1>1. CASE StopMonitoring \/ MonitoringStopped
           \/ \E n \in Notifiers : AddDeviceNotifier(n) \/ StopNotifier(n)
  <2>1. UNCHANGED <<event_mutex_, device_entries_, known, thread, report>>
    BY <1>1 DEF StopMonitoring, MonitoringStopped, AddDeviceNotifier, StopNotifier
  <2> QED
    BY <2>1, MutexKept
<1>2. CASE StartMonitoring
  <2>1. UNCHANGED <<event_mutex_, device_entries_, known, report>>
    BY <1>2 DEF StartMonitoring
  <2>2. \A m \in Notifiers : thread'[m] # "callback" /\ thread[m] # "callback"
    BY <1>2 DEF StartMonitoring, Inductive, ThreadsInv
  <2> QED
    BY <2>1, <2>2, MutexKept
<1>3. CASE \E n \in Notifiers, name \in Names : Change(n, name)
  <2>1. UNCHANGED <<event_mutex_, device_entries_, known, thread, report>>
    BY <1>3 DEF Change
  <2> QED
    BY <2>1, MutexKept
<1>4. ASSUME NEW n \in Notifiers,
             ServiceBrowserCallback(n) \/ ServiceResolverCallback(n) \/ LeaveLoop(n)
      PROVE  MutexInv'
  <2>1. UNCHANGED <<event_mutex_, device_entries_, known>> /\ thread[n] = "loop"
    BY <1>4 DEF ServiceBrowserCallback, ServiceResolverCallback, LeaveLoop
  <2>2. /\ thread' = thread \/ \E status \in {"waiting", "none"} :
                                 thread' = [thread EXCEPT ![n] = status]
        /\ report' = report \/ \E event : report' = [report EXCEPT ![n] = event]
    BY <1>4 DEF ServiceBrowserCallback, ServiceResolverCallback, LeaveLoop, Report
  <2>3. \A m \in Notifiers : thread'[m] = "callback" <=> thread[m] = "callback"
    BY <1>0, <2>1, <2>2
  <2>4. \A m \in Notifiers : thread[m] = "callback" => report'[m] = report[m]
    BY <1>0, <2>1, <2>2
  <2> QED
    BY <2>1, <2>3, <2>4, MutexKept
<1>5. ASSUME NEW n \in Notifiers, OnDeviceAttached(n)
      PROVE  MutexInv'
  <2>1. /\ event_mutex_ = NoNotifier /\ event_mutex_' = n /\ report[n].event = "attached"
        /\ device_entries_' = Append(device_entries_, report[n].entry)
        /\ thread' = [thread EXCEPT ![n] = "callback"] /\ UNCHANGED <<report, known>>
    BY <1>5 DEF OnDeviceAttached, EventMutexIsFree
  <2>2. known = device_entries_ /\ \A m \in Notifiers : thread[m] # "callback"
    BY <2>1 DEF Inductive, MutexInv
  <2>3. \A m \in Notifiers : thread'[m] = "callback" <=> m = n
    BY <1>0, <2>1, <2>2
  <2> QED
    BY <2>1, <2>2, <2>3 DEF MutexInv
<1>6. ASSUME NEW n \in Notifiers, OnDeviceDetached(n)
      PROVE  MutexInv'
  <2> DEFINE positions == Positions(device_entries_, report[n].entry.name)
             position == Min(positions)
  <2>1. event_mutex_ = NoNotifier /\ known' = known /\ thread[n] = "waiting"
        /\ report[n].event = "detached"
    BY <1>6 DEF OnDeviceDetached, EventMutexIsFree
  <2>2. known = device_entries_ /\ \A m \in Notifiers : thread[m] # "callback"
    BY <2>1 DEF Inductive, MutexInv
  <2>3. CASE positions # {}
    <3>1. /\ event_mutex_' = n
          /\ device_entries_' = RemoveAt(device_entries_, position)
          /\ report' = [report EXCEPT ![n].entry = device_entries_[position]]
          /\ thread' = [thread EXCEPT ![n] = "callback"]
      BY <1>6, <2>3 DEF OnDeviceDetached, Erase
    <3>2. /\ Mirrored(device_entries_, device_entries_[position]) # {}
          /\ Min(Mirrored(device_entries_, device_entries_[position])) = position
      BY <1>0, <2>3, ErasedIsFirst
    <3> HIDE DEF positions, position
    <3>3. report[n] \in [event : {"attached", "detached"}, entry : Entry]
      BY <1>0, <2>1 DEF Nothing
    <3>4. report'[n] = [report[n] EXCEPT !.entry = device_entries_[position]]
      BY <1>0, <3>1
    <3>5. report'[n].event = "detached" /\ report'[n].entry = device_entries_[position]
      BY <2>1, <3>3, <3>4
    <3>6. \A m \in Notifiers : thread'[m] = "callback" <=> m = n
      BY <1>0, <2>2, <3>1
    <3>7. /\ Mirrored(known', report'[n].entry) # {}
          /\ device_entries_' = RemoveAt(known', Min(Mirrored(known', report'[n].entry)))
      BY <2>1, <2>2, <3>1, <3>2, <3>5
    <3> QED
      BY <3>1, <3>5, <3>6, <3>7 DEF MutexInv
  <2>4. CASE positions = {}
    <3>1. /\ thread' = [thread EXCEPT ![n] = "loop"]
          /\ UNCHANGED <<event_mutex_, device_entries_>>
      BY <1>6, <2>4 DEF OnDeviceDetached
    <3> HIDE DEF positions, position
    <3>2. \A m \in Notifiers : thread'[m] # "callback"
      BY <1>0, <2>2, <3>1
    <3> QED
      BY <2>1, <2>2, <3>1, <3>2, MutexKept
  <2> QED
    BY <2>3, <2>4
<1>7. ASSUME NEW n \in Notifiers, CallbackReturns(n)
      PROVE  MutexInv'
  <2>1. /\ thread[n] = "callback" /\ event_mutex_' = NoNotifier /\ UNCHANGED device_entries_
        /\ thread' = [thread EXCEPT ![n] = "loop"]
    BY <1>7 DEF CallbackReturns, Released
  <2>2. \A m \in Notifiers : thread'[m] # "callback"
    BY <1>0, <2>1 DEF Inductive, MutexInv
  <2>3. known' = device_entries_
    <3>1. known' = IF report[n].event = "attached" THEN Append(known, report[n].entry)
                   ELSE IF Mirrored(known, report[n].entry) = {} THEN known
                   ELSE RemoveAt(known, Min(Mirrored(known, report[n].entry)))
      BY <1>7 DEF CallbackReturns, Mirrored
    <3>2. \/ report[n].event = "attached" /\ device_entries_ = Append(known, report[n].entry)
          \/ /\ report[n].event = "detached" /\ Mirrored(known, report[n].entry) # {}
             /\ device_entries_ = RemoveAt(known, Min(Mirrored(known, report[n].entry)))
      BY <2>1 DEF Inductive, MutexInv
    <3>3. CASE report[n].event = "attached"
      BY <3>1, <3>2, <3>3
    <3>4. CASE report[n].event # "attached"
      <4>1. Mirrored(known, report[n].entry) # {}
        BY <3>2, <3>4
      <4> QED
        BY <3>1, <3>2, <3>4, <4>1
    <3> QED
      BY <3>3, <3>4
  <2> QED
    BY <2>1, <2>2, <2>3 DEF MutexInv
<1> QED
  BY <1>1, <1>2, <1>3, <1>4, <1>5, <1>6, <1>7 DEF Next, Loop

--------------------------------------------------------------------------------
(******************************************************************************)
(* What the list owes the network.  The browser has seen some of the changes  *)
(* of its network; the rest are in the queue, and lead from the services it   *)
(* has seen to those that are present.                                        *)
(******************************************************************************)
Follows(from, event, to) ==
  IF event.kind = "NEW" THEN event.name \notin from /\ to = from \cup {event.name}
                        ELSE event.name \in from /\ to = from \ {event.name}

Path(from, queue, to) ==
  \E f \in [0..Len(queue) -> SUBSET Names] :
    /\ f[0] = from /\ f[Len(queue)] = to
    /\ \A i \in 1..Len(queue) : Follows(f[i - 1], queue[i], f[i])

(******************************************************************************)
(* Whether the list has an entry for a service on a notifier's network: from  *)
(* the services seen, the resolvers, the place of the thread and its report.  *)
(******************************************************************************)
Reports(place, what, event, name) ==
  place = "waiting" /\ what.event = event /\ what.entry.name = name

IsListed(seen, resolvers, place, what, name) ==
  \/ name \in seen /\ resolvers[name] = 0 /\ ~Reports(place, what, "attached", name)
  \/ Reports(place, what, "detached", name)

IsConsistent(seen, resolvers, place, what, name) ==
  /\ resolvers[name] \in {0, 1}
  /\ resolvers[name] = 1 => name \in seen
  /\ Reports(place, what, "attached", name) => name \in seen /\ resolvers[name] = 0
  /\ Reports(place, what, "detached", name) => name \notin seen /\ resolvers[name] = 0

Listers(seen, name) ==
  {n \in Notifiers : IsListed(seen[n], resolving[n], thread[n], report[n], name)}

Balanced(seen) ==
  /\ \A n \in Notifiers : Path(seen[n], events[n], present[n])
  /\ \A name \in Names \ unsettled :
       /\ \A n \in Notifiers : IsConsistent(seen[n], resolving[n], thread[n], report[n], name)
       /\ Cardinality(Positions(device_entries_, name)) = Cardinality(Listers(seen, name))

NetworkInv == \E seen \in [Notifiers -> SUBSET Names] : Balanced(seen)

(******************************************************************************)
(* With nothing queued the browser has seen all that is present.              *)
(******************************************************************************)
LEMMA PathEmpty ==
  ASSUME NEW from, NEW to, Path(from, <<>>, to)
  PROVE  from = to
BY DEF Path

(******************************************************************************)
(* An empty queue leads from any set of services to itself.                   *)
(******************************************************************************)
LEMMA PathOfNothing ==
  ASSUME NEW from \in SUBSET Names
  PROVE  Path(from, <<>>, from)
<1> DEFINE f == [i \in 0..0 |-> from]
<1>1. f \in [0..0 -> SUBSET Names] /\ f[0] = from
  OBVIOUS
<1> HIDE DEF f
<1>2. Len(<<>>) = 0 /\ \A i \in 1..0 : Follows(f[i - 1], <<>>[i], f[i])
  OBVIOUS
<1> QED
  BY <1>1, <1>2 DEF Path

(******************************************************************************)
(* A change that is queued prolongs the path.                                 *)
(******************************************************************************)
LEMMA PathAppend ==
  ASSUME NEW S, NEW queue \in Seq(S), NEW event \in S, NEW from, NEW to, Path(from, queue, to),
         NEW next \in SUBSET Names, Follows(to, event, next)
  PROVE  Path(from, Append(queue, event), next)
<1> DEFINE n == Len(queue)
<1>1. PICK f \in [0..n -> SUBSET Names] :
        /\ f[0] = from /\ f[n] = to /\ \A i \in 1..n : Follows(f[i - 1], queue[i], f[i])
  BY DEF Path
<1>2. /\ n \in Nat /\ Len(Append(queue, event)) = n + 1 /\ Append(queue, event)[n + 1] = event
      /\ \A i \in 1..n : Append(queue, event)[i] = queue[i]
  BY AppendProperties
<1> DEFINE g == [i \in 0..(n + 1) |-> IF i = n + 1 THEN next ELSE f[i]]
<1> HIDE DEF n
<1>3. g \in [0..(n + 1) -> SUBSET Names] /\ g[n + 1] = next /\ \A i \in 0..n : g[i] = f[i]
  BY <1>2
<1> HIDE DEF g
<1>4. g[0] = from
  BY <1>1, <1>2, <1>3
<1>5. ASSUME NEW i \in 1..(n + 1) PROVE Follows(g[i - 1], Append(queue, event)[i], g[i])
  <2>1. CASE i = n + 1
    <3>1. i - 1 = n /\ n \in 0..n
      BY <1>2, <2>1
    <3>2. g[i - 1] = to
      BY <1>1, <1>3, <3>1
    <3> QED
      BY <1>2, <1>3, <2>1, <3>2
  <2>2. CASE i # n + 1
    <3>1. i \in 1..n /\ i \in 0..n /\ i - 1 \in 0..n
      BY <1>2, <2>2
    <3>2. g[i - 1] = f[i - 1] /\ g[i] = f[i] /\ Append(queue, event)[i] = queue[i]
      BY <1>2, <1>3, <3>1
    <3> QED
      BY <1>1, <3>1, <3>2
  <2> QED
    BY <2>1, <2>2
<1> QED
  BY <1>2, <1>3, <1>4, <1>5 DEF Path

(******************************************************************************)
(* The oldest change leads to what the browser has seen after it.             *)
(******************************************************************************)
LEMMA PathTail ==
  ASSUME NEW S, NEW queue \in Seq(S), queue # <<>>, NEW from, NEW to, Path(from, queue, to)
  PROVE  \E next \in SUBSET Names : Follows(from, Head(queue), next) /\ Path(next, Tail(queue), to)
<1> DEFINE n == Len(queue)
<1>1. PICK f \in [0..n -> SUBSET Names] :
        /\ f[0] = from /\ f[n] = to /\ \A i \in 1..n : Follows(f[i - 1], queue[i], f[i])
  BY DEF Path
<1>2. /\ n \in Nat /\ n > 0 /\ Len(Tail(queue)) = n - 1 /\ Head(queue) = queue[1]
      /\ \A i \in 1..(n - 1) : Tail(queue)[i] = queue[i + 1]
  BY HeadTailProperties, EmptySeq
<1> DEFINE g == [i \in 0..(n - 1) |-> f[i + 1]]
<1> HIDE DEF n
<1>3. g \in [0..(n - 1) -> SUBSET Names] /\ \A i \in 0..(n - 1) : g[i] = f[i + 1]
  BY <1>2
<1> HIDE DEF g
<1>4. 1 \in 1..n /\ 1 \in 0..n /\ 0 \in 0..(n - 1) /\ n - 1 \in 0..(n - 1) /\ (n - 1) + 1 = n
      /\ 0 + 1 = 1 /\ 1 - 1 = 0
  BY <1>2
<1>5. g[0] = f[1] /\ g[n - 1] = to
  BY <1>1, <1>3, <1>4
<1>6. f[1] \in SUBSET Names /\ Follows(from, Head(queue), f[1])
  BY <1>1, <1>2, <1>4
<1>7. ASSUME NEW i \in 1..(n - 1) PROVE Follows(g[i - 1], Tail(queue)[i], g[i])
  <2>1. i + 1 \in 1..n /\ (i + 1) - 1 = i /\ i - 1 \in 0..(n - 1) /\ (i - 1) + 1 = i /\ i \in 0..(n - 1)
    BY <1>2
  <2>2. Follows(f[(i + 1) - 1], queue[i + 1], f[i + 1])
    BY <1>1, <2>1
  <2>3. Tail(queue)[i] = queue[i + 1]
    BY <1>2
  <2>4. g[i - 1] = f[i] /\ g[i] = f[i + 1]
    BY <1>3, <2>1
  <2> QED
    BY <2>1, <2>2, <2>3, <2>4
<1>8. Path(f[1], Tail(queue), to)
  BY <1>2, <1>3, <1>5, <1>7 DEF Path
<1> QED
  BY <1>6, <1>8

(******************************************************************************)
(* A step that leaves the list alone has to keep, for every notifier, whether *)
(* the list has its entry.                                                    *)
(******************************************************************************)
LEMMA NetworkKept ==
  ASSUME NEW seen, Balanced(seen), NEW next \in [Notifiers -> SUBSET Names],
         \A n \in Notifiers : Path(next[n], events'[n], present'[n]),
         unsettled \subseteq unsettled', device_entries_' = device_entries_,
         \A name \in Names \ unsettled' : \A n \in Notifiers :
           /\ IsConsistent(next[n], resolving'[n], thread'[n], report'[n], name)
           /\ IsListed(next[n], resolving'[n], thread'[n], report'[n], name)
                <=> IsListed(seen[n], resolving[n], thread[n], report[n], name)
  PROVE  NetworkInv'
<1>1. ASSUME NEW name \in Names \ unsettled'
      PROVE  Cardinality(Positions(device_entries_, name)')
               = Cardinality(Listers(next, name)')
  <2>1. Listers(next, name)' = Listers(seen, name)
    BY DEF Listers
  <2>2. Cardinality(Positions(device_entries_, name)) = Cardinality(Listers(seen, name))
    BY DEF Balanced
  <2>3. Positions(device_entries_, name)' = Positions(device_entries_, name)
    BY DEF Positions
  <2> QED
    BY <2>1, <2>2, <2>3
<1>2. Balanced(next)'
  BY <1>1 DEF Balanced
<1> QED
  BY <1>2 DEF NetworkInv

(******************************************************************************)
(* The same when the step is of one notifier.                                 *)
(******************************************************************************)
LEMMA NetworkKeptByOne ==
  ASSUME NEW seen \in [Notifiers -> SUBSET Names], Balanced(seen),
         NEW n \in Notifiers, NEW after \in SUBSET Names,
         \A m \in Notifiers \ {n} :
           /\ events'[m] = events[m] /\ present'[m] = present[m]
           /\ resolving'[m] = resolving[m] /\ thread'[m] = thread[m] /\ report'[m] = report[m],
         Path(after, events'[n], present'[n]),
         unsettled \subseteq unsettled', device_entries_' = device_entries_,
         \A name \in Names \ unsettled' :
           IsConsistent(seen[n], resolving[n], thread[n], report[n], name) =>
             /\ IsConsistent(after, resolving'[n], thread'[n], report'[n], name)
             /\ IsListed(after, resolving'[n], thread'[n], report'[n], name)
                  <=> IsListed(seen[n], resolving[n], thread[n], report[n], name)
  PROVE  NetworkInv'
<1> DEFINE next == [seen EXCEPT ![n] = after]
<1>1. next \in [Notifiers -> SUBSET Names] /\ next[n] = after
      /\ \A m \in Notifiers \ {n} : next[m] = seen[m]
  OBVIOUS
<1> HIDE DEF next
<1>2. \A m \in Notifiers : Path(next[m], events'[m], present'[m])
  <2> TAKE m \in Notifiers
  <2>1. CASE m = n
    BY <1>1, <2>1
  <2>2. CASE m # n
    <3>1. Path(seen[m], events[m], present[m])
      BY DEF Balanced
    <3>2. next[m] = seen[m] /\ events'[m] = events[m] /\ present'[m] = present[m]
      BY <1>1, <2>2
    <3> QED
      BY <3>1, <3>2
  <2> QED
    BY <2>1, <2>2
<1>3. ASSUME NEW name \in Names \ unsettled', NEW m \in Notifiers
      PROVE  /\ IsConsistent(next[m], resolving'[m], thread'[m], report'[m], name)
             /\ IsListed(next[m], resolving'[m], thread'[m], report'[m], name)
                  <=> IsListed(seen[m], resolving[m], thread[m], report[m], name)
  <2>1. IsConsistent(seen[m], resolving[m], thread[m], report[m], name)
    BY DEF Balanced
  <2>2. CASE m = n
    BY <1>1, <2>1, <2>2
  <2>3. CASE m # n
    <3>1. /\ next[m] = seen[m] /\ resolving'[m] = resolving[m]
          /\ thread'[m] = thread[m] /\ report'[m] = report[m]
      BY <1>1, <2>3
    <3> QED
      BY <2>1, <3>1
  <2> QED
    BY <2>2, <2>3
<1> QED
  BY <1>1, <1>2, <1>3, NetworkKept

(******************************************************************************)
(* The entries with a name, counted.                                          *)
(******************************************************************************)
Named(name) == {entry \in Entry : entry.name = name}

(******************************************************************************)
(* The number of entries with a name is a natural number.                     *)
(******************************************************************************)
LEMMA CountOfName ==
  ASSUME NEW list \in Seq(Entry), NEW name
  PROVE  /\ Cardinality(Positions(list, name)) = Count(list, Named(name))
         /\ Count(list, Named(name)) \in Nat
<1>1. \A i \in DOMAIN list : list[i] \in Entry
  BY ElementOfSeq
<1>2. Positions(list, name) = Places(list, Named(name))
  BY <1>1 DEF Positions, Places, Named
<1> QED
  BY <1>2, PlacesAreFinite

(******************************************************************************)
(* Finitely many notifiers have an entry in the list.                         *)
(******************************************************************************)
LEMMA ListersAreFinite ==
  ASSUME NEW seen, NEW name
  PROVE  IsFiniteSet(Listers(seen, name)) /\ Cardinality(Listers(seen, name)) \in Nat
<1>1. Listers(seen, name) \in SUBSET Notifiers
  BY DEF Listers
<1>2. IsFiniteSet(Listers(seen, name))
  BY <1>1, DiscoveryAssumption, FS_Subset
<1> QED
  BY <1>2, FS_CardinalityType

(******************************************************************************)
(* What the application calls leaves the list and the network alone           *)
(* (device_manager.cpp:26-50).                                                *)
(******************************************************************************)
LEMMA NetworkCalls ==
  ASSUME Inductive, NetworkInv,
         StartMonitoring \/ StopMonitoring \/ MonitoringStopped
           \/ \E n \in Notifiers : AddDeviceNotifier(n) \/ StopNotifier(n)
  PROVE  NetworkInv'
<1>1. PICK seen \in [Notifiers -> SUBSET Names] : Balanced(seen)
  BY DEF NetworkInv
<1>2. UNCHANGED <<present, events, resolving, device_entries_, report, unsettled>>
  BY DEF StartMonitoring, StopMonitoring, MonitoringStopped, AddDeviceNotifier, StopNotifier,
     networkVars
<1>3. \A n \in Notifiers :
        thread'[n] = thread[n] \/ (thread[n] # "waiting" /\ thread'[n] # "waiting")
  <2>1. CASE StartMonitoring
    <3>1. \A n \in Notifiers : thread[n] = "none" /\ thread'[n] \in {"loop", "none"}
      BY <2>1 DEF StartMonitoring, Inductive, ThreadsInv
    <3> QED
      BY <3>1
  <2>2. CASE StopMonitoring \/ MonitoringStopped
               \/ \E n \in Notifiers : AddDeviceNotifier(n) \/ StopNotifier(n)
    <3>1. thread' = thread
      BY <2>2 DEF StopMonitoring, MonitoringStopped, AddDeviceNotifier, StopNotifier
    <3> QED
      BY <3>1
  <2> QED
    BY <2>1, <2>2
<1>4. ASSUME NEW name \in Names \ unsettled', NEW n \in Notifiers
      PROVE  /\ IsConsistent(seen[n], resolving'[n], thread'[n], report'[n], name)
             /\ IsListed(seen[n], resolving'[n], thread'[n], report'[n], name)
                  <=> IsListed(seen[n], resolving[n], thread[n], report[n], name)
  <2>1. IsConsistent(seen[n], resolving[n], thread[n], report[n], name)
    BY <1>1, <1>2 DEF Balanced
  <2> QED
    BY <1>2, <1>3, <2>1 DEF IsConsistent, IsListed, Reports
<1>5. \A n \in Notifiers : Path(seen[n], events'[n], present'[n])
  BY <1>1, <1>2 DEF Balanced
<1> QED
  BY <1>1, <1>2, <1>4, <1>5, NetworkKept

(******************************************************************************)
(* A change of the network is queued for the browser.                         *)
(******************************************************************************)
LEMMA NetworkChange ==
  ASSUME Inductive, NetworkInv, NEW n \in Notifiers, NEW d \in Names, Change(n, d)
  PROVE  NetworkInv'
<1> DEFINE Event == [kind : {"NEW", "REMOVE"}, name : Names]
           event == [kind |-> IF d \in present[n] THEN "REMOVE" ELSE "NEW", name |-> d]
           after == IF d \in present[n] THEN present[n] \ {d} ELSE present[n] \cup {d}
<1>1. PICK seen \in [Notifiers -> SUBSET Names] : Balanced(seen)
  BY DEF NetworkInv
<1>2. present \in [Notifiers -> SUBSET Names] /\ events \in [Notifiers -> Seq(Event)]
  BY DEF Inductive, TypeOK
<1>3. event \in Event /\ after \in SUBSET Names /\ Follows(present[n], event, after)
  BY <1>2 DEF Follows
<1>4. /\ events' = [events EXCEPT ![n] = Append(events[n], event)]
      /\ present' = [present EXCEPT ![n] = after]
      /\ UNCHANGED <<thread, resolving, device_entries_, report, unsettled>>
  BY DEF Change
<1> HIDE DEF event, after, Event
<1>5. Path(seen[n], events[n], present[n])
  BY <1>1 DEF Balanced
<1>6. events[n] \in Seq(Event)
  BY <1>2
<1>7. Path(seen[n], Append(events[n], event), after)
  BY <1>3, <1>5, <1>6, PathAppend
<1>8. Path(seen[n], events'[n], present'[n])
  BY <1>2, <1>4, <1>7
<1>9. \A m \in Notifiers \ {n} :
        /\ events'[m] = events[m] /\ present'[m] = present[m]
        /\ resolving'[m] = resolving[m] /\ thread'[m] = thread[m] /\ report'[m] = report[m]
  BY <1>2, <1>4
<1>10. \A name \in Names \ unsettled' :
         IsConsistent(seen[n], resolving[n], thread[n], report[n], name) =>
           /\ IsConsistent(seen[n], resolving'[n], thread'[n], report'[n], name)
           /\ IsListed(seen[n], resolving'[n], thread'[n], report'[n], name)
                <=> IsListed(seen[n], resolving[n], thread[n], report[n], name)
  BY <1>4
<1>11. seen[n] \in SUBSET Names /\ unsettled \subseteq unsettled' /\ device_entries_' = device_entries_
  BY <1>4
<1> QED
  BY <1>1, <1>8, <1>9, <1>10, <1>11, NetworkKeptByOne

(******************************************************************************)
(* The browser sees a change: a new service gets a resolver, a removal waits  *)
(* for event_mutex_ (device_notifier.cpp:92-117).                             *)
(******************************************************************************)
LEMMA NetworkBrowser ==
  ASSUME Inductive, NetworkInv, NEW n \in Notifiers, ServiceBrowserCallback(n)
  PROVE  NetworkInv'
<1> DEFINE Event == [kind : {"NEW", "REMOVE"}, name : Names]
           event == Head(events[n])
           d == event.name
<1>1. PICK seen \in [Notifiers -> SUBSET Names] : Balanced(seen)
  BY DEF NetworkInv
<1>2. /\ events \in [Notifiers -> Seq(Event)] /\ resolving \in [Notifiers -> [Names -> Nat]]
      /\ thread \in [Notifiers -> {"none", "loop", "waiting", "callback"}]
      /\ report \in [Notifiers -> {Nothing} \cup [event : {"attached", "detached"}, entry : Entry]]
  BY DEF Inductive, TypeOK
<1>3. /\ thread[n] = "loop" /\ events[n] # <<>> /\ events' = [events EXCEPT ![n] = Tail(events[n])]
      /\ UNCHANGED <<present, device_entries_>>
      /\ \/ /\ event.kind = "NEW"
            /\ resolving' = [resolving EXCEPT ![n][d] = @ + 1]
            /\ UNCHANGED <<report, thread, unsettled>>
         \/ /\ event.kind = "REMOVE"
            /\ report' = [report EXCEPT ![n] = [event |-> "detached",
                                                entry |-> [name |-> d, from |-> n]]]
            /\ thread' = [thread EXCEPT ![n] = "waiting"]
            /\ unsettled' = IF resolving[n][d] > 0 THEN unsettled \cup {d} ELSE unsettled
            /\ UNCHANGED resolving
  BY DEF ServiceBrowserCallback, Report
<1>4. events[n] \in Seq(Event)
  BY <1>2
<1>5. event \in Event /\ d \in Names
  <2>1. event \in Event
    BY <1>3, <1>4, HeadTailProperties
  <2> QED
    BY <2>1
<1> HIDE DEF Event, event, d
<1>6. Path(seen[n], events[n], present[n])
  BY <1>1 DEF Balanced
<1>7. PICK after \in SUBSET Names :
        Follows(seen[n], Head(events[n]), after) /\ Path(after, Tail(events[n]), present[n])
  BY <1>3, <1>4, <1>6, PathTail
<1>8. Path(after, events'[n], present'[n])
  BY <1>2, <1>3, <1>7
<1>9. \A m \in Notifiers \ {n} :
        /\ events'[m] = events[m] /\ present'[m] = present[m]
        /\ resolving'[m] = resolving[m] /\ thread'[m] = thread[m] /\ report'[m] = report[m]
  BY <1>2, <1>3
<1>10. ASSUME NEW name \in Names \ unsettled',
              IsConsistent(seen[n], resolving[n], thread[n], report[n], name)
       PROVE  /\ IsConsistent(after, resolving'[n], thread'[n], report'[n], name)
              /\ IsListed(after, resolving'[n], thread'[n], report'[n], name)
                   <=> IsListed(seen[n], resolving[n], thread[n], report[n], name)
  <2>1. \A e : ~Reports(thread[n], report[n], e, name)
    BY <1>3 DEF Reports
  <2>2. resolving[n] \in [Names -> Nat] /\ resolving[n][name] \in {0, 1}
        /\ (resolving[n][name] = 1 => name \in seen[n])
    BY <1>2, <1>10 DEF IsConsistent
  <2>3. CASE event.kind = "NEW"
    <3>1. d \notin seen[n] /\ after = seen[n] \cup {d}
      BY <1>7, <2>3 DEF Follows, event, d
    <3>2. resolving' = [resolving EXCEPT ![n][d] = @ + 1] /\ thread'[n] = thread[n]
      BY <1>3, <2>3
    <3>3. \A e : ~Reports(thread'[n], report'[n], e, name)
      BY <1>3, <3>2 DEF Reports
    <3>4. resolving'[n] = [resolving[n] EXCEPT ![d] = @ + 1]
      BY <1>2, <3>2
    <3>5. CASE name = d
      <4>1. resolving[n][name] = 0
        BY <2>2, <3>1, <3>5
      <4>2. resolving'[n][name] = 1 /\ name \in after
        BY <1>5, <2>2, <3>1, <3>4, <3>5, <4>1
      <4> QED
        BY <2>1, <3>1, <3>3, <3>5, <4>2 DEF IsConsistent, IsListed
    <3>6. CASE name # d
      <4>1. resolving'[n][name] = resolving[n][name] /\ (name \in after <=> name \in seen[n])
        BY <1>5, <2>2, <3>1, <3>4, <3>6
      <4> QED
        BY <2>1, <2>2, <3>3, <4>1 DEF IsConsistent, IsListed
    <3> QED
      BY <3>5, <3>6
  <2>4. CASE event.kind = "REMOVE"
    <3>1. d \in seen[n] /\ after = seen[n] \ {d}
      BY <1>7, <2>4 DEF Follows, event, d
    <3>2. /\ report' = [report EXCEPT ![n] = [event |-> "detached",
                                              entry |-> [name |-> d, from |-> n]]]
          /\ thread' = [thread EXCEPT ![n] = "waiting"] /\ UNCHANGED resolving
          /\ unsettled' = IF resolving[n][d] > 0 THEN unsettled \cup {d} ELSE unsettled
      BY <1>3, <2>4
    <3>3. thread'[n] = "waiting" /\ report'[n].event = "detached" /\ report'[n].entry.name = d
      BY <1>2, <3>2
    <3>4. CASE name = d
      <4>1. resolving'[n][name] = 0 /\ resolving[n][name] = 0
        BY <2>2, <3>2, <3>4
      <4>2. /\ Reports(thread'[n], report'[n], "detached", name)
            /\ ~Reports(thread'[n], report'[n], "attached", name)
        BY <3>3, <3>4 DEF Reports
      <4> QED
        BY <2>1, <3>1, <3>4, <4>1, <4>2 DEF IsConsistent, IsListed
    <3>5. CASE name # d
      <4>1. \A e : ~Reports(thread'[n], report'[n], e, name)
        BY <3>3, <3>5 DEF Reports
      <4>2. resolving'[n][name] = resolving[n][name] /\ (name \in after <=> name \in seen[n])
        BY <3>1, <3>2, <3>5
      <4> QED
        BY <2>1, <2>2, <4>1, <4>2 DEF IsConsistent, IsListed
    <3> QED
      BY <3>4, <3>5
  <2> QED
    BY <1>3, <2>3, <2>4
<1>11. unsettled \subseteq unsettled' /\ device_entries_' = device_entries_
  BY <1>3
<1> QED
  BY <1>1, <1>8, <1>9, <1>10, <1>11, NetworkKeptByOne

(******************************************************************************)
(* A thread that is in its loop, or leaves it, or returns from the callback,  *)
(* reports nothing before or after.                                           *)
(******************************************************************************)
LEMMA NetworkQuiet ==
  ASSUME Inductive, NetworkInv, NEW n \in Notifiers, LeaveLoop(n) \/ CallbackReturns(n)
  PROVE  NetworkInv'
<1>1. PICK seen \in [Notifiers -> SUBSET Names] : Balanced(seen)
  BY DEF NetworkInv
<1>2. /\ thread \in [Notifiers -> {"none", "loop", "waiting", "callback"}]
      /\ report \in [Notifiers -> {Nothing} \cup [event : {"attached", "detached"}, entry : Entry]]
  BY DEF Inductive, TypeOK
<1>3. UNCHANGED <<present, events, resolving, device_entries_, unsettled>>
  BY DEF LeaveLoop, CallbackReturns, networkVars
<1>4. thread[n] # "waiting" /\ thread'[n] # "waiting"
  BY <1>2 DEF LeaveLoop, CallbackReturns
<1>5. \A m \in Notifiers \ {n} : thread'[m] = thread[m] /\ report'[m] = report[m]
  BY <1>2 DEF LeaveLoop, CallbackReturns
<1>6. \A m \in Notifiers \ {n} :
        /\ events'[m] = events[m] /\ present'[m] = present[m]
        /\ resolving'[m] = resolving[m] /\ thread'[m] = thread[m] /\ report'[m] = report[m]
  BY <1>3, <1>5
<1>7. Path(seen[n], events'[n], present'[n])
  BY <1>1, <1>3 DEF Balanced
<1>8. \A name \in Names \ unsettled' :
        IsConsistent(seen[n], resolving[n], thread[n], report[n], name) =>
          /\ IsConsistent(seen[n], resolving'[n], thread'[n], report'[n], name)
          /\ IsListed(seen[n], resolving'[n], thread'[n], report'[n], name)
               <=> IsListed(seen[n], resolving[n], thread[n], report[n], name)
  BY <1>3, <1>4 DEF IsConsistent, IsListed, Reports
<1>9. seen[n] \in SUBSET Names /\ unsettled \subseteq unsettled' /\ device_entries_' = device_entries_
  BY <1>3
<1> QED
  BY <1>1, <1>6, <1>7, <1>8, <1>9, NetworkKeptByOne

(******************************************************************************)
(* A resolver ends: its service waits for event_mutex_, or is unsettled       *)
(* (device_notifier.cpp:119-147).                                             *)
(******************************************************************************)
LEMMA NetworkResolver ==
  ASSUME Inductive, NetworkInv, NEW n \in Notifiers, ServiceResolverCallback(n)
  PROVE  NetworkInv'
<1>1. PICK seen \in [Notifiers -> SUBSET Names] : Balanced(seen)
  BY DEF NetworkInv
<1>2. /\ resolving \in [Notifiers -> [Names -> Nat]]
      /\ thread \in [Notifiers -> {"none", "loop", "waiting", "callback"}]
      /\ report \in [Notifiers -> {Nothing} \cup [event : {"attached", "detached"}, entry : Entry]]
  BY DEF Inductive, TypeOK
<1>3. PICK d \in Names :
        /\ thread[n] = "loop" /\ resolving[n][d] > 0
        /\ resolving' = [resolving EXCEPT ![n][d] = @ - 1]
        /\ \/ /\ report' = [report EXCEPT ![n] = [event |-> "attached",
                                                  entry |-> [name |-> d, from |-> n]]]
              /\ thread' = [thread EXCEPT ![n] = "waiting"]
              /\ UNCHANGED unsettled
           \/ unsettled' = unsettled \cup {d} /\ UNCHANGED <<report, thread>>
  BY DEF ServiceResolverCallback, Report, Freed
<1>4. UNCHANGED <<present, events, device_entries_>>
  BY DEF ServiceResolverCallback, networkVars
<1>5. \A m \in Notifiers \ {n} :
        /\ events'[m] = events[m] /\ present'[m] = present[m]
        /\ resolving'[m] = resolving[m] /\ thread'[m] = thread[m] /\ report'[m] = report[m]
  BY <1>2, <1>3, <1>4
<1>6. Path(seen[n], events'[n], present'[n])
  BY <1>1, <1>4 DEF Balanced
<1>7. unsettled \subseteq unsettled' /\ device_entries_' = device_entries_ /\ seen[n] \in SUBSET Names
  BY <1>3, <1>4
<1>8. ASSUME NEW name \in Names \ unsettled',
             IsConsistent(seen[n], resolving[n], thread[n], report[n], name)
      PROVE  /\ IsConsistent(seen[n], resolving'[n], thread'[n], report'[n], name)
             /\ IsListed(seen[n], resolving'[n], thread'[n], report'[n], name)
                  <=> IsListed(seen[n], resolving[n], thread[n], report[n], name)
  <2>1. \A e : ~Reports(thread[n], report[n], e, name)
    BY <1>3 DEF Reports
  <2>2. resolving[n] \in [Names -> Nat] /\ resolving[n][name] \in {0, 1}
        /\ (resolving[n][name] = 1 => name \in seen[n])
    BY <1>2, <1>8 DEF IsConsistent
  <2>3. resolving'[n] = [resolving[n] EXCEPT ![d] = @ - 1]
    BY <1>2, <1>3
  <2>4. CASE name = d
    <3>1. /\ report' = [report EXCEPT ![n] = [event |-> "attached",
                                              entry |-> [name |-> d, from |-> n]]]
          /\ thread' = [thread EXCEPT ![n] = "waiting"]
      BY <1>3, <2>4
    <3>2. thread'[n] = "waiting" /\ report'[n].event = "attached" /\ report'[n].entry.name = d
      BY <1>2, <3>1
    <3>3. /\ Reports(thread'[n], report'[n], "attached", name)
          /\ ~Reports(thread'[n], report'[n], "detached", name)
      BY <2>4, <3>2 DEF Reports
    <3>4. resolving[n][name] = 1
      BY <1>3, <2>2, <2>4
    <3>5. resolving'[n][name] = 0 /\ name \in seen[n]
      BY <1>3, <2>2, <2>3, <2>4, <3>4
    <3> QED
      BY <2>1, <3>3, <3>4, <3>5 DEF IsConsistent, IsListed
  <2>5. CASE name # d
    <3>1. resolving'[n][name] = resolving[n][name]
      BY <2>2, <2>3, <2>5
    <3>2. \A e : ~Reports(thread'[n], report'[n], e, name)
      <4>1. CASE UNCHANGED <<report, thread>>
        BY <2>1, <4>1
      <4>2. CASE report' = [report EXCEPT ![n] = [event |-> "attached",
                                                  entry |-> [name |-> d, from |-> n]]]
        <5>1. report'[n].entry.name = d
          BY <1>2, <4>2
        <5> QED
          BY <2>5, <5>1 DEF Reports
      <4> QED
        BY <1>3, <4>1, <4>2
    <3> QED
      BY <2>1, <2>2, <3>1, <3>2 DEF IsConsistent, IsListed
  <2> QED
    BY <2>4, <2>5
<1> QED
  BY <1>1, <1>5, <1>6, <1>7, <1>8, NetworkKeptByOne

(******************************************************************************)
(* The manager handles a report: one more notifier, or one less, has its      *)
(* entry, and the list has one entry more, or one less, with the name.        *)
(******************************************************************************)
LEMMA NetworkHandled ==
  ASSUME NEW seen \in [Notifiers -> SUBSET Names], Balanced(seen),
         NEW n \in Notifiers, NEW d \in Names,
         thread[n] = "waiting", report[n].entry.name = d, thread'[n] # "waiting",
         \A m \in Notifiers \ {n} : thread'[m] = thread[m] /\ report'[m] = report[m],
         UNCHANGED <<events, present, resolving, unsettled>>,
         \A name \in Names \ {d} : Cardinality(Positions(device_entries_', name))
                                    = Cardinality(Positions(device_entries_, name)),
         \/ /\ report[n].event = "attached"
            /\ Cardinality(Positions(device_entries_', d))
                 = Cardinality(Positions(device_entries_, d)) + 1
         \/ /\ report[n].event = "detached"
            /\ d \notin unsettled => Cardinality(Positions(device_entries_, d))
                                      = Cardinality(Positions(device_entries_', d)) + 1,
         Cardinality(Positions(device_entries_', d)) \in Nat
  PROVE  NetworkInv'
<1>1. \A m \in Notifiers : Path(seen[m], events'[m], present'[m])
  BY DEF Balanced
<1>2. \A name : \A e : ~Reports(thread'[n], report'[n], e, name)
  BY DEF Reports
<1>3. ASSUME NEW name \in Names \ unsettled
      PROVE  /\ \A m \in Notifiers :
                  IsConsistent(seen[m], resolving'[m], thread'[m], report'[m], name)
             /\ Cardinality(Positions(device_entries_', name)) = Cardinality(Listers(seen, name)')
  <2>1. /\ \A m \in Notifiers : IsConsistent(seen[m], resolving[m], thread[m], report[m], name)
        /\ Cardinality(Positions(device_entries_, name)) = Cardinality(Listers(seen, name))
    BY DEF Balanced
  <2>2. IsConsistent(seen[n], resolving'[n], thread'[n], report'[n], name)
    BY <1>2, <2>1 DEF IsConsistent
  <2>3. \A m \in Notifiers \ {n} :
          /\ IsConsistent(seen[m], resolving'[m], thread'[m], report'[m], name)
          /\ IsListed(seen[m], resolving'[m], thread'[m], report'[m], name)
               <=> IsListed(seen[m], resolving[m], thread[m], report[m], name)
    BY <2>1
  <2>4. /\ IsFiniteSet(Listers(seen, name)) /\ Cardinality(Listers(seen, name)) \in Nat
        /\ Listers(seen, name) \subseteq Notifiers /\ Listers(seen, name)' \subseteq Notifiers
        /\ Listers(seen, name)' \ {n} = Listers(seen, name) \ {n}
    <3>1. Listers(seen, name)' \ {n} = Listers(seen, name) \ {n}
      BY <2>3 DEF Listers
    <3>2. Listers(seen, name) \subseteq Notifiers /\ Listers(seen, name)' \subseteq Notifiers
      BY DEF Listers
    <3> QED
      BY <3>1, <3>2, ListersAreFinite
  <2>5. /\ n \in Listers(seen, name)
             <=> IsListed(seen[n], resolving[n], thread[n], report[n], name)
        /\ n \in Listers(seen, name)'
             <=> IsListed(seen[n], resolving'[n], thread'[n], report'[n], name)
    BY DEF Listers
  <2>6. CASE name # d
    <3>1. \A e : ~Reports(thread[n], report[n], e, name)
      BY <2>6 DEF Reports
    <3>2. n \in Listers(seen, name)' <=> n \in Listers(seen, name)
      BY <1>2, <2>5, <3>1 DEF IsListed
    <3>3. Listers(seen, name)' = Listers(seen, name)
      BY <2>4, <3>2
    <3> QED
      BY <2>1, <2>2, <2>3, <2>6, <3>3
  <2>7. CASE name = d /\ report[n].event = "attached"
    <3>1. /\ Reports(thread[n], report[n], "attached", name)
          /\ ~Reports(thread[n], report[n], "detached", name)
      BY <2>7 DEF Reports
    <3>2. n \notin Listers(seen, name)
      BY <2>5, <3>1 DEF IsListed
    <3>3. name \in seen[n] /\ resolving[n][name] = 0
      BY <2>1, <3>1 DEF IsConsistent
    <3>4. n \in Listers(seen, name)'
      BY <1>2, <2>5, <3>3 DEF IsListed
    <3>5. Listers(seen, name)' = Listers(seen, name) \cup {n}
      BY <2>4, <3>4
    <3>6. Cardinality(Listers(seen, name)') = Cardinality(Listers(seen, name)) + 1
      <4>1. Cardinality(Listers(seen, name) \cup {n}) = Cardinality(Listers(seen, name)) + 1
        BY <2>4, <3>2, FS_AddElement
      <4> QED
        BY <3>5, <4>1
    <3> QED
      BY <2>1, <2>2, <2>3, <2>7, <3>6
  <2>8. CASE name = d /\ report[n].event = "detached"
    <3>1. Reports(thread[n], report[n], "detached", name)
      BY <2>8 DEF Reports
    <3>2. n \in Listers(seen, name)
      BY <2>5, <3>1 DEF IsListed
    <3>3. name \notin seen[n]
      BY <2>1, <3>1 DEF IsConsistent
    <3>4. n \notin Listers(seen, name)'
      BY <1>2, <2>5, <3>3 DEF IsListed
    <3>5. Listers(seen, name)' = Listers(seen, name) \ {n}
      BY <2>4, <3>4
    <3>6. Cardinality(Listers(seen, name)') = Cardinality(Listers(seen, name)) - 1
      <4>1. Cardinality(Listers(seen, name) \ {n}) = Cardinality(Listers(seen, name)) - 1
        BY <2>4, <3>2, FS_RemoveElement
      <4> QED
        BY <3>5, <4>1
    <3>7. Cardinality(Positions(device_entries_, d))
            = Cardinality(Positions(device_entries_', d)) + 1
      BY <1>3, <2>8
    <3>8. Cardinality(Positions(device_entries_', name)) = Cardinality(Listers(seen, name)')
      BY <2>1, <2>4, <2>8, <3>6, <3>7
    <3> QED
      BY <2>2, <2>3, <3>8
  <2> QED
    BY <2>6, <2>7, <2>8
<1>4. Balanced(seen)'
  BY <1>1, <1>3 DEF Balanced
<1> QED
  BY <1>4 DEF NetworkInv

(******************************************************************************)
(* The manager appends the entry of an attached device                        *)
(* (device_manager.cpp:63-72).                                                *)
(******************************************************************************)
LEMMA NetworkAttached ==
  ASSUME Inductive, NetworkInv, NEW n \in Notifiers, OnDeviceAttached(n)
  PROVE  NetworkInv'
<1> DEFINE entry == report[n].entry
<1>1. PICK seen \in [Notifiers -> SUBSET Names] : Balanced(seen)
  BY DEF NetworkInv
<1>2. /\ thread \in [Notifiers -> {"none", "loop", "waiting", "callback"}]
      /\ report \in [Notifiers -> {Nothing} \cup [event : {"attached", "detached"}, entry : Entry]]
      /\ device_entries_ \in Seq(Entry)
  BY DEF Inductive, TypeOK
<1>3. /\ thread[n] = "waiting" /\ report[n].event = "attached"
      /\ device_entries_' = Append(device_entries_, entry)
      /\ thread' = [thread EXCEPT ![n] = "callback"]
      /\ UNCHANGED <<events, present, resolving, unsettled, report>>
  BY DEF OnDeviceAttached, networkVars
<1>4. report[n] \in [event : {"attached", "detached"}, entry : Entry]
  BY <1>2, <1>3 DEF Nothing
<1>5. entry \in Entry /\ entry.name \in Names
  BY <1>4 DEF Entry
<1> HIDE DEF entry
<1>6. device_entries_' \in Seq(Entry)
  BY <1>2, <1>3, <1>5
<1>7. \A name : entry \in Named(name) <=> entry.name = name
  BY <1>5 DEF Named
<1>8. ASSUME NEW name
      PROVE  /\ Cardinality(Positions(device_entries_', name)) \in Nat
             /\ Cardinality(Positions(device_entries_', name))
                  = Cardinality(Positions(device_entries_, name))
                    + (IF entry.name = name THEN 1 ELSE 0)
  <2>1. Count(device_entries_', Named(name))
          = Count(device_entries_, Named(name)) + (IF entry \in Named(name) THEN 1 ELSE 0)
    BY <1>2, <1>3, <1>5, CountAppend
  <2>2. Count(device_entries_', Named(name))
          = Count(device_entries_, Named(name)) + (IF entry.name = name THEN 1 ELSE 0)
    BY <1>7, <2>1
  <2> QED
    BY <1>2, <1>6, <2>2, CountOfName
<1>9. \A name \in Names \ {entry.name} : Cardinality(Positions(device_entries_', name))
                                          = Cardinality(Positions(device_entries_, name))
  <2> TAKE name \in Names \ {entry.name}
  <2>1. Cardinality(Positions(device_entries_, name)) \in Nat
    BY <1>2, CountOfName
  <2> QED
    BY <1>8, <2>1
<1>10. Cardinality(Positions(device_entries_', entry.name))
         = Cardinality(Positions(device_entries_, entry.name)) + 1
  BY <1>8
<1>11. thread'[n] # "waiting"
       /\ \A m \in Notifiers \ {n} : thread'[m] = thread[m] /\ report'[m] = report[m]
  BY <1>2, <1>3
<1>12. report[n].entry.name = entry.name
  BY DEF entry
<1>13. Cardinality(Positions(device_entries_', entry.name)) \in Nat
  BY <1>8
<1> QED
  BY <1>1, <1>3, <1>5, <1>9, <1>10, <1>11, <1>12, <1>13, NetworkHandled

(******************************************************************************)
(* The manager erases the first entry with the name of a detached device.  It *)
(* finds none only if the service is unsettled (device_manager.cpp:74-87).    *)
(******************************************************************************)
LEMMA NetworkDetached ==
  ASSUME Inductive, NetworkInv, NEW n \in Notifiers, OnDeviceDetached(n)
  PROVE  NetworkInv'
<1> DEFINE d == report[n].entry.name
           positions == Positions(device_entries_, d)
           position == Min(positions)
<1>1. PICK seen \in [Notifiers -> SUBSET Names] : Balanced(seen)
  BY DEF NetworkInv
<1>2. /\ thread \in [Notifiers -> {"none", "loop", "waiting", "callback"}]
      /\ report \in [Notifiers -> {Nothing} \cup [event : {"attached", "detached"}, entry : Entry]]
      /\ device_entries_ \in Seq(Entry)
  BY DEF Inductive, TypeOK
<1>3. /\ thread[n] = "waiting" /\ report[n].event = "detached"
      /\ UNCHANGED <<events, present, resolving, unsettled>>
  BY DEF OnDeviceDetached, networkVars
<1>4. report[n] \in [event : {"attached", "detached"}, entry : Entry]
  BY <1>2, <1>3 DEF Nothing
<1>5. d \in Names
  BY <1>4 DEF Entry
<1>6. thread'[n] # "waiting"
      /\ \A m \in Notifiers \ {n} : thread'[m] = thread[m] /\ report'[m] = report[m]
  BY <1>2 DEF OnDeviceDetached
<1>7. \/ positions # {} /\ device_entries_' = RemoveAt(device_entries_, position)
      \/ positions = {} /\ device_entries_' = device_entries_
  BY DEF OnDeviceDetached, Erase
<1>8. report[n].entry.name = d
  OBVIOUS
<1> HIDE DEF d
<1>9. \A name : /\ Cardinality(Positions(device_entries_, name))
                     = Count(device_entries_, Named(name))
                /\ Cardinality(Positions(device_entries_, name)) \in Nat
  BY <1>2, CountOfName
<1>10. CASE positions # {}
  <2>1. positions \subseteq 1..Len(device_entries_) /\ Len(device_entries_) \in Nat
    BY <1>2 DEF Positions
  <2>2. positions \subseteq Nat
    BY <2>1
  <2>3. position \in positions
    BY <1>10, <2>2, MinIsLeast
  <2>4. device_entries_' = RemoveAt(device_entries_, position)
    BY <1>7, <1>10
  <2>5. device_entries_[position].name = d
    BY <2>3 DEF Positions
  <2> HIDE DEF position
  <2>6. position \in 1..Len(device_entries_)
    BY <2>1, <2>3
  <2>7. device_entries_[position] \in Entry
    BY <1>2, <2>6, ElementOfSeq
  <2>8. device_entries_' \in Seq(Entry)
    BY <1>2, <2>4, <2>6, RemoveAtFacts
  <2>9. \A name : device_entries_[position] \in Named(name) <=> d = name
    BY <2>5, <2>7 DEF Named
  <2>10. ASSUME NEW name
         PROVE  /\ Cardinality(Positions(device_entries_', name)) \in Nat
                /\ Cardinality(Positions(device_entries_, name))
                     = Cardinality(Positions(device_entries_', name))
                       + (IF d = name THEN 1 ELSE 0)
    <3>1. Count(device_entries_, Named(name))
            = Count(device_entries_', Named(name))
              + (IF device_entries_[position] \in Named(name) THEN 1 ELSE 0)
      BY <1>2, <2>4, <2>6, CountRemoveAt
    <3>2. Count(device_entries_, Named(name))
            = Count(device_entries_', Named(name)) + (IF d = name THEN 1 ELSE 0)
      BY <2>9, <3>1
    <3> QED
      BY <1>9, <2>8, <3>2, CountOfName
  <2>11. \A name \in Names \ {d} : Cardinality(Positions(device_entries_', name))
                                    = Cardinality(Positions(device_entries_, name))
    BY <2>10
  <2>12. Cardinality(Positions(device_entries_, d))
           = Cardinality(Positions(device_entries_', d)) + 1
    BY <2>10
  <2> QED
    BY <1>1, <1>3, <1>5, <1>6, <1>8, <2>10, <2>11, <2>12, NetworkHandled
<1>11. CASE positions = {}
  <2>1. device_entries_' = device_entries_
    BY <1>7, <1>11
  <2>2. ASSUME d \notin unsettled PROVE FALSE
    <3>1. Cardinality(positions) = Cardinality(Listers(seen, d))
      BY <1>1, <1>5, <2>2 DEF Balanced
    <3>2. Cardinality(Listers(seen, d)) = 0
      BY <1>11, <3>1, FS_EmptySet
    <3>3. Listers(seen, d) = {}
      BY <3>2, ListersAreFinite, FS_EmptySet
    <3>4. IsListed(seen[n], resolving[n], thread[n], report[n], d)
      BY <1>3, <1>8 DEF IsListed, Reports
    <3> QED
      BY <3>3, <3>4 DEF Listers
  <2>3. \A name \in Names \ {d} : Cardinality(Positions(device_entries_', name))
                                   = Cardinality(Positions(device_entries_, name))
    BY <2>1
  <2>4. Cardinality(Positions(device_entries_', d)) \in Nat
    BY <1>9, <2>1
  <2> QED
    BY <1>1, <1>3, <1>5, <1>6, <1>8, <2>2, <2>3, <2>4, NetworkHandled
<1> QED
  BY <1>10, <1>11

(******************************************************************************)
(* At first nothing was seen and nothing is listed.                           *)
(******************************************************************************)
LEMMA NetworkInit == Init => NetworkInv
<1> SUFFICES ASSUME Init PROVE NetworkInv
  OBVIOUS
<1> DEFINE seen == [n \in Notifiers |-> {}]
<1>1. seen \in [Notifiers -> SUBSET Names] /\ \A n \in Notifiers : seen[n] = {}
  OBVIOUS
<1> HIDE DEF seen
<1>2. /\ \A n \in Notifiers : events[n] = <<>> /\ present[n] = {} /\ thread[n] = "none"
      /\ \A n \in Notifiers : \A name \in Names : resolving[n][name] = 0
      /\ device_entries_ = <<>>
  BY DEF Init
<1>3. Path({}, <<>>, {})
  BY PathOfNothing
<1>4. \A n \in Notifiers : Path(seen[n], events[n], present[n])
  BY <1>1, <1>2, <1>3
<1>5. ASSUME NEW name \in Names
      PROVE  /\ \A n \in Notifiers :
                  IsConsistent(seen[n], resolving[n], thread[n], report[n], name)
             /\ Cardinality(Positions(device_entries_, name)) = Cardinality(Listers(seen, name))
  <2>1. \A n \in Notifiers :
          IsConsistent(seen[n], resolving[n], thread[n], report[n], name)
    BY <1>1, <1>2 DEF IsConsistent, Reports
  <2>2. Listers(seen, name) = {}
    BY <1>1, <1>2 DEF Listers, IsListed, Reports
  <2>3. Positions(device_entries_, name) = {}
    BY <1>2 DEF Positions
  <2> QED
    BY <2>1, <2>2, <2>3
<1>6. Balanced(seen)
  BY <1>4, <1>5 DEF Balanced
<1> QED
  BY <1>1, <1>6 DEF NetworkInv

(******************************************************************************)
(* Every step keeps the balance between the list and the networks.            *)
(******************************************************************************)
LEMMA NetworkStep == Inductive /\ NetworkInv /\ [Next]_vars => NetworkInv'
<1> SUFFICES ASSUME Inductive, NetworkInv, [Next]_vars PROVE NetworkInv'
  OBVIOUS
<1>1. CASE StartMonitoring \/ StopMonitoring \/ MonitoringStopped
             \/ \E n \in Notifiers : AddDeviceNotifier(n) \/ StopNotifier(n)
  BY <1>1, NetworkCalls
<1>2. ASSUME NEW n \in Notifiers, Loop(n) PROVE NetworkInv'
  BY <1>2, NetworkBrowser, NetworkResolver, NetworkAttached, NetworkDetached, NetworkQuiet
     DEF Loop
<1>3. ASSUME NEW n \in Notifiers, NEW name \in Names, Change(n, name) PROVE NetworkInv'
  BY <1>3, NetworkChange
<1>4. CASE UNCHANGED vars
  <2>1. PICK seen \in [Notifiers -> SUBSET Names] : Balanced(seen)
    BY DEF NetworkInv
  <2>2. UNCHANGED <<thread, present, events, resolving, device_entries_, report, unsettled>>
    BY <1>4 DEF vars, networkVars
  <2>3. \A n \in Notifiers : Path(seen[n], events'[n], present'[n])
    BY <2>1, <2>2 DEF Balanced
  <2>4. ASSUME NEW name \in Names \ unsettled', NEW n \in Notifiers
        PROVE  /\ IsConsistent(seen[n], resolving'[n], thread'[n], report'[n], name)
               /\ IsListed(seen[n], resolving'[n], thread'[n], report'[n], name)
                    <=> IsListed(seen[n], resolving[n], thread[n], report[n], name)
    BY <2>1, <2>2 DEF Balanced
  <2> QED
    BY <2>1, <2>2, <2>3, <2>4, NetworkKept
<1> QED
  BY <1>1, <1>2, <1>3, <1>4 DEF Next

--------------------------------------------------------------------------------
(******************************************************************************)
(* The inductive invariant holds before the first call.                       *)
(******************************************************************************)
LEMMA InitInductive == Init => Inductive
<1> SUFFICES ASSUME Init PROVE Inductive
  OBVIOUS
<1> USE DiscoveryAssumption DEF Init
<1>1. TypeOK
  BY DEF TypeOK, Pointers
<1>2. PointersInv
  BY DEF PointersInv, AddedNotifierIsLive
<1>3. ThreadsInv
  BY DEF ThreadsInv
<1>4. MutexInv
  BY DEF MutexInv
<1> QED
  BY <1>1, <1>2, <1>3, <1>4 DEF Inductive

(******************************************************************************)
(* Every step keeps the inductive invariant.                                  *)
(******************************************************************************)
LEMMA StepInductive == Inductive /\ [Next]_vars => Inductive'
<1> SUFFICES ASSUME Inductive, [Next]_vars PROVE Inductive'
  OBVIOUS
<1>1. CASE Next
  <2>1. TypeOK
    BY DEF Inductive
  <2>2. TypeOK'
    BY <1>1, <2>1, TypeOfCalls, TypeOfThread, TypeOfStart DEF Next
  <2> QED
    BY <1>1, <2>2, PointersStep, ThreadsStep, MutexStep DEF Inductive
<1>2. CASE UNCHANGED vars
  <2> USE DEF vars, managerVars, initVars, networkVars
  <2>1. TypeOK'
    BY <1>2 DEF Inductive, TypeOK
  <2>2. PointersInv' /\ ThreadsInv'
    BY <1>2 DEF Inductive, PointersInv, AddedNotifierIsLive, ThreadsInv
  <2>3. MutexInv'
    BY <1>2, MutexKept
  <2> QED
    BY <2>1, <2>2, <2>3 DEF Inductive
<1> QED
  BY <1>1, <1>2

(******************************************************************************)
(* The inductive invariant holds in every reachable state.                    *)
(******************************************************************************)
LEMMA AlwaysInductive == Spec => []Inductive
BY InitInductive, StepInductive, PTL DEF Spec

--------------------------------------------------------------------------------
(******************************************************************************)
(* The state of the manager and its notifiers is well formed, every notifier  *)
(* that was added runs on live Avahi objects, and init() frees an object      *)
(* twice only when the poll cannot be made (device_manager.cpp:26-90,         *)
(* device_notifier.cpp:50-84).                                                *)
(******************************************************************************)
THEOREM DiscoveryInvariant == Spec => []DiscoveryInv
<1>1. Inductive => DiscoveryInv
  BY DEF Inductive, PointersInv, DiscoveryInv
<1> QED
  BY <1>1, AlwaysInductive, PTL

(******************************************************************************)
(* An application that follows its callback knows the list, whichever         *)
(* notifiers report at once (device_manager.cpp:63-90).                       *)
(******************************************************************************)
THEOREM CallbackMirrors == Spec => []CallbackMirrorsList
<1>1. Inductive => CallbackMirrorsList
  BY DEF Inductive, MutexInv, CallbackMirrorsList
<1> QED
  BY <1>1, AlwaysInductive, PTL

(******************************************************************************)
(* Once every event is handled the list has, for a service whose removals did *)
(* not overtake a resolver and whose resolvers did not fail, as many entries  *)
(* as there are networks that offer it, whatever the order in which browsers, *)
(* resolvers and notifiers took their steps (device_notifier.cpp:98-110,      *)
(* 122-143, device_manager.cpp:63-90).                                        *)
(******************************************************************************)
THEOREM ListFollowsNetwork == Spec => []ListMatchesNetwork
<1>1. Spec => []NetworkInv
  BY NetworkInit, NetworkStep, AlwaysInductive, PTL DEF Spec
<1>2. ASSUME NetworkInv, Settled, NEW name \in Names \ unsettled
      PROVE  Cardinality(Positions(device_entries_, name))
               = Cardinality({n \in Notifiers : name \in present[n]})
  <2>1. PICK seen \in [Notifiers -> SUBSET Names] : Balanced(seen)
    BY <1>2 DEF NetworkInv
  <2>2. ASSUME NEW n \in Notifiers PROVE seen[n] = present[n]
    <3>1. Path(seen[n], events[n], present[n]) /\ events[n] = <<>>
      BY <1>2, <2>1 DEF Balanced, Settled
    <3>2. Path(seen[n], <<>>, present[n])
      BY <3>1
    <3> QED
      BY <3>2, PathEmpty
  <2>3. \A n \in Notifiers : thread[n] # "waiting" /\ resolving[n][name] = 0
    BY <1>2 DEF Settled
  <2>4. Listers(seen, name) = {n \in Notifiers : name \in present[n]}
    BY <2>2, <2>3 DEF Listers, IsListed, Reports
  <2> QED
    BY <2>1, <2>4 DEF Balanced
<1>3. NetworkInv => ListMatchesNetwork
  BY <1>2 DEF ListMatchesNetwork
<1> QED
  BY <1>1, <1>3, PTL

(******************************************************************************)
(* No callback runs between a return of stopMonitoring() and the next         *)
(* startMonitoring() (device_manager.cpp:43-50, device_notifier.cpp:80-84).   *)
(******************************************************************************)
THEOREM StoppedIsQuiet == Spec => NoCallbackWhenStopped
<1>1. Inductive /\ [Next]_vars =>
        [monitoring = "off" /\ monitoring' = "off" =>
           known' = known /\ device_entries_' = device_entries_]_vars
  <2> SUFFICES ASSUME Inductive, Next, monitoring = "off"
               PROVE  known' = known /\ device_entries_' = device_entries_
    BY DEF vars
  <2> USE DEF managerVars, initVars, networkVars
  <2>1. \A n \in Notifiers : thread[n] = "none"
    BY DEF Inductive, ThreadsInv
  <2>2. CASE StartMonitoring \/ StopMonitoring \/ MonitoringStopped
    BY <2>2 DEF StartMonitoring, StopMonitoring, MonitoringStopped
  <2>3. CASE \E n \in Notifiers : AddDeviceNotifier(n) \/ StopNotifier(n)
    BY <2>3 DEF AddDeviceNotifier, StopNotifier
  <2>4. CASE \E n \in Notifiers : Loop(n)
    BY <2>1, <2>4 DEF Loop, ServiceBrowserCallback, ServiceResolverCallback, OnDeviceAttached,
         OnDeviceDetached, CallbackReturns, LeaveLoop
  <2>5. CASE \E n \in Notifiers, name \in Names : Change(n, name)
    BY <2>5 DEF Change
  <2> QED
    BY <2>2, <2>3, <2>4, <2>5 DEF Next
<1> QED
  BY <1>1, AlwaysInductive, PTL DEF Spec, NoCallbackWhenStopped
================================================================================
