------------------------- MODULE WindowsNotifierProofs -------------------------
(******************************************************************************)
(* Proofs that WindowsNotifier keeps its invariants for every set of services *)
(* and hosts and every number of requests.                                    *)
(******************************************************************************)
EXTENDS WindowsNotifier, ListProofs

--------------------------------------------------------------------------------
(******************************************************************************)
(* Where a request is in the list.                                            *)
(******************************************************************************)
LEMMA PlaceOf ==
  ASSUME NEW S, NEW sequence \in Seq(S), NEW e, \E i \in 1..Len(sequence) : sequence[i] = e
  PROVE  LET p == SelectInSeq(sequence, LAMBDA v : v = e)
         IN  p \in 1..Len(sequence) /\ sequence[p] = e
<1> DEFINE I == {i \in 1..Len(sequence) : sequence[i] = e}
<1>1. I # {} /\ I \subseteq Nat
  OBVIOUS
<1>2. Min(I) \in I
  BY <1>1, MinIsLeast
<1>3. SelectInSeq(sequence, LAMBDA v : v = e) = Min(I)
  BY <1>1 DEF SelectInSeq
<1> QED
  BY <1>2, <1>3

--------------------------------------------------------------------------------
(******************************************************************************)
(* The inductive invariant.  A record of the lists is in order if each has    *)
(* its type, the list of requests has the elements of the socket set, each    *)
(* once, and every resolved service has been reported or waits for a pending  *)
(* request.                                                                   *)
(******************************************************************************)
AddressIds(made, h) == {id \in 1..Len(made) : made[id] = GetAddrInfo(h)}
On(h) == {service \in Services : HostOf[service] = h}

StateOK(s) ==
  s \in [pending : Seq(Nat), read : SUBSET Nat, records : Seq(Services),
         requests : Seq(Requests), resolved : [Services -> Nat], attached : [Services -> Nat]]

ListsAgree(s) ==
  /\ s.read \subseteq 1..Len(s.requests)
  /\ \A id : id \in s.read <=> \E i \in 1..Len(s.pending) : s.pending[i] = id
  /\ \A i, j \in 1..Len(s.pending) : s.pending[i] = s.pending[j] => i = j

Counted(s) ==
  /\ \A service \in Services :
       s.resolved[service] = s.attached[service] + Count(s.records, {service})
  /\ \A h \in Hosts : Count(s.records, On(h)) <= Count(s.pending, AddressIds(s.requests, h))

InOrder(s) == StateOK(s) /\ ListsAgree(s) /\ Counted(s)

(******************************************************************************)
(* The components of a well formed record.                                    *)
(******************************************************************************)
LEMMA StateFacts ==
  ASSUME NEW s, StateOK(s)
  PROVE  /\ s.pending \in Seq(Nat) /\ s.read \subseteq Nat /\ s.records \in Seq(Services)
         /\ s.requests \in Seq(Requests) /\ s.resolved \in [Services -> Nat]
         /\ s.attached \in [Services -> Nat]
         /\ Len(s.pending) \in Nat /\ Len(s.requests) \in Nat /\ Len(s.records) \in Nat
BY DEF StateOK

Updated(s, made, pending, read) ==
  [s EXCEPT !.requests = made, !.pending = pending, !.read = read]

(******************************************************************************)
(* Changing the two lists of requests leaves the rest of the state alone.     *)
(******************************************************************************)
LEMMA StateUpdate ==
  ASSUME NEW s, StateOK(s), NEW pending \in Seq(Nat), NEW read \in SUBSET Nat,
         NEW made \in Seq(Requests)
  PROVE  LET t == Updated(s, made, pending, read)
         IN  /\ StateOK(t)
             /\ t.records = s.records /\ t.resolved = s.resolved /\ t.attached = s.attached
             /\ t.read = read /\ t.pending = pending /\ t.requests = made
BY DEF StateOK, Updated

(******************************************************************************)
(* Making a request (device_notifier.cpp:257-263, 281-289).                   *)
(******************************************************************************)
LEMMA RequestFacts ==
  ASSUME NEW s, StateOK(s), ListsAgree(s), NEW request \in Requests
  PROVE  LET t == Request(s, request)
             id == Len(s.requests) + 1
         IN  /\ StateOK(t) /\ ListsAgree(t)
             /\ t.records = s.records /\ t.resolved = s.resolved /\ t.attached = s.attached
             /\ t.read = s.read \cup {id} /\ t.pending = <<id>> \o s.pending
             /\ t.requests = Append(s.requests, request)
             /\ \A h : Count(t.pending, AddressIds(t.requests, h))
                         = Count(s.pending, AddressIds(s.requests, h))
                             + (IF request = GetAddrInfo(h) THEN 1 ELSE 0)
<1> DEFINE t == Request(s, request)
           id == Len(s.requests) + 1
<1>1. /\ s.pending \in Seq(Nat) /\ s.read \subseteq Nat /\ s.records \in Seq(Services)
      /\ s.requests \in Seq(Requests) /\ s.resolved \in [Services -> Nat]
      /\ s.attached \in [Services -> Nat]
      /\ Len(s.pending) \in Nat /\ Len(s.requests) \in Nat
  BY StateFacts
<1>2. id \in Nat
  BY <1>1
<1>3. /\ Append(s.requests, request) \in Seq(Requests)
      /\ Len(Append(s.requests, request)) = id
      /\ Append(s.requests, request)[id] = request
      /\ \A i \in 1..Len(s.requests) : Append(s.requests, request)[i] = s.requests[i]
  BY <1>1, AppendProperties
<1>4. /\ <<id>> \o s.pending \in Seq(Nat) /\ Len(<<id>> \o s.pending) = Len(s.pending) + 1
      /\ (<<id>> \o s.pending)[1] = id
      /\ \A i \in 1..Len(s.pending) : (<<id>> \o s.pending)[i + 1] = s.pending[i]
  BY <1>1, <1>2, PrependFacts
<1>5. /\ StateOK(t)
      /\ t.records = s.records /\ t.resolved = s.resolved /\ t.attached = s.attached
      /\ t.read = s.read \cup {id} /\ t.pending = <<id>> \o s.pending
      /\ t.requests = Append(s.requests, request)
  <2> DEFINE made == Append(s.requests, request)
             pending == <<id>> \o s.pending
             read == s.read \cup {id}
  <2>1. t = Updated(s, made, pending, read)
    BY DEF Request, Updated
  <2>2. made \in Seq(Requests) /\ pending \in Seq(Nat) /\ read \in SUBSET Nat
    BY <1>1, <1>2, <1>3, <1>4
  <2> HIDE DEF t, id, made, pending, read
  <2>3. /\ StateOK(t)
        /\ t.records = s.records /\ t.resolved = s.resolved /\ t.attached = s.attached
        /\ t.read = read /\ t.pending = pending /\ t.requests = made
    BY <2>1, <2>2, StateUpdate
  <2> QED
    BY <2>3 DEF made, pending, read
<1> HIDE DEF t
<1>6. /\ Len(t.pending) = Len(s.pending) + 1 /\ t.pending[1] = id
      /\ \A i \in 1..Len(s.pending) : t.pending[i + 1] = s.pending[i]
  BY <1>4, <1>5, ZenonT(30)
<1>7. ListsAgree(t)
  <2>1. t.read \subseteq 1..Len(t.requests)
    BY <1>1, <1>3, <1>5 DEF ListsAgree
  <2>2. \A i \in 1..Len(s.pending) : s.pending[i] \in s.read /\ s.pending[i] # id
    <3>1. \A i \in 1..Len(s.pending) : s.pending[i] \in s.read
      BY DEF ListsAgree
    <3>2. \A x \in s.read : x # id
      BY <1>1 DEF ListsAgree
    <3> QED
      BY <3>1, <3>2
  <2> HIDE DEF id
  <2>3. ASSUME NEW i \in 1..Len(t.pending)
        PROVE  \/ i = 1 /\ t.pending[i] = id
               \/ i # 1 /\ i - 1 \in 1..Len(s.pending) /\ t.pending[i] = s.pending[i - 1]
    <3>1. CASE i = 1
      BY <1>6, <3>1
    <3>2. CASE i # 1
      <4>1. i - 1 \in 1..Len(s.pending) /\ (i - 1) + 1 = i
        BY <1>1, <1>6, <3>2
      <4> QED
        BY <1>6, <3>2, <4>1
    <3> QED
      BY <3>1, <3>2
  <2>4. \A i \in 1..Len(s.pending) : i + 1 \in 1..Len(t.pending) /\ t.pending[i + 1] = s.pending[i]
    BY <1>1, <1>6
  <2>5. 1 \in 1..Len(t.pending) /\ t.pending[1] = id
    BY <1>1, <1>6
  <2>6. ASSUME NEW x PROVE x \in t.read <=> \E i \in 1..Len(t.pending) : t.pending[i] = x
    <3>1. ASSUME x \in t.read PROVE \E i \in 1..Len(t.pending) : t.pending[i] = x
      <4>1. CASE x = id
        BY <2>5, <4>1
      <4>2. CASE x \in s.read
        <5>1. PICK i \in 1..Len(s.pending) : s.pending[i] = x
          BY <4>2 DEF ListsAgree
        <5> QED
          BY <2>4, <5>1
      <4> QED
        BY <1>5, <3>1, <4>1, <4>2
    <3>2. ASSUME NEW i \in 1..Len(t.pending), t.pending[i] = x PROVE x \in t.read
      BY <1>5, <2>2, <2>3, <3>2
    <3> QED
      BY <3>1, <3>2
  <2>7. ASSUME NEW i \in 1..Len(t.pending), NEW j \in 1..Len(t.pending),
               t.pending[i] = t.pending[j]
        PROVE  i = j
    <3>1. CASE i = 1 \/ j = 1
      BY <2>2, <2>3, <2>7, <3>1
    <3>2. CASE i # 1 /\ j # 1
      <4>1. /\ i - 1 \in 1..Len(s.pending) /\ j - 1 \in 1..Len(s.pending)
            /\ s.pending[i - 1] = s.pending[j - 1]
        BY <2>3, <2>7, <3>2
      <4>2. i - 1 = j - 1
        BY <4>1 DEF ListsAgree
      <4> QED
        BY <4>2
    <3> QED
      BY <3>1, <3>2
  <2> QED
    BY <2>1, <2>6, <2>7 DEF ListsAgree
<1>8. ASSUME NEW h
      PROVE  Count(t.pending, AddressIds(t.requests, h))
               = Count(s.pending, AddressIds(s.requests, h))
                   + (IF request = GetAddrInfo(h) THEN 1 ELSE 0)
  <2>1. Count(t.pending, AddressIds(t.requests, h))
          = Count(s.pending, AddressIds(t.requests, h))
              + (IF id \in AddressIds(t.requests, h) THEN 1 ELSE 0)
    <3> HIDE DEF id
    <3>1. Count(<<id>> \o s.pending, AddressIds(t.requests, h))
            = Count(s.pending, AddressIds(t.requests, h))
                + (IF id \in AddressIds(t.requests, h) THEN 1 ELSE 0)
      BY <1>1, <1>2, CountPrepend, ZenonT(30)
    <3> QED
      BY <1>5, <3>1, ZenonT(30)
  <2>2. id \in AddressIds(t.requests, h) <=> request = GetAddrInfo(h)
    BY <1>1, <1>3, <1>5 DEF AddressIds
  <2>3. \A i \in 1..Len(s.pending) : s.pending[i] \in 1..Len(s.requests)
    BY DEF ListsAgree
  <2>4. \A x \in 1..Len(s.requests) :
          x \in AddressIds(t.requests, h) <=> x \in AddressIds(s.requests, h)
    <3>1. \A x \in 1..Len(s.requests) :
            x \in 1..Len(t.requests) /\ t.requests[x] = s.requests[x]
      BY <1>1, <1>3, <1>5
    <3> QED
      BY <3>1 DEF AddressIds
  <2>5. \A i \in 1..Len(s.pending) :
          s.pending[i] \in AddressIds(t.requests, h) <=> s.pending[i] \in AddressIds(s.requests, h)
    BY <2>3, <2>4
  <2>6. Count(s.pending, AddressIds(t.requests, h)) = Count(s.pending, AddressIds(s.requests, h))
    BY <1>1, <2>5, CountSame
  <2> QED
    BY <2>1, <2>2, <2>6
<1> QED
  BY <1>5, <1>7, <1>8 DEF t

(******************************************************************************)
(* Giving a request up (device_notifier.cpp:291-294, 325-328).                *)
(******************************************************************************)
LEMMA ReleaseFacts ==
  ASSUME NEW s, StateOK(s), ListsAgree(s), NEW id \in s.read
  PROVE  LET t == Release(s, id)
         IN  /\ StateOK(t) /\ ListsAgree(t)
             /\ t.records = s.records /\ t.resolved = s.resolved /\ t.attached = s.attached
             /\ t.read = s.read \ {id} /\ t.requests = s.requests
             /\ \A V : Count(s.pending, V) = Count(t.pending, V) + (IF id \in V THEN 1 ELSE 0)
<1> DEFINE t == Release(s, id)
           p == SelectInSeq(s.pending, LAMBDA v : v = id)
           pending == RemoveAt(s.pending, p)
           read == s.read \ {id}
<1>1. /\ s.pending \in Seq(Nat) /\ s.read \subseteq Nat /\ s.requests \in Seq(Requests)
      /\ Len(s.pending) \in Nat /\ Len(s.requests) \in Nat
  BY StateFacts
<1>2. \E i \in 1..Len(s.pending) : s.pending[i] = id
  BY DEF ListsAgree
<1>3. p \in 1..Len(s.pending) /\ s.pending[p] = id
  BY <1>1, <1>2, PlaceOf
<1>4. RemoveFirst(s.pending, id) = pending
  BY <1>2 DEF RemoveFirst
<1>5. t = [s EXCEPT !.pending = pending, !.read = read]
  BY <1>4 DEF Release
<1>6. t = Updated(s, s.requests, pending, read)
  BY <1>5 DEF Updated, StateOK
<1> HIDE DEF t, p
<1>7. /\ pending \in Seq(Nat) /\ Len(pending) = Len(s.pending) - 1
      /\ \A i \in 1..(Len(s.pending) - 1) :
           pending[i] = IF i < p THEN s.pending[i] ELSE s.pending[i + 1]
  BY <1>1, <1>3, RemoveAtFacts
<1>8. \A V : Count(s.pending, V) = Count(pending, V) + (IF s.pending[p] \in V THEN 1 ELSE 0)
  BY <1>1, <1>3, CountRemoveAt
<1> HIDE DEF pending
<1>9. read \in SUBSET Nat
  BY <1>1
<1> HIDE DEF read
<1>10. /\ StateOK(t)
       /\ t.records = s.records /\ t.resolved = s.resolved /\ t.attached = s.attached
       /\ t.read = read /\ t.pending = pending /\ t.requests = s.requests
  BY <1>1, <1>6, <1>7, <1>9, StateUpdate
<1>11. ListsAgree(t)
  <2>1. t.read \subseteq 1..Len(t.requests)
    BY <1>10 DEF ListsAgree, read
  <2>2. ASSUME NEW i \in 1..Len(pending)
        PROVE  \E j \in 1..Len(s.pending) : j = (IF i < p THEN i ELSE i + 1) /\ j # p
                                            /\ pending[i] = s.pending[j]
    <3>1. i \in 1..(Len(s.pending) - 1)
      BY <1>7
    <3>2. CASE i < p
      <4>1. i \in 1..Len(s.pending) /\ i # p
        BY <1>1, <1>3, <3>1, <3>2
      <4> QED
        BY <1>7, <3>1, <3>2, <4>1
    <3>3. CASE ~(i < p)
      <4>1. i + 1 \in 1..Len(s.pending) /\ i + 1 # p
        BY <1>1, <1>3, <3>1, <3>3
      <4> QED
        BY <1>7, <3>1, <3>3, <4>1
    <3> QED
      BY <3>2, <3>3
  <2>3. ASSUME NEW j \in 1..Len(s.pending), j # p
        PROVE  \E i \in 1..Len(pending) : pending[i] = s.pending[j]
    <3>1. CASE j < p
      <4>1. j \in 1..(Len(s.pending) - 1) /\ j \in 1..Len(pending)
        BY <1>1, <1>3, <1>7, <3>1
      <4> QED
        BY <1>7, <3>1, <4>1
    <3>2. CASE ~(j < p)
      <4>1. j - 1 \in 1..(Len(s.pending) - 1) /\ ~(j - 1 < p) /\ (j - 1) + 1 = j
        BY <1>1, <1>3, <2>3, <3>2
      <4> QED
        BY <1>7, <4>1
    <3> QED
      BY <3>1, <3>2
  <2>4. ASSUME NEW x PROVE x \in t.read <=> \E i \in 1..Len(t.pending) : t.pending[i] = x
    <3>1. ASSUME x \in t.read PROVE \E i \in 1..Len(t.pending) : t.pending[i] = x
      <4>1. x \in s.read /\ x # id
        BY <1>10, <3>1 DEF read
      <4>2. PICK j \in 1..Len(s.pending) : s.pending[j] = x
        BY <4>1 DEF ListsAgree
      <4>3. j # p
        BY <1>3, <4>1, <4>2
      <4> QED
        BY <1>10, <2>3, <4>2, <4>3
    <3>2. ASSUME NEW i \in 1..Len(t.pending), t.pending[i] = x PROVE x \in t.read
      <4>1. PICK j \in 1..Len(s.pending) : j # p /\ s.pending[j] = x
        BY <1>10, <2>2, <3>2
      <4>2. x # id
        BY <1>3, <4>1 DEF ListsAgree
      <4>3. x \in s.read
        BY <4>1 DEF ListsAgree
      <4> QED
        BY <1>10, <4>2, <4>3 DEF read
    <3> QED
      BY <3>1, <3>2
  <2>5. ASSUME NEW i \in 1..Len(t.pending), NEW k \in 1..Len(t.pending),
               t.pending[i] = t.pending[k]
        PROVE  i = k
    <3>1. PICK j \in 1..Len(s.pending) : j = (IF i < p THEN i ELSE i + 1) /\ pending[i] = s.pending[j]
      BY <1>10, <2>2
    <3>2. PICK l \in 1..Len(s.pending) : l = (IF k < p THEN k ELSE k + 1) /\ pending[k] = s.pending[l]
      BY <1>10, <2>2
    <3>3. j = l
      BY <1>10, <2>5, <3>1, <3>2 DEF ListsAgree
    <3>4. (IF i < p THEN i ELSE i + 1) = (IF k < p THEN k ELSE k + 1)
      BY <3>1, <3>2, <3>3
    <3>5. i \in Nat /\ k \in Nat /\ p \in Nat
      BY <1>3
    <3> QED
      BY <3>4, <3>5
  <2> QED
    BY <2>1, <2>4, <2>5 DEF ListsAgree
<1> QED
  BY <1>3, <1>8, <1>10, <1>11 DEF t, read

(******************************************************************************)
(* Giving up a request that no record waits for keeps the counts.             *)
(******************************************************************************)
LEMMA ReleaseUncounted ==
  ASSUME NEW s, InOrder(s), NEW id \in s.read,
         \A h \in Hosts :
           id \in AddressIds(s.requests, h) =>
             \/ Count(s.records, On(h)) = 0
             \/ Count(s.records, On(h)) < Count(s.pending, AddressIds(s.requests, h))
  PROVE  /\ InOrder(Release(s, id)) /\ Release(s, id).read = s.read \ {id}
         /\ Release(s, id).requests = s.requests
<1> DEFINE t == Release(s, id)
<1>1. /\ StateOK(t) /\ ListsAgree(t)
      /\ t.records = s.records /\ t.resolved = s.resolved /\ t.attached = s.attached
      /\ t.read = s.read \ {id} /\ t.requests = s.requests
      /\ \A V : Count(s.pending, V) = Count(t.pending, V) + (IF id \in V THEN 1 ELSE 0)
  BY ReleaseFacts DEF InOrder
<1> HIDE DEF t
<1>2. t.pending \in Seq(Nat) /\ s.records \in Seq(Services)
  BY <1>1, StateFacts
<1>3. ASSUME NEW h \in Hosts
      PROVE  Count(t.records, On(h)) <= Count(t.pending, AddressIds(t.requests, h))
  <2> DEFINE a == Count(s.records, On(h))
             b == Count(s.pending, AddressIds(s.requests, h))
             c == Count(t.pending, AddressIds(s.requests, h))
  <2>1. a \in Nat /\ c \in Nat
    BY <1>2, PlacesAreFinite
  <2>2. b = c + (IF id \in AddressIds(s.requests, h) THEN 1 ELSE 0)
    BY <1>1
  <2>3. a <= b
    BY DEF InOrder, Counted
  <2>4. id \in AddressIds(s.requests, h) => a = 0 \/ a < b
    OBVIOUS
  <2> HIDE DEF a, b, c
  <2>5. a <= c
    BY <2>1, <2>2, <2>3, <2>4
  <2> QED
    BY <1>1, <2>5 DEF a, c
<1>4. Counted(t)
  BY <1>1, <1>3 DEF InOrder, Counted
<1> QED
  BY <1>1, <1>4 DEF InOrder, t

--------------------------------------------------------------------------------
(******************************************************************************)
(* A request is for what its kind says.                                       *)
(******************************************************************************)
LEMMA KindOfRequest ==
  ASSUME NEW request \in Requests
  PROVE  /\ request.kind = "resolve" => request.of \in Services /\ request = Resolve(request.of)
         /\ request.kind = "address" => request.of \in Hosts /\ request = GetAddrInfo(request.of)
         /\ request.kind \in {"browse", "resolve", "address"}
         /\ \A h : request = GetAddrInfo(h) <=> request.kind = "address" /\ request.of = h
<1>1. CASE request = Browse
  BY <1>1 DEF Browse, GetAddrInfo
<1>2. ASSUME NEW service \in Services, request = Resolve(service)
      PROVE  /\ request.kind = "resolve" /\ request.of = service
             /\ \A h : request # GetAddrInfo(h)
  BY <1>2 DEF Resolve, GetAddrInfo
<1>3. ASSUME NEW host \in Hosts, request = GetAddrInfo(host)
      PROVE  /\ request.kind = "address" /\ request.of = host
             /\ \A h : request = GetAddrInfo(h) <=> host = h
  BY <1>3 DEF GetAddrInfo
<1>4. request = Browse \/ (\E service \in Services : request = Resolve(service))
        \/ \E host \in Hosts : request = GetAddrInfo(host)
  BY DEF Requests
<1> QED
  BY <1>1, <1>2, <1>3, <1>4

(******************************************************************************)
(* What the callbacks request, and that requests for different hosts differ.  *)
(******************************************************************************)
LEMMA RequestsMade ==
  /\ \A service \in Services : Resolve(service) \in Requests
  /\ \A service \in Services : GetAddrInfo(HostOf[service]) \in Requests /\ HostOf[service] \in Hosts
  /\ \A g, h : GetAddrInfo(g) = GetAddrInfo(h) <=> g = h
  /\ \A service, h : Resolve(service) # GetAddrInfo(h)
BY NotifierAssumption DEF Requests, Resolve, GetAddrInfo

(******************************************************************************)
(* A new service is resolved (device_notifier.cpp:249-267).                   *)
(******************************************************************************)
LEMMA BrowseKeeps ==
  ASSUME NEW s, InOrder(s), NEW t \in BrowseCallback(s)
  PROVE  InOrder(t) /\ s.read \subseteq t.read /\ Len(s.requests) <= Len(t.requests)
<1>0. s.requests \in Seq(Requests) /\ Len(s.requests) \in Nat
  BY StateFacts DEF InOrder
<1>1. CASE t = s
  BY <1>0, <1>1
<1>2. ASSUME NEW service \in Services, t = Request(s, Resolve(service))
      PROVE  InOrder(t) /\ s.read \subseteq t.read /\ Len(s.requests) <= Len(t.requests)
  <2>1. Resolve(service) \in Requests /\ \A h : Resolve(service) # GetAddrInfo(h)
    BY RequestsMade
  <2>2. /\ StateOK(t) /\ ListsAgree(t)
        /\ t.records = s.records /\ t.resolved = s.resolved /\ t.attached = s.attached
        /\ t.read = s.read \cup {Len(s.requests) + 1}
        /\ t.requests = Append(s.requests, Resolve(service))
        /\ \A h : Count(t.pending, AddressIds(t.requests, h))
                    = Count(s.pending, AddressIds(s.requests, h))
                        + (IF Resolve(service) = GetAddrInfo(h) THEN 1 ELSE 0)
    BY <1>2, <2>1, RequestFacts DEF InOrder
  <2>3. s.pending \in Seq(Nat)
    BY StateFacts DEF InOrder
  <2>4. \A h \in Hosts : Count(t.pending, AddressIds(t.requests, h))
                           = Count(s.pending, AddressIds(s.requests, h))
    <3> TAKE h \in Hosts
    <3>1. Count(s.pending, AddressIds(s.requests, h)) \in Nat
      BY <2>3, PlacesAreFinite
    <3> QED
      BY <2>1, <2>2, <3>1
  <2>5. Counted(t)
    BY <2>2, <2>4 DEF InOrder, Counted
  <2>6. Len(t.requests) = Len(s.requests) + 1
    BY <1>0, <2>1, <2>2, AppendProperties
  <2> QED
    BY <1>0, <2>2, <2>5, <2>6 DEF InOrder
<1> QED
  BY <1>1, <1>2 DEF BrowseCallback

(******************************************************************************)
(* A resolved service gets a record, and its address is requested             *)
(* (device_notifier.cpp:281-289).                                             *)
(******************************************************************************)
Noted(s, service) ==
  [s EXCEPT !.records = Recorded(@, service), !.resolved[service] = @ + 1]

Accepted(s, service) == Noted(Request(s, GetAddrInfo(HostOf[service])), service)

(******************************************************************************)
(* Noting a resolved service appends its record and counts it.                *)
(******************************************************************************)
LEMMA RecordUpdate ==
  ASSUME NEW s, StateOK(s), NEW service \in Services
  PROVE  LET t == Noted(s, service)
         IN  /\ StateOK(t)
             /\ t.pending = s.pending /\ t.read = s.read /\ t.requests = s.requests
             /\ t.attached = s.attached /\ t.records = Append(s.records, service)
             /\ t.resolved = [s.resolved EXCEPT ![service] = @ + 1]
<1>1. s.records \in Seq(Services) /\ s.resolved \in [Services -> Nat]
  BY StateFacts
<1> DEFINE t == Noted(s, service)
           records == Append(s.records, service)
           counts == [s.resolved EXCEPT ![service] = @ + 1]
<1>2. records \in Seq(Services) /\ counts \in [Services -> Nat]
  BY <1>1, AppendProperties
<1>3. t = [s EXCEPT !.records = records, !.resolved = counts]
  BY DEF Noted, Recorded, StateOK
<1> HIDE DEF records, counts
<1>4. /\ StateOK(t)
      /\ t.pending = s.pending /\ t.read = s.read /\ t.requests = s.requests
      /\ t.attached = s.attached /\ t.records = records /\ t.resolved = counts
  BY <1>2, <1>3 DEF StateOK
<1> QED
  BY <1>4 DEF records, counts

(******************************************************************************)
(* An accepted answer leaves a record and the request for its address.        *)
(******************************************************************************)
LEMMA AcceptedKeeps ==
  ASSUME NEW s, InOrder(s), NEW service \in Services
  PROVE  LET t == Accepted(s, service)
         IN  /\ InOrder(t) /\ s.read \subseteq t.read
             /\ Len(s.requests) <= Len(t.requests)
             /\ \A id \in 1..Len(s.requests) : t.requests[id] = s.requests[id]
<1> DEFINE t == Accepted(s, service)
           request == GetAddrInfo(HostOf[service])
           u == Request(s, request)
<1>1. request \in Requests /\ HostOf[service] \in Hosts
      /\ \A h : request = GetAddrInfo(h) <=> HostOf[service] = h
  BY RequestsMade
<1>2. s.pending \in Seq(Nat) /\ s.records \in Seq(Services) /\ s.requests \in Seq(Requests)
      /\ s.resolved \in [Services -> Nat] /\ s.attached \in [Services -> Nat]
  BY StateFacts DEF InOrder
<1>3. t = Noted(u, service)
  BY DEF Accepted
<1> HIDE DEF request
<1>4. /\ StateOK(u) /\ ListsAgree(u)
      /\ u.records = s.records /\ u.resolved = s.resolved /\ u.attached = s.attached
      /\ u.read = s.read \cup {Len(s.requests) + 1} /\ u.requests = Append(s.requests, request)
      /\ \A h : Count(u.pending, AddressIds(u.requests, h))
                  = Count(s.pending, AddressIds(s.requests, h))
                      + (IF request = GetAddrInfo(h) THEN 1 ELSE 0)
  <2>1. StateOK(s) /\ ListsAgree(s)
    BY DEF InOrder
  <2> HIDE DEF u
  <2> QED
    BY <1>1, <2>1, RequestFacts, ZenonT(30) DEF u
<1> HIDE DEF t, u
<1>5. /\ StateOK(t)
      /\ t.pending = u.pending /\ t.read = u.read /\ t.requests = u.requests
      /\ t.attached = u.attached /\ t.records = Append(u.records, service)
      /\ t.resolved = [u.resolved EXCEPT ![service] = @ + 1]
  BY <1>3, <1>4, RecordUpdate, ZenonT(30)
<1>6. ListsAgree(t)
  <2>1. ListsAgree(u) /\ t.pending = u.pending /\ t.read = u.read /\ t.requests = u.requests
    BY <1>4, <1>5
  <2> QED
    BY <2>1 DEF ListsAgree
<1>7. /\ Len(s.requests) <= Len(t.requests)
      /\ \A id \in 1..Len(s.requests) : t.requests[id] = s.requests[id]
  <2>1. Len(s.requests) \in Nat /\ Len(Append(s.requests, request)) = Len(s.requests) + 1
        /\ \A id \in 1..Len(s.requests) : Append(s.requests, request)[id] = s.requests[id]
    BY <1>1, <1>2, AppendProperties
  <2> QED
    BY <1>4, <1>5, <2>1
<1>8. ASSUME NEW x \in Services
      PROVE  t.resolved[x] = t.attached[x] + Count(t.records, {x})
  <2>1. Count(t.records, {x}) = Count(s.records, {x}) + (IF service \in {x} THEN 1 ELSE 0)
    BY <1>2, <1>4, <1>5, CountAppend
  <2>2. s.resolved[x] = s.attached[x] + Count(s.records, {x})
    BY DEF InOrder, Counted
  <2>3. t.resolved[x] = s.resolved[x] + (IF service \in {x} THEN 1 ELSE 0)
    BY <1>2, <1>4, <1>5
  <2>4. Count(s.records, {x}) \in Nat /\ s.attached[x] \in Nat /\ t.attached[x] = s.attached[x]
    BY <1>2, <1>4, <1>5, PlacesAreFinite
  <2> QED
    BY <2>1, <2>2, <2>3, <2>4
<1>9. ASSUME NEW h \in Hosts
      PROVE  Count(t.records, On(h)) <= Count(t.pending, AddressIds(t.requests, h))
  <2>1. Count(t.records, On(h)) = Count(s.records, On(h)) + (IF service \in On(h) THEN 1 ELSE 0)
    BY <1>2, <1>4, <1>5, CountAppend
  <2>2. Count(s.records, On(h)) <= Count(s.pending, AddressIds(s.requests, h))
    BY DEF InOrder, Counted
  <2>3. Count(t.pending, AddressIds(t.requests, h))
          = Count(s.pending, AddressIds(s.requests, h))
              + (IF request = GetAddrInfo(h) THEN 1 ELSE 0)
    BY <1>4, <1>5
  <2>4. service \in On(h) <=> request = GetAddrInfo(h)
    BY <1>1 DEF On
  <2>5. Count(s.records, On(h)) \in Nat /\ Count(s.pending, AddressIds(s.requests, h)) \in Nat
    BY <1>2, PlacesAreFinite
  <2> QED
    BY <2>1, <2>2, <2>3, <2>4, <2>5
<1> QED
  BY <1>4, <1>5, <1>6, <1>7, <1>8, <1>9 DEF InOrder, Counted, t

(******************************************************************************)
(* The callback of a resolution keeps the lists in order, and may take its    *)
(* own request out of them.                                                   *)
(******************************************************************************)
LEMMA ResolveKeeps ==
  ASSUME NEW s, InOrder(s), NEW id \in s.read, s.requests[id].kind = "resolve",
         NEW more \in BOOLEAN, NEW t \in ResolveCallback(s, id, more)
  PROVE  /\ InOrder(t) /\ s.read \ {id} \subseteq t.read /\ (more => id \in t.read)
         /\ Len(s.requests) <= Len(t.requests)
<1> DEFINE service == s.requests[id].of
           accepted == Accepted(s, service)
<1>1. s.requests \in Seq(Requests) /\ id \in 1..Len(s.requests)
  BY StateFacts DEF InOrder, ListsAgree
<1>2. s.requests[id] \in Requests
  BY <1>1, ElementOfSeq
<1>3. service \in Services /\ \A h : s.requests[id] # GetAddrInfo(h)
  BY <1>2, KindOfRequest
<1>4. t \in IF more THEN {accepted, s} ELSE {Release(accepted, id), Release(s, id)}
  BY DEF ResolveCallback, Accepted, Noted
<1> HIDE DEF service
<1>5. /\ InOrder(accepted) /\ s.read \subseteq accepted.read
      /\ Len(s.requests) <= Len(accepted.requests) /\ Len(s.requests) \in Nat
      /\ accepted.requests[id] = s.requests[id]
  BY <1>1, <1>3, AcceptedKeeps
<1> HIDE DEF accepted
<1>6. \A h : id \notin AddressIds(accepted.requests, h) /\ id \notin AddressIds(s.requests, h)
  BY <1>3, <1>5 DEF AddressIds
<1>7. /\ InOrder(Release(accepted, id)) /\ Release(accepted, id).read = accepted.read \ {id}
      /\ InOrder(Release(s, id)) /\ Release(s, id).read = s.read \ {id}
      /\ Release(accepted, id).requests = accepted.requests
      /\ Release(s, id).requests = s.requests
  BY <1>5, <1>6, ReleaseUncounted
<1> QED
  BY <1>4, <1>5, <1>7

(******************************************************************************)
(* The address of a host comes: the first record with the host is reported    *)
(* and erased (device_notifier.cpp:304-323).                                  *)
(******************************************************************************)
Place(s, host) == SelectInSeq(s.records, LAMBDA r : HostOf[r] = host)

Found(s, host) ==
  IF Place(s, host) = 0 THEN s
  ELSE [s EXCEPT !.records = Erased(@, Place(s, host)),
                 !.attached[s.records[Place(s, host)]] = @ + 1]

(******************************************************************************)
(* The search for a host finds a record of it, or there is none.              *)
(******************************************************************************)
LEMMA PlaceFacts ==
  ASSUME NEW s, s.records \in Seq(Services), NEW host
  PROVE  \/ Place(s, host) = 0 /\ \A i \in 1..Len(s.records) : HostOf[s.records[i]] # host
         \/ Place(s, host) \in 1..Len(s.records) /\ HostOf[s.records[Place(s, host)]] = host
<1> DEFINE I == {i \in 1..Len(s.records) : HostOf[s.records[i]] = host}
<1>1. Place(s, host) = IF I # {} THEN Min(I) ELSE 0
  BY DEF Place, SelectInSeq
<1>2. I \subseteq Nat
  OBVIOUS
<1>3. CASE I # {}
  <2>1. Min(I) \in I
    BY <1>2, <1>3, MinIsLeast
  <2> QED
    BY <1>1, <1>3, <2>1
<1>4. CASE I = {}
  BY <1>1, <1>4
<1> QED
  BY <1>3, <1>4

(******************************************************************************)
(* An address reports a record of its host: either none is left, or another   *)
(* request for the host is pending.                                           *)
(******************************************************************************)
LEMMA FoundKeeps ==
  ASSUME NEW s, InOrder(s), NEW host \in Hosts
  PROVE  LET t == Found(s, host)
         IN  /\ InOrder(t) /\ t.read = s.read /\ t.requests = s.requests
             /\ \/ Count(t.records, On(host)) = 0
                \/ Count(t.records, On(host)) < Count(t.pending, AddressIds(t.requests, host))
<1> DEFINE t == Found(s, host)
           p == Place(s, host)
           service == s.records[p]
           records == RemoveAt(s.records, p)
           counts == [s.attached EXCEPT ![service] = @ + 1]
<1>1. s.pending \in Seq(Nat) /\ s.records \in Seq(Services) /\ s.requests \in Seq(Requests)
      /\ s.resolved \in [Services -> Nat] /\ s.attached \in [Services -> Nat]
  BY StateFacts DEF InOrder
<1>2. CASE p = 0 /\ \A i \in 1..Len(s.records) : HostOf[s.records[i]] # host
  <2>1. t = s
    BY <1>2 DEF Found
  <2>2. \A i \in 1..Len(s.records) : s.records[i] \notin On(host)
    BY <1>2 DEF On
  <2>3. Count(s.records, On(host)) = 0
    BY <1>1, <2>2, CountNone
  <2> HIDE DEF t
  <2> QED
    BY <2>1, <2>3 DEF t
<1>3. CASE p \in 1..Len(s.records) /\ HostOf[service] = host
  <2>1. service \in Services
    BY <1>1, <1>3, ElementOfSeq
  <2>2. p # 0
    BY <1>1, <1>3
  <2>3. t = [s EXCEPT !.records = records, !.attached = counts]
    BY <2>2 DEF Found, Erased, InOrder, StateOK
  <2> HIDE DEF t, p
  <2>4. records \in Seq(Services)
    BY <1>1, <1>3, RemoveAtFacts
  <2>5. counts \in [Services -> Nat]
    <3>1. s.attached \in [Services -> Nat]
      BY <1>1
    <3> HIDE DEF service
    <3> QED
      BY <2>1, <3>1
  <2>6. \A V : Count(s.records, V) = Count(records, V) + (IF service \in V THEN 1 ELSE 0)
    <3>1. s.records \in Seq(Services) /\ p \in 1..Len(s.records)
      BY <1>1, <1>3
    <3> QED
      BY <3>1, CountRemoveAt
  <2>7. \A V : Count(records, V) \in Nat /\ Count(s.records, V) \in Nat
    BY <1>1, <2>4, PlacesAreFinite
  <2>8. \A x \in Services : counts[x] = s.attached[x] + (IF service \in {x} THEN 1 ELSE 0)
    BY <1>1, <2>1
  <2> HIDE DEF records, counts
  <2>9. /\ StateOK(t)
        /\ t.pending = s.pending /\ t.read = s.read /\ t.requests = s.requests
        /\ t.resolved = s.resolved /\ t.records = records /\ t.attached = counts
    BY <2>3, <2>4, <2>5 DEF InOrder, StateOK
  <2> HIDE DEF service
  <2>10. ListsAgree(t)
    <3>1. ListsAgree(s) /\ t.pending = s.pending /\ t.read = s.read /\ t.requests = s.requests
      BY <2>9 DEF InOrder
    <3> QED
      BY <3>1 DEF ListsAgree
  <2>11. ASSUME NEW x \in Services
         PROVE  t.resolved[x] = t.attached[x] + Count(t.records, {x})
    <3>1. s.resolved[x] = s.attached[x] + Count(s.records, {x})
      BY DEF InOrder, Counted
    <3>2. Count(s.records, {x}) = Count(records, {x}) + (IF service \in {x} THEN 1 ELSE 0)
      BY <2>6
    <3>3. counts[x] = s.attached[x] + (IF service \in {x} THEN 1 ELSE 0)
      BY <2>8
    <3>4. Count(records, {x}) \in Nat /\ s.attached[x] \in Nat
      BY <1>1, <2>7
    <3>5. s.resolved[x] = counts[x] + Count(records, {x})
      BY <3>1, <3>2, <3>3, <3>4
    <3> QED
      BY <2>9, <3>5
  <2>12. ASSUME NEW h \in Hosts
         PROVE  Count(t.records, On(h)) <= Count(t.pending, AddressIds(t.requests, h))
    <3>1. Count(s.records, On(h)) <= Count(s.pending, AddressIds(s.requests, h))
      BY DEF InOrder, Counted
    <3>2. Count(s.records, On(h)) = Count(records, On(h)) + (IF service \in On(h) THEN 1 ELSE 0)
      BY <2>6
    <3>3. Count(records, On(h)) \in Nat /\ Count(s.pending, AddressIds(s.requests, h)) \in Nat
      BY <1>1, <2>7, PlacesAreFinite
    <3> QED
      BY <2>9, <3>1, <3>2, <3>3
  <2>13. Count(t.records, On(host)) < Count(t.pending, AddressIds(t.requests, host))
    <3>1. Count(s.records, On(host)) <= Count(s.pending, AddressIds(s.requests, host))
      BY DEF InOrder, Counted
    <3>2. service \in On(host)
      BY <1>3, <2>1 DEF On
    <3>3. Count(s.records, On(host)) = Count(records, On(host)) + 1
      BY <2>6, <3>2
    <3>4. Count(records, On(host)) \in Nat /\ Count(s.pending, AddressIds(s.requests, host)) \in Nat
      BY <1>1, <2>7, PlacesAreFinite
    <3> QED
      BY <2>9, <3>1, <3>3, <3>4
  <2> QED
    BY <2>9, <2>10, <2>11, <2>12, <2>13 DEF InOrder, Counted, t
<1> QED
  BY <1>1, <1>2, <1>3, PlaceFacts

(******************************************************************************)
(* The callback of an address query keeps the lists in order.                 *)
(******************************************************************************)
LEMMA GetAddrInfoKeeps ==
  ASSUME NEW s, InOrder(s), NEW id \in s.read, s.requests[id].kind = "address",
         NEW more \in BOOLEAN, NEW t \in GetAddrInfoCallback(s, id, more)
  PROVE  /\ InOrder(t) /\ s.read \ {id} \subseteq t.read /\ (more => id \in t.read)
         /\ Len(s.requests) <= Len(t.requests)
<1> DEFINE host == s.requests[id].of
           found == Found(s, host)
<1>1. s.requests \in Seq(Requests) /\ id \in 1..Len(s.requests)
  BY StateFacts DEF InOrder, ListsAgree
<1>2. s.requests[id] \in Requests
  BY <1>1, ElementOfSeq
<1>3. host \in Hosts /\ \A h : s.requests[id] = GetAddrInfo(h) => h = host
  BY <1>2, KindOfRequest
<1>4. t = IF more THEN found ELSE Release(found, id)
  BY DEF GetAddrInfoCallback, Found, Place
<1> HIDE DEF host
<1>5. /\ InOrder(found) /\ found.read = s.read /\ found.requests = s.requests
      /\ \/ Count(found.records, On(host)) = 0
         \/ Count(found.records, On(host)) < Count(found.pending, AddressIds(found.requests, host))
  BY <1>3, FoundKeeps
<1> HIDE DEF found
<1>6. \A h \in Hosts : id \in AddressIds(found.requests, h) => h = host
  BY <1>3, <1>5 DEF AddressIds
<1>7. \A h \in Hosts :
        id \in AddressIds(found.requests, h) =>
          \/ Count(found.records, On(h)) = 0
          \/ Count(found.records, On(h)) < Count(found.pending, AddressIds(found.requests, h))
  BY <1>5, <1>6
<1>8. /\ InOrder(Release(found, id)) /\ Release(found, id).read = found.read \ {id}
      /\ Release(found, id).requests = found.requests
  BY <1>5, <1>7, ReleaseUncounted
<1>9. Len(s.requests) \in Nat
  BY <1>1
<1> QED
  BY <1>4, <1>5, <1>8, <1>9

(******************************************************************************)
(* Whatever the callbacks do with one result or two, the lists stay in order  *)
(* and no request but the one that was served is taken away                   *)
(* (device_notifier.cpp:229-234).                                             *)
(******************************************************************************)
LEMMA CallbackKeeps ==
  ASSUME NEW s, InOrder(s), NEW id \in s.read, NEW more \in BOOLEAN, NEW t \in Callback(s, id, more)
  PROVE  /\ InOrder(t) /\ s.read \ {id} \subseteq t.read /\ (more => id \in t.read)
         /\ Len(s.requests) <= Len(t.requests)
<1>1. s.requests \in Seq(Requests) /\ id \in 1..Len(s.requests)
  BY StateFacts DEF InOrder, ListsAgree
<1>2. s.requests[id] \in Requests
  BY <1>1, ElementOfSeq
<1>3. s.requests[id].kind \in {"browse", "resolve", "address"}
  BY <1>2, KindOfRequest
<1>4. CASE s.requests[id].kind = "browse"
  <2>1. t \in BrowseCallback(s)
    BY <1>4 DEF Callback
  <2> QED
    BY <2>1, BrowseKeeps
<1>5. CASE s.requests[id].kind = "resolve"
  <2>1. t \in ResolveCallback(s, id, more)
    BY <1>5 DEF Callback
  <2> QED
    BY <1>5, <2>1, ResolveKeeps
<1>6. CASE s.requests[id].kind = "address"
  <2>1. t \in GetAddrInfoCallback(s, id, more)
    BY <1>6 DEF Callback
  <2> QED
    BY <1>6, <2>1, GetAddrInfoKeeps
<1> QED
  BY <1>3, <1>4, <1>5, <1>6

(******************************************************************************)
(* DNSServiceProcessResult keeps the lists in order with one result or two.   *)
(******************************************************************************)
LEMMA ProcessResultKeeps ==
  ASSUME InOrder(State), NEW id \in State.read, NEW t \in ProcessResult(id)
  PROVE  /\ InOrder(t) /\ State.read \ {id} \subseteq t.read
         /\ Len(State.requests) <= Len(t.requests)
<1>1. CASE t \in Callback(State, id, FALSE)
  BY <1>1, CallbackKeeps
<1>2. ASSUME NEW s \in Callback(State, id, TRUE), t \in Callback(s, id, FALSE)
      PROVE  /\ InOrder(t) /\ State.read \ {id} \subseteq t.read
             /\ Len(State.requests) <= Len(t.requests)
  <2>1. InOrder(s) /\ id \in s.read /\ State.read \ {id} \subseteq s.read
        /\ Len(State.requests) <= Len(s.requests)
    BY CallbackKeeps
  <2>2. InOrder(t) /\ s.read \ {id} \subseteq t.read /\ Len(s.requests) <= Len(t.requests)
    BY <1>2, <2>1, CallbackKeeps
  <2>3. Len(State.requests) \in Nat /\ Len(s.requests) \in Nat /\ Len(t.requests) \in Nat
    BY <2>1, <2>2, StateFacts DEF InOrder
  <2>4. Len(State.requests) <= Len(t.requests)
    BY <2>1, <2>2, <2>3
  <2> QED
    BY <2>1, <2>2, <2>4
<1> QED
  BY <1>1, <1>2 DEF ProcessResult

(******************************************************************************)
(* The element after the current one is another one, or the end.              *)
(******************************************************************************)
LEMMA AfterFacts ==
  ASSUME NEW s, InOrder(s), NEW id \in s.read
  PROVE  After(s.pending, id) \in (s.read \ {id}) \cup {End}
<1> DEFINE p == SelectInSeq(s.pending, LAMBDA r : r = id)
<1>1. s.pending \in Seq(Nat) /\ Len(s.pending) \in Nat
  BY StateFacts DEF InOrder
<1>2. \E i \in 1..Len(s.pending) : s.pending[i] = id
  BY DEF InOrder, ListsAgree
<1>3. p \in 1..Len(s.pending) /\ s.pending[p] = id
  BY <1>1, <1>2, PlaceOf
<1>4. After(s.pending, id) = IF p = Len(s.pending) THEN End ELSE s.pending[p + 1]
  BY DEF After
<1> HIDE DEF p
<1>5. CASE p # Len(s.pending)
  <2>1. p + 1 \in 1..Len(s.pending) /\ p + 1 # p
    BY <1>1, <1>3, <1>5
  <2>2. s.pending[p + 1] \in s.read
    BY <2>1 DEF InOrder, ListsAgree
  <2>3. s.pending[p + 1] # id
    BY <1>3, <2>1 DEF InOrder, ListsAgree
  <2> QED
    BY <1>4, <1>5, <2>2, <2>3
<1> QED
  BY <1>4, <1>5

--------------------------------------------------------------------------------
(******************************************************************************)
(* Where the two threads can be.  active_flag_ is set only while the thread   *)
(* is in its loop; stop() joins a thread that has entered it, so that a       *)
(* thread not joined is one that stop() has overtaken.                        *)
(******************************************************************************)
ControlInv ==
  /\ caller \in {"idle", "joining", "terminated"} /\ monitoring \in BOOLEAN
  /\ thread \in {"none", "started", "select", "iterating", "exited"}
  /\ thread_ \in {"empty", "joinable"} /\ active_flag_ \in BOOLEAN
  /\ active_flag_ => thread \in {"select", "iterating"}
  /\ thread_ = "empty" => thread \in {"none", "exited"}
  /\ monitoring =>
       caller = "idle" /\ thread_ = "joinable" /\ (thread = "started" \/ active_flag_)
  /\ caller = "joining" =>
       thread_ = "joinable" /\ thread \in {"select", "iterating", "exited"}
  /\ StoppedOrOvertaken

LoopInv ==
  /\ InOrder(State)
  /\ iter \in read_set_ \cup {End}
  /\ ready \subseteq 1..Len(requests)

Inductive == ControlInv /\ LoopInv

(******************************************************************************)
(* The inductive invariant holds before the first call.                       *)
(******************************************************************************)
LEMMA InitInductive == Init => Inductive
<1> SUFFICES ASSUME Init PROVE Inductive
  OBVIOUS
<1>1. ControlInv
  BY DEF Init, ControlInv, StoppedOrOvertaken
<1>2. /\ State.pending = <<1>> /\ State.read = {1} /\ State.records = <<>>
      /\ State.requests = <<Browse>> /\ State.resolved = NoResults /\ State.attached = NoResults
  BY DEF Init, State
<1>3. Browse \in Requests /\ \A h : Browse # GetAddrInfo(h)
  BY DEF Requests, Browse, GetAddrInfo
<1>4. StateOK(State)
  <2>1. <<1>> \in Seq(Nat) /\ {1} \in SUBSET Nat /\ <<>> \in Seq(Services)
        /\ <<Browse>> \in Seq(Requests) /\ NoResults \in [Services -> Nat]
    BY <1>3 DEF NoResults
  <2> QED
    BY <2>1 DEF Init, State, StateOK
<1>5. ListsAgree(State)
  <2>1. Len(<<1>>) = 1 /\ <<1>>[1] = 1 /\ Len(<<Browse>>) = 1
    OBVIOUS
  <2> QED
    BY <1>2, <2>1 DEF ListsAgree
<1>6. Counted(State)
  <2>1. \A V : Count(State.records, V) = 0
    <3>1. <<>> \in Seq(Services) /\ Len(<<>>) = 0
      OBVIOUS
    <3>2. \A V : \A i \in 1..Len(<<>>) : <<>>[i] \notin V
      BY <3>1
    <3>3. \A V : Count(<<>>, V) = 0
      BY <3>1, <3>2, CountNone
    <3> QED
      BY <1>2, <3>3
  <2>2. \A V : Count(State.pending, V) \in Nat
    BY <1>4, StateFacts, PlacesAreFinite
  <2>3. \A service \in Services : State.resolved[service] = 0 /\ State.attached[service] = 0
    BY <1>2 DEF NoResults
  <2> QED
    BY <2>1, <2>2, <2>3 DEF Counted
<1>7. iter \in read_set_ \cup {End} /\ ready \subseteq 1..Len(requests)
  BY DEF Init
<1> QED
  BY <1>1, <1>4, <1>5, <1>6, <1>7 DEF Inductive, LoopInv, InOrder

(******************************************************************************)
(* The application's calls and the thread's own steps                         *)
(* (device_notifier.cpp:219-246).                                             *)
(******************************************************************************)
LEMMA ControlStep ==
  ASSUME ControlInv, Next
  PROVE  ControlInv'
<1> USE DEF ControlInv, StoppedOrOvertaken
<1>1. CASE Start
  BY <1>1 DEF Start
<1>2. CASE Stop
  BY <1>2 DEF Stop
<1>3. CASE Join
  BY <1>3 DEF Join, ThreadEnded
<1>4. CASE ThreadBegins
  BY <1>4 DEF ThreadBegins
<1>5. CASE Select
  BY <1>5 DEF Select, LoopEnds
<1>6. CASE Iterate
  BY <1>6 DEF Iterate
<1> QED
  BY <1>1, <1>2, <1>3, <1>4, <1>5, <1>6 DEF Next

(******************************************************************************)
(* Where the lists do not change only the iterator matters.                   *)
(******************************************************************************)
LEMMA ListsKept ==
  ASSUME LoopInv, UNCHANGED listVars, iter' \in read_set_ \cup {End},
         ready' \subseteq 1..Len(requests)
  PROVE  LoopInv'
<1>1. State' = State
  BY DEF listVars, State
<1> HIDE DEF State
<1>2. InOrder(State')
  BY <1>1 DEF LoopInv
<1> QED
  BY <1>2 DEF LoopInv, listVars, State

(******************************************************************************)
(* Every step keeps the lists in order and the loop within them.              *)
(******************************************************************************)
LEMMA LoopStep ==
  ASSUME LoopInv, Next
  PROVE  LoopInv'
<1>1. CASE Start \/ Stop \/ Join \/ ThreadBegins
  <2>1. UNCHANGED <<listVars, iter, ready>>
    BY <1>1 DEF Start, Stop, Join, ThreadBegins
  <2> QED
    BY <2>1, ListsKept DEF LoopInv
<1>2. CASE Select
  <2>1. UNCHANGED listVars
    BY <1>2 DEF Select
  <2>2. CASE LoopEnds
    BY <1>2, <2>1, <2>2, ListsKept DEF Select, LoopInv
  <2>3. CASE ~LoopEnds
    <3>1. ready' \subseteq read_set_ /\ ready' # {} /\ iter' = Head(pending_requests_)
      BY <1>2, <2>3 DEF Select
    <3>2. State.pending = pending_requests_ /\ State.read = read_set_ /\ State.requests = requests
      BY DEF State
    <3>3. pending_requests_ \in Seq(Nat)
      BY <3>2, StateFacts DEF LoopInv, InOrder
    <3>4. /\ read_set_ \subseteq 1..Len(requests)
          /\ \A id : id \in read_set_ <=> \E i \in 1..Len(pending_requests_) : pending_requests_[i] = id
      BY <3>2 DEF LoopInv, InOrder, ListsAgree
    <3>5. 1 \in 1..Len(pending_requests_)
      <4>1. PICK id : id \in read_set_
        BY <3>1
      <4>2. PICK i \in 1..Len(pending_requests_) : pending_requests_[i] = id
        BY <3>4, <4>1
      <4> QED
        BY <3>3, <4>2
    <3>6. Head(pending_requests_) = pending_requests_[1]
      BY <3>3, <3>5
    <3>7. Head(pending_requests_) \in read_set_
      BY <3>4, <3>5, <3>6
    <3> QED
      BY <2>1, <3>1, <3>4, <3>7, ListsKept
  <2> QED
    BY <2>2, <2>3
<1>3. CASE Iterate
  <2>1. CASE iter = End
    <3>1. UNCHANGED listVars /\ iter' = iter /\ ready' = {}
      BY <1>3, <2>1 DEF Iterate
    <3> QED
      BY <3>1, ListsKept DEF LoopInv
  <2>2. CASE iter # End
    <3> DEFINE served == IF iter \in ready THEN ProcessResult(iter) ELSE {State}
    <3>1. PICK t \in served :
            /\ pending_requests_' = t.pending /\ read_set_' = t.read
            /\ mdns_records_' = t.records /\ requests' = t.requests
            /\ resolved' = t.resolved /\ attached' = t.attached
      BY <1>3, <2>2 DEF Iterate
    <3>2. iter' = After(pending_requests_, iter) /\ ready' = ready
      BY <1>3, <2>2 DEF Iterate
    <3>3. /\ State.pending = pending_requests_ /\ State.read = read_set_
          /\ State.requests = requests
      BY DEF State
    <3>4. InOrder(State) /\ iter \in State.read
      BY <2>2, <3>3 DEF LoopInv
    <3>5. Len(State.requests) \in Nat
      BY <3>4, StateFacts DEF InOrder
    <3>6. /\ InOrder(t) /\ State.read \ {iter} \subseteq t.read
          /\ Len(State.requests) <= Len(t.requests)
      BY <3>1, <3>4, <3>5, ProcessResultKeeps
    <3>7. iter' \in (read_set_ \ {iter}) \cup {End}
      BY <3>2, <3>3, <3>4, AfterFacts
    <3>8. iter' \in read_set_' \cup {End}
      BY <3>1, <3>3, <3>6, <3>7
    <3>9. ready' \subseteq 1..Len(requests')
      <4>1. Len(t.requests) \in Nat
        BY <3>6, StateFacts DEF InOrder
      <4>2. Len(requests) <= Len(requests') /\ Len(requests) \in Nat /\ Len(requests') \in Nat
        BY <3>1, <3>3, <3>5, <3>6, <4>1
      <4>3. 1..Len(requests) \subseteq 1..Len(requests')
        BY <4>2
      <4> QED
        BY <3>2, <4>3 DEF LoopInv
    <3>10. State' = t
      <4>1. t = [pending |-> t.pending, read |-> t.read, records |-> t.records,
                 requests |-> t.requests, resolved |-> t.resolved, attached |-> t.attached]
        BY <3>6 DEF InOrder, StateOK
      <4>2. State' = [pending |-> pending_requests_', read |-> read_set_', records |-> mdns_records_',
                      requests |-> requests', resolved |-> resolved', attached |-> attached']
        BY DEF State
      <4> QED
        BY <3>1, <4>1, <4>2, ZenonT(30)
    <3> HIDE DEF served
    <3>11. InOrder(State')
      BY <3>6, <3>10
    <3> QED
      BY <3>8, <3>9, <3>11 DEF LoopInv
  <2> QED
    BY <2>1, <2>2
<1> QED
  BY <1>1, <1>2, <1>3 DEF Next

(******************************************************************************)
(* Every step keeps the inductive invariant.                                  *)
(******************************************************************************)
LEMMA StepInductive == Inductive /\ [Next]_vars => Inductive'
<1> SUFFICES ASSUME Inductive, [Next]_vars PROVE Inductive'
  OBVIOUS
<1>1. CASE Next
  BY <1>1, ControlStep, LoopStep DEF Inductive
<1>2. CASE UNCHANGED vars
  <2>1. ControlInv'
    BY <1>2 DEF vars, controlVars, Inductive, ControlInv, StoppedOrOvertaken
  <2>2. LoopInv'
    BY <1>2, ListsKept DEF vars, Inductive, LoopInv
  <2> QED
    BY <2>1, <2>2 DEF Inductive
<1> QED
  BY <1>1, <1>2

(******************************************************************************)
(* The inductive invariant holds in every reachable state.                    *)
(******************************************************************************)
LEMMA AlwaysInductive == Spec => []Inductive
BY InitInductive, StepInductive, PTL DEF Spec

--------------------------------------------------------------------------------
(******************************************************************************)
(* The list of requests and the set of sockets agree, and the iterator of the *)
(* loop stays in the list, although callbacks change it under the loop        *)
(* (device_notifier.cpp:229-234, 261-262, 287-294, 325-328).                  *)
(******************************************************************************)
THEOREM NotifierInvariant == Spec => []NotifierInv
<1>1. Inductive => NotifierInv
  <2> SUFFICES ASSUME Inductive PROVE NotifierInv
    OBVIOUS
  <2>1. /\ State.pending = pending_requests_ /\ State.read = read_set_
        /\ State.requests = requests /\ State.records = mdns_records_
        /\ State.resolved = resolved /\ State.attached = attached
    BY DEF State
  <2>2. /\ pending_requests_ \in Seq(Nat) /\ requests \in Seq(Requests)
        /\ mdns_records_ \in Seq(Services)
        /\ resolved \in [Services -> Nat] /\ attached \in [Services -> Nat]
    BY <2>1, StateFacts DEF Inductive, LoopInv, InOrder
  <2>3. /\ read_set_ \subseteq 1..Len(requests)
        /\ \A id : id \in read_set_ <=> \E i \in 1..Len(pending_requests_) : pending_requests_[i] = id
        /\ \A i, j \in 1..Len(pending_requests_) :
             pending_requests_[i] = pending_requests_[j] => i = j
    BY <2>1 DEF Inductive, LoopInv, InOrder, ListsAgree
  <2>4. DOMAIN pending_requests_ = 1..Len(pending_requests_)
    BY <2>2
  <2>5. pending_requests_ \in Seq(Ids)
    <3>1. \A i \in 1..Len(pending_requests_) : pending_requests_[i] \in Ids
      BY <2>3 DEF Ids
    <3> QED
      BY <2>2, <2>4, <3>1, SeqOfElements
  <2>6. TypeOK
    BY <2>2, <2>3, <2>5 DEF TypeOK, Ids, Inductive, ControlInv, LoopInv
  <2>7. ListMatchesReadSet
    BY <2>3, <2>4 DEF ListMatchesReadSet, ToSet, Inductive, LoopInv
  <2> QED
    BY <2>6, <2>7 DEF NotifierInv
<1> QED
  BY <1>1, AlwaysInductive, PTL

(******************************************************************************)
(* Each time a service is resolved it is reported once, or waits for a        *)
(* pending request for its address (device_notifier.cpp:284-289, 304-323).    *)
(******************************************************************************)
THEOREM ResolvedAreReported == Spec => []ResolvedOnceReportedOnce
<1>1. Inductive => ResolvedOnceReportedOnce
  <2> SUFFICES ASSUME Inductive PROVE ResolvedOnceReportedOnce
    OBVIOUS
  <2>1. Counted(State)
    BY DEF Inductive, LoopInv, InOrder
  <2> QED
    BY <2>1 DEF Counted, State, On, AddressIds, Ids, ResolvedOnceReportedOnce, RecordsAwaitAddress
<1> QED
  BY <1>1, AlwaysInductive, PTL

(******************************************************************************)
(* A stop() that found active_flag_ set leaves no thread behind               *)
(* (device_notifier.cpp:219-246).                                             *)
(******************************************************************************)
THEOREM StopLeavesNoThread == Spec => []StoppedOrOvertaken
<1>1. Inductive => StoppedOrOvertaken
  BY DEF Inductive, ControlInv
<1> QED
  BY <1>1, AlwaysInductive, PTL
================================================================================
