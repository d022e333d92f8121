------------------------------ MODULE ListProofs -------------------------------
(******************************************************************************)
(* Facts about counting the elements of lists, and about taking an element    *)
(* out of a list, that the proofs about discovery rest on; and about          *)
(* functions defined by recursion and pieces of sequences, for the proofs     *)
(* about the conversions and the parser.                                      *)
(******************************************************************************)
EXTENDS Lists, Integers, SequenceTheorems, FiniteSetTheorems, WellFoundedInduction, TLAPS

(******************************************************************************)
(* The number of elements that are in a set is a natural number.              *)
(******************************************************************************)
LEMMA PlacesAreFinite ==
  ASSUME NEW S, NEW sequence \in Seq(S), NEW values
  PROVE  /\ IsFiniteSet(Places(sequence, values))
         /\ Count(sequence, values) = Cardinality(Places(sequence, values))
         /\ Count(sequence, values) \in Nat
<1>1. Len(sequence) \in Nat /\ DOMAIN sequence = 1..Len(sequence)
  OBVIOUS
<1>2. IsFiniteSet(1..Len(sequence))
  BY <1>1, FS_Interval
<1>3. IsFiniteSet(Places(sequence, values))
  BY <1>1, <1>2, FS_Subset DEF Places
<1>4. Cardinality(Places(sequence, values)) \in Nat
  BY <1>3, FS_CardinalityType
<1> QED
  BY <1>3, <1>4 DEF Count, Places

(******************************************************************************)
(* Sets that agree on the elements of a sequence count the same.              *)
(******************************************************************************)
LEMMA CountSame ==
  ASSUME NEW S, NEW sequence \in Seq(S), NEW V, NEW W,
         \A i \in 1..Len(sequence) : sequence[i] \in V <=> sequence[i] \in W
  PROVE  Count(sequence, V) = Count(sequence, W)
<1>1. {i \in DOMAIN sequence : sequence[i] \in V} = {i \in DOMAIN sequence : sequence[i] \in W}
  OBVIOUS
<1> QED
  BY <1>1 DEF Count, Places

(******************************************************************************)
(* A sequence without elements of a set has none to count.                    *)
(******************************************************************************)
LEMMA CountNone ==
  ASSUME NEW S, NEW sequence \in Seq(S), NEW values,
         \A i \in 1..Len(sequence) : sequence[i] \notin values
  PROVE  Count(sequence, values) = 0
<1>1. {i \in DOMAIN sequence : sequence[i] \in values} = {}
  OBVIOUS
<1> QED
  BY <1>1, FS_EmptySet DEF Count, Places

(******************************************************************************)
(* Appending an element of the set adds one to the count.                     *)
(******************************************************************************)
LEMMA CountAppend ==
  ASSUME NEW S, NEW sequence \in Seq(S), NEW e \in S, NEW values
  PROVE  Count(Append(sequence, e), values)
           = Count(sequence, values) + (IF e \in values THEN 1 ELSE 0)
<1> DEFINE longer == Append(sequence, e)
           n == Len(sequence)
<1>1. /\ longer \in Seq(S) /\ Len(longer) = n + 1 /\ n \in Nat /\ longer[n + 1] = e
      /\ \A i \in 1..n : longer[i] = sequence[i]
  BY AppendProperties
<1>2. DOMAIN longer = 1..(n + 1) /\ DOMAIN sequence = 1..n
  BY <1>1
<1> HIDE DEF longer
<1>3. Places(longer, values) = Places(sequence, values) \cup (IF e \in values THEN {n + 1} ELSE {})
  BY <1>1, <1>2 DEF Places
<1>4. n + 1 \notin Places(sequence, values)
  BY <1>1, <1>2 DEF Places
<1>5. /\ IsFiniteSet(Places(sequence, values)) /\ Count(sequence, values) \in Nat
      /\ Count(sequence, values) = Cardinality(Places(sequence, values))
      /\ Count(longer, values) = Cardinality(Places(longer, values))
  BY <1>1, PlacesAreFinite
<1> HIDE DEF n
<1>6. CASE e \in values
  <2>1. Places(longer, values) = Places(sequence, values) \cup {n + 1}
    BY <1>3, <1>6
  <2>2. Cardinality(Places(sequence, values) \cup {n + 1})
          = Cardinality(Places(sequence, values)) + 1
    BY <1>4, <1>5, FS_AddElement
  <2> QED
    BY <1>5, <1>6, <2>1, <2>2 DEF longer
<1>7. CASE e \notin values
  <2>1. Places(longer, values) = Places(sequence, values)
    BY <1>3, <1>7
  <2> QED
    BY <1>5, <1>7, <2>1 DEF longer
<1> QED
  BY <1>6, <1>7

(******************************************************************************)
(* The places of a sequence without its p-th element are those of the         *)
(* sequence but p, those after p moved by one.                                *)
(******************************************************************************)
LEMMA RemoveAtFacts ==
  ASSUME NEW S, NEW sequence \in Seq(S), NEW p \in 1..Len(sequence)
  PROVE  /\ RemoveAt(sequence, p) \in Seq(S)
         /\ Len(RemoveAt(sequence, p)) = Len(sequence) - 1
         /\ \A i \in 1..(Len(sequence) - 1) :
              RemoveAt(sequence, p)[i] = IF i < p THEN sequence[i] ELSE sequence[i + 1]
<1> DEFINE n == Len(sequence)
           before == SubSeq(sequence, 1, p - 1)
           after == SubSeq(sequence, p + 1, n)
<1>1. n \in Nat /\ p \in 1..n /\ \A i \in 1..n : sequence[i] \in S
  BY ElementOfSeq
<1>2. /\ before \in Seq(S) /\ Len(before) = p - 1 /\ \A i \in 1..(p - 1) : before[i] = sequence[i]
  <2>1. 1 \in Int /\ p - 1 \in Int /\ \A i \in 1..p - 1 : sequence[i] \in S
    BY <1>1
  <2> QED
    BY <1>1, <2>1, SubSeqProperties
<1>3. /\ after \in Seq(S) /\ Len(after) = n - p /\ \A i \in 1..(n - p) : after[i] = sequence[p + i]
  <2>1. p + 1 \in Int /\ n \in Int /\ \A i \in p + 1..n : sequence[i] \in S
    BY <1>1
  <2>2. /\ after \in Seq(S) /\ Len(after) = IF p + 1 <= n + 1 THEN n - (p + 1) + 1 ELSE 0
        /\ \A i \in 1..(n - (p + 1) + 1) : after[i] = sequence[p + 1 + i - 1]
    BY <2>1, SubSeqProperties
  <2> QED
    BY <1>1, <2>2
<1> HIDE DEF n, before, after
<1>4. /\ before \o after \in Seq(S) /\ Len(before \o after) = Len(before) + Len(after)
      /\ \A i \in 1..(Len(before) + Len(after)) :
           (before \o after)[i] = IF i <= Len(before) THEN before[i] ELSE after[i - Len(before)]
  BY <1>2, <1>3, ConcatProperties
<1>5. Len(before \o after) = n - 1
  BY <1>1, <1>2, <1>3, <1>4
<1>6. ASSUME NEW i \in 1..(n - 1)
      PROVE  (before \o after)[i] = IF i < p THEN sequence[i] ELSE sequence[i + 1]
  <2>1. CASE i < p
    BY <1>1, <1>2, <1>3, <1>4, <2>1
  <2>2. CASE ~(i < p)
    <3>1. (before \o after)[i] = after[i - (p - 1)] /\ i - (p - 1) \in 1..(n - p)
      BY <1>1, <1>2, <1>3, <1>4, <2>2
    <3>2. after[i - (p - 1)] = sequence[p + (i - (p - 1))] /\ p + (i - (p - 1)) = i + 1
      BY <1>1, <1>3, <3>1
    <3> QED
      BY <2>2, <3>1, <3>2
  <2> QED
    BY <2>1, <2>2
<1>7. RemoveAt(sequence, p) = before \o after
  BY DEF RemoveAt, before, after, n
<1> QED
  BY <1>4, <1>5, <1>6, <1>7 DEF n

(******************************************************************************)
(* Removing an element of the set takes one from the count.                   *)
(******************************************************************************)
LEMMA CountRemoveAt ==
  ASSUME NEW S, NEW sequence \in Seq(S), NEW p \in 1..Len(sequence), NEW values
  PROVE  Count(sequence, values)
           = Count(RemoveAt(sequence, p), values) + (IF sequence[p] \in values THEN 1 ELSE 0)
<1> DEFINE shorter == RemoveAt(sequence, p)
           n == Len(sequence)
           rest == Places(sequence, values) \ {p}
           new == Places(shorter, values)
           move == [i \in new |-> IF i < p THEN i ELSE i + 1]
<1>1. /\ shorter \in Seq(S) /\ Len(shorter) = n - 1
      /\ \A i \in 1..(n - 1) : shorter[i] = IF i < p THEN sequence[i] ELSE sequence[i + 1]
  BY RemoveAtFacts
<1>2. n \in Nat /\ p \in 1..n /\ DOMAIN sequence = 1..n
  OBVIOUS
<1> HIDE DEF shorter
<1>3. DOMAIN shorter = 1..(n - 1)
  BY <1>1
<1> HIDE DEF n
<1>4. \A i : i \in new <=> i \in 1..(n - 1) /\ shorter[i] \in values
  BY <1>3 DEF Places
<1>5. \A i : i \in rest <=> i \in 1..n /\ i # p /\ sequence[i] \in values
  BY <1>2 DEF Places
<1> HIDE DEF new, rest
<1>6. move \in [new -> rest]
  <2> SUFFICES ASSUME NEW i \in new PROVE (IF i < p THEN i ELSE i + 1) \in rest
    OBVIOUS
  <2>1. i \in 1..(n - 1) /\ shorter[i] \in values
    BY <1>4
  <2>2. CASE i < p
    BY <1>1, <1>2, <1>5, <2>1, <2>2
  <2>3. CASE ~(i < p)
    <3>1. i + 1 \in 1..n /\ i + 1 # p /\ shorter[i] = sequence[i + 1]
      BY <1>1, <1>2, <2>1, <2>3
    <3> QED
      BY <1>5, <2>1, <2>3, <3>1
  <2> QED
    BY <2>2, <2>3
<1>7. \A i, j \in new : move[i] = move[j] => i = j
  <2> SUFFICES ASSUME NEW i \in new, NEW j \in new,
                      (IF i < p THEN i ELSE i + 1) = (IF j < p THEN j ELSE j + 1)
               PROVE  i = j
    OBVIOUS
  <2>1. i \in Nat /\ j \in Nat /\ p \in Nat
    BY <1>2, <1>4
  <2> QED
    BY <2>1
<1>8. ASSUME NEW k \in rest PROVE \E i \in new : move[i] = k
  <2>1. k \in 1..n /\ k # p /\ sequence[k] \in values
    BY <1>5
  <2>2. CASE k < p
    <3>1. k \in new
      BY <1>1, <1>2, <1>4, <2>1, <2>2
    <3> QED
      BY <2>2, <3>1
  <2>3. CASE ~(k < p)
    <3>1. k - 1 \in 1..(n - 1) /\ ~(k - 1 < p) /\ (k - 1) + 1 = k
      BY <1>2, <2>1, <2>3
    <3>2. shorter[k - 1] = sequence[k]
      BY <1>1, <3>1
    <3>3. k - 1 \in new
      BY <1>4, <2>1, <3>1, <3>2
    <3> QED
      BY <3>1, <3>3
  <2> QED
    BY <2>2, <2>3
<1>9. ExistsBijection(new, rest)
  <2> HIDE DEF move
  <2>1. move \in Injection(new, rest)
    BY <1>6, <1>7 DEF Injection, IsInjective
  <2>2. move \in Surjection(new, rest)
    BY <1>6, <1>8 DEF Surjection
  <2> QED
    BY <2>1, <2>2 DEF ExistsBijection, Bijection
<1>10. /\ IsFiniteSet(new) /\ Count(shorter, values) = Cardinality(new)
       /\ Cardinality(new) \in Nat
  BY <1>1, PlacesAreFinite DEF new
<1>11. Cardinality(rest) = Cardinality(new)
  BY <1>9, <1>10, FS_Bijection
<1>12. /\ IsFiniteSet(Places(sequence, values)) /\ Count(sequence, values) \in Nat
       /\ Count(sequence, values) = Cardinality(Places(sequence, values))
  BY PlacesAreFinite
<1>13. Cardinality(rest) = IF p \in Places(sequence, values)
                             THEN Cardinality(Places(sequence, values)) - 1
                             ELSE Cardinality(Places(sequence, values))
  BY <1>12, FS_RemoveElement DEF rest
<1>14. p \in Places(sequence, values) <=> sequence[p] \in values
  BY <1>2 DEF Places
<1> QED
  BY <1>10, <1>11, <1>12, <1>13, <1>14 DEF shorter

(******************************************************************************)
(* A sequence is one over every set that has its elements.                    *)
(******************************************************************************)
LEMMA SeqOfElements ==
  ASSUME NEW S, NEW T, NEW sequence \in Seq(S), \A i \in 1..Len(sequence) : sequence[i] \in T
  PROVE  sequence \in Seq(T)
<1>1. sequence \in [1..Len(sequence) -> T] /\ Len(sequence) \in Nat
  OBVIOUS
<1> QED
  BY <1>1, SeqDef

(******************************************************************************)
(* Prepending an element.                                                     *)
(******************************************************************************)
LEMMA PrependFacts ==
  ASSUME NEW S, NEW sequence \in Seq(S), NEW e \in S
  PROVE  /\ <<e>> \o sequence \in Seq(S)
         /\ Len(<<e>> \o sequence) = Len(sequence) + 1
         /\ (<<e>> \o sequence)[1] = e
         /\ \A i \in 1..Len(sequence) : (<<e>> \o sequence)[i + 1] = sequence[i]
<1>1. <<e>> \in Seq(S) /\ Len(<<e>>) = 1 /\ <<e>>[1] = e /\ Len(sequence) \in Nat
  OBVIOUS
<1>2. /\ <<e>> \o sequence \in Seq(S) /\ Len(<<e>> \o sequence) = 1 + Len(sequence)
      /\ \A i \in 1..(1 + Len(sequence)) :
           (<<e>> \o sequence)[i] = IF i <= 1 THEN <<e>>[i] ELSE sequence[i - 1]
  BY <1>1, ConcatProperties
<1>3. (<<e>> \o sequence)[1] = e
  BY <1>1, <1>2
<1>4. ASSUME NEW i \in 1..Len(sequence) PROVE (<<e>> \o sequence)[i + 1] = sequence[i]
  <2>1. i + 1 \in 1..(1 + Len(sequence)) /\ ~(i + 1 <= 1) /\ (i + 1) - 1 = i
    BY <1>1
  <2> QED
    BY <1>2, <2>1
<1> QED
  BY <1>1, <1>2, <1>3, <1>4

(******************************************************************************)
(* Taking the new element away again gives the old list.                      *)
(******************************************************************************)
LEMMA CountPrepend ==
  ASSUME NEW S, NEW sequence \in Seq(S), NEW e \in S, NEW values
  PROVE  Count(<<e>> \o sequence, values)
           = Count(sequence, values) + (IF e \in values THEN 1 ELSE 0)
<1> DEFINE longer == <<e>> \o sequence
<1>1. /\ longer \in Seq(S) /\ Len(longer) = Len(sequence) + 1 /\ longer[1] = e
      /\ \A i \in 1..Len(sequence) : longer[i + 1] = sequence[i]
  BY PrependFacts
<1>2. Len(sequence) \in Nat
  OBVIOUS
<1> HIDE DEF longer
<1>3. 1 \in 1..Len(longer)
  BY <1>1, <1>2
<1>4. /\ RemoveAt(longer, 1) \in Seq(S) /\ Len(RemoveAt(longer, 1)) = Len(longer) - 1
      /\ \A i \in 1..(Len(longer) - 1) :
           RemoveAt(longer, 1)[i] = IF i < 1 THEN longer[i] ELSE longer[i + 1]
  BY <1>1, <1>3, RemoveAtFacts
<1>5. Len(RemoveAt(longer, 1)) = Len(sequence)
  BY <1>1, <1>2, <1>4
<1>6. \A i \in 1..Len(sequence) : RemoveAt(longer, 1)[i] = sequence[i]
  BY <1>1, <1>2, <1>4
<1>7. RemoveAt(longer, 1) = sequence
  BY <1>4, <1>5, <1>6, SeqEqual
<1>8. Count(longer, values)
        = Count(RemoveAt(longer, 1), values) + (IF longer[1] \in values THEN 1 ELSE 0)
  BY <1>1, <1>3, CountRemoveAt
<1> QED
  BY <1>1, <1>7, <1>8 DEF longer

(******************************************************************************)
(* The least of a set of places.                                              *)
(******************************************************************************)
LEMMA MinIsLeast ==
  ASSUME NEW places, places \subseteq Nat, places # {}
  PROVE  Min(places) \in places /\ \A j \in places : Min(places) <= j
<1> DEFINE R == OpToRel(<, Nat)
<1>1. IsWellFoundedOn(R, Nat)
  BY NatLessThanWellFounded, Zenon
<1>2. \A i, j \in Nat : <<i, j>> \in R <=> i < j
  BY DEF OpToRel
<1> HIDE DEF R
<1>3. PICK i \in places : \A j \in places : ~(<<j, i>> \in R)
  BY <1>1, WFMin
<1>4. \A j \in places : ~(j < i)
  BY <1>2, <1>3
<1>5. \A j \in places : i <= j
  BY <1>4
<1> QED
  BY <1>5 DEF Min

(******************************************************************************)
(* A set of naturals that is not empty has a least element: what is said of   *)
(* every natural is proved from the least one of which it would be false.     *)
(******************************************************************************)
LEMMA LeastNat ==
  ASSUME NEW T, T \subseteq Nat, T # {}
  PROVE  \E n \in T : \A m \in T : n <= m
<1> DEFINE R == OpToRel(<, Nat)
<1>1. IsWellFoundedOn(R, Nat)
  BY NatLessThanWellFounded, Zenon
<1>2. \A i, j \in Nat : <<i, j>> \in R <=> i < j
  BY DEF OpToRel
<1> HIDE DEF R
<1>3. PICK i \in T : \A j \in T : ~(<<j, i>> \in R)
  BY <1>1, WFMin
<1>4. \A j \in T : ~(j < i)
  BY <1>2, <1>3
<1>5. \A j \in T : i <= j
  BY <1>4
<1> QED
  BY <1>5

(******************************************************************************)
(* A function that is defined by its first value and by each value from the   *)
(* one before it exists: it is what the recursive definitions of Codec        *)
(* choose.                                                                    *)
(******************************************************************************)
IsRecursion(f, a, n, next) == f[0] = a /\ \A i \in 1..n : f[i] = next[i][f[i - 1]]

(******************************************************************************)
(* A function defined by recursion exists; by induction on the length, for    *)
(* the sequence lengths that the model needs.                                 *)
(******************************************************************************)
LEMMA RecursionExists ==
  ASSUME NEW S, NEW a \in S, NEW n \in Nat, NEW next \in [1..n -> [S -> S]]
  PROVE  \E f \in [0..n -> S] : IsRecursion(f, a, n, next)
<1> DEFINE Recursive(f, k) == f[0] = a /\ \A i \in 1..k : f[i] = next[i][f[i - 1]]
           Missing == {k \in 0..n : ~\E f \in [0..k -> S] : Recursive(f, k)}
<1>1. SUFFICES ASSUME Missing # {} PROVE FALSE
  <2>1. n \in 0..n
    OBVIOUS
  <2>2. Missing = {} => \E f \in [0..n -> S] : Recursive(f, n)
    BY <2>1
  <2> QED
    BY <2>2 DEF IsRecursion
<1>2. PICK k \in Missing : \A m \in Missing : k <= m
  <2>1. Missing \subseteq Nat
    OBVIOUS
  <2> HIDE DEF Missing
  <2> QED
    BY <1>1, <2>1, LeastNat
<1> HIDE DEF Recursive
<1>3. k \in 0..n /\ ~\E f \in [0..k -> S] : Recursive(f, k)
  OBVIOUS
<1>4. k # 0
  <2> DEFINE f == [i \in 0..0 |-> a]
  <2>1. f \in [0..0 -> S] /\ Recursive(f, 0)
    BY DEF Recursive
  <2> QED
    BY <1>3, <2>1
<1>5. k - 1 \in 0..n /\ k - 1 \in Nat /\ k \in 1..n /\ ~(k <= k - 1)
  BY <1>3, <1>4
<1>6. PICK f \in [0..(k - 1) -> S] : Recursive(f, k - 1)
  BY <1>2, <1>5
<1> HIDE DEF Missing
<1> DEFINE g == [i \in 0..k |-> IF i = k THEN next[k][f[k - 1]] ELSE f[i]]
<1>7. f[k - 1] \in S /\ next[k] \in [S -> S]
  BY <1>5
<1>8. g \in [0..k -> S]
  BY <1>5, <1>7
<1>9. g[0] = a
  BY <1>5, <1>6 DEF Recursive
<1>10. ASSUME NEW i \in 1..k PROVE g[i] = next[i][g[i - 1]]
  <2>1. CASE i = k
    BY <1>5, <2>1
  <2>2. CASE i # k
    <3>1. i \in 1..(k - 1) /\ i \in 0..k /\ i - 1 \in 0..k /\ i - 1 # k
      BY <1>5, <2>2
    <3>2. f[i] = next[i][f[i - 1]]
      BY <1>6, <3>1 DEF Recursive
    <3> QED
      BY <2>2, <3>1, <3>2
  <2> QED
    BY <2>1, <2>2
<1> HIDE DEF g
<1>11. Recursive(g, k)
  BY <1>9, <1>10 DEF Recursive
<1> QED
  BY <1>3, <1>8, <1>11

(******************************************************************************)
(* There is only one, also among the functions that need not stay in the set. *)
(******************************************************************************)
IsLooseRecursion(g, S, a, n, next) ==
  /\ g = [i \in 0..n |-> g[i]] /\ g[0] = a
  /\ \A i \in 1..n : g[i - 1] \in S => g[i] = next[i][g[i - 1]]

(******************************************************************************)
(* Any function that satisfies the equation is the one that exists: at the    *)
(* least place where they differ they could not.                              *)
(******************************************************************************)
LEMMA RecursionUnique ==
  ASSUME NEW S, NEW a \in S, NEW n \in Nat, NEW next \in [1..n -> [S -> S]],
         NEW f \in [0..n -> S], IsRecursion(f, a, n, next),
         NEW g, IsLooseRecursion(g, S, a, n, next)
  PROVE  g = f
<1>1. /\ f[0] = a /\ \A i \in 1..n : f[i] = next[i][f[i - 1]]
      /\ g = [i \in 0..n |-> g[i]] /\ g[0] = a
      /\ \A i \in 1..n : g[i - 1] \in S => g[i] = next[i][g[i - 1]]
  BY DEF IsRecursion, IsLooseRecursion
<1> DEFINE Differ == {i \in 0..n : g[i] # f[i]}
<1>2. ASSUME Differ # {} PROVE FALSE
  <2>1. PICK i \in Differ : \A m \in Differ : i <= m
    <3>1. Differ \subseteq Nat
      OBVIOUS
    <3> HIDE DEF Differ
    <3> QED
      BY <1>2, <3>1, LeastNat
  <2>2. i \in 0..n /\ g[i] # f[i]
    OBVIOUS
  <2>3. i \in 1..n /\ i - 1 \in 0..n /\ ~(i <= i - 1)
    BY <1>1, <2>2
  <2>4. g[i - 1] = f[i - 1]
    BY <2>1, <2>3
  <2>5. f[i - 1] \in S
    BY <2>3
  <2>6. g[i] = next[i][g[i - 1]] /\ f[i] = next[i][f[i - 1]]
    BY <1>1, <2>3, <2>4, <2>5
  <2> QED
    BY <2>2, <2>4, <2>6
<1>3. \A i \in 0..n : g[i] = f[i]
  BY <1>2
<1> QED
  BY <1>1, <1>3

(******************************************************************************)
(* A piece of a sequence, after the first k elements.                         *)
(******************************************************************************)
IsPiece(piece, S, s, k, m) ==
  piece \in Seq(S) /\ Len(piece) = m /\ \A i \in 1..m : piece[i] = s[k + i]

(******************************************************************************)
(* What SubSeq returns is that piece.                                         *)
(******************************************************************************)
LEMMA Slice ==
  ASSUME NEW S, NEW s \in Seq(S), NEW k \in Nat, NEW m \in Nat, k + m <= Len(s),
         NEW piece, piece = SubSeq(s, k + 1, k + m)
  PROVE  IsPiece(piece, S, s, k, m)
<1> DEFINE n == Len(s)
<1>1. n \in Nat /\ k + m <= n
  OBVIOUS
<1>2. piece = [i \in 1..m |-> s[k + i]]
  <2>1. piece = [i \in 1..(k + m) - (k + 1) + 1 |-> s[i + (k + 1) - 1]]
    OBVIOUS
  <2>2. (k + m) - (k + 1) + 1 = m /\ \A i \in 1..m : i + (k + 1) - 1 = k + i
    OBVIOUS
  <2> QED
    BY <2>1, <2>2
<1> HIDE DEF n
<1>3. \A i \in 1..m : k + i \in 1..n
  BY <1>1
<1>4. \A i \in 1..m : s[k + i] \in S
  BY <1>3, ElementOfSeq DEF n
<1>5. piece \in [1..m -> S]
  BY <1>2, <1>4
<1>6. piece \in Seq(S) /\ Len(piece) = m
  BY <1>5
<1> QED
  BY <1>2, <1>6 DEF IsPiece
================================================================================
