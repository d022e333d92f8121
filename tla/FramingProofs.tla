----------------------------- MODULE FramingProofs -----------------------------
(******************************************************************************)
(* Proofs about the stream parser of Framing for any number of messages, of   *)
(* which any number are damaged, cut into pieces in any way.                  *)
(******************************************************************************)
EXTENDS Framing, ListProofs

--------------------------------------------------------------------------------
(******************************************************************************)
(* The types of the tokens, and what a token may stand for.                   *)
(******************************************************************************)
TokenTypes == {"count", "checksum", "comma", "open", "text", "close", "eol", "junk", "end"}

(******************************************************************************)
(* The values of a token: a number, or what the checksum is of.               *)
(******************************************************************************)
TokenValues == Nat \cup {Values(Payload(m)) : m \in Nat}

(******************************************************************************)
(* The tokens; that of a count holds a number.                                *)
(******************************************************************************)
Tokens ==
  {token \in [message : Nat, type : TokenTypes, value : TokenValues] :
     token.type = "count" => token.value \in Nat}

(******************************************************************************)
(* What is left of a buffer after its first k tokens.                         *)
(******************************************************************************)
Drop(B, k) == From(B, k + 1)

(******************************************************************************)
(* The rest of a buffer, token by token.                                      *)
(******************************************************************************)
LEMMA DropFacts ==
  ASSUME NEW S, NEW B \in Seq(S), NEW k \in Nat, k <= Len(B)
  PROVE  /\ Drop(B, k) \in Seq(S) /\ Len(Drop(B, k)) = Len(B) - k
         /\ \A i \in 1..Len(B) - k : Drop(B, k)[i] = B[k + i]
<1> DEFINE m == Len(B) - k
           rest == Drop(B, k)
<1>1. m \in Nat /\ k + m = Len(B) /\ k + m <= Len(B)
  OBVIOUS
<1>2. rest = SubSeq(B, k + 1, k + m)
  BY <1>1 DEF Drop, From
<1> HIDE DEF m, rest
<1>3. IsPiece(rest, S, B, k, m)
  BY <1>1, <1>2, Slice
<1>4. rest \in Seq(S) /\ Len(rest) = m /\ \A i \in 1..m : rest[i] = B[k + i]
  BY <1>3 DEF IsPiece
<1> QED
  BY <1>4 DEF m, rest

(******************************************************************************)
(* Dropping twice is dropping once.                                           *)
(******************************************************************************)
LEMMA DropDrop ==
  ASSUME NEW S, NEW B \in Seq(S), NEW k \in Nat, NEW j \in Nat, k + j <= Len(B)
  PROVE  Drop(Drop(B, k), j) = Drop(B, k + j)
<1> DEFINE n == Len(B)
           D == Drop(B, k)
           E == Drop(D, j)
           F == Drop(B, k + j)
<1>1. n \in Nat /\ k <= n /\ k + j \in Nat /\ n - k \in Nat
  OBVIOUS
<1>2. D \in Seq(S) /\ Len(D) = n - k /\ \A i \in 1..n - k : D[i] = B[k + i]
  BY <1>1, DropFacts
<1>3. F \in Seq(S) /\ Len(F) = n - (k + j) /\ \A i \in 1..n - (k + j) : F[i] = B[k + j + i]
  BY <1>1, DropFacts
<1> HIDE DEF D, F
<1>4. D \in Seq(S) /\ j <= Len(D)
  BY <1>1, <1>2
<1>5. E \in Seq(S) /\ Len(E) = Len(D) - j /\ \A i \in 1..Len(D) - j : E[i] = D[j + i]
  BY <1>4, DropFacts
<1> HIDE DEF E, n
<1>6. Len(D) - j = n - (k + j)
  BY <1>1, <1>2
<1>7. ASSUME NEW i \in 1..n - (k + j) PROVE E[i] = F[i]
  <2>1. j + i \in 1..n - k /\ k + (j + i) = k + j + i
    BY <1>1
  <2>2. E[i] = D[j + i]
    BY <1>5, <1>6
  <2>3. D[j + i] = B[k + (j + i)]
    BY <1>2, <2>1
  <2> QED
    BY <1>3, <2>1, <2>2, <2>3
<1>8. E = F
  BY <1>3, <1>5, <1>6, <1>7, SeqEqual
<1> QED
  BY <1>8 DEF E, F, D

(******************************************************************************)
(* The first token of what is left, the rest of it, and the end.              *)
(******************************************************************************)
LEMMA DropHead ==
  ASSUME NEW S, NEW B \in Seq(S), NEW k \in Nat, k < Len(B)
  PROVE  /\ Drop(B, k) # <<>> /\ Head(Drop(B, k)) = B[k + 1]
         /\ Tail(Drop(B, k)) = Drop(B, k + 1)
         /\ k + 1 \in Nat /\ k + 1 <= Len(B) /\ k <= Len(B)
<1> DEFINE D == Drop(B, k)
           n == Len(B)
<1>1. n \in Nat /\ k <= n /\ k + 1 <= n /\ 1 \in 1..n - k /\ k + 1 \in Nat
  OBVIOUS
<1>2. D \in Seq(S) /\ Len(D) = n - k /\ \A i \in 1..n - k : D[i] = B[k + i]
  BY <1>1, DropFacts
<1>3. Drop(D, 1) = Drop(B, k + 1)
  BY <1>1, DropDrop
<1> HIDE DEF D, n
<1>4. Len(D) # 0
  BY <1>1, <1>2
<1>5. D # <<>>
  BY <1>4
<1>6. Head(D) = D[1] /\ D[1] = B[k + 1]
  BY <1>1, <1>2, <1>5
<1>7. Tail(D) = Drop(D, 1)
  BY <1>2, <1>5 DEF Drop, From
<1> QED
  BY <1>1, <1>3, <1>5, <1>6, <1>7 DEF D, n

(******************************************************************************)
(* Dropping everything, and nothing.                                          *)
(******************************************************************************)
LEMMA DropAll ==
  ASSUME NEW S, NEW B \in Seq(S)
  PROVE  Drop(B, Len(B)) = <<>> /\ Drop(B, 0) = B
<1>1. Drop(B, Len(B)) \in Seq(S) /\ Len(Drop(B, Len(B))) = 0
  <2> DEFINE n == Len(B)
  <2>1. n \in Nat /\ n <= n /\ n = Len(B)
    OBVIOUS
  <2> HIDE DEF n
  <2>2. Drop(B, n) \in Seq(S) /\ Len(Drop(B, n)) = n - n
    BY <2>1, DropFacts
  <2> QED
    BY <2>1, <2>2
<1>2. Drop(B, Len(B)) = <<>>
  BY <1>1, EmptySeq
<1>3. Drop(B, 0) = B
  BY DEF Drop, From
<1> QED
  BY <1>2, <1>3

(******************************************************************************)
(* Skipping white space takes the delimiters at the start, if there are any.  *)
(******************************************************************************)
LEMMA SkipSpaceFacts ==
  ASSUME NEW B \in Seq(Tokens)
  PROVE  \E k \in 0..Len(B) : /\ SkipSpace(B) = Drop(B, k)
                              /\ \A i \in 1..k : B[i].type = "eol"
                              /\ k < Len(B) => B[k + 1].type # "eol"
<1> DEFINE end == Token(0, "end", 0)
           A == Append(B, end)
           n == Len(B)
           I == {i \in 1..n + 1 : A[i].type # "eol"}
<1>1. n \in Nat
  OBVIOUS
<1>2. Len(A) = n + 1 /\ A[n + 1] = end /\ \A i \in 1..n : A[i] = B[i]
  BY AppendProperties
<1>3. end.type # "eol"
  BY DEF Token
<1>4. SkipSpace(B) = From(B, IF I # {} THEN Min(I) ELSE 0)
  BY <1>2 DEF SkipSpace, SelectInSeq
<1> HIDE DEF A, n
<1>5. n + 1 \in I
  BY <1>1, <1>2, <1>3
<1>6. I \subseteq Nat /\ I \subseteq 1..n + 1
  BY <1>1
<1>7. PICK first \in I : \A i \in I : first <= i
  <2> HIDE DEF I
  <2> QED
    BY <1>5, <1>6, LeastNat
<1>8. Min(I) = first
  <2> HIDE DEF I
  <2>1. \A i \in I : i \in Nat
    BY <1>6
  <2>2. \A x \in I : (\A y \in I : x <= y) => x = first
    BY <1>7, <2>1
  <2> QED
    BY <1>7, <2>2 DEF Min
<1> DEFINE k == first - 1
<1>9. k \in 0..n /\ k + 1 = first
  BY <1>1, <1>6
<1>10. SkipSpace(B) = Drop(B, k)
  <2>1. I # {}
    BY <1>5
  <2> HIDE DEF I
  <2> QED
    BY <1>4, <1>8, <1>9, <2>1 DEF Drop
<1>11. ASSUME NEW i \in 1..k PROVE B[i].type = "eol"
  <2>1. i \in 1..n /\ i \in 1..n + 1 /\ ~(first <= i)
    BY <1>1, <1>9
  <2>2. A[i].type = "eol"
    BY <1>7, <2>1
  <2> QED
    BY <1>2, <2>1, <2>2
<1>12. k < n => B[k + 1].type # "eol"
  <2>1. first \in I
    OBVIOUS
  <2>2. k < n => first \in 1..n
    BY <1>1, <1>9
  <2> QED
    BY <1>2, <1>9, <2>1, <2>2
<1> HIDE DEF k
<1> QED
  BY <1>9, <1>10, <1>11, <1>12 DEF n

(******************************************************************************)
(* The same at a place in a buffer.                                           *)
(******************************************************************************)
IsSkip(B, k, q) ==
  /\ SkipSpace(Drop(B, k)) = Drop(B, q)
  /\ \A i \in k + 1..q : B[i].type = "eol"
  /\ q < Len(B) => B[q + 1].type # "eol"

(******************************************************************************)
(* Extraction skips the white space from where it is up to a token, or up to  *)
(* the end of the buffer.                                                     *)
(******************************************************************************)
LEMMA SkipAt ==
  ASSUME NEW B \in Seq(Tokens), NEW k \in Nat, k <= Len(B)
  PROVE  \E q \in k..Len(B) : IsSkip(B, k, q)
<1> DEFINE n == Len(B)
           D == Drop(B, k)
<1>1. n \in Nat /\ k <= n /\ n - k \in Nat
  OBVIOUS
<1>2. D \in Seq(Tokens) /\ Len(D) = n - k /\ \A i \in 1..n - k : D[i] = B[k + i]
  BY DropFacts
<1> HIDE DEF D
<1>3. PICK j \in 0..Len(D) : /\ SkipSpace(D) = Drop(D, j)
                             /\ \A i \in 1..j : D[i].type = "eol"
                             /\ j < Len(D) => D[j + 1].type # "eol"
  BY <1>2, SkipSpaceFacts
<1> DEFINE q == k + j
<1>4. q \in k..n /\ j \in Nat /\ q <= n /\ j <= n - k
  BY <1>1, <1>2
<1>5. Drop(D, j) = Drop(B, q)
  <2>1. k + j <= Len(B)
    BY <1>4
  <2> QED
    BY <1>4, <2>1, DropDrop DEF D
<1> HIDE DEF n
<1>6. ASSUME NEW i \in k + 1..q PROVE B[i].type = "eol"
  <2> DEFINE r == i - k
  <2>1. r \in 1..j /\ r \in 1..n - k /\ k + r = i
    BY <1>1, <1>4
  <2> HIDE DEF r
  <2>2. D[r].type = "eol" /\ D[r] = B[k + r]
    BY <1>2, <1>3, <2>1
  <2> QED
    BY <2>1, <2>2
<1>7. q < n => B[q + 1].type # "eol"
  <2> SUFFICES ASSUME q < n PROVE B[q + 1].type # "eol"
    OBVIOUS
  <2> DEFINE r == j + 1
  <2>1. r \in 1..n - k /\ k + r = q + 1 /\ j < Len(D)
    BY <1>1, <1>2, <1>4
  <2>2. D[r].type # "eol"
    BY <1>3, <2>1
  <2> HIDE DEF r
  <2>3. D[r] = B[k + r]
    BY <1>2, <2>1
  <2> QED
    BY <2>1, <2>2, <2>3
<1> HIDE DEF q
<1>8. IsSkip(B, k, q)
  BY <1>3, <1>5, <1>6, <1>7 DEF IsSkip, D, n
<1> QED
  BY <1>4, <1>8 DEF n

(******************************************************************************)
(* It stays where it is at any other token.                                   *)
(******************************************************************************)
LEMMA SkipNone ==
  ASSUME NEW B \in Seq(Tokens), NEW k \in Nat, k < Len(B), B[k + 1].type # "eol"
  PROVE  SkipSpace(Drop(B, k)) = Drop(B, k)
<1>1. k <= Len(B)
  OBVIOUS
<1>2. PICK q \in k..Len(B) : IsSkip(B, k, q)
  BY <1>1, SkipAt
<1>3. q = k
  <2>1. q # k => k + 1 \in k + 1..q
    BY <1>2
  <2>2. \A i \in k + 1..q : B[i].type = "eol"
    BY <1>2 DEF IsSkip
  <2> QED
    BY <2>1, <2>2
<1> QED
  BY <1>2, <1>3 DEF IsSkip

(******************************************************************************)
(* What the rest of a buffer starts with.                                     *)
(******************************************************************************)
LEMMA StartsAt ==
  ASSUME NEW B \in Seq(Tokens), NEW k \in Nat, k <= Len(B), NEW type
  PROVE  StartsWith(Drop(B, k), type) <=> (k < Len(B) /\ B[k + 1].type = type)
<1>1. CASE k < Len(B)
  <2>1. Drop(B, k) # <<>> /\ Head(Drop(B, k)) = B[k + 1]
    BY <1>1, DropHead
  <2> QED
    BY <1>1, <2>1 DEF StartsWith
<1>2. CASE ~(k < Len(B))
  <2>1. k = Len(B)
    BY <1>2
  <2>2. Drop(B, k) = <<>>
    BY <2>1, DropAll
  <2> QED
    BY <1>2, <2>2 DEF StartsWith
<1> QED
  BY <1>1, <1>2

(******************************************************************************)
(* Wherever ParseStream stops, it has taken the text of the message it        *)
(* returns.                                                                   *)
(******************************************************************************)
TookText(B, q, message) ==
  message = Nothing \/ \E i \in 1..q : B[i].type = "text" /\ B[i].message = message

(******************************************************************************)
(* The JSON parser leaves the end of the buffer behind, and returns the       *)
(* number of a text it went over, or nothing (transport.cpp:252, 298).        *)
(******************************************************************************)
LEMMA StreamParsed ==
  ASSUME NEW B \in Seq(Tokens), NEW k \in Nat, k <= Len(B)
  PROVE  \E q \in k..Len(B), message \in Int :
           /\ ParseStream(Drop(B, k)) = [message |-> message, rest |-> Drop(B, q)]
           /\ TookText(B, q, message)
<1> DEFINE n == Len(B)
           first == SkipSpace(Drop(B, k))
           second == SkipSpace(From(first, 2))
           third == SkipSpace(From(second, 2))
           stream == ParseStream(Drop(B, k))
<1>1. n \in Nat /\ \A i \in 1..n : B[i] \in Tokens
  BY ElementOfSeq
<1>2. stream = IF ~StartsWith(first, "open") THEN [message |-> Nothing, rest |-> first]
               ELSE IF ~StartsWith(second, "text") THEN [message |-> Nothing, rest |-> second]
               ELSE IF ~StartsWith(third, "close") THEN [message |-> Nothing, rest |-> third]
               ELSE [message |-> Head(second).message, rest |-> Tail(third)]
  BY DEF ParseStream
<1> HIDE DEF stream
<1>3. Nothing \in Int /\ \A q : TookText(B, q, Nothing)
  BY DEF TookText, Nothing
<1>4. PICK q1 \in k..n : first = Drop(B, q1)
  BY SkipAt DEF IsSkip
<1>5. CASE ~StartsWith(first, "open")
  <2>1. stream = [message |-> Nothing, rest |-> Drop(B, q1)]
    BY <1>2, <1>4, <1>5
  <2> QED
    BY <1>3, <1>4, <2>1 DEF stream, n
<1>6. CASE StartsWith(first, "open")
  <2>1. q1 \in Nat /\ q1 < n /\ q1 <= n /\ q1 + 1 \in Nat /\ q1 + 1 <= n
    <3>1. q1 \in Nat /\ q1 <= n
      BY <1>1
    <3>2. q1 < n
      BY <1>4, <1>6, <3>1, StartsAt
    <3> QED
      BY <1>1, <3>1, <3>2
  <2>2. From(first, 2) = Drop(B, q1 + 1)
    <3>1. Drop(Drop(B, q1), 1) = Drop(B, q1 + 1)
      BY <2>1, DropDrop
    <3>2. Drop(first, 1) = From(first, 2)
      BY DEF Drop
    <3> HIDE DEF first
    <3> QED
      BY <1>4, <3>1, <3>2
  <2>3. PICK q2 \in q1 + 1..n : second = Drop(B, q2)
    <3> HIDE DEF first
    <3>1. PICK q \in q1 + 1..n : IsSkip(B, q1 + 1, q)
      BY <2>1, SkipAt
    <3>2. second = Drop(B, q)
      BY <2>2, <3>1 DEF IsSkip
    <3> QED
      BY <3>2
  <2> HIDE DEF first, second
  <2>4. CASE ~StartsWith(second, "text")
    <3>1. stream = [message |-> Nothing, rest |-> Drop(B, q2)] /\ q2 \in k..n
      BY <1>1, <1>2, <1>6, <2>1, <2>3, <2>4
    <3> QED
      BY <1>3, <3>1 DEF stream, n
  <2>5. CASE StartsWith(second, "text")
    <3>1. q2 \in Nat /\ q2 < n /\ q2 + 1 \in Nat /\ q2 + 1 <= n /\ q2 >= k /\ B[q2 + 1].type = "text"
      <4>1. q2 \in Nat /\ q2 <= n /\ q2 >= k
        BY <1>1, <2>1
      <4>2. q2 < n /\ B[q2 + 1].type = "text"
        BY <2>3, <2>5, <4>1, StartsAt
      <4> QED
        BY <1>1, <4>1, <4>2
    <3>2. From(second, 2) = Drop(B, q2 + 1)
      <4>1. Drop(Drop(B, q2), 1) = Drop(B, q2 + 1)
        BY <3>1, DropDrop
      <4>2. Drop(second, 1) = From(second, 2)
        BY DEF Drop
      <4> QED
        BY <2>3, <4>1, <4>2
    <3>3. PICK q3 \in q2 + 1..n : third = Drop(B, q3)
      <4>1. PICK q \in q2 + 1..n : IsSkip(B, q2 + 1, q)
        BY <3>1, SkipAt
      <4>2. third = Drop(B, q)
        BY <3>2, <4>1 DEF IsSkip
      <4> QED
        BY <4>2
    <3> HIDE DEF third
    <3>4. q3 \in Nat /\ q3 <= n /\ q3 \in k..n /\ q2 + 1 \in 1..q3
      BY <1>1, <3>1
    <3>5. CASE ~StartsWith(third, "close")
      <4>1. stream = [message |-> Nothing, rest |-> Drop(B, q3)]
        BY <1>2, <1>6, <2>5, <3>3, <3>5
      <4> QED
        BY <1>3, <3>4, <4>1 DEF stream, n
    <3>6. CASE StartsWith(third, "close")
      <4> DEFINE q == q3 + 1
                 message == Head(second).message
      <4>1. q3 < n
        BY <3>3, <3>4, <3>6, StartsAt
      <4>2. q \in k..n /\ q2 + 1 \in 1..q
        BY <1>1, <3>4, <4>1
      <4>3. Tail(third) = Drop(B, q)
        BY <3>3, <3>4, <4>1, DropHead
      <4>4. message = B[q2 + 1].message
        BY <2>3, <3>1, DropHead
      <4>5. message \in Int
        <5>1. B[q2 + 1] \in Tokens
          BY <1>1, <3>1
        <5> QED
          BY <4>4, <5>1 DEF Tokens
      <4>6. TookText(B, q, message)
        BY <3>1, <4>2, <4>4 DEF TookText
      <4>7. stream = [message |-> message, rest |-> Drop(B, q)]
        BY <1>2, <1>6, <2>5, <3>6, <4>3
      <4> QED
        BY <4>2, <4>5, <4>6, <4>7 DEF stream, n
    <3> QED
      BY <3>5, <3>6
  <2> QED
    BY <2>4, <2>5
<1> QED
  BY <1>5, <1>6

--------------------------------------------------------------------------------
(******************************************************************************)
(* The states of the loop over the fields.                                    *)
(******************************************************************************)
ParserStates ==
  [rest : Seq(Tokens), expected_checksum : TokenValues \cup {NoChecksum},
   end_of_headers : BOOLEAN, message : Int, done : BOOLEAN]

(******************************************************************************)
(* A state of the loop that has taken the first k tokens of a buffer, and     *)
(* what a step of the loop makes of it: the end, or a step further into the   *)
(* buffer.                                                                    *)
(******************************************************************************)
IsParsed(B, p, k) ==
  p \in ParserStates /\ p.rest = Drop(B, k) /\ TookText(B, k, p.message)

(******************************************************************************)
(* A turn of the loop ends it, or goes on further behind in the buffer        *)
(* without a message.                                                         *)
(******************************************************************************)
Advanced(B, k, r) ==
  \E q \in k..Len(B) :
    IsParsed(B, r, q) /\ (r.done = TRUE \/ (q > k /\ r.message = Nothing))

(******************************************************************************)
(* What an exception leaves.                                                  *)
(******************************************************************************)
LEMMA ThrowAdvances ==
  ASSUME NEW B \in Seq(Tokens), NEW k \in Nat, NEW q \in k..Len(B), NEW p,
         IsParsed(B, p, k)
  PROVE  IsParsed(B, Throw(p, Drop(B, q)), q) /\ Throw(p, Drop(B, q)).done = TRUE
         /\ Advanced(B, k, Throw(p, Drop(B, q)))
<1> DEFINE rest == Drop(B, q)
           r == Throw(p, rest)
<1>1. q \in Nat /\ q <= Len(B) /\ k <= q
  OBVIOUS
<1>2. rest \in Seq(Tokens)
  BY <1>1, DropFacts
<1>3. p \in ParserStates /\ TookText(B, k, p.message)
  BY DEF IsParsed
<1> HIDE DEF rest
<1>4. r \in ParserStates /\ r.rest = rest /\ r.message = p.message /\ r.done = TRUE
  BY <1>2, <1>3 DEF Throw, ParserStates
<1>5. TookText(B, q, p.message)
  BY <1>1, <1>3 DEF TookText
<1> HIDE DEF r
<1>6. IsParsed(B, r, q)
  BY <1>4, <1>5 DEF IsParsed, rest
<1> QED
  BY <1>4, <1>6 DEF Advanced, r, rest

(******************************************************************************)
(* A header that is used.                                                     *)
(******************************************************************************)
Used(p, rest, r) ==
  \/ r = [p EXCEPT !.rest = rest]
  \/ \E value \in TokenValues : r = [p EXCEPT !.rest = rest, !.expected_checksum = value]
  \/ r = [p EXCEPT !.rest = rest, !.end_of_headers = TRUE]

(******************************************************************************)
(* Using a header is such a turn (transport.cpp:284-293).                     *)
(******************************************************************************)
LEMMA HeaderAdvances ==
  ASSUME NEW B \in Seq(Tokens), NEW k \in Nat, NEW q \in k..Len(B), q > k,
         NEW p, IsParsed(B, p, k), p.message = Nothing, NEW r, Used(p, Drop(B, q), r)
  PROVE  Advanced(B, k, r)
<1> DEFINE rest == Drop(B, q)
<1>1. q \in Nat /\ q <= Len(B)
  OBVIOUS
<1>2. rest \in Seq(Tokens)
  BY <1>1, DropFacts
<1>3. p \in ParserStates
  BY DEF IsParsed
<1> HIDE DEF rest
<1>4. \/ r = [p EXCEPT !.rest = rest]
      \/ \E value \in TokenValues : r = [p EXCEPT !.rest = rest, !.expected_checksum = value]
      \/ r = [p EXCEPT !.rest = rest, !.end_of_headers = TRUE]
  BY DEF Used, rest
<1>5. r \in ParserStates /\ r.rest = rest /\ r.message = p.message
  <2>1. CASE r = [p EXCEPT !.rest = rest]
    BY <1>2, <1>3, <2>1 DEF ParserStates
  <2>2. ASSUME NEW value \in TokenValues,
               r = [p EXCEPT !.rest = rest, !.expected_checksum = value]
        PROVE  r \in ParserStates /\ r.rest = rest /\ r.message = p.message
    BY <1>2, <1>3, <2>2 DEF ParserStates
  <2>3. CASE r = [p EXCEPT !.rest = rest, !.end_of_headers = TRUE]
    BY <1>2, <1>3, <2>3 DEF ParserStates
  <2> QED
    BY <1>4, <2>1, <2>2, <2>3
<1>6. TookText(B, q, r.message)
  BY <1>5 DEF TookText
<1>7. IsParsed(B, r, q)
  BY <1>5, <1>6 DEF IsParsed, rest
<1> QED
  BY <1>5, <1>7 DEF Advanced

(******************************************************************************)
(* A header field.                                                            *)
(******************************************************************************)
LEMMA ParseHeaderAdvances ==
  ASSUME NEW B \in Seq(Tokens), NEW k \in Nat, k < Len(B), NEW p, IsParsed(B, p, k),
         p.message = Nothing, NEW j \in k + 1..Len(B), NEW c \in Nat
  PROVE  Advanced(B, k, ParseHeader(p, c, Drop(B, j)))
<1> DEFINE n == Len(B)
           tokens == Drop(B, j)
           after == SkipSpace(From(tokens, c + 1))
           text == SubSeq(tokens, 1, c)
           r == ParseHeader(p, c, tokens)
<1>1. n \in Nat /\ j \in Nat /\ j <= n /\ n \in k..n /\ k < j
  OBVIOUS
<1>2. tokens \in Seq(Tokens) /\ Len(tokens) = n - j
  BY <1>1, DropFacts
<1>3. r = IF Len(tokens) < c \/ after = <<>> THEN Throw(p, <<>>)
          ELSE IF ~StartsWith(after, "comma") THEN Throw(p, Tail(after))
          ELSE IF c = 0 THEN [p EXCEPT !.rest = Tail(after), !.end_of_headers = TRUE]
          ELSE UseHeader(p, text, Tail(after))
  BY DEF ParseHeader
<1>4. Drop(B, n) = <<>>
  BY DropAll
<1> HIDE DEF r
<1>5. CASE Len(tokens) < c \/ after = <<>>
  <2> HIDE DEF after, tokens, text
  <2>1. r = Throw(p, Drop(B, n))
    BY <1>3, <1>4, <1>5
  <2> QED
    BY <1>1, <2>1, ThrowAdvances DEF r, tokens
<1>6. CASE ~(Len(tokens) < c) /\ after # <<>>
  <2> DEFINE i == j + c
  <2>1. i \in Nat /\ i <= n /\ i \in j..n
    BY <1>1, <1>2, <1>6
  <2>2. From(tokens, c + 1) = Drop(B, i)
    <3>1. Drop(Drop(B, j), c) = Drop(B, j + c)
      BY <1>1, <2>1, DropDrop
    <3> QED
      BY <3>1 DEF Drop
  <2> HIDE DEF i, tokens
  <2>3. PICK q \in i..n : after = Drop(B, q)
    <3>1. PICK q \in i..n : IsSkip(B, i, q)
      BY <2>1, SkipAt
    <3> QED
      BY <2>2, <3>1 DEF IsSkip
  <2>4. q \in Nat /\ q < n /\ q + 1 \in k..n /\ q + 1 > k /\ Tail(after) = Drop(B, q + 1)
    <3>1. q \in Nat /\ q <= n /\ k < q
      BY <1>1, <2>1, <2>3
    <3> HIDE DEF after
    <3>2. q # n
      BY <1>4, <1>6, <2>3
    <3>3. q < n
      BY <1>1, <3>1, <3>2
    <3> QED
      BY <1>1, <2>3, <3>1, <3>3, DropHead
  <2> HIDE DEF after
  <2>5. r \in {Throw(p, Tail(after)), [p EXCEPT !.rest = Tail(after), !.end_of_headers = TRUE],
               UseHeader(p, text, Tail(after))}
    <3> HIDE DEF text
    <3> QED
      BY <1>3, <1>6
  <2>6. CASE r = Throw(p, Tail(after))
    BY <1>1, <2>4, <2>6, ThrowAdvances DEF r, tokens
  <2>7. CASE r = [p EXCEPT !.rest = Tail(after), !.end_of_headers = TRUE]
    <3>1. Used(p, Drop(B, q + 1), r)
      BY <2>4, <2>7 DEF Used
    <3> QED
      BY <2>4, <3>1, HeaderAdvances DEF r, tokens
  <2>8. CASE r = UseHeader(p, text, Tail(after))
    <3>1. text \in Seq(Tokens)
      <4>1. ASSUME c = 0 PROVE text = <<>>
        BY <1>2, <4>1
      <4>2. c <= Len(tokens)
        BY <1>1, <1>2, <1>6
      <4> QED
        BY <1>2, <4>2
    <3> HIDE DEF text
    <3>2. StartsWith(text, "checksum") => Head(text).value \in TokenValues
      <4>1. text # <<>> => Head(text) \in Tokens
        BY <3>1
      <4> QED
        BY <4>1 DEF StartsWith, Tokens
    <3>3. \/ StartsWith(text, "checksum") /\ r = [p EXCEPT !.rest = Tail(after), !.expected_checksum = Head(text).value]
          \/ r = [p EXCEPT !.rest = Tail(after)]
          \/ r = Throw(p, Tail(after))
      BY <2>8 DEF UseHeader
    <3>4. CASE r = Throw(p, Tail(after))
      BY <1>1, <2>4, <3>4, ThrowAdvances DEF r, tokens
    <3>5. CASE r # Throw(p, Tail(after))
      <4>1. Used(p, Drop(B, q + 1), r)
        BY <2>4, <3>2, <3>3, <3>5 DEF Used
      <4> QED
        BY <2>4, <4>1, HeaderAdvances DEF r, tokens
    <3> QED
      BY <3>4, <3>5
  <2> QED
    BY <2>5, <2>6, <2>7, <2>8
<1> QED
  BY <1>5, <1>6

(******************************************************************************)
(* The payload.                                                               *)
(******************************************************************************)
LEMMA ParsePayloadAdvances ==
  ASSUME NEW B \in Seq(Tokens), NEW k \in Nat, NEW p, IsParsed(B, p, k),
         NEW j \in k..Len(B), NEW c
  PROVE  Advanced(B, k, ParsePayload(p, c, Drop(B, j)))
<1> DEFINE n == Len(B)
           tokens == Drop(B, j)
           document == ParseStream(tokens)
           r == ParsePayload(p, c, tokens)
<1>1. r = Throw(p, tokens) \/ r = [Throw(p, document.rest) EXCEPT !.message = document.message]
  BY DEF ParsePayload
<1>2. j \in Nat /\ j <= n /\ k <= j /\ n \in Nat
  OBVIOUS
<1>3. PICK q \in j..n, message \in Int : /\ document = [message |-> message, rest |-> Drop(B, q)]
                                         /\ TookText(B, q, message)
  BY <1>2, StreamParsed
<1> HIDE DEF r, tokens, document
<1>4. document.rest = Drop(B, q) /\ document.message = message
  BY <1>3
<1>5. CASE r = Throw(p, tokens)
  BY <1>2, <1>5, ThrowAdvances DEF r, tokens
<1>6. CASE r = [Throw(p, document.rest) EXCEPT !.message = document.message]
  <2> DEFINE s == Throw(p, Drop(B, q))
  <2>1. r = [s EXCEPT !.message = message]
    BY <1>4, <1>6
  <2>2. q \in k..n
    BY <1>2
  <2>3. IsParsed(B, s, q) /\ s.done = TRUE
    BY <2>2, ThrowAdvances
  <2> HIDE DEF s
  <2>4. r \in ParserStates /\ r.rest = s.rest /\ r.message = message /\ r.done = TRUE
    BY <2>1, <2>3 DEF IsParsed, ParserStates
  <2>5. IsParsed(B, r, q)
    BY <1>3, <2>3, <2>4 DEF IsParsed
  <2> QED
    BY <2>2, <2>4, <2>5 DEF Advanced, r, tokens
<1> QED
  BY <1>1, <1>5, <1>6

(******************************************************************************)
(* Any field.                                                                 *)
(******************************************************************************)
LEMMA FieldAdvances ==
  ASSUME NEW B \in Seq(Tokens), NEW k \in 0..Len(B), NEW p, IsParsed(B, p, k),
         p.message = Nothing
  PROVE  Advanced(B, k, ParseField(p))
<1> DEFINE n == Len(B)
           tokens == SkipSpace(p.rest)
           r == ParseField(p)
<1>1. n \in Nat /\ k \in Nat /\ k <= n
  OBVIOUS
<1>2. PICK q \in k..n : tokens = Drop(B, q)
  <2>1. PICK q \in k..n : IsSkip(B, k, q)
    BY <1>1, SkipAt
  <2>2. p.rest = Drop(B, k)
    BY DEF IsParsed
  <2> QED
    BY <2>1, <2>2 DEF IsSkip
<1>3. q \in Nat /\ q <= n /\ k <= q
  BY <1>1
<1>4. r = IF ~StartsWith(tokens, "count") THEN Throw(p, tokens)
          ELSE IF Head(tokens).value > MESSAGE_LENGTH_MAX THEN Throw(p, Tail(tokens))
          ELSE IF p.end_of_headers THEN ParsePayload(p, Head(tokens).value, Tail(tokens))
          ELSE ParseHeader(p, Head(tokens).value, Tail(tokens))
  BY DEF ParseField
<1> HIDE DEF r, tokens
<1>5. CASE ~StartsWith(tokens, "count")
  <2>1. r = Throw(p, Drop(B, q))
    BY <1>2, <1>4, <1>5
  <2> QED
    BY <1>1, <2>1, ThrowAdvances DEF r
<1>6. CASE StartsWith(tokens, "count")
  <2> DEFINE c == Head(tokens).value
  <2>1. q < n /\ B[q + 1].type = "count"
    BY <1>2, <1>3, <1>6, StartsAt
  <2>2. Head(tokens) = B[q + 1] /\ Tail(tokens) = Drop(B, q + 1)
    BY <1>2, <1>3, <2>1, DropHead
  <2>3. B[q + 1] \in Tokens
    <3>1. q + 1 \in 1..n
      BY <1>1, <1>3, <2>1
    <3> QED
      BY <3>1, ElementOfSeq
  <2>4. c \in Nat
    BY <2>1, <2>2, <2>3 DEF Tokens
  <2> HIDE DEF c
  <2>5. r \in {Throw(p, Drop(B, q + 1)), ParsePayload(p, c, Drop(B, q + 1)), ParseHeader(p, c, Drop(B, q + 1))}
    BY <1>4, <1>6, <2>2 DEF c
  <2>6. q + 1 \in k..n /\ q + 1 \in k + 1..n /\ k < n
    BY <1>1, <1>3, <2>1
  <2>7. CASE r = Throw(p, Drop(B, q + 1))
    BY <1>1, <2>6, <2>7, ThrowAdvances DEF r
  <2>8. CASE r = ParsePayload(p, c, Drop(B, q + 1))
    BY <1>1, <2>6, <2>8, ParsePayloadAdvances DEF r
  <2>9. CASE r = ParseHeader(p, c, Drop(B, q + 1))
    BY <1>1, <2>4, <2>6, <2>9, ParseHeaderAdvances DEF r
  <2> QED
    BY <2>5, <2>7, <2>8, <2>9
<1> QED
  BY <1>5, <1>6

--------------------------------------------------------------------------------
(******************************************************************************)
(* The loop over the fields of a message: its states stay among those that    *)
(* have no message yet unless they are the last one.                          *)
(******************************************************************************)
FieldStates == {p \in ParserStates : p.done = TRUE \/ p.message = Nothing}

(******************************************************************************)
(* A turn of the loop leads from a state of the loop to a state of it.        *)
(******************************************************************************)
LEMMA ParseNextTyped ==
  ASSUME NEW p \in FieldStates
  PROVE  ParseNext(p) \in FieldStates
<1>1. CASE p.done
  BY <1>1 DEF ParseNext
<1>2. CASE ~p.done
  <2> DEFINE B == p.rest
             r == ParseField(p)
  <2>1. p \in ParserStates /\ p.message = Nothing /\ B \in Seq(Tokens)
    BY <1>2 DEF FieldStates, ParserStates
  <2>2. 0 \in 0..Len(B) /\ Drop(B, 0) = B
    BY <2>1, DropAll
  <2>3. IsParsed(B, p, 0)
    BY <2>1, <2>2 DEF IsParsed, TookText
  <2>4. Advanced(B, 0, r)
    BY <2>1, <2>2, <2>3, FieldAdvances
  <2> HIDE DEF r
  <2>5. r \in FieldStates
    BY <2>4 DEF Advanced, IsParsed, FieldStates
  <2> QED
    BY <1>2, <2>5 DEF ParseNext, r
<1> QED
  BY <1>1, <1>2

(******************************************************************************)
(* The states of the loop follow from each other.                             *)
(******************************************************************************)
IsLoop(f, start, n) ==
  /\ f \in [0..n -> FieldStates] /\ f[0] = start
  /\ \A i \in 1..n : f[i] = ParseNext(f[i - 1])

(******************************************************************************)
(* The states that the model computes are those of the loop.                  *)
(******************************************************************************)
LEMMA ParseStatesUnfold ==
  ASSUME NEW start \in FieldStates
  PROVE  /\ Len(start.rest) + 1 \in Nat
         /\ IsLoop(ParseStates(start), start, Len(start.rest) + 1)
<1> DEFINE n == Len(start.rest) + 1
           S == FieldStates
           next == [i \in 1..n |-> [p \in S |-> ParseNext(p)]]
<1>1. n \in Nat
  <2>1. start.rest \in Seq(Tokens)
    BY DEF FieldStates, ParserStates
  <2> QED
    BY <2>1
<1>2. start \in S
  OBVIOUS
<1> HIDE DEF n, S
<1>3. \A p \in S : ParseNext(p) \in S
  BY ParseNextTyped DEF S
<1>4. next \in [1..n -> [S -> S]]
  BY <1>3
<1>5. \A i \in 1..n, p \in S : next[i][p] = ParseNext(p)
  OBVIOUS
<1> HIDE DEF next
<1>6. PICK f \in [0..n -> S] : IsRecursion(f, start, n, next)
  BY <1>1, <1>2, <1>4, RecursionExists
<1>7. f = [i \in 0..n |-> IF i = 0 THEN start ELSE ParseNext(f[i - 1])]
  <2>1. ASSUME NEW i \in 1..n PROVE f[i] = ParseNext(f[i - 1])
    <3>1. i - 1 \in 0..n
      BY <1>1
    <3>2. f[i - 1] \in S
      BY <3>1
    <3> QED
      BY <1>5, <1>6, <3>2 DEF IsRecursion
  <2>2. \A i \in 0..n : i # 0 => i \in 1..n
    BY <1>1
  <2> QED
    BY <1>6, <2>1, <2>2 DEF IsRecursion
<1> DEFINE g == ParseStates(start)
           h == [i \in 0..n |-> IF i = 0 THEN start ELSE ParseNext(g[i - 1])]
<1>8. g = h
  <2> DEFINE P(q, m) == q = [i \in 0..m |-> IF i = 0 THEN start ELSE ParseNext(q[i - 1])]
  <2>1. P(f, n)
    BY <1>7
  <2>2. g = CHOOSE q : P(q, Len(start.rest) + 1)
    BY DEF ParseStates
  <2> HIDE DEF P, g
  <2>3. P(f, Len(start.rest) + 1)
    BY <2>1 DEF n
  <2>4. P(g, Len(start.rest) + 1)
    BY <2>2, <2>3
  <2>5. P(g, n)
    BY <2>4 DEF n
  <2> QED
    BY <2>5 DEF P
<1> HIDE DEF g
<1>9. /\ g[0] = start /\ g = [i \in 0..n |-> g[i]]
      /\ \A i \in 1..n : g[i] = ParseNext(g[i - 1])
  <2>1. 0 \in 0..n /\ \A i \in 1..n : i \in 0..n /\ i # 0
    BY <1>1
  <2>2. /\ h[0] = start /\ h = [i \in 0..n |-> h[i]]
        /\ \A i \in 1..n : h[i] = ParseNext(g[i - 1])
    BY <2>1
  <2> HIDE DEF h
  <2> QED
    BY <1>8, <2>2
<1>10. IsLooseRecursion(g, S, start, n, next)
  BY <1>5, <1>9 DEF IsLooseRecursion
<1>11. g = f
  BY <1>1, <1>2, <1>4, <1>6, <1>10, RecursionUnique
<1>12. IsLoop(g, start, n)
  BY <1>9, <1>11 DEF IsLoop, S
<1> QED
  BY <1>1, <1>12 DEF n, g

(******************************************************************************)
(* Once it has ended, the loop stays as it is.                                *)
(******************************************************************************)
LEMMA LoopEnded ==
  ASSUME NEW f, NEW start, NEW n \in Nat, IsLoop(f, start, n),
         NEW i \in 0..n, f[i].done = TRUE
  PROVE  f[n] = f[i]
<1> DEFINE Bad == {j \in i..n : f[j] # f[i]}
<1>1. ASSUME Bad # {} PROVE FALSE
  <2>1. PICK j \in Bad : \A m \in Bad : j <= m
    <3>1. Bad \subseteq Nat
      OBVIOUS
    <3> HIDE DEF Bad
    <3> QED
      BY <1>1, <3>1, LeastNat
  <2>2. j \in i..n /\ f[j] # f[i]
    OBVIOUS
  <2>3. j # i
    BY <2>2
  <2>4. j - 1 \in i..n /\ j \in 1..n /\ ~(j <= j - 1)
    BY <2>2, <2>3
  <2>5. f[j - 1] = f[i]
    BY <2>1, <2>4
  <2>6. f[j] = ParseNext(f[j - 1])
    BY <2>4 DEF IsLoop
  <2> QED
    BY <2>2, <2>5, <2>6 DEF ParseNext
<1>2. n \in i..n
  OBVIOUS
<1> QED
  BY <1>1, <1>2

(******************************************************************************)
(* The state it starts in.                                                    *)
(******************************************************************************)
LEMMA StartFacts ==
  ASSUME NEW B \in Seq(Tokens)
  PROVE  /\ Start(B) \in FieldStates /\ Start(B).rest = B /\ IsParsed(B, Start(B), 0)
         /\ Start(B).message = Nothing /\ Len(B) \in Nat /\ Len(B) + 1 \in Nat
         /\ IsLoop(ParseStates(Start(B)), Start(B), Len(B) + 1)
         /\ ParseFields(Start(B)) = ParseStates(Start(B))[Len(B) + 1]
<1>1. Start(B) \in ParserStates /\ Start(B).rest = B /\ Start(B).message = Nothing
  BY DEF Start, ParserStates, Nothing
<1>2. Start(B) \in FieldStates
  BY <1>1 DEF FieldStates
<1>3. IsParsed(B, Start(B), 0)
  BY <1>1, DropAll DEF IsParsed, TookText
<1>4. Len(B) \in Nat /\ Len(B) + 1 \in Nat
  OBVIOUS
<1>5. IsLoop(ParseStates(Start(B)), Start(B), Len(B) + 1)
  BY <1>1, <1>2, ParseStatesUnfold
<1>6. ParseFields(Start(B)) = ParseStates(Start(B))[Len(B) + 1]
  BY <1>1 DEF ParseFields
<1> QED
  BY <1>1, <1>2, <1>3, <1>4, <1>5, <1>6

(******************************************************************************)
(* Each step takes a token, so that the loop ends before the bound that       *)
(* ParseStates gives it, and what is left is an end of the buffer.            *)
(******************************************************************************)
LEMMA LoopParses ==
  ASSUME NEW B \in Seq(Tokens)
  PROVE  \E q \in 0..Len(B) :
           IsParsed(B, ParseFields(Start(B)), q) /\ ParseFields(Start(B)).done = TRUE
<1> DEFINE n == Len(B)
           f == ParseStates(Start(B))
           Good(i) == \E k \in 0..n : /\ IsParsed(B, f[i], k)
                                      /\ f[i].done = TRUE \/ (k >= i /\ f[i].message = Nothing)
           Bad == {i \in 0..n + 1 : ~Good(i)}
<1>1. /\ n \in Nat /\ f[0] = Start(B) /\ f \in [0..n + 1 -> FieldStates]
      /\ \A i \in 1..n + 1 : f[i] = ParseNext(f[i - 1])
  BY StartFacts DEF IsLoop
<1> HIDE DEF n, f
<1>2. ASSUME Bad # {} PROVE FALSE
  <2>1. PICK i \in Bad : \A m \in Bad : i <= m
    <3>1. Bad \subseteq Nat
      BY <1>1
    <3> HIDE DEF Bad
    <3> QED
      BY <1>2, <3>1, LeastNat
  <2>2. i \in 0..n + 1 /\ ~Good(i)
    OBVIOUS
  <2>3. i # 0
    <3>1. IsParsed(B, f[0], 0) /\ f[0].message = Nothing /\ 0 \in 0..n
      BY <1>1, StartFacts
    <3>2. Good(0)
      BY <3>1
    <3> HIDE DEF Good
    <3> QED
      BY <2>2, <3>2
  <2>4. i - 1 \in 0..n + 1 /\ i \in 1..n + 1 /\ ~(i <= i - 1)
    BY <1>1, <2>2, <2>3
  <2>5. Good(i - 1)
    <3> HIDE DEF Good
    <3> QED
      BY <2>1, <2>4
  <2> DEFINE p == f[i - 1]
  <2>6. PICK k \in 0..n : IsParsed(B, p, k) /\ (p.done = TRUE \/ (k >= i - 1 /\ p.message = Nothing))
    BY <2>5
  <2>7. f[i] = ParseNext(p) /\ p \in FieldStates
    BY <1>1, <2>4
  <2> HIDE DEF p, Good
  <2>8. CASE p.done = TRUE
    <3>1. f[i] = p
      BY <2>7, <2>8 DEF ParseNext
    <3>2. Good(i)
      BY <2>6, <2>8, <3>1 DEF Good
    <3> QED
      BY <2>2, <3>2
  <2>9. CASE p.done # TRUE
    <3>1. p.done \in BOOLEAN
      BY <2>7 DEF FieldStates, ParserStates
    <3>2. f[i] = ParseField(p)
      BY <2>7, <2>9, <3>1 DEF ParseNext
    <3>3. Advanced(B, k, f[i])
      <4>1. p.message = Nothing /\ k \in 0..Len(B)
        BY <2>6, <2>9 DEF n
      <4> QED
        BY <2>6, <3>2, <4>1, FieldAdvances
    <3>4. PICK q \in k..n : IsParsed(B, f[i], q) /\ (f[i].done = TRUE \/ (q > k /\ f[i].message = Nothing))
      BY <3>3 DEF Advanced, n
    <3>5. q \in 0..n /\ (q > k /\ k >= i - 1 => q >= i)
      BY <1>1, <2>4
    <3>6. Good(i)
      BY <2>6, <2>9, <3>4, <3>5 DEF Good
    <3> QED
      BY <2>2, <3>6
  <2> QED
    BY <2>8, <2>9
<1>3. n + 1 \in 0..n + 1
  BY <1>1
<1>4. Good(n + 1)
  <2> HIDE DEF Good
  <2> QED
    BY <1>2, <1>3
<1>5. PICK k \in 0..n : /\ IsParsed(B, f[n + 1], k)
                        /\ f[n + 1].done = TRUE \/ (k >= n + 1 /\ f[n + 1].message = Nothing)
  BY <1>4
<1>6. ~(k >= n + 1)
  BY <1>1
<1>7. ParseFields(Start(B)) = f[n + 1]
  BY StartFacts DEF f, n
<1> QED
  BY <1>5, <1>6, <1>7 DEF n

--------------------------------------------------------------------------------
(******************************************************************************)
(* The length of the first line of a buffer.                                  *)
(******************************************************************************)
IsLine(B, length) ==
  /\ length \in 1..Len(B) /\ B[length].type = "eol"
  /\ \A i \in 1..length - 1 : B[i].type # "eol"

(******************************************************************************)
(* async_read_until finds the first line, if there is one in the buffer.      *)
(******************************************************************************)
LEMMA LineLengthFacts ==
  ASSUME incoming_message_buffer_ \in Seq(Tokens)
  PROVE  /\ LineLength \in Nat
         /\ LineLength > 0 => IsLine(incoming_message_buffer_, LineLength)
         /\ incoming_message_buffer_ = <<>> => LineLength = 0
<1> DEFINE B == incoming_message_buffer_
           I == {i \in 1..Len(B) : B[i].type = "eol"}
<1>1. LineLength = IF I # {} THEN Min(I) ELSE 0
  BY DEF LineLength, SelectInSeq
<1>2. Len(B) \in Nat
  OBVIOUS
<1>3. I \subseteq 1..Len(B) /\ \A i \in I : i \in Nat
  BY <1>2
<1>4. CASE I = {}
  <2>1. LineLength = 0
    BY <1>1, <1>4
  <2> QED
    BY <2>1
<1>5. CASE I # {}
  <2>1. PICK first \in I : \A i \in I : first <= i
    <3>1. I \subseteq Nat
      BY <1>3
    <3> HIDE DEF I
    <3> QED
      BY <1>5, <3>1, LeastNat
  <2>2. Min(I) = first
    <3> HIDE DEF I
    <3>1. \A x \in I : (\A y \in I : x <= y) => x = first
      BY <1>3, <2>1
    <3> QED
      BY <2>1, <3>1 DEF Min
  <2>3. LineLength = first
    <3> HIDE DEF I
    <3> QED
      BY <1>1, <1>5, <2>2
  <2>4. first \in 1..Len(B) /\ B[first].type = "eol"
    OBVIOUS
  <2>5. ASSUME NEW i \in 1..first - 1 PROVE B[i].type # "eol"
    <3>1. i \in 1..Len(B) /\ ~(first <= i)
      BY <1>2, <2>4
    <3> QED
      BY <2>1, <3>1
  <2>6. IsLine(B, first)
    BY <2>4, <2>5 DEF IsLine
  <2>7. B # <<>>
    BY <2>4
  <2> QED
    BY <2>3, <2>4, <2>6, <2>7
<1> QED
  BY <1>4, <1>5

(******************************************************************************)
(* What the handler leaves of the buffer: what the parser left, without the   *)
(* rest of the line.                                                          *)
(******************************************************************************)
LEMMA HandlerTakes ==
  ASSUME NEW B \in Seq(Tokens), B = incoming_message_buffer_, NEW length \in 1..Len(B),
         NEW q \in 0..Len(B), ParseMessage(B).rest = Drop(B, q)
  PROVE  /\ ParseIncomingMessage(length).message = ParseMessage(B).message
         /\ ParseIncomingMessage(length).rest = Drop(B, Larger(q, length))
         /\ Larger(q, length) \in length..Len(B) /\ Larger(q, length) \in 1..Len(B)
         /\ Larger(q, length) >= q /\ BytesConsumed(B, ParseMessage(B).rest) = q
<1> DEFINE n == Len(B)
           parsed == ParseMessage(B)
           rest == Drop(B, q)
           r == ParseIncomingMessage(length)
<1>1. n \in Nat /\ q \in Nat /\ q <= n /\ length \in Nat
  OBVIOUS
<1>2. rest \in Seq(Tokens) /\ Len(rest) = n - q
  BY <1>1, DropFacts
<1>3. r = [message |-> parsed.message,
           rest |-> Ignore(parsed.rest, length - BytesConsumed(B, parsed.rest))]
  BY DEF ParseIncomingMessage
<1> HIDE DEF r, rest, parsed, n
<1>4. BytesConsumed(B, rest) = q
  BY <1>1, <1>2 DEF BytesConsumed, n
<1>5. r.message = parsed.message /\ r.rest = Ignore(rest, length - q)
  BY <1>3, <1>4 DEF parsed, rest
<1>6. Larger(q, length) \in length..n /\ Larger(q, length) \in 1..n /\ Larger(q, length) >= q
  BY <1>1 DEF Larger, n
<1>7. CASE q < length
  <2> DEFINE d == length - q
  <2>1. d \in Nat /\ q + d <= n /\ q + d = length
    BY <1>1, <1>7 DEF n
  <2>2. r.rest = Drop(rest, d)
    BY <1>5, <2>1 DEF Ignore, Drop
  <2> HIDE DEF d
  <2>3. Drop(rest, d) = Drop(B, length)
    <3>1. q + d <= Len(B)
      BY <2>1 DEF n
    <3>2. Drop(Drop(B, q), d) = Drop(B, q + d)
      BY <1>1, <2>1, <3>1, DropDrop
    <3> QED
      BY <2>1, <3>2 DEF rest
  <2> QED
    BY <1>4, <1>5, <1>6, <1>7, <2>2, <2>3 DEF Larger, n, r, rest, parsed
<1>8. CASE ~(q < length)
  <2>1. r.rest = rest
    <3>1. CASE length - q >= 0
      <4>1. length - q = 0
        BY <1>1, <1>8, <3>1
      <4>2. r.rest = Drop(rest, 0)
        BY <1>5, <4>1 DEF Ignore, Drop
      <4> QED
        BY <1>2, <4>2, DropAll
    <3>2. CASE ~(length - q >= 0)
      BY <1>5, <3>2 DEF Ignore
    <3> QED
      BY <3>1, <3>2
  <2> QED
    BY <1>4, <1>5, <1>6, <1>8, <2>1 DEF Larger, n, r, rest, parsed
<1> QED
  BY <1>7, <1>8

(******************************************************************************)
(* The parser leaves the end of the buffer behind, and returns a text of what *)
(* it went over, or nothing (transport.cpp:250-312).                          *)
(******************************************************************************)
LEMMA ParsedFacts ==
  ASSUME NEW B \in Seq(Tokens)
  PROVE  \E q \in 0..Len(B) : ParseMessage(B).rest = Drop(B, q) /\ TookText(B, q, ParseMessage(B).message)
<1>1. CASE StartsWith(B, "open")
  <2>1. 0 \in Nat /\ 0 <= Len(B) /\ Drop(B, 0) = B
    BY DropAll
  <2>2. PICK q \in 0..Len(B), message \in Int :
               /\ ParseStream(Drop(B, 0)) = [message |-> message, rest |-> Drop(B, q)]
               /\ TookText(B, q, message)
    BY <2>1, StreamParsed
  <2>3. ParseMessage(B) = [message |-> message, rest |-> Drop(B, q)]
    BY <1>1, <2>1, <2>2 DEF ParseMessage
  <2> QED
    BY <2>2, <2>3
<1>2. CASE ~StartsWith(B, "open")
  <2>1. ParseMessage(B) = ParseFields(Start(B))
    BY <1>2 DEF ParseMessage
  <2> QED
    BY <2>1, LoopParses DEF IsParsed
<1> QED
  BY <1>1, <1>2

(******************************************************************************)
(* Whatever is in the buffer, the handler takes the whole line, and the text  *)
(* of the message it delivers, if any.                                        *)
(******************************************************************************)
LEMMA HandlerFacts ==
  ASSUME incoming_message_buffer_ \in Seq(Tokens), LineLength > 0
  PROVE  \E c \in LineLength..Len(incoming_message_buffer_) :
           /\ c \in 1..Len(incoming_message_buffer_)
           /\ ParseIncomingMessage(LineLength).rest = Drop(incoming_message_buffer_, c)
           /\ TookText(incoming_message_buffer_, c, ParseIncomingMessage(LineLength).message)
           /\ Touched(incoming_message_buffer_, LineLength) =
                {incoming_message_buffer_[i].message : i \in 1..c} \
                  {Head(incoming_message_buffer_).message}
<1> DEFINE B == incoming_message_buffer_
           length == LineLength
           r == ParseIncomingMessage(length)
<1>1. length \in 1..Len(B) /\ Len(B) \in Nat
  BY LineLengthFacts DEF IsLine
<1>2. PICK q \in 0..Len(B) : ParseMessage(B).rest = Drop(B, q) /\ TookText(B, q, ParseMessage(B).message)
  BY ParsedFacts
<1> DEFINE c == Larger(q, length)
<1> HIDE DEF length, B
<1>3. /\ r.message = ParseMessage(B).message /\ r.rest = Drop(B, c)
      /\ c \in length..Len(B) /\ c \in 1..Len(B) /\ c >= q
      /\ BytesConsumed(B, ParseMessage(B).rest) = q
  BY <1>1, <1>2, HandlerTakes DEF B
<1>4. Touched(B, length) = {B[i].message : i \in 1..c} \ {Head(B).message}
  BY <1>3 DEF Touched
<1> HIDE DEF c, r
<1>5. TookText(B, c, r.message)
  <2>1. \A i \in 1..q : i \in 1..c
    BY <1>1, <1>2, <1>3
  <2> QED
    BY <1>2, <1>3, <2>1 DEF TookText
<1> QED
  BY <1>3, <1>5, <1>4 DEF B, length, r

--------------------------------------------------------------------------------
(******************************************************************************)
(* What the device sends: the tokens of a message.                            *)
(******************************************************************************)
LEMMA TokenFacts ==
  ASSUME NEW m \in Nat, NEW type \in TokenTypes, NEW value \in TokenValues,
         type = "count" => value \in Nat
  PROVE  /\ Token(m, type, value) \in Tokens /\ Token(m, type, value).message = m
         /\ Token(m, type, value).type = type /\ Token(m, type, value).value = value
  BY DEF Token, Tokens

(******************************************************************************)
(* The tokens of a payload, of a bare object and of a frame                   *)
(* (transport.cpp:226-246).                                                   *)
(******************************************************************************)
LEMMA PayloadFacts ==
  ASSUME NEW m \in Nat
  PROVE  /\ Payload(m) \in Seq(Tokens) /\ Len(Payload(m)) = 3
         /\ Payload(m)[1] = Token(m, "open", m) /\ Payload(m)[2] = Token(m, "text", m)
         /\ Payload(m)[3] = Token(m, "close", m)
<1> DEFINE a == Token(m, "open", m)
           b == Token(m, "text", m)
           c == Token(m, "close", m)
<1>1. a \in Tokens /\ b \in Tokens /\ c \in Tokens
  BY TokenFacts DEF TokenTypes, TokenValues
<1>2. Payload(m) = <<a, b, c>>
  BY DEF Payload
<1> HIDE DEF a, b, c
<1>3. /\ <<a, b, c>> \in Seq(Tokens) /\ Len(<<a, b, c>>) = 3
      /\ <<a, b, c>>[1] = a /\ <<a, b, c>>[2] = b /\ <<a, b, c>>[3] = c
  BY <1>1
<1> QED
  BY <1>2, <1>3 DEF a, b, c

(******************************************************************************)
(* The bare object m.                                                         *)
(******************************************************************************)
IsBare(s, m) ==
  /\ s \in Seq(Tokens) /\ Len(s) = 4
  /\ s[1] = Token(m, "open", m) /\ s[2] = Token(m, "text", m)
  /\ s[3] = Token(m, "close", m) /\ s[4] = Token(m, "eol", 0)

(******************************************************************************)
(* That is what Bare stands for.                                              *)
(******************************************************************************)
LEMMA BareFacts ==
  ASSUME NEW m \in Nat
  PROVE  IsBare(Bare(m), m)
<1> DEFINE P == Payload(m)
           e == Token(m, "eol", 0)
<1>1. /\ P \in Seq(Tokens) /\ Len(P) = 3 /\ P[1] = Token(m, "open", m)
      /\ P[2] = Token(m, "text", m) /\ P[3] = Token(m, "close", m)
  BY PayloadFacts
<1>2. e \in Tokens
  BY TokenFacts DEF TokenTypes, TokenValues
<1> HIDE DEF P, e
<1>3. /\ Append(P, e) \in Seq(Tokens) /\ Len(Append(P, e)) = Len(P) + 1
      /\ \A i \in 1..Len(P) : Append(P, e)[i] = P[i]
      /\ Append(P, e)[Len(P) + 1] = e
  <2>1. P \in Seq(Tokens)
    BY <1>1
  <2> QED
    BY <1>2, <2>1, AppendProperties
<1>4. Bare(m) = Append(P, e)
  BY DEF Bare, P, e
<1> QED
  BY <1>1, <1>3, <1>4 DEF IsBare, e

(******************************************************************************)
(* The frame of message m.                                                    *)
(******************************************************************************)
IsFrame(s, m) ==
  /\ s \in Seq(Tokens) /\ Len(s) = 11
  /\ s[1] = Token(m, "count", 1) /\ s[2] = Token(m, "checksum", Values(Payload(m)))
  /\ s[3] = Token(m, "comma", 0) /\ s[4] = Token(m, "count", 0)
  /\ s[5] = Token(m, "comma", 0) /\ s[6] = Token(m, "count", 3)
  /\ s[7] = Token(m, "open", m) /\ s[8] = Token(m, "text", m)
  /\ s[9] = Token(m, "close", m) /\ s[10] = Token(m, "comma", 0)
  /\ s[11] = Token(m, "eol", 0)

(******************************************************************************)
(* That is what EncapsulateOutgoingMessage returns.                           *)
(******************************************************************************)
LEMMA FrameFacts ==
  ASSUME NEW m \in Nat
  PROVE  IsFrame(EncapsulateOutgoingMessage(m), m)
<1> DEFINE P == Payload(m)
           a == Token(m, "count", 1)
           b == Token(m, "checksum", Values(Payload(m)))
           c == Token(m, "comma", 0)
           d == Token(m, "count", 0)
           f == Token(m, "count", Len(Payload(m)))
           e == Token(m, "eol", 0)
           H == <<a, b, c, d, c, f>>
           T == <<c, e>>
<1>1. /\ P \in Seq(Tokens) /\ Len(P) = 3 /\ P[1] = Token(m, "open", m)
      /\ P[2] = Token(m, "text", m) /\ P[3] = Token(m, "close", m)
  BY PayloadFacts
<1>2. a \in Tokens /\ c \in Tokens /\ d \in Tokens /\ e \in Tokens
  BY TokenFacts DEF TokenTypes, TokenValues
<1>3. f = Token(m, "count", 3) /\ f \in Tokens
  <2>1. f = Token(m, "count", 3)
    BY <1>1
  <2> HIDE DEF f
  <2> QED
    BY <2>1, TokenFacts DEF TokenTypes, TokenValues
<1>4. b \in Tokens
  <2> DEFINE v == Values(Payload(m))
  <2>1. v \in TokenValues
    BY DEF TokenValues
  <2> HIDE DEF v
  <2>2. Token(m, "checksum", v) \in Tokens
    BY <2>1, TokenFacts DEF TokenTypes
  <2> QED
    BY <2>2 DEF v
<1>5. EncapsulateOutgoingMessage(m) = (H \o P) \o T
  BY DEF EncapsulateOutgoingMessage
<1> HIDE DEF P, a, b, c, d, e, f
<1>6. /\ H \in Seq(Tokens) /\ Len(H) = 6
      /\ H[1] = a /\ H[2] = b /\ H[3] = c /\ H[4] = d /\ H[5] = c /\ H[6] = f
  BY <1>2, <1>3, <1>4
<1>7. T \in Seq(Tokens) /\ Len(T) = 2 /\ T[1] = c /\ T[2] = e
  BY <1>2
<1> HIDE DEF H, T
<1> DEFINE HP == H \o P
           s == HP \o T
<1>8. /\ HP \in Seq(Tokens) /\ Len(HP) = Len(H) + Len(P)
      /\ \A i \in 1..Len(H) + Len(P) : HP[i] = IF i <= Len(H) THEN H[i] ELSE P[i - Len(H)]
  BY <1>1, <1>6, ConcatProperties
<1> HIDE DEF HP
<1>9. /\ s \in Seq(Tokens) /\ Len(s) = Len(HP) + Len(T)
      /\ \A i \in 1..Len(HP) + Len(T) : s[i] = IF i <= Len(HP) THEN HP[i] ELSE T[i - Len(HP)]
  <2>1. HP \in Seq(Tokens) /\ T \in Seq(Tokens)
    BY <1>7, <1>8
  <2> QED
    BY <2>1, ConcatProperties
<1> HIDE DEF s
<1>10. Len(HP) = 9 /\ Len(s) = 11
  BY <1>1, <1>6, <1>7, <1>8, <1>9
<1>11. \A i \in 1..9 : HP[i] = IF i <= 6 THEN H[i] ELSE P[i - 6]
  BY <1>1, <1>6, <1>8
<1>12. \A i \in 1..11 : s[i] = IF i <= 9 THEN HP[i] ELSE T[i - 9]
  BY <1>7, <1>9, <1>10
<1>13. /\ s[1] = a /\ s[2] = b /\ s[3] = c /\ s[4] = d /\ s[5] = c /\ s[6] = f
       /\ s[7] = P[1] /\ s[8] = P[2] /\ s[9] = P[3] /\ s[10] = c /\ s[11] = e
  <2>1. /\ HP[1] = a /\ HP[2] = b /\ HP[3] = c /\ HP[4] = d /\ HP[5] = c /\ HP[6] = f
        /\ HP[7] = P[1] /\ HP[8] = P[2] /\ HP[9] = P[3]
    BY <1>6, <1>11
  <2> QED
    BY <1>7, <1>12, <2>1
<1>14. s \in Seq(Tokens)
  BY <1>9
<1>15. IsFrame(s, m)
  BY <1>1, <1>3, <1>10, <1>13, <1>14 DEF IsFrame, a, b, c, d, e
<1> QED
  BY <1>5, <1>15 DEF s, HP

--------------------------------------------------------------------------------
(******************************************************************************)
(* What damage does to a sequence of tokens.                                  *)
(******************************************************************************)
Removed(t, p, s) ==
  /\ s \in Seq(Tokens) /\ Len(s) = Len(t) - 1
  /\ \A i \in 1..p - 1 : s[i] = t[i]
  /\ \A i \in p..Len(t) - 1 : s[i] = t[i + 1]

(******************************************************************************)
(* One token was replaced.                                                    *)
(******************************************************************************)
Replaced(t, p, e, s) ==
  /\ s \in Seq(Tokens) /\ Len(s) = Len(t) /\ s[p] = e
  /\ \A i \in 1..Len(t) : i # p => s[i] = t[i]

(******************************************************************************)
(* A token that takes the place of another: it is of the same message, and    *)
(* garbled, another count, or another text of a frame.                        *)
(******************************************************************************)
Substitute(t, p, e) ==
  /\ e.message = t[p].message
  /\ \/ e.type = "junk"
     \/ t[p].type = "count" /\ e.type = "count"
     \/ t[p].type = "text" /\ e.type = "text" /\ e.value = 0 /\ t[1].type = "count"

(******************************************************************************)
(* A token was lost or replaced.                                              *)
(******************************************************************************)
Change(t, p, s) ==
  \/ Removed(t, p, s)
  \/ \E e \in Tokens : Substitute(t, p, e) /\ Replaced(t, p, e, s)

(******************************************************************************)
(* Losing a token is that.                                                    *)
(******************************************************************************)
LEMMA TokenRemoved ==
  ASSUME NEW t \in Seq(Tokens), NEW p \in 1..Len(t)
  PROVE  Removed(t, p, RemoveAt(t, p))
<1> DEFINE n == Len(t)
           a == SubSeq(t, 1, p - 1)
           b == SubSeq(t, p + 1, n)
           s == RemoveAt(t, p)
<1>1. n \in Nat /\ p \in Nat /\ p <= n /\ p - 1 \in Nat /\ n - p \in Nat
  OBVIOUS
<1>2. a \in Seq(Tokens) /\ Len(a) = p - 1 /\ \A i \in 1..p - 1 : a[i] = t[i]
  <2> DEFINE k == p - 1
  <2>1. k \in Nat /\ 0 + k <= n /\ a = SubSeq(t, 0 + 1, 0 + k)
    BY <1>1
  <2> HIDE DEF a, k
  <2>2. IsPiece(a, Tokens, t, 0, k)
    BY <2>1, Slice
  <2>3. a \in Seq(Tokens) /\ Len(a) = k /\ \A i \in 1..k : a[i] = t[0 + i]
    BY <2>2 DEF IsPiece
  <2> QED
    BY <1>1, <2>3 DEF k
<1>3. b \in Seq(Tokens) /\ Len(b) = n - p /\ \A i \in 1..n - p : b[i] = t[p + i]
  <2>1. b = Drop(t, p)
    BY DEF Drop, From
  <2> HIDE DEF b
  <2> QED
    BY <1>1, <2>1, DropFacts
<1>4. s = a \o b
  BY DEF RemoveAt
<1> HIDE DEF a, b, s, n
<1>5. /\ s \in Seq(Tokens) /\ Len(s) = Len(a) + Len(b)
      /\ \A i \in 1..Len(a) + Len(b) : s[i] = IF i <= Len(a) THEN a[i] ELSE b[i - Len(a)]
  <2>1. a \in Seq(Tokens) /\ b \in Seq(Tokens)
    BY <1>2, <1>3
  <2> QED
    BY <1>4, <2>1, ConcatProperties
<1>6. Len(s) = n - 1
  BY <1>1, <1>2, <1>3, <1>5
<1>7. ASSUME NEW i \in 1..p - 1 PROVE s[i] = t[i]
  <2>1. i \in 1..Len(a) + Len(b) /\ i <= Len(a)
    BY <1>1, <1>2, <1>3
  <2> QED
    BY <1>2, <1>5, <2>1
<1>8. ASSUME NEW i \in p..n - 1 PROVE s[i] = t[i + 1]
  <2> DEFINE j == i - (p - 1)
  <2>1. i \in 1..Len(a) + Len(b) /\ ~(i <= Len(a)) /\ j \in 1..n - p /\ p + j = i + 1 /\ j = i - Len(a)
    BY <1>1, <1>2, <1>3
  <2> HIDE DEF j
  <2>2. s[i] = b[j]
    BY <1>5, <2>1
  <2>3. b[j] = t[p + j]
    BY <1>3, <2>1
  <2> QED
    BY <2>1, <2>2, <2>3
<1> QED
  BY <1>5, <1>6, <1>7, <1>8 DEF Removed, s, n

(******************************************************************************)
(* So is replacing one.                                                       *)
(******************************************************************************)
LEMMA TokenReplaced ==
  ASSUME NEW t \in Seq(Tokens), NEW p \in 1..Len(t), NEW e \in Tokens
  PROVE  Replaced(t, p, e, ReplaceAt(t, p, e))
<1> DEFINE s == ReplaceAt(t, p, e)
<1>1. s = [t EXCEPT ![p] = e]
  BY DEF ReplaceAt
<1> HIDE DEF s
<1>2. /\ s \in Seq(Tokens) /\ Len(s) = Len(t)
      /\ \A j \in 1..Len(t) : s[j] = IF j = p THEN e ELSE t[j]
  BY <1>1, ExceptSeq
<1> QED
  BY <1>2 DEF Replaced, s

(******************************************************************************)
(* All the damage that the model does is of these kinds.                      *)
(******************************************************************************)
LEMMA DamagedFacts ==
  ASSUME NEW t \in Seq(Tokens), NEW p \in 1..Len(t), NEW s \in Damaged(t, p)
  PROVE  Change(t, p, s)
<1> DEFINE tp == t[p]
<1>1. tp \in Tokens
  BY ElementOfSeq
<1>2. CASE s = RemoveAt(t, p)
  BY <1>2, TokenRemoved DEF Change
<1>3. CASE s = ReplaceAt(t, p, [tp EXCEPT !.type = "junk"])
  <2> DEFINE e == [tp EXCEPT !.type = "junk"]
  <2>1. e \in Tokens /\ e.message = tp.message /\ e.type = "junk"
    <3> HIDE DEF tp
    <3> QED
      BY <1>1 DEF Tokens, TokenTypes
  <2>2. Substitute(t, p, e)
    <3> HIDE DEF e
    <3> QED
      BY <2>1 DEF Substitute
  <2> HIDE DEF e
  <2>3. Replaced(t, p, e, s)
    BY <1>3, <2>1, TokenReplaced DEF e
  <2> QED
    BY <2>1, <2>2, <2>3 DEF Change
<1>4. ASSUME tp.type = "count", NEW n \in (0..MESSAGE_LENGTH_MAX + 1) \ {tp.value},
             s = ReplaceAt(t, p, [tp EXCEPT !.value = n])
      PROVE  Change(t, p, s)
  <2> DEFINE e == [tp EXCEPT !.value = n]
  <2>1. n \in Nat
    BY FramingAssumption
  <2>2. e \in Tokens /\ e.message = tp.message /\ e.type = "count"
    <3> HIDE DEF tp
    <3> QED
      BY <1>1, <1>4, <2>1 DEF Tokens, TokenTypes, TokenValues
  <2>3. Substitute(t, p, e)
    <3> HIDE DEF e
    <3> QED
      BY <1>4, <2>2 DEF Substitute
  <2> HIDE DEF e
  <2>4. Replaced(t, p, e, s)
    BY <1>4, <2>2, TokenReplaced DEF e
  <2> QED
    BY <2>2, <2>3, <2>4 DEF Change
<1>5. ASSUME tp.type = "text", Head(t).type = "count", s = ReplaceAt(t, p, [tp EXCEPT !.value = 0])
      PROVE  Change(t, p, s)
  <2> DEFINE e == [tp EXCEPT !.value = 0]
  <2>1. e \in Tokens /\ e.message = tp.message /\ e.type = "text" /\ e.value = 0
    <3> HIDE DEF tp
    <3> QED
      BY <1>1, <1>5 DEF Tokens, TokenTypes, TokenValues
  <2>2. Head(t) = t[1]
    <3>1. t # <<>>
      OBVIOUS
    <3> QED
      BY <3>1
  <2>3. Substitute(t, p, e)
    <3> HIDE DEF e
    <3> QED
      BY <1>5, <2>1, <2>2 DEF Substitute
  <2> HIDE DEF e
  <2>4. Replaced(t, p, e, s)
    BY <1>5, <2>1, TokenReplaced DEF e
  <2> QED
    BY <2>1, <2>3, <2>4 DEF Change
<1> QED
  BY <1>2, <1>3, <1>4, <1>5 DEF Damaged

(******************************************************************************)
(* A message as it is sent, with what was damaged in it.                      *)
(******************************************************************************)
Template(m, t) == IsFrame(t, m) \/ IsBare(t, m)

(******************************************************************************)
(* Message m as it is sent, with what was damaged in it, if anything.         *)
(******************************************************************************)
IsForm(m, s, d) ==
  \E t : /\ Template(m, t)
         /\ \/ d = "none" /\ s = t
            \/ \E p \in 1..Len(t) : Change(t, p, s) /\ d = t[p].type

(******************************************************************************)
(* What all of them have in common.                                           *)
(******************************************************************************)
FormOf(s, m, d) ==
  /\ s \in Seq(Tokens) /\ Len(s) >= 3
  /\ \A i \in 1..Len(s) : s[i].message = m
  /\ \A i \in 1..Len(s) - 1 : s[i].type # "eol"
  /\ d # "eol" => s[Len(s)].type = "eol"
  /\ \A i, j \in 1..Len(s) : s[i].type = "text" /\ s[j].type = "text" => i = j
  /\ s[1].type \notin {"eol", "close"}

(******************************************************************************)
(* What a frame and a bare object have in common: one message, one text at    *)
(* most, the delimiter last and nowhere else, and neither it nor a closing    *)
(* brace among the first two.                                                 *)
(******************************************************************************)
TemplateOf(t, m, x) ==
  /\ t \in Seq(Tokens) /\ Len(t) >= 4
  /\ \A i \in 1..Len(t) : t[i].message = m
  /\ \A i \in 1..Len(t) - 1 : t[i].type # "eol"
  /\ t[Len(t)].type = "eol"
  /\ \A i \in 1..Len(t) : t[i].type = "text" => i = x
  /\ t[1].type \notin {"eol", "close"} /\ t[2].type \notin {"eol", "close"}

(******************************************************************************)
(* Both are like that.                                                        *)
(******************************************************************************)
LEMMA TemplateFacts ==
  ASSUME NEW m \in Nat, NEW t, Template(m, t)
  PROVE  \E x : TemplateOf(t, m, x)
<1>1. CASE IsFrame(t, m)
  <2>1. /\ t \in Seq(Tokens) /\ Len(t) = 11
        /\ t[1] = Token(m, "count", 1) /\ t[2] = Token(m, "checksum", Values(Payload(m)))
        /\ t[3] = Token(m, "comma", 0) /\ t[4] = Token(m, "count", 0)
        /\ t[5] = Token(m, "comma", 0) /\ t[6] = Token(m, "count", 3)
        /\ t[7] = Token(m, "open", m) /\ t[8] = Token(m, "text", m)
        /\ t[9] = Token(m, "close", m) /\ t[10] = Token(m, "comma", 0)
        /\ t[11] = Token(m, "eol", 0)
    BY <1>1 DEF IsFrame
  <2>2. /\ t[1].type = "count" /\ t[2].type = "checksum" /\ t[3].type = "comma"
        /\ t[4].type = "count" /\ t[5].type = "comma" /\ t[6].type = "count"
        /\ t[7].type = "open" /\ t[8].type = "text" /\ t[9].type = "close"
        /\ t[10].type = "comma" /\ t[11].type = "eol"
    BY <2>1 DEF Token
  <2>3. /\ t[1].message = m /\ t[2].message = m /\ t[3].message = m /\ t[4].message = m
        /\ t[5].message = m /\ t[6].message = m /\ t[7].message = m /\ t[8].message = m
        /\ t[9].message = m /\ t[10].message = m /\ t[11].message = m
    BY <2>1 DEF Token
  <2>4. \A i \in 1..11 : i \in {1, 2, 3, 4, 5, 6, 7, 8, 9, 10, 11}
    OBVIOUS
  <2>5. t \in Seq(Tokens) /\ Len(t) = 11
    BY <2>1
  <2>6. \A i \in 1..11 : t[i].message = m
    BY <2>3, <2>4
  <2>7. \A i \in 1..11 : (t[i].type = "text" => i = 8) /\ (i # 11 => t[i].type # "eol")
    BY <2>2, <2>4
  <2>8. TemplateOf(t, m, 8)
    BY <2>2, <2>5, <2>6, <2>7 DEF TemplateOf
  <2> QED
    BY <2>8
<1>2. CASE IsBare(t, m)
  <2>1. /\ t \in Seq(Tokens) /\ Len(t) = 4
        /\ t[1] = Token(m, "open", m) /\ t[2] = Token(m, "text", m)
        /\ t[3] = Token(m, "close", m) /\ t[4] = Token(m, "eol", 0)
    BY <1>2 DEF IsBare
  <2>2. /\ t[1].type = "open" /\ t[2].type = "text" /\ t[3].type = "close" /\ t[4].type = "eol"
        /\ t[1].message = m /\ t[2].message = m /\ t[3].message = m /\ t[4].message = m
    BY <2>1 DEF Token
  <2>3. \A i \in 1..4 : i \in {1, 2, 3, 4}
    OBVIOUS
  <2>4. t \in Seq(Tokens) /\ Len(t) = 4
    BY <2>1
  <2>5. \A i \in 1..4 : /\ t[i].message = m /\ (t[i].type = "text" => i = 2)
                        /\ (i # 4 => t[i].type # "eol")
    BY <2>2, <2>3
  <2>6. TemplateOf(t, m, 2)
    BY <2>2, <2>4, <2>5 DEF TemplateOf
  <2> QED
    BY <2>6
<1> QED
  BY <1>1, <1>2 DEF Template

(******************************************************************************)
(* A message is sent in such a form, damaged or not.                          *)
(******************************************************************************)
LEMMA FormFacts ==
  ASSUME NEW m \in Nat, NEW s, NEW d, IsForm(m, s, d)
  PROVE  FormOf(s, m, d)
<1>1. PICK t : /\ Template(m, t)
               /\ \/ d = "none" /\ s = t
                  \/ \E p \in 1..Len(t) : Change(t, p, s) /\ d = t[p].type
  BY DEF IsForm
<1>2. PICK x : TemplateOf(t, m, x)
  BY <1>1, TemplateFacts
<1> DEFINE n == Len(t)
<1>3. /\ t \in Seq(Tokens) /\ n >= 4 /\ n \in Nat
      /\ \A i \in 1..n : t[i].message = m
      /\ \A i \in 1..n - 1 : t[i].type # "eol"
      /\ t[n].type = "eol"
      /\ \A i \in 1..n : t[i].type = "text" => i = x
      /\ t[1].type \notin {"eol", "close"} /\ t[2].type \notin {"eol", "close"}
  BY <1>2 DEF TemplateOf
<1>4. CASE s = t
  BY <1>3, <1>4 DEF FormOf
<1>5. ASSUME NEW p \in 1..n, Removed(t, p, s), d = t[p].type PROVE FormOf(s, m, d)
  <2>1. /\ s \in Seq(Tokens) /\ Len(s) = n - 1
        /\ \A i \in 1..p - 1 : s[i] = t[i]
        /\ \A i \in p..n - 1 : s[i] = t[i + 1]
    BY <1>5 DEF Removed
  <2> HIDE DEF n
  <2> DEFINE at(i) == IF i < p THEN i ELSE i + 1
  <2>2. ASSUME NEW i \in 1..n - 1
        PROVE  s[i] = t[at(i)] /\ at(i) \in 1..n /\ (i < n - 1 => at(i) \in 1..n - 1)
    <3>1. CASE i < p
      BY <1>3, <2>1, <3>1
    <3>2. CASE ~(i < p)
      BY <1>3, <2>1, <3>2
    <3> QED
      BY <3>1, <3>2
  <2>3. \A i, j \in 1..n - 1 : at(i) = at(j) => i = j
    BY <1>3
  <2>4. n - 1 >= 3 /\ 1 \in 1..n - 1 /\ n - 1 \in 1..n - 1
    BY <1>3
  <2>5. d # "eol" => at(n - 1) = n
    BY <1>3, <1>5
  <2>6. at(1) \in {1, 2}
    BY <1>3
  <2> HIDE DEF at
  <2>7. \A i \in 1..n - 1 : s[i].message = m
    BY <1>3, <2>2
  <2>8. \A i \in 1..n - 1 : i < n - 1 => s[i].type # "eol"
    BY <1>3, <2>2
  <2>9. d # "eol" => s[n - 1].type = "eol"
    BY <1>3, <2>2, <2>4, <2>5
  <2>10. \A i, j \in 1..n - 1 : s[i].type = "text" /\ s[j].type = "text" => i = j
    <3> SUFFICES ASSUME NEW i \in 1..n - 1, NEW j \in 1..n - 1, s[i].type = "text", s[j].type = "text"
                 PROVE  i = j
      OBVIOUS
    <3>1. at(i) = x /\ at(j) = x
      BY <1>3, <2>2
    <3> QED
      BY <2>3, <3>1
  <2>11. s[1].type \notin {"eol", "close"}
    BY <1>3, <2>2, <2>4, <2>6
  <2>12. \A i \in 1..(n - 1) - 1 : i \in 1..n - 1 /\ i < n - 1
    BY <1>3
  <2> QED
    BY <2>1, <2>4, <2>7, <2>8, <2>9, <2>10, <2>11, <2>12 DEF FormOf
<1>6. ASSUME NEW p \in 1..n, NEW e \in Tokens, Substitute(t, p, e), Replaced(t, p, e, s), d = t[p].type
      PROVE  FormOf(s, m, d)
  <2>1. /\ s \in Seq(Tokens) /\ Len(s) = n /\ s[p] = e
        /\ \A i \in 1..n : i # p => s[i] = t[i]
    BY <1>6 DEF Replaced
  <2>2. /\ e.message = m /\ e.type \notin {"eol", "close"}
        /\ e.type = "text" => t[p].type = "text"
    BY <1>3, <1>6 DEF Substitute
  <2> HIDE DEF n
  <2>3. 1 \in 1..n /\ n \in 1..n /\ \A i \in 1..n - 1 : i \in 1..n
    BY <1>3
  <2>4. \A i \in 1..n : s[i].message = m
    BY <1>3, <2>1, <2>2
  <2>5. \A i \in 1..n - 1 : s[i].type # "eol"
    BY <1>3, <2>1, <2>2, <2>3
  <2>6. d # "eol" => s[n].type = "eol"
    BY <1>3, <1>6, <2>1, <2>3
  <2>7. \A i \in 1..n : s[i].type = "text" => i = x
    BY <1>3, <2>1, <2>2
  <2>8. s[1].type \notin {"eol", "close"}
    BY <1>3, <2>1, <2>2, <2>3
  <2>9. n >= 3
    BY <1>3
  <2> QED
    BY <2>1, <2>4, <2>5, <2>6, <2>7, <2>8, <2>9 DEF FormOf
<1> QED
  BY <1>1, <1>4, <1>5, <1>6 DEF Change

--------------------------------------------------------------------------------
(******************************************************************************)
(* What the parser does with a line whose counts are right.  The loop at a    *)
(* field, before and after the end of the headers, and at its end.            *)
(******************************************************************************)
InHeaders(B, p, k, checksum) ==
  /\ p \in ParserStates /\ p.rest = Drop(B, k) /\ p.expected_checksum = checksum
  /\ p.end_of_headers = FALSE /\ p.message = Nothing /\ p.done = FALSE

(******************************************************************************)
(* The loop is behind the headers, with the checksum it read.                 *)
(******************************************************************************)
PastHeaders(B, p, k, checksum) ==
  /\ p \in ParserStates /\ p.rest = Drop(B, k) /\ p.expected_checksum = checksum
  /\ p.end_of_headers = TRUE /\ p.message = Nothing /\ p.done = FALSE

(******************************************************************************)
(* The loop has ended with a message, or with Nothing, and with the buffer    *)
(* from q on.                                                                 *)
(******************************************************************************)
EndedAt(B, p, q, message) == p.rest = Drop(B, q) /\ p.message = message /\ p.done = TRUE

(******************************************************************************)
(* At k there is a count that the parser accepts.                             *)
(******************************************************************************)
CountAt(B, k, v) ==
  k < Len(B) /\ B[k + 1].type = "count" /\ B[k + 1].value = v /\ v <= MESSAGE_LENGTH_MAX

(******************************************************************************)
(* The loop goes on to the field of that length (transport.cpp:266-274).      *)
(******************************************************************************)
LEMMA CountField ==
  ASSUME NEW B \in Seq(Tokens), NEW k \in Nat, NEW v \in Nat, CountAt(B, k, v),
         NEW p, p.rest = Drop(B, k)
  PROVE  /\ k + 1 \in Nat /\ k + 1 <= Len(B)
         /\ ParseField(p) = IF p.end_of_headers THEN ParsePayload(p, v, Drop(B, k + 1))
                                                ELSE ParseHeader(p, v, Drop(B, k + 1))
<1> DEFINE tokens == SkipSpace(p.rest)
<1>1. k < Len(B) /\ B[k + 1].type = "count" /\ B[k + 1].value = v /\ v <= MESSAGE_LENGTH_MAX
  BY DEF CountAt
<1>2. tokens = Drop(B, k)
  BY <1>1, SkipNone
<1>3. k <= Len(B) /\ k + 1 <= Len(B)
  BY <1>1
<1>4. StartsWith(tokens, "count")
  BY <1>1, <1>2, <1>3, StartsAt
<1>5. Head(tokens) = B[k + 1] /\ Tail(tokens) = Drop(B, k + 1)
  BY <1>1, <1>2, DropHead
<1>6. ~(v > MESSAGE_LENGTH_MAX)
  BY <1>1, FramingAssumption
<1>7. ParseField(p) = IF ~StartsWith(tokens, "count") THEN Throw(p, tokens)
          ELSE IF Head(tokens).value > MESSAGE_LENGTH_MAX THEN Throw(p, Tail(tokens))
          ELSE IF p.end_of_headers THEN ParsePayload(p, Head(tokens).value, Tail(tokens))
          ELSE ParseHeader(p, Head(tokens).value, Tail(tokens))
  BY DEF ParseField
<1> HIDE DEF tokens
<1>8. Head(tokens).value = v
  BY <1>1, <1>5
<1>9. ParseField(p) = IF p.end_of_headers THEN ParsePayload(p, Head(tokens).value, Tail(tokens))
                      ELSE ParseHeader(p, Head(tokens).value, Tail(tokens))
  BY <1>4, <1>6, <1>7, <1>8
<1>10. k + 1 \in Nat
  OBVIOUS
<1> QED
  BY <1>3, <1>5, <1>8, <1>9, <1>10

(******************************************************************************)
(* A header field: what follows its count decides.                            *)
(******************************************************************************)
HeaderOutcome(B, p, k, v, q) ==
  ParseField(p) = IF B[q].type # "comma" THEN Throw(p, Drop(B, q))
                  ELSE IF v = 0 THEN [p EXCEPT !.rest = Drop(B, q), !.end_of_headers = TRUE]
                  ELSE UseHeader(p, SubSeq(Drop(B, k + 1), 1, v), Drop(B, q))

(******************************************************************************)
(* A header is followed by a comma, or ends the loop (transport.cpp:275-293). *)
(******************************************************************************)
LEMMA HeaderField ==
  ASSUME NEW B \in Seq(Tokens), NEW k \in Nat, NEW v \in Nat, CountAt(B, k, v),
         NEW p, NEW checksum, InHeaders(B, p, k, checksum),
         NEW q \in Nat, q = k + 2 + v, q <= Len(B), B[q].type # "eol"
  PROVE  HeaderOutcome(B, p, k, v, q)
<1> DEFINE n == Len(B)
           tokens == Drop(B, k + 1)
           after == SkipSpace(From(tokens, v + 1))
           j == k + 1 + v
<1>1. /\ k + 1 \in Nat /\ k + 1 <= n
      /\ ParseField(p) = ParseHeader(p, v, tokens)
  <2>1. p.rest = Drop(B, k) /\ p.end_of_headers = FALSE
    BY DEF InHeaders
  <2> QED
    BY <2>1, CountField
<1>2. n \in Nat /\ j \in Nat /\ j + 1 = q /\ j < n /\ j <= n /\ k + 1 + v <= n
  OBVIOUS
<1>3. tokens \in Seq(Tokens) /\ Len(tokens) = n - (k + 1)
  BY <1>1, DropFacts
<1>4. ~(Len(tokens) < v)
  BY <1>2, <1>3
<1>5. From(tokens, v + 1) = Drop(B, j)
  <2>1. Drop(Drop(B, k + 1), v) = Drop(B, k + 1 + v)
    BY <1>1, <1>2, DropDrop
  <2> QED
    BY <2>1 DEF Drop
<1> HIDE DEF tokens, j
<1>6. after = Drop(B, j)
  BY <1>2, <1>5, SkipNone
<1>7. after # <<>> /\ Tail(after) = Drop(B, q)
  <2>1. Drop(B, j) # <<>> /\ Tail(Drop(B, j)) = Drop(B, j + 1)
    BY <1>2, DropHead
  <2> HIDE DEF after
  <2> QED
    BY <1>2, <1>6, <2>1
<1>8. StartsWith(after, "comma") <=> B[q].type = "comma"
  BY <1>2, <1>6, StartsAt
<1>9. ParseHeader(p, v, tokens) =
        IF Len(tokens) < v \/ after = <<>> THEN Throw(p, <<>>)
        ELSE IF ~StartsWith(after, "comma") THEN Throw(p, Tail(after))
        ELSE IF v = 0 THEN [p EXCEPT !.rest = Tail(after), !.end_of_headers = TRUE]
        ELSE UseHeader(p, SubSeq(tokens, 1, v), Tail(after))
  BY DEF ParseHeader
<1> HIDE DEF after
<1> QED
  BY <1>1, <1>4, <1>7, <1>8, <1>9 DEF tokens, HeaderOutcome

(******************************************************************************)
(* An exception ends the loop (transport.cpp:309-311).                        *)
(******************************************************************************)
LEMMA ThrowEnds ==
  ASSUME NEW B, NEW p \in ParserStates, p.message = Nothing, NEW q
  PROVE  EndedAt(B, Throw(p, Drop(B, q)), q, Nothing)
  BY DEF EndedAt, Throw, ParserStates

(******************************************************************************)
(* The checksum.                                                              *)
(******************************************************************************)
LEMMA ChecksumHeader ==
  ASSUME NEW B \in Seq(Tokens), NEW p, NEW checksum, InHeaders(B, p, 0, checksum),
         CountAt(B, 0, 1), 3 <= Len(B), B[3].type # "eol"
  PROVE  /\ B[3].type # "comma" \/ B[2].type \notin {"checksum", "text"}
              => EndedAt(B, ParseField(p), 3, Nothing)
         /\ B[3].type = "comma" /\ B[2].type = "checksum"
              => InHeaders(B, ParseField(p), 3, B[2].value)
<1> DEFINE text == SubSeq(Drop(B, 1), 1, 1)
           rest == Drop(B, 3)
           b == B[2]
<1>1. ParseField(p) = IF B[3].type # "comma" THEN Throw(p, rest) ELSE UseHeader(p, text, rest)
  <2> DEFINE zero == 0
             one == 1
             three == 3
  <2>1. zero \in Nat /\ one \in Nat /\ three \in Nat /\ three = zero + 2 + one /\ one # 0
    OBVIOUS
  <2>2. CountAt(B, zero, one) /\ InHeaders(B, p, zero, checksum) /\ three <= Len(B) /\ B[three].type # "eol"
    OBVIOUS
  <2>3. zero + 1 = 1
    OBVIOUS
  <2> HIDE DEF zero, one, three
  <2>4. HeaderOutcome(B, p, zero, one, three)
    BY <2>1, <2>2, HeaderField
  <2>5. ParseField(p) = IF B[three].type # "comma" THEN Throw(p, Drop(B, three))
                        ELSE UseHeader(p, SubSeq(Drop(B, 1), 1, one), Drop(B, three))
    BY <2>1, <2>3, <2>4 DEF HeaderOutcome
  <2> QED
    BY <2>5 DEF one, three
<1>2. p \in ParserStates /\ p.message = Nothing /\ p.end_of_headers = FALSE /\ p.done = FALSE
  BY DEF InHeaders
<1>3. b \in Tokens
  <2>1. 2 \in 1..Len(B)
    OBVIOUS
  <2> QED
    BY <2>1, ElementOfSeq
<1>4. text \in Seq(Tokens) /\ Len(text) = 1 /\ text[1] = b
  <2> DEFINE D == Drop(B, 1)
  <2>1. 1 \in Nat /\ 1 <= Len(B) /\ 1 \in 1..Len(B) - 1 /\ Len(B) \in Nat
    OBVIOUS
  <2>2. D \in Seq(Tokens) /\ Len(D) = Len(B) - 1 /\ D[1] = B[1 + 1]
    BY <2>1, DropFacts
  <2>3. 0 \in Nat /\ 1 \in Nat /\ 0 + 1 <= Len(D)
    BY <2>1, <2>2
  <2>4. text = SubSeq(D, 0 + 1, 0 + 1)
    OBVIOUS
  <2> HIDE DEF D, text
  <2>5. IsPiece(text, Tokens, D, 0, 1)
    BY <2>2, <2>3, <2>4, Slice
  <2>6. text \in Seq(Tokens) /\ Len(text) = 1 /\ text[1] = D[0 + 1]
    BY <2>5 DEF IsPiece
  <2> QED
    BY <2>2, <2>6
<1>5. Head(text) = b /\ text # <<>> /\ DOMAIN text = {1}
  <2> HIDE DEF text, b
  <2>1. text # <<>>
    <3>1. Len(text) # 0
      BY <1>4
    <3> QED
      BY <3>1
  <2>2. DOMAIN text = 1..1
    BY <1>4, LenProperties
  <2> QED
    BY <1>4, <2>1, <2>2
<1> HIDE DEF text, rest
<1>6. CASE B[3].type # "comma"
  <2>1. ParseField(p) = Throw(p, rest)
    BY <1>1, <1>6
  <2> QED
    BY <1>2, <1>6, <2>1, ThrowEnds DEF rest
<1>7. CASE B[3].type = "comma"
  <2>1. ParseField(p) = UseHeader(p, text, rest)
    BY <1>1, <1>7
  <2>2. UseHeader(p, text, rest) =
          IF StartsWith(text, "checksum")
            THEN [p EXCEPT !.rest = rest, !.expected_checksum = Head(text).value]
          ELSE IF \E i \in DOMAIN text : text[i].type \in {"checksum", "text"}
            THEN [p EXCEPT !.rest = rest]
          ELSE Throw(p, rest)
    BY DEF UseHeader
  <2>3. StartsWith(text, "checksum") <=> b.type = "checksum"
    BY <1>5 DEF StartsWith
  <2>4. (\E i \in DOMAIN text : text[i].type \in {"checksum", "text"}) <=> b.type \in {"checksum", "text"}
    BY <1>4, <1>5
  <2>5. CASE b.type \notin {"checksum", "text"}
    <3>1. ParseField(p) = Throw(p, rest)
      BY <2>1, <2>2, <2>3, <2>4, <2>5
    <3>2. EndedAt(B, ParseField(p), 3, Nothing)
      BY <1>2, <3>1, ThrowEnds DEF rest
    <3> QED
      BY <2>5, <3>2
  <2>6. CASE b.type = "checksum"
    <3> DEFINE r == ParseField(p)
    <3>1. r = [p EXCEPT !.rest = rest, !.expected_checksum = b.value]
      BY <1>5, <2>1, <2>2, <2>3, <2>6
    <3>2. rest \in Seq(Tokens) /\ b.value \in TokenValues
      <4>1. b.value \in TokenValues
        BY <1>3 DEF Tokens
      <4>2. 3 \in Nat /\ 3 <= Len(B)
        OBVIOUS
      <4> QED
        BY <4>1, <4>2, DropFacts DEF rest
    <3> HIDE DEF r, b
    <3>3. /\ r \in ParserStates /\ r.rest = rest /\ r.expected_checksum = b.value
          /\ r.end_of_headers = FALSE /\ r.message = Nothing /\ r.done = FALSE
      BY <1>2, <3>1, <3>2 DEF ParserStates
    <3>4. InHeaders(B, r, 3, b.value)
      BY <3>3 DEF InHeaders, rest
    <3> QED
      BY <1>7, <2>6, <3>4 DEF r, b
  <2>7. CASE b.type = "text"
    BY <1>7, <2>7
  <2> QED
    BY <2>5, <2>6, <2>7
<1> QED
  BY <1>6, <1>7

(******************************************************************************)
(* The empty header that ends the headers.                                    *)
(******************************************************************************)
LEMMA EmptyHeader ==
  ASSUME NEW B \in Seq(Tokens), NEW p, NEW checksum, InHeaders(B, p, 3, checksum),
         CountAt(B, 3, 0), 5 <= Len(B), B[5].type # "eol"
  PROVE  /\ B[5].type # "comma" => EndedAt(B, ParseField(p), 5, Nothing)
         /\ B[5].type = "comma" => PastHeaders(B, ParseField(p), 5, checksum)
<1> DEFINE rest == Drop(B, 5)
           r == ParseField(p)
<1>1. r = IF B[5].type # "comma" THEN Throw(p, rest)
          ELSE [p EXCEPT !.rest = rest, !.end_of_headers = TRUE]
  <2> DEFINE zero == 0
             three == 3
             five == 5
  <2>1. zero \in Nat /\ three \in Nat /\ five \in Nat /\ five = three + 2 + zero
    OBVIOUS
  <2>2. CountAt(B, three, zero) /\ InHeaders(B, p, three, checksum) /\ five <= Len(B) /\ B[five].type # "eol"
    OBVIOUS
  <2>3. zero = 0
    OBVIOUS
  <2> HIDE DEF zero, three, five
  <2>4. HeaderOutcome(B, p, three, zero, five)
    BY <2>1, <2>2, HeaderField
  <2>5. ParseField(p) = IF B[five].type # "comma" THEN Throw(p, Drop(B, five))
                        ELSE [p EXCEPT !.rest = Drop(B, five), !.end_of_headers = TRUE]
    BY <2>3, <2>4 DEF HeaderOutcome
  <2> QED
    BY <2>5 DEF five
<1>2. /\ p \in ParserStates /\ p.message = Nothing /\ p.done = FALSE
      /\ p.expected_checksum = checksum
  BY DEF InHeaders
<1>3. rest \in Seq(Tokens)
  <2>1. 5 \in Nat /\ 5 <= Len(B)
    OBVIOUS
  <2> QED
    BY <2>1, DropFacts
<1> HIDE DEF rest, r
<1>4. CASE B[5].type # "comma"
  <2>1. r = Throw(p, rest)
    BY <1>1, <1>4
  <2> QED
    BY <1>2, <1>4, <2>1, ThrowEnds DEF rest, r
<1>5. CASE B[5].type = "comma"
  <2>1. r = [p EXCEPT !.rest = rest, !.end_of_headers = TRUE]
    BY <1>1, <1>5
  <2>2. /\ r \in ParserStates /\ r.rest = rest /\ r.expected_checksum = checksum
        /\ r.end_of_headers = TRUE /\ r.message = Nothing /\ r.done = FALSE
    BY <1>2, <1>3, <2>1 DEF ParserStates
  <2> QED
    BY <1>5, <2>2 DEF PastHeaders, rest, r
<1> QED
  BY <1>4, <1>5

(******************************************************************************)
(* The payload: it is refused, or it is what ParseStream makes of it.         *)
(******************************************************************************)
LEMMA PayloadField ==
  ASSUME NEW B \in Seq(Tokens), NEW p, NEW checksum, PastHeaders(B, p, 5, checksum),
         CountAt(B, 5, 3), 10 <= Len(B)
  PROVE  /\ B[10].type # "comma" \/ Values(SubSeq(Drop(B, 6), 1, 3)) # checksum
              => EndedAt(B, ParseField(p), 6, Nothing)
         /\ B[10].type = "comma" /\ Values(SubSeq(Drop(B, 6), 1, 3)) = checksum
              => ParseField(p) = [Throw(p, ParseStream(Drop(B, 6)).rest) EXCEPT
                                    !.message = ParseStream(Drop(B, 6)).message]
<1> DEFINE tokens == Drop(B, 6)
           r == ParseField(p)
<1>1. /\ p \in ParserStates /\ p.rest = Drop(B, 5) /\ p.expected_checksum = checksum
      /\ p.end_of_headers = TRUE /\ p.message = Nothing /\ p.done = FALSE
  BY DEF PastHeaders
<1>2. r = ParsePayload(p, 3, tokens)
  <2> DEFINE three == 3
             five == 5
  <2>1. three \in Nat /\ five \in Nat /\ five + 1 = 6
    OBVIOUS
  <2>2. CountAt(B, five, three) /\ p.rest = Drop(B, five)
    BY <1>1
  <2> HIDE DEF three, five
  <2>3. ParseField(p) = IF p.end_of_headers THEN ParsePayload(p, three, Drop(B, five + 1))
                                            ELSE ParseHeader(p, three, Drop(B, five + 1))
    BY <2>1, <2>2, CountField
  <2>4. ParseField(p) = ParsePayload(p, three, tokens)
    BY <1>1, <2>1, <2>3
  <2> QED
    BY <2>4 DEF three
<1>3. tokens \in Seq(Tokens) /\ Len(tokens) = Len(B) - 6 /\ tokens[4] = B[10]
  <2>1. 6 \in Nat /\ 6 <= Len(B) /\ 4 \in 1..Len(B) - 6 /\ Len(B) \in Nat
    OBVIOUS
  <2>2. tokens \in Seq(Tokens) /\ Len(tokens) = Len(B) - 6 /\ tokens[4] = B[6 + 4]
    BY <2>1, DropFacts
  <2> QED
    BY <2>2
<1>4. Len(tokens) > 3
  BY <1>3
<1> DEFINE right == Values(SubSeq(tokens, 1, 3)) = checksum
           document == ParseStream(tokens)
<1>5. ChecksumMatches(p, 3, tokens) <=> right
  BY <1>1 DEF ChecksumMatches
<1> HIDE DEF tokens, r, right
<1>6. ParsePayload(p, 3, tokens) =
        IF Len(tokens) > 3 /\ ChecksumMatches(p, 3, tokens) /\ tokens[3 + 1].type = "comma" /\ 3 > 0
          THEN [Throw(p, document.rest) EXCEPT !.message = document.message]
          ELSE Throw(p, tokens)
  BY DEF ParsePayload
<1> HIDE DEF document
<1>7. r = IF right /\ B[10].type = "comma"
            THEN [Throw(p, document.rest) EXCEPT !.message = document.message]
            ELSE Throw(p, tokens)
  <2>1. 3 + 1 = 4 /\ 3 > 0
    OBVIOUS
  <2> QED
    BY <1>2, <1>3, <1>4, <1>5, <1>6, <2>1
<1>8. EndedAt(B, Throw(p, tokens), 6, Nothing)
  BY <1>1, ThrowEnds DEF tokens
<1> QED
  BY <1>7, <1>8 DEF right, r, document, tokens

(******************************************************************************)
(* An object that is whole.                                                   *)
(******************************************************************************)
LEMMA StreamWhole ==
  ASSUME NEW B \in Seq(Tokens), NEW k \in Nat, k + 3 <= Len(B), B[k + 1].type = "open",
         B[k + 2].type = "text", B[k + 3].type = "close"
  PROVE  ParseStream(Drop(B, k)) = [message |-> B[k + 2].message, rest |-> Drop(B, k + 3)]
<1> DEFINE n == Len(B)
           a == k + 1
           b == k + 2
           c == k + 3
           first == SkipSpace(Drop(B, k))
           second == SkipSpace(From(first, 2))
           third == SkipSpace(From(second, 2))
           stream == ParseStream(Drop(B, k))
<1>1. /\ n \in Nat /\ a \in Nat /\ b \in Nat /\ k < n /\ a < n /\ b < n
      /\ k <= n /\ a <= n /\ b <= n /\ k + 1 = a /\ a + 1 = b /\ b + 1 = c
  OBVIOUS
<1>2. stream = IF ~StartsWith(first, "open") THEN [message |-> Nothing, rest |-> first]
               ELSE IF ~StartsWith(second, "text") THEN [message |-> Nothing, rest |-> second]
               ELSE IF ~StartsWith(third, "close") THEN [message |-> Nothing, rest |-> third]
               ELSE [message |-> Head(second).message, rest |-> Tail(third)]
  BY DEF ParseStream
<1>3. B[a].type = "open" /\ B[b].type = "text" /\ B[c].type = "close"
  OBVIOUS
<1> HIDE DEF stream, a, b, c, n
<1>4. first = Drop(B, k)
  BY <1>1, <1>3, SkipNone DEF n
<1> HIDE DEF first
<1>5. From(first, 2) = Drop(B, a)
  <2>1. Drop(Drop(B, k), 1) = Drop(B, k + 1)
    <3>1. 1 \in Nat /\ k + 1 <= Len(B)
      BY <1>1 DEF n
    <3> QED
      BY <3>1, DropDrop
  <2>2. Drop(first, 1) = From(first, 2)
    BY DEF Drop
  <2> QED
    BY <1>1, <1>4, <2>1, <2>2
<1>6. second = Drop(B, a)
  BY <1>1, <1>3, <1>5, SkipNone DEF n
<1> HIDE DEF second
<1>7. From(second, 2) = Drop(B, b)
  <2>1. Drop(Drop(B, a), 1) = Drop(B, a + 1)
    <3>1. 1 \in Nat /\ a + 1 <= Len(B)
      BY <1>1 DEF n
    <3> QED
      BY <1>1, <3>1, DropDrop
  <2>2. Drop(second, 1) = From(second, 2)
    BY DEF Drop
  <2> QED
    BY <1>1, <1>6, <2>1, <2>2
<1>8. third = Drop(B, b)
  BY <1>1, <1>3, <1>7, SkipNone DEF n
<1> HIDE DEF third
<1>9. StartsWith(first, "open") /\ StartsWith(second, "text") /\ StartsWith(third, "close")
  <2>1. StartsWith(first, "open")
    BY <1>1, <1>3, <1>4, StartsAt DEF n
  <2>2. StartsWith(second, "text")
    BY <1>1, <1>3, <1>6, StartsAt DEF n
  <2>3. StartsWith(third, "close")
    BY <1>1, <1>3, <1>8, StartsAt DEF n
  <2> QED
    BY <2>1, <2>2, <2>3
<1>10. Head(second) = B[b]
  <2>1. Head(Drop(B, a)) = B[a + 1]
    BY <1>1, DropHead DEF n
  <2> QED
    BY <1>1, <1>6, <2>1
<1>11. Tail(third) = Drop(B, c)
  <2>1. Tail(Drop(B, b)) = Drop(B, b + 1)
    BY <1>1, DropHead DEF n
  <2> QED
    BY <1>1, <1>8, <2>1
<1>12. stream = [message |-> B[b].message, rest |-> Drop(B, c)]
  BY <1>2, <1>9, <1>10, <1>11
<1> QED
  BY <1>12 DEF stream, b, c

(******************************************************************************)
(* A step of the loop that has not ended, and what the loop makes of a line   *)
(* when it ends after some steps.                                             *)
(******************************************************************************)
LEMMA LoopStep ==
  ASSUME NEW B \in Seq(Tokens), NEW i \in 1..Len(B) + 1,
         ParseStates(Start(B))[i - 1].done = FALSE
  PROVE  ParseStates(Start(B))[i] = ParseField(ParseStates(Start(B))[i - 1])
<1> DEFINE f == ParseStates(Start(B))
<1>1. IsLoop(f, Start(B), Len(B) + 1)
  BY StartFacts
<1> HIDE DEF f
<1>2. f[i] = ParseNext(f[i - 1])
  BY <1>1 DEF IsLoop
<1> QED
  BY <1>2 DEF ParseNext, f

(******************************************************************************)
(* What the parser returned, and what it left behind.                         *)
(******************************************************************************)
Outcome(B, q, message) == ParseMessage(B).rest = Drop(B, q) /\ ParseMessage(B).message = message

(******************************************************************************)
(* Once the loop has ended nothing changes it any more.                       *)
(******************************************************************************)
LEMMA LoopOutcome ==
  ASSUME NEW B \in Seq(Tokens), ~StartsWith(B, "open"), NEW i \in 1..Len(B) + 1,
         NEW q, NEW message, EndedAt(B, ParseStates(Start(B))[i], q, message)
  PROVE  Outcome(B, q, message)
<1> DEFINE f == ParseStates(Start(B))
           n == Len(B) + 1
<1>1. IsLoop(f, Start(B), n) /\ n \in Nat /\ ParseMessage(B) = f[n]
  BY StartFacts DEF ParseMessage
<1>2. i \in 0..n
  BY <1>1
<1>3. f[i].done = TRUE /\ f[i].rest = Drop(B, q) /\ f[i].message = message
  BY DEF EndedAt
<1> HIDE DEF f, n
<1>4. f[n] = f[i]
  BY <1>1, <1>2, <1>3, LoopEnded
<1> QED
  BY <1>1, <1>3, <1>4 DEF Outcome

--------------------------------------------------------------------------------
(******************************************************************************)
(* What the payload of a framed message has for a checksum.                   *)
(******************************************************************************)
LEMMA PayloadSlice ==
  ASSUME NEW B \in Seq(Tokens), 9 <= Len(B), NEW x, x = SubSeq(Drop(B, 6), 1, 3)
  PROVE  /\ x \in Seq(Tokens) /\ Len(x) = 3 /\ DOMAIN x = 1..3
         /\ x[1] = B[7] /\ x[2] = B[8] /\ x[3] = B[9]
<1> DEFINE D == Drop(B, 6)
<1>1. 6 \in Nat /\ 6 <= Len(B) /\ Len(B) \in Nat /\ 1 \in 1..Len(B) - 6 /\ 2 \in 1..Len(B) - 6 /\ 3 \in 1..Len(B) - 6
  OBVIOUS
<1>2. D \in Seq(Tokens) /\ Len(D) = Len(B) - 6 /\ \A i \in 1..Len(B) - 6 : D[i] = B[6 + i]
  BY <1>1, DropFacts
<1>3. 0 \in Nat /\ 3 \in Nat /\ 0 + 3 <= Len(D)
  BY <1>1, <1>2
<1>4. x = SubSeq(D, 0 + 1, 0 + 3)
  OBVIOUS
<1> HIDE DEF D
<1>5. IsPiece(x, Tokens, D, 0, 3)
  BY <1>2, <1>3, <1>4, Slice
<1>6. x \in Seq(Tokens) /\ Len(x) = 3 /\ \A i \in 1..3 : x[i] = D[0 + i]
  BY <1>5 DEF IsPiece
<1>7. DOMAIN x = 1..3
  BY <1>6, LenProperties
<1>8. x[1] = D[1] /\ x[2] = D[2] /\ x[3] = D[3]
  BY <1>6
<1>9. D[1] = B[7] /\ D[2] = B[8] /\ D[3] = B[9]
  BY <1>1, <1>2
<1> QED
  BY <1>6, <1>7, <1>8, <1>9

(******************************************************************************)
(* The checksum of a frame is the one of its payload, as it was sent.         *)
(******************************************************************************)
LEMMA PayloadAgrees ==
  ASSUME NEW B \in Seq(Tokens), 9 <= Len(B), NEW m \in Nat, B[7] = Token(m, "open", m),
         B[8] = Token(m, "text", m), B[9] = Token(m, "close", m)
  PROVE  Values(SubSeq(Drop(B, 6), 1, 3)) = Values(Payload(m))
<1> DEFINE x == SubSeq(Drop(B, 6), 1, 3)
<1>1. x \in Seq(Tokens) /\ Len(x) = 3 /\ x[1] = B[7] /\ x[2] = B[8] /\ x[3] = B[9]
  BY PayloadSlice
<1>2. /\ Payload(m) \in Seq(Tokens) /\ Len(Payload(m)) = 3
      /\ Payload(m)[1] = Token(m, "open", m) /\ Payload(m)[2] = Token(m, "text", m)
      /\ Payload(m)[3] = Token(m, "close", m)
  BY PayloadFacts
<1> HIDE DEF x
<1>3. \A i \in 1..3 : x[i] = Payload(m)[i]
  <2>1. \A i \in 1..3 : i = 1 \/ i = 2 \/ i = 3
    OBVIOUS
  <2>2. x[1] = Payload(m)[1] /\ x[2] = Payload(m)[2] /\ x[3] = Payload(m)[3]
    BY <1>1, <1>2
  <2> QED
    BY <2>1, <2>2
<1>4. x = Payload(m)
  <2>1. x \in Seq(Tokens) /\ Payload(m) \in Seq(Tokens) /\ Len(x) = Len(Payload(m)) /\ Len(x) = 3
    BY <1>1, <1>2
  <2> QED
    BY <1>3, <2>1, SeqEqual
<1> QED
  BY <1>4 DEF x

(******************************************************************************)
(* It is no other payload's.                                                  *)
(******************************************************************************)
LEMMA PayloadDiffers ==
  ASSUME NEW B \in Seq(Tokens), 9 <= Len(B), NEW m \in Nat,
         \/ B[7].type # "open" \/ B[8].type # "text" \/ B[8].value # m \/ B[9].type # "close"
  PROVE  Values(SubSeq(Drop(B, 6), 1, 3)) # Values(Payload(m))
<1> DEFINE x == SubSeq(Drop(B, 6), 1, 3)
           y == Payload(m)
<1>1. DOMAIN x = 1..3 /\ x[1] = B[7] /\ x[2] = B[8] /\ x[3] = B[9]
  BY PayloadSlice
<1>2. /\ y \in Seq(Tokens) /\ Len(y) = 3
      /\ y[1] = Token(m, "open", m) /\ y[2] = Token(m, "text", m) /\ y[3] = Token(m, "close", m)
  BY PayloadFacts
<1>3. DOMAIN y = 1..3
  BY <1>2, LenProperties
<1>4. y[1].type = "open" /\ y[2].type = "text" /\ y[2].value = m /\ y[3].type = "close"
  BY <1>2 DEF Token
<1> HIDE DEF x, y
<1>5. ASSUME Values(x) = Values(y) PROVE FALSE
  <2>1. \A i \in 1..3 : Values(x)[i] = <<x[i].type, x[i].value>>
    BY <1>1 DEF Values
  <2>2. \A i \in 1..3 : Values(y)[i] = <<y[i].type, y[i].value>>
    BY <1>3 DEF Values
  <2>3. \A i \in 1..3 : <<x[i].type, x[i].value>> = <<y[i].type, y[i].value>>
    BY <1>5, <2>1, <2>2
  <2>4. \A i \in 1..3 : x[i].type = y[i].type /\ x[i].value = y[i].value
    BY <2>3
  <2>5. x[1].type = "open" /\ x[2].type = "text" /\ x[2].value = m /\ x[3].type = "close"
    BY <1>4, <2>4
  <2> QED
    BY <1>1, <2>5
<1> QED
  BY <1>5 DEF x, y

(******************************************************************************)
(* The four ways a framed line can end.                                       *)
(******************************************************************************)
LEMMA FrameStart ==
  ASSUME NEW B \in Seq(Tokens), CountAt(B, 0, 1)
  PROVE  /\ ~StartsWith(B, "open") /\ InHeaders(B, ParseStates(Start(B))[0], 0, NoChecksum)
         /\ ParseStates(Start(B))[0].done = FALSE
<1>1. B[1].type = "count" /\ 0 < Len(B)
  BY DEF CountAt
<1>2. ~StartsWith(B, "open")
  <2>1. B # <<>>
    BY <1>1
  <2>2. Head(B) = B[1]
    BY <2>1
  <2> QED
    BY <1>1, <2>2 DEF StartsWith
<1>3. /\ Start(B) \in ParserStates /\ ParseStates(Start(B))[0] = Start(B) /\ Drop(B, 0) = B
  BY StartFacts, DropAll DEF IsLoop, FieldStates
<1>4. InHeaders(B, Start(B), 0, NoChecksum)
  <2>1. /\ Start(B).rest = B /\ Start(B).expected_checksum = NoChecksum
        /\ Start(B).end_of_headers = FALSE /\ Start(B).message = Nothing /\ Start(B).done = FALSE
    BY DEF Start
  <2> QED
    BY <1>3, <2>1 DEF InHeaders
<1> QED
  BY <1>2, <1>3, <1>4 DEF InHeaders

(******************************************************************************)
(* A frame whose first header or the comma after it was damaged is refused    *)
(* (transport.cpp:275-293).                                                   *)
(******************************************************************************)
LEMMA HeaderRefused ==
  ASSUME NEW B \in Seq(Tokens), CountAt(B, 0, 1), 3 <= Len(B), B[3].type # "eol",
         B[3].type # "comma" \/ B[2].type \notin {"checksum", "text"}
  PROVE  Outcome(B, 3, Nothing)
<1> DEFINE f == ParseStates(Start(B))
<1>1. ~StartsWith(B, "open") /\ InHeaders(B, f[0], 0, NoChecksum) /\ f[0].done = FALSE
  BY FrameStart
<1>2. 1 \in 1..Len(B) + 1 /\ 1 - 1 = 0
  OBVIOUS
<1>3. f[1] = ParseField(f[0])
  BY <1>1, <1>2, LoopStep
<1> HIDE DEF f
<1>4. EndedAt(B, f[1], 3, Nothing)
  BY <1>1, <1>3, ChecksumHeader
<1> QED
  BY <1>1, <1>2, <1>4, LoopOutcome DEF f

(******************************************************************************)
(* The header of a frame is as it was sent, and so is the count that ends the *)
(* headers.                                                                   *)
(******************************************************************************)
ChecksumTaken(B) ==
  /\ CountAt(B, 0, 1) /\ 3 <= Len(B) /\ B[2].type = "checksum" /\ B[3].type = "comma"
  /\ CountAt(B, 3, 0) /\ 5 <= Len(B) /\ B[5].type # "eol"

(******************************************************************************)
(* The loop then has the checksum.                                            *)
(******************************************************************************)
LEMMA SecondField ==
  ASSUME NEW B \in Seq(Tokens), ChecksumTaken(B)
  PROVE  /\ ~StartsWith(B, "open") /\ InHeaders(B, ParseStates(Start(B))[1], 3, B[2].value)
         /\ ParseStates(Start(B))[2] = ParseField(ParseStates(Start(B))[1])
<1> DEFINE f == ParseStates(Start(B))
<1>1. /\ CountAt(B, 0, 1) /\ 3 <= Len(B) /\ B[2].type = "checksum" /\ B[3].type = "comma"
      /\ 5 <= Len(B)
  BY DEF ChecksumTaken
<1>2. ~StartsWith(B, "open") /\ InHeaders(B, f[0], 0, NoChecksum) /\ f[0].done = FALSE
  BY <1>1, FrameStart
<1>3. 1 \in 1..Len(B) + 1 /\ 1 - 1 = 0 /\ 2 \in 1..Len(B) + 1 /\ 2 - 1 = 1
  BY <1>1
<1>4. f[1] = ParseField(f[0])
  BY <1>2, <1>3, LoopStep
<1> HIDE DEF f
<1>5. B[3].type # "eol"
  BY <1>1
<1>6. InHeaders(B, f[1], 3, B[2].value)
  BY <1>1, <1>2, <1>4, <1>5, ChecksumHeader
<1>7. f[1].done = FALSE
  BY <1>6 DEF InHeaders
<1>8. f[2] = ParseField(f[1])
  BY <1>3, <1>7, LoopStep DEF f
<1> QED
  BY <1>2, <1>6, <1>8 DEF f

(******************************************************************************)
(* A frame without the comma after the headers is refused.                    *)
(******************************************************************************)
LEMMA EndRefused ==
  ASSUME NEW B \in Seq(Tokens), ChecksumTaken(B), B[5].type # "comma"
  PROVE  Outcome(B, 5, Nothing)
<1> DEFINE f == ParseStates(Start(B))
<1>1. CountAt(B, 3, 0) /\ 5 <= Len(B) /\ B[5].type # "eol"
  BY DEF ChecksumTaken
<1>2. ~StartsWith(B, "open") /\ InHeaders(B, f[1], 3, B[2].value) /\ f[2] = ParseField(f[1])
  BY SecondField
<1> HIDE DEF f
<1>3. EndedAt(B, f[2], 5, Nothing)
  BY <1>1, <1>2, EmptyHeader
<1>4. 2 \in 1..Len(B) + 1
  BY <1>1
<1> QED
  BY <1>2, <1>3, <1>4, LoopOutcome DEF f

(******************************************************************************)
(* The headers of a frame and the count of its payload are as they were sent. *)
(******************************************************************************)
HeadersTaken(B) == ChecksumTaken(B) /\ B[5].type = "comma" /\ CountAt(B, 5, 3) /\ 10 <= Len(B)

(******************************************************************************)
(* The loop is then behind the headers.                                       *)
(******************************************************************************)
LEMMA ThirdField ==
  ASSUME NEW B \in Seq(Tokens), HeadersTaken(B)
  PROVE  /\ ~StartsWith(B, "open") /\ PastHeaders(B, ParseStates(Start(B))[2], 5, B[2].value)
         /\ ParseStates(Start(B))[3] = ParseField(ParseStates(Start(B))[2])
<1> DEFINE f == ParseStates(Start(B))
<1>1. /\ ChecksumTaken(B) /\ CountAt(B, 3, 0) /\ 5 <= Len(B) /\ B[5].type # "eol"
      /\ B[5].type = "comma" /\ 10 <= Len(B)
  BY DEF ChecksumTaken, HeadersTaken
<1>2. ~StartsWith(B, "open") /\ InHeaders(B, f[1], 3, B[2].value) /\ f[2] = ParseField(f[1])
  BY <1>1, SecondField
<1> HIDE DEF f
<1>3. PastHeaders(B, f[2], 5, B[2].value)
  BY <1>1, <1>2, EmptyHeader
<1>4. f[2].done = FALSE
  BY <1>3 DEF PastHeaders
<1>5. 3 \in 1..Len(B) + 1 /\ 3 - 1 = 2
  BY <1>1
<1>6. f[3] = ParseField(f[2])
  BY <1>4, <1>5, LoopStep DEF f
<1> QED
  BY <1>2, <1>3, <1>6 DEF f

(******************************************************************************)
(* A payload without its checksum, or without a comma behind it, is refused   *)
(* (transport.cpp:294-307).                                                   *)
(******************************************************************************)
LEMMA PayloadRefused ==
  ASSUME NEW B \in Seq(Tokens), HeadersTaken(B),
         B[10].type # "comma" \/ Values(SubSeq(Drop(B, 6), 1, 3)) # B[2].value
  PROVE  Outcome(B, 6, Nothing)
<1> DEFINE f == ParseStates(Start(B))
<1>1. CountAt(B, 5, 3) /\ 10 <= Len(B)
  BY DEF HeadersTaken
<1>2. ~StartsWith(B, "open") /\ PastHeaders(B, f[2], 5, B[2].value) /\ f[3] = ParseField(f[2])
  BY ThirdField
<1> HIDE DEF f
<1>3. EndedAt(B, f[3], 6, Nothing)
  BY <1>1, <1>2, PayloadField
<1>4. 3 \in 1..Len(B) + 1
  BY <1>1
<1> QED
  BY <1>2, <1>3, <1>4, LoopOutcome DEF f

(******************************************************************************)
(* A payload with its checksum is parsed (transport.cpp:294-300).             *)
(******************************************************************************)
LEMMA PayloadTaken ==
  ASSUME NEW B \in Seq(Tokens), HeadersTaken(B), B[10].type = "comma",
         Values(SubSeq(Drop(B, 6), 1, 3)) = B[2].value,
         B[7].type = "open", B[8].type = "text", B[9].type = "close"
  PROVE  Outcome(B, 9, B[8].message)
<1> DEFINE f == ParseStates(Start(B))
           document == ParseStream(Drop(B, 6))
<1>1. CountAt(B, 5, 3) /\ 10 <= Len(B)
  BY DEF HeadersTaken
<1>2. ~StartsWith(B, "open") /\ PastHeaders(B, f[2], 5, B[2].value) /\ f[3] = ParseField(f[2])
  BY ThirdField
<1> HIDE DEF f
<1>3. f[3] = [Throw(f[2], document.rest) EXCEPT !.message = document.message]
  BY <1>1, <1>2, PayloadField
<1>4. document = [message |-> B[8].message, rest |-> Drop(B, 9)]
  <2> DEFINE k == 6
  <2>1. k \in Nat /\ k + 3 <= Len(B) /\ k + 1 = 7 /\ k + 2 = 8 /\ k + 3 = 9
    BY <1>1
  <2> HIDE DEF k
  <2>2. B[k + 1].type = "open" /\ B[k + 2].type = "text" /\ B[k + 3].type = "close"
    BY <2>1
  <2>3. ParseStream(Drop(B, k)) = [message |-> B[k + 2].message, rest |-> Drop(B, k + 3)]
    BY <2>1, <2>2, StreamWhole
  <2>4. ParseStream(Drop(B, k)) = [message |-> B[8].message, rest |-> Drop(B, 9)]
    BY <2>1, <2>3
  <2> QED
    BY <2>4 DEF k
<1> HIDE DEF document
<1>5. EndedAt(B, f[3], 9, B[8].message)
  <2> DEFINE p == f[2]
             r == f[3]
             rest == Drop(B, 9)
             message == B[8].message
  <2>1. r = [Throw(p, rest) EXCEPT !.message = message]
    BY <1>3, <1>4
  <2>2. p \in ParserStates
    BY <1>2 DEF PastHeaders
  <2>3. rest \in Seq(Tokens) /\ message \in Int
    <3>1. 9 \in Nat /\ 9 <= Len(B) /\ 8 \in 1..Len(B)
      BY <1>1
    <3>2. B[8] \in Tokens
      BY <3>1, ElementOfSeq
    <3>3. message \in Int
      BY <3>2 DEF Tokens
    <3> QED
      BY <3>1, <3>3, DropFacts
  <2> HIDE DEF p, r, rest, message
  <2> DEFINE s == Throw(p, rest)
  <2>4. s \in ParserStates /\ s.rest = rest /\ s.done = TRUE
    BY <2>2, <2>3 DEF Throw, ParserStates
  <2> HIDE DEF s
  <2>5. r = [s EXCEPT !.message = message]
    BY <2>1 DEF s
  <2>6. r.rest = rest /\ r.message = message /\ r.done = TRUE
    BY <2>3, <2>4, <2>5 DEF ParserStates
  <2> QED
    BY <2>6 DEF EndedAt, r, rest, message
<1>6. 3 \in 1..Len(B) + 1
  BY <1>1
<1> QED
  BY <1>2, <1>5, <1>6, LoopOutcome DEF f

(******************************************************************************)
(* A framed message at the start of the buffer, intact and damaged.           *)
(******************************************************************************)
Begins(B, s) == Len(s) <= Len(B) /\ \A i \in 1..Len(s) : B[i] = s[i]

(******************************************************************************)
(* The kinds and values of the tokens of a frame.                             *)
(******************************************************************************)
FrameTyped(t, m) ==
  /\ Len(t) = 11
  /\ t[1].type = "count" /\ t[2].type = "checksum" /\ t[3].type = "comma"
  /\ t[4].type = "count" /\ t[5].type = "comma" /\ t[6].type = "count"
  /\ t[7].type = "open" /\ t[8].type = "text" /\ t[9].type = "close"
  /\ t[10].type = "comma" /\ t[11].type = "eol"
  /\ t[1].value = 1 /\ t[2].value = Values(Payload(m)) /\ t[4].value = 0
  /\ t[6].value = 3 /\ t[8].value = m /\ t[8].message = m

(******************************************************************************)
(* A frame has them.                                                          *)
(******************************************************************************)
LEMMA FrameTypes ==
  ASSUME NEW t, NEW m, IsFrame(t, m)
  PROVE  FrameTyped(t, m)
  BY DEF IsFrame, Token, FrameTyped

(******************************************************************************)
(* A frame that arrived as it was sent is parsed up to the comma behind its   *)
(* payload.                                                                   *)
(******************************************************************************)
LEMMA FrameIntact ==
  ASSUME NEW m \in Nat, NEW t, IsFrame(t, m), NEW B \in Seq(Tokens), Begins(B, t)
  PROVE  Outcome(B, 9, m)
<1>1. FrameTyped(t, m)
  BY FrameTypes
<1>2. Len(t) = 11
  BY <1>1 DEF FrameTyped
<1>3. 11 <= Len(B) /\ \A i \in 1..11 : B[i] = t[i]
  BY <1>2 DEF Begins
<1>4. /\ B[1] = t[1] /\ B[2] = t[2] /\ B[3] = t[3] /\ B[4] = t[4] /\ B[5] = t[5]
      /\ B[6] = t[6] /\ B[7] = t[7] /\ B[8] = t[8] /\ B[9] = t[9] /\ B[10] = t[10]
  BY <1>3
<1>5. CountAt(B, 0, 1) /\ CountAt(B, 3, 0) /\ CountAt(B, 5, 3)
  <2>1. /\ B[1].type = "count" /\ B[1].value = 1 /\ B[4].type = "count" /\ B[4].value = 0
        /\ B[6].type = "count" /\ B[6].value = 3
    BY <1>1, <1>4 DEF FrameTyped
  <2>2. 11 <= Len(B)
    BY <1>3
  <2> QED
    BY <2>1, <2>2, FramingAssumption DEF CountAt
<1>6. ChecksumTaken(B)
  <2>1. B[2].type = "checksum" /\ B[3].type = "comma" /\ B[5].type = "comma"
    BY <1>1, <1>4 DEF FrameTyped
  <2>2. 3 <= Len(B) /\ 5 <= Len(B)
    BY <1>3
  <2> QED
    BY <1>5, <2>1, <2>2 DEF ChecksumTaken
<1>7. HeadersTaken(B) /\ B[10].type = "comma"
  BY <1>1, <1>3, <1>4, <1>5, <1>6 DEF HeadersTaken, FrameTyped
<1>8. Values(SubSeq(Drop(B, 6), 1, 3)) = B[2].value
  <2>1. B[7] = Token(m, "open", m) /\ B[8] = Token(m, "text", m) /\ B[9] = Token(m, "close", m)
    BY <1>4 DEF IsFrame
  <2>2. 9 <= Len(B) /\ B[2].value = Values(Payload(m))
    BY <1>1, <1>3, <1>4 DEF FrameTyped
  <2> QED
    BY <2>1, <2>2, PayloadAgrees
<1>9. /\ B[7].type = "open" /\ B[8].type = "text" /\ B[9].type = "close" /\ B[8].message = m
  BY <1>1, <1>4 DEF FrameTyped
<1>10. Outcome(B, 9, B[8].message)
  BY <1>7, <1>8, <1>9, PayloadTaken
<1> QED
  BY <1>9, <1>10

(******************************************************************************)
(* The parser refuses it wherever it was damaged, unless a count was: then it *)
(* does not read past the delimiter.                                          *)
(******************************************************************************)
RefusedWithin(B, n) == \E q \in 0..n : Outcome(B, q, Nothing)

(******************************************************************************)
(* The buffer begins with a frame that was damaged at p, and nowhere before.  *)
(******************************************************************************)
DamagedAt(B, t, p, m) ==
  /\ 10 <= Len(B) /\ \A i \in 1..p - 1 : B[i] = t[i]
  /\ B[p].type # t[p].type \/ (p = 8 /\ B[p].value # m)
  /\ B[p].type = "eol" => p = 10
  /\ p = 2 => B[p].type \notin {"checksum", "text"} /\ B[3].type # "eol"

(******************************************************************************)
(* Such a frame is refused, before its end.                                   *)
(******************************************************************************)
LEMMA FrameDamaged ==
  ASSUME NEW m \in Nat, NEW t, IsFrame(t, m), NEW B \in Seq(Tokens),
         NEW p \in {2, 3, 5, 7, 8, 9, 10}, DamagedAt(B, t, p, m)
  PROVE  RefusedWithin(B, 10)
<1> USE DEF DamagedAt
<1>1. FrameTyped(t, m)
  BY FrameTypes
<1>2. CountAt(B, 0, 1)
  <2>1. B[1] = t[1] /\ 0 < Len(B)
    OBVIOUS
  <2> QED
    BY <1>1, <2>1, FramingAssumption DEF CountAt, FrameTyped
<1>3. CASE p \in {2, 3}
  <2>1. 3 <= Len(B) /\ B[3].type # "eol"
    BY <1>3
  <2>2. B[3].type # "comma" \/ B[2].type \notin {"checksum", "text"}
    <3>1. p = 3 => B[3].type # "comma"
      BY <1>1 DEF FrameTyped
    <3> QED
      BY <1>3, <3>1
  <2>3. Outcome(B, 3, Nothing) /\ 3 \in 0..10
    BY <1>2, <2>1, <2>2, HeaderRefused
  <2> QED
    BY <2>3 DEF RefusedWithin
<1>4. CASE p \in {5, 7, 8, 9, 10}
  <2>1. B[2] = t[2] /\ B[3] = t[3] /\ B[4] = t[4]
    <3>1. 2 \in 1..p - 1 /\ 3 \in 1..p - 1 /\ 4 \in 1..p - 1
      BY <1>4
    <3> QED
      BY <3>1
  <2>2. CountAt(B, 3, 0) /\ 3 <= Len(B) /\ 5 <= Len(B)
    BY <1>1, <2>1, FramingAssumption DEF CountAt, FrameTyped
  <2>3. B[5].type # "eol"
    <3>1. CASE p = 5
      BY <3>1
    <3>2. CASE p # 5
      <4>1. 5 \in 1..p - 1
        BY <1>4, <3>2
      <4>2. B[5] = t[5]
        BY <4>1
      <4> QED
        BY <1>1, <4>2 DEF FrameTyped
    <3> QED
      BY <3>1, <3>2
  <2>4. ChecksumTaken(B)
    BY <1>1, <1>2, <2>1, <2>2, <2>3 DEF ChecksumTaken, FrameTyped
  <2>5. CASE p = 5
    <3>1. B[5].type # "comma"
      BY <1>1, <2>5 DEF FrameTyped
    <3>2. Outcome(B, 5, Nothing) /\ 5 \in 0..10
      BY <2>4, <3>1, EndRefused
    <3> QED
      BY <3>2 DEF RefusedWithin
  <2>6. CASE p \in {7, 8, 9, 10}
    <3>1. B[5] = t[5] /\ B[6] = t[6]
      <4>1. 5 \in 1..p - 1 /\ 6 \in 1..p - 1
        BY <2>6
      <4> QED
        BY <4>1
    <3>2. CountAt(B, 5, 3)
      BY <1>1, <3>1, FramingAssumption DEF CountAt, FrameTyped
    <3>3. HeadersTaken(B)
      BY <1>1, <2>4, <3>1, <3>2 DEF HeadersTaken, FrameTyped
    <3>4. B[10].type # "comma" \/ Values(SubSeq(Drop(B, 6), 1, 3)) # B[2].value
      <4>1. CASE p = 10
        BY <1>1, <4>1 DEF FrameTyped
      <4>2. CASE p # 10
        <5>1. \/ B[7].type # "open" \/ B[8].type # "text" \/ B[8].value # m \/ B[9].type # "close"
          BY <1>1, <2>6, <4>2 DEF FrameTyped
        <5>2. Values(SubSeq(Drop(B, 6), 1, 3)) # Values(Payload(m))
          <6>1. 9 <= Len(B)
            OBVIOUS
          <6> QED
            BY <5>1, <6>1, PayloadDiffers
        <5> QED
          BY <1>1, <2>1, <5>2 DEF FrameTyped
      <4> QED
        BY <4>1, <4>2
    <3>5. Outcome(B, 6, Nothing) /\ 6 \in 0..10
      BY <3>3, <3>4, PayloadRefused
    <3> QED
      BY <3>5 DEF RefusedWithin
  <2> QED
    BY <1>4, <2>5, <2>6
<1> QED
  BY <1>3, <1>4

(******************************************************************************)
(* So a frame that was damaged anywhere but in a count or in its delimiter is *)
(* refused, and the parser stays in it (transport.cpp:261-311).               *)
(******************************************************************************)
LEMMA FrameChanged ==
  ASSUME NEW m \in Nat, m > 0, NEW t, IsFrame(t, m), NEW s, NEW p \in 1..Len(t),
         Change(t, p, s), t[p].type \notin {"count", "eol"},
         NEW B \in Seq(Tokens), Begins(B, s)
  PROVE  RefusedWithin(B, Len(s))
<1>1. FrameTyped(t, m)
  BY FrameTypes
<1>2. Len(t) = 11 /\ p \in 1..11
  BY <1>1 DEF FrameTyped
<1>3. p \in {2, 3, 5, 7, 8, 9, 10}
  <2>1. p \in {1, 2, 3, 4, 5, 6, 7, 8, 9, 10, 11}
    BY <1>2
  <2> QED
    BY <1>1, <2>1 DEF FrameTyped
<1>4. CASE Removed(t, p, s)
  <2>1. /\ Len(s) = 10 /\ \A i \in 1..p - 1 : s[i] = t[i]
        /\ \A i \in p..10 : s[i] = t[i + 1]
    BY <1>2, <1>4 DEF Removed
  <2>2. 10 <= Len(B) /\ \A i \in 1..10 : B[i] = s[i]
    BY <2>1 DEF Begins
  <2>3. \A i \in 1..p - 1 : B[i] = t[i]
    <3>1. \A i \in 1..p - 1 : i \in 1..10
      BY <1>2
    <3> QED
      BY <2>1, <2>2, <3>1
  <2>4. B[p] = t[p + 1]
    <3>1. p \in 1..10 /\ p \in p..10
      BY <1>3
    <3> QED
      BY <2>1, <2>2, <3>1
  <2>5. p = 2 => B[3] = t[4]
    <3>1. 3 \in 1..10 /\ (p = 2 => 3 \in p..10)
      OBVIOUS
    <3> QED
      BY <2>1, <2>2, <3>1
  <2>6. B[p].type # t[p].type /\ (B[p].type = "eol" => p = 10)
    <3>1. t[p + 1].type # t[p].type /\ (t[p + 1].type = "eol" => p = 10)
      <4>1. CASE p \in {2, 3, 5}
        BY <1>1, <4>1 DEF FrameTyped
      <4>2. CASE p \in {7, 8, 9, 10}
        BY <1>1, <4>2 DEF FrameTyped
      <4> QED
        BY <1>3, <4>1, <4>2
    <3> QED
      BY <2>4, <3>1
  <2>7. p = 2 => B[p].type \notin {"checksum", "text"} /\ B[3].type # "eol"
    BY <1>1, <2>4, <2>5 DEF FrameTyped
  <2>8. B[p].type # t[p].type \/ (p = 8 /\ B[p].value # m)
    BY <2>6
  <2>9. B[p].type = "eol" => p = 10
    BY <2>6
  <2>10. 10 <= Len(B)
    BY <2>2
  <2>11. DamagedAt(B, t, p, m)
    BY <2>3, <2>7, <2>8, <2>9, <2>10 DEF DamagedAt
  <2>12. RefusedWithin(B, 10)
    BY <1>3, <2>11, FrameDamaged
  <2> QED
    BY <2>1, <2>12
<1>5. ASSUME NEW e \in Tokens, Substitute(t, p, e), Replaced(t, p, e, s)
      PROVE  RefusedWithin(B, Len(s))
  <2>1. Len(s) = 11 /\ s[p] = e /\ \A i \in 1..11 : i # p => s[i] = t[i]
    BY <1>2, <1>5 DEF Replaced
  <2>2. 11 <= Len(B) /\ \A i \in 1..11 : B[i] = s[i]
    BY <2>1 DEF Begins
  <2>3. \A i \in 1..p - 1 : B[i] = t[i]
    <3>1. \A i \in 1..p - 1 : i \in 1..11 /\ i # p
      BY <1>2
    <3> QED
      BY <2>1, <2>2, <3>1
  <2>4. B[p] = e
    BY <1>2, <2>1, <2>2
  <2>5. \/ e.type = "junk"
        \/ t[p].type = "text" /\ e.type = "text" /\ e.value = 0
    BY <1>5 DEF Substitute
  <2>6. B[p].type # t[p].type \/ (p = 8 /\ B[p].value # m)
    <3>1. t[p].type # "junk"
      BY <1>1, <1>3 DEF FrameTyped
    <3>2. t[p].type = "text" => p = 8
      BY <1>1, <1>3 DEF FrameTyped
    <3>3. m # 0
      OBVIOUS
    <3> QED
      BY <2>4, <2>5, <3>1, <3>2, <3>3
  <2>7. B[p].type # "eol"
    BY <2>4, <2>5
  <2>8. p = 2 => B[p].type \notin {"checksum", "text"} /\ B[3].type # "eol"
    <3>1. p = 2 => B[3] = t[3]
      <4>1. 3 \in 1..11 /\ (p = 2 => 3 # p)
        OBVIOUS
      <4> DEFINE three == 3
      <4>2. three \in 1..11 /\ (p = 2 => three # p)
        BY <4>1
      <4> HIDE DEF three
      <4>3. p = 2 => B[three] = t[three]
        BY <2>1, <2>2, <4>2
      <4> QED
        BY <4>3 DEF three
    <3>2. p = 2 => e.type = "junk"
      BY <1>1, <2>5 DEF FrameTyped
    <3> QED
      BY <1>1, <2>4, <3>1, <3>2 DEF FrameTyped
  <2>9. 10 <= Len(B)
    BY <2>2
  <2>10. DamagedAt(B, t, p, m)
    BY <2>3, <2>6, <2>7, <2>8, <2>9 DEF DamagedAt
  <2>11. RefusedWithin(B, 10)
    BY <1>3, <2>10, FrameDamaged
  <2>12. PICK q \in 0..10 : Outcome(B, q, Nothing)
    BY <2>11 DEF RefusedWithin
  <2>13. q \in 0..11
    OBVIOUS
  <2> QED
    BY <2>1, <2>12, <2>13 DEF RefusedWithin
<1> QED
  BY <1>4, <1>5 DEF Change

(******************************************************************************)
(* A bare object at the start of the buffer, intact and damaged.  With its    *)
(* last brace lost, the parser skips the delimiter to look for it in the next *)
(* line.                                                                      *)
(******************************************************************************)
LEMMA BareIntact ==
  ASSUME NEW m \in Nat, NEW t, IsBare(t, m), NEW B \in Seq(Tokens), Begins(B, t)
  PROVE  Outcome(B, 3, m)
<1>1. /\ Len(t) = 4 /\ t[1].type = "open" /\ t[2].type = "text" /\ t[3].type = "close"
      /\ t[2].message = m
  BY DEF IsBare, Token
<1>2. 4 <= Len(B) /\ \A i \in 1..4 : B[i] = t[i]
  BY <1>1 DEF Begins
<1>3. B[1].type = "open" /\ B[2].type = "text" /\ B[3].type = "close" /\ B[2].message = m
  BY <1>1, <1>2
<1>4. Drop(B, 0) = B
  BY DropAll
<1>5. ParseStream(B) = [message |-> m, rest |-> Drop(B, 3)]
  <2> DEFINE k == 0
  <2>1. k \in Nat /\ k + 3 <= Len(B) /\ k + 1 = 1 /\ k + 2 = 2 /\ k + 3 = 3 /\ Drop(B, k) = B
    BY <1>2, <1>4
  <2> HIDE DEF k
  <2>2. B[k + 1].type = "open" /\ B[k + 2].type = "text" /\ B[k + 3].type = "close"
    BY <1>3, <2>1
  <2>3. ParseStream(Drop(B, k)) = [message |-> B[k + 2].message, rest |-> Drop(B, k + 3)]
    BY <2>1, <2>2, StreamWhole
  <2> QED
    BY <1>3, <2>1, <2>3
<1>6. StartsWith(B, "open")
  <2>1. 0 \in Nat /\ 0 <= Len(B) /\ 0 < Len(B) /\ B[0 + 1].type = "open"
    BY <1>2, <1>3
  <2>2. StartsWith(Drop(B, 0), "open")
    BY <2>1, StartsAt
  <2> QED
    BY <1>4, <2>2
<1> QED
  BY <1>5, <1>6 DEF Outcome, ParseMessage

(******************************************************************************)
(* Without the first brace there is neither an object nor a field.            *)
(******************************************************************************)
LEMMA NeitherParsed ==
  ASSUME NEW B \in Seq(Tokens), 0 < Len(B), B[1].type \notin {"open", "count", "eol"}
  PROVE  Outcome(B, 0, Nothing)
<1> DEFINE f == ParseStates(Start(B))
           p == Start(B)
<1>1. 0 \in Nat /\ 0 <= Len(B) /\ 0 + 1 = 1 /\ B[0 + 1].type # "eol" /\ Drop(B, 0) = B
  BY DropAll
<1>2. SkipSpace(B) = B
  <2>1. SkipSpace(Drop(B, 0)) = Drop(B, 0)
    BY <1>1, SkipNone
  <2> QED
    BY <1>1, <2>1
<1>3. ~StartsWith(B, "open") /\ ~StartsWith(B, "count")
  <2>1. ~StartsWith(Drop(B, 0), "open")
    BY <1>1, StartsAt
  <2>2. ~StartsWith(Drop(B, 0), "count")
    BY <1>1, StartsAt
  <2> QED
    BY <1>1, <2>1, <2>2
<1>4. p \in ParserStates /\ p.rest = B /\ p.message = Nothing /\ p.done = FALSE /\ f[0] = p
  <2>1. p.done = FALSE
    BY DEF Start
  <2> QED
    BY <2>1, StartFacts DEF FieldStates, IsLoop
<1>5. ParseField(p) = Throw(p, Drop(B, 0))
  <2> HIDE DEF p
  <2> QED
    BY <1>1, <1>2, <1>3, <1>4 DEF ParseField
<1>6. 1 \in 1..Len(B) + 1 /\ 1 - 1 = 0
  OBVIOUS
<1>7. f[1] = ParseField(p)
  BY <1>4, <1>6, LoopStep
<1> HIDE DEF f, p
<1>8. EndedAt(B, f[1], 0, Nothing)
  BY <1>4, <1>5, <1>7, ThrowEnds
<1> QED
  BY <1>3, <1>6, <1>8, LoopOutcome DEF f

(******************************************************************************)
(* A bare object with a token lost or garbled is no object.                   *)
(******************************************************************************)
LEMMA ObjectRefused ==
  ASSUME NEW B \in Seq(Tokens), 3 <= Len(B), B[1].type = "open",
         \/ B[2].type \notin {"text", "eol"}
         \/ B[2].type = "text" /\ B[3].type \notin {"close", "eol"}
         \/ /\ B[2].type = "text" /\ B[3].type = "eol"
            /\ Len(B) > 3 => B[4].type \notin {"close", "eol"}
  PROVE  RefusedWithin(B, 3)
<1> DEFINE n == Len(B)
           first == SkipSpace(B)
           second == SkipSpace(From(first, 2))
           third == SkipSpace(From(second, 2))
           stream == ParseStream(B)
<1>1. n \in Nat /\ n >= 3 /\ 0 \in Nat /\ 0 < n /\ 0 + 1 = 1 /\ 1 + 1 = 2 /\ 2 + 1 = 3 /\ Drop(B, 0) = B
  BY DropAll
<1>2. stream = IF ~StartsWith(first, "open") THEN [message |-> Nothing, rest |-> first]
               ELSE IF ~StartsWith(second, "text") THEN [message |-> Nothing, rest |-> second]
               ELSE IF ~StartsWith(third, "close") THEN [message |-> Nothing, rest |-> third]
               ELSE [message |-> Head(second).message, rest |-> Tail(third)]
  BY DEF ParseStream
<1> HIDE DEF stream
<1>3. first = B
  <2>1. SkipSpace(Drop(B, 0)) = Drop(B, 0)
    <3>1. 0 < Len(B) /\ B[0 + 1].type # "eol"
      OBVIOUS
    <3> QED
      BY <1>1, <3>1, SkipNone
  <2> QED
    BY <1>1, <2>1
<1>4. StartsWith(B, "open")
  <2>1. 0 <= Len(B) /\ 0 < Len(B) /\ B[0 + 1].type = "open"
    OBVIOUS
  <2>2. StartsWith(Drop(B, 0), "open")
    BY <1>1, <2>1, StartsAt
  <2> QED
    BY <1>1, <2>2
<1>5. From(first, 2) = Drop(B, 1)
  BY <1>3 DEF Drop
<1> HIDE DEF first
<1>6. B[2].type # "eol"
  OBVIOUS
<1>7. second = Drop(B, 1)
  <2>1. SkipSpace(Drop(B, 1)) = Drop(B, 1)
    <3>1. 1 \in Nat /\ 1 < Len(B) /\ B[1 + 1].type # "eol"
      BY <1>6
    <3> QED
      BY <3>1, SkipNone
  <2> QED
    BY <1>5, <2>1
<1> HIDE DEF second
<1>8. StartsWith(second, "text") <=> B[2].type = "text"
  <2>1. 1 \in Nat /\ 1 <= Len(B) /\ 1 < Len(B) /\ 1 + 1 = 2
    OBVIOUS
  <2>2. StartsWith(Drop(B, 1), "text") <=> (1 < Len(B) /\ B[1 + 1].type = "text")
    BY <2>1, StartsAt
  <2> QED
    BY <1>7, <2>1, <2>2
<1>9. ParseMessage(B) = stream
  BY <1>4 DEF ParseMessage, stream
<1>10. CASE B[2].type # "text"
  <2>1. stream = [message |-> Nothing, rest |-> Drop(B, 1)]
    BY <1>2, <1>3, <1>4, <1>7, <1>8, <1>10
  <2>2. Outcome(B, 1, Nothing) /\ 1 \in 0..3
    BY <1>9, <2>1 DEF Outcome
  <2> QED
    BY <2>2 DEF RefusedWithin
<1>11. CASE B[2].type = "text"
  <2>1. From(second, 2) = Drop(B, 2)
    <3>1. Drop(Drop(B, 1), 1) = Drop(B, 1 + 1)
      <4>1. 1 \in Nat /\ 1 + 1 <= Len(B)
        OBVIOUS
      <4> QED
        BY <4>1, DropDrop
    <3>2. Drop(second, 1) = From(second, 2)
      BY DEF Drop
    <3> QED
      BY <1>1, <1>7, <3>1, <3>2
  <2>2. PICK q \in 2..n : IsSkip(B, 2, q)
    <3>1. 2 \in Nat /\ 2 <= Len(B)
      OBVIOUS
    <3> QED
      BY <3>1, SkipAt
  <2>3. /\ third = Drop(B, q)
        /\ \A i \in 2 + 1..q : B[i].type = "eol"
        /\ q < n => B[q + 1].type # "eol"
    BY <2>1, <2>2 DEF IsSkip
  <2> HIDE DEF third
  <2>4. q \in {2, 3} /\ (q < n => B[q + 1].type # "close")
    <3>1. CASE B[3].type # "eol"
      <4>1. q = 2
        <5>1. q # 2 => 3 \in 2 + 1..q
          BY <1>1
        <5> QED
          BY <2>3, <3>1, <5>1
      <4>2. B[3].type # "close"
        BY <1>11, <3>1
      <4> QED
        BY <4>1, <4>2
    <3>2. CASE B[3].type = "eol"
      <4>1. n > 3 => B[4].type \notin {"close", "eol"}
        BY <1>11, <3>2
      <4>2. q # 2
        <5>1. q = 2 => q < n /\ q + 1 = 3
          BY <1>1
        <5> QED
          BY <2>3, <3>2, <5>1
      <4>3. q = 3
        <5>1. q # 3 => 4 \in 2 + 1..q /\ n > 3
          BY <1>1, <4>2
        <5> QED
          BY <2>3, <4>1, <5>1
      <4> QED
        BY <4>1, <4>3
    <3> QED
      BY <3>1, <3>2
  <2>5. ~StartsWith(third, "close")
    <3>1. q \in Nat /\ q <= n
      BY <1>1
    <3>2. StartsWith(Drop(B, q), "close") <=> (q < Len(B) /\ B[q + 1].type = "close")
      BY <3>1, StartsAt
    <3> QED
      BY <2>3, <2>4, <3>2
  <2>6. stream = [message |-> Nothing, rest |-> Drop(B, q)]
    BY <1>2, <1>3, <1>4, <1>8, <1>11, <2>3, <2>5
  <2>7. Outcome(B, q, Nothing) /\ q \in 0..3
    BY <1>9, <2>4, <2>6 DEF Outcome
  <2> QED
    BY <2>7 DEF RefusedWithin
<1> QED
  BY <1>10, <1>11

(******************************************************************************)
(* So a bare object that was damaged anywhere but in its delimiter is         *)
(* refused, and the parser stays in it (transport.cpp:251-259).               *)
(******************************************************************************)
LEMMA BareChanged ==
  ASSUME NEW m \in Nat, NEW t, IsBare(t, m), NEW s, NEW p \in 1..Len(t),
         Change(t, p, s), t[p].type \notin {"count", "eol"},
         NEW B \in Seq(Tokens), Begins(B, s),
         Len(s) < Len(B) => B[Len(s) + 1].type \notin {"eol", "close"}
  PROVE  RefusedWithin(B, Len(s))
<1>1. /\ Len(t) = 4 /\ t[1].type = "open" /\ t[2].type = "text" /\ t[3].type = "close"
      /\ t[4].type = "eol"
  BY DEF IsBare, Token
<1>2. p \in {1, 2, 3}
  <2>1. p \in {1, 2, 3, 4}
    BY <1>1
  <2> QED
    BY <1>1, <2>1
<1>3. CASE Removed(t, p, s)
  <2>1. /\ Len(s) = 3 /\ \A i \in 1..p - 1 : s[i] = t[i]
        /\ \A i \in p..3 : s[i] = t[i + 1]
    BY <1>1, <1>3 DEF Removed
  <2>2. 3 <= Len(B) /\ B[1] = s[1] /\ B[2] = s[2] /\ B[3] = s[3]
    BY <2>1 DEF Begins
  <2>3. CASE p = 1
    <3>1. s[1] = t[2]
      BY <2>1, <2>3
    <3>2. 0 < Len(B) /\ B[1].type \notin {"open", "count", "eol"}
      BY <1>1, <2>2, <3>1
    <3>3. Outcome(B, 0, Nothing) /\ 0 \in 0..Len(s)
      BY <2>1, <3>2, NeitherParsed
    <3> QED
      BY <3>3 DEF RefusedWithin
  <2>4. CASE p = 2
    <3>1. s[1] = t[1] /\ s[2] = t[3]
      BY <2>1, <2>4
    <3>2. B[1].type = "open" /\ B[2].type \notin {"text", "eol"}
      BY <1>1, <2>2, <3>1
    <3> QED
      BY <2>1, <2>2, <3>2, ObjectRefused
  <2>5. CASE p = 3
    <3>1. s[1] = t[1] /\ s[2] = t[2] /\ s[3] = t[4]
      BY <2>1, <2>5
    <3>2. B[1].type = "open" /\ B[2].type = "text" /\ B[3].type = "eol"
      BY <1>1, <2>2, <3>1
    <3>3. Len(B) > 3 => B[4].type \notin {"close", "eol"}
      BY <2>1
    <3> QED
      BY <2>1, <2>2, <3>2, <3>3, ObjectRefused
  <2> QED
    BY <1>2, <2>3, <2>4, <2>5
<1>4. ASSUME NEW e \in Tokens, Substitute(t, p, e), Replaced(t, p, e, s)
      PROVE  RefusedWithin(B, Len(s))
  <2>1. Len(s) = 4 /\ s[p] = e /\ \A i \in 1..4 : i # p => s[i] = t[i]
    BY <1>1, <1>4 DEF Replaced
  <2>2. 3 <= Len(B) /\ B[1] = s[1] /\ B[2] = s[2] /\ B[3] = s[3]
    BY <2>1 DEF Begins
  <2>3. e.type = "junk"
    BY <1>1, <1>4 DEF Substitute
  <2>4. CASE p = 1
    <3>1. 0 < Len(B) /\ B[1].type \notin {"open", "count", "eol"}
      BY <2>1, <2>2, <2>3, <2>4
    <3>2. Outcome(B, 0, Nothing) /\ 0 \in 0..Len(s)
      BY <2>1, <3>1, NeitherParsed
    <3> QED
      BY <3>2 DEF RefusedWithin
  <2>5. CASE p = 2
    <3>1. B[1].type = "open" /\ B[2].type \notin {"text", "eol"}
      BY <1>1, <2>1, <2>2, <2>3, <2>5
    <3>2. RefusedWithin(B, 3)
      BY <2>2, <3>1, ObjectRefused
    <3> QED
      BY <2>1, <3>2 DEF RefusedWithin
  <2>6. CASE p = 3
    <3>1. B[1].type = "open" /\ B[2].type = "text" /\ B[3].type \notin {"close", "eol"}
      BY <1>1, <2>1, <2>2, <2>3, <2>6
    <3>2. RefusedWithin(B, 3)
      BY <2>2, <3>1, ObjectRefused
    <3> QED
      BY <2>1, <3>2 DEF RefusedWithin
  <2> QED
    BY <1>2, <2>4, <2>5, <2>6
<1> QED
  BY <1>3, <1>4 DEF Change

(******************************************************************************)
(* Together: with a message at the start of the buffer whose counts and whose *)
(* delimiter are right, the parser stays within it; it returns the message    *)
(* when it is intact, and nothing when it is not.                             *)
(******************************************************************************)
LEMMA MessageParsed ==
  ASSUME NEW m \in Nat, m > 0, NEW s, NEW d, IsForm(m, s, d), d \notin {"count", "eol"},
         NEW B \in Seq(Tokens), Begins(B, s),
         Len(s) < Len(B) => B[Len(s) + 1].type \notin {"eol", "close"}
  PROVE  \E q \in 0..Len(s) : Outcome(B, q, IF d = "none" THEN m ELSE Nothing)
<1>1. PICK t : /\ Template(m, t)
               /\ \/ d = "none" /\ s = t
                  \/ \E p \in 1..Len(t) : Change(t, p, s) /\ d = t[p].type
  BY DEF IsForm
<1>2. CASE d = "none" /\ s = t
  <2>1. CASE IsFrame(t, m)
    <3>1. Outcome(B, 9, m)
      BY <1>2, <2>1, FrameIntact
    <3>2. 9 \in 0..Len(s)
      BY <1>2, <2>1 DEF IsFrame
    <3> QED
      BY <1>2, <3>1, <3>2
  <2>2. CASE IsBare(t, m)
    <3>1. Outcome(B, 3, m)
      BY <1>2, <2>2, BareIntact
    <3>2. 3 \in 0..Len(s)
      BY <1>2, <2>2 DEF IsBare
    <3> QED
      BY <1>2, <3>1, <3>2
  <2> QED
    BY <1>1, <2>1, <2>2 DEF Template
<1>3. ASSUME NEW p \in 1..Len(t), Change(t, p, s), d = t[p].type
      PROVE  \E q \in 0..Len(s) : Outcome(B, q, IF d = "none" THEN m ELSE Nothing)
  <2>1. RefusedWithin(B, Len(s))
    <3>1. t[p].type \notin {"count", "eol"}
      BY <1>3
    <3>2. CASE IsFrame(t, m)
      BY <1>3, <3>1, <3>2, FrameChanged
    <3>3. CASE IsBare(t, m)
      BY <1>3, <3>1, <3>3, BareChanged
    <3> QED
      BY <1>1, <3>2, <3>3 DEF Template
  <2>2. d # "none"
    <3>1. CASE IsFrame(t, m)
      <4>1. Len(t) = 11 /\ p \in {1, 2, 3, 4, 5, 6, 7, 8, 9, 10, 11}
        BY <3>1 DEF IsFrame
      <4>2. FrameTyped(t, m)
        BY <3>1, FrameTypes
      <4> QED
        BY <1>3, <4>1, <4>2 DEF FrameTyped
    <3>2. CASE IsBare(t, m)
      <4>1. /\ Len(t) = 4 /\ t[1].type = "open" /\ t[2].type = "text" /\ t[3].type = "close"
            /\ t[4].type = "eol"
        BY <3>2 DEF IsBare, Token
      <4>2. p \in {1, 2, 3, 4}
        BY <4>1
      <4> QED
        BY <1>3, <4>1, <4>2
    <3> QED
      BY <1>1, <3>1, <3>2 DEF Template
  <2> QED
    BY <2>1, <2>2 DEF RefusedWithin
<1> QED
  BY <1>1, <1>2, <1>3

--------------------------------------------------------------------------------
(******************************************************************************)
(* The stream is what is in the buffer and what is still on its way.  A       *)
(* message is whole in it, or has gone by, or is the first in it and has been *)
(* exposed: the parser took some of its tokens in a line of another one.      *)
(******************************************************************************)
BlockAt(S, s, m, a) ==
  /\ a + Len(s) <= Len(S)
  /\ \A i \in 1..Len(s) : S[a + i] = s[i]
  /\ \A i \in 1..a : S[i].message < m
  /\ \A i \in a + Len(s) + 1..Len(S) : S[i].message > m

(******************************************************************************)
(* The message s with number m is whole in the stream S.                      *)
(******************************************************************************)
Whole(S, s, m) == \E a \in 0..Len(S) : BlockAt(S, s, m, a)

(******************************************************************************)
(* No token of message m is left in the stream, nor of one before it.         *)
(******************************************************************************)
Gone(S, m) == \A i \in 1..Len(S) : S[i].message > m

(******************************************************************************)
(* What is left of message m is at the start of the stream, and m was         *)
(* exposed.                                                                   *)
(******************************************************************************)
Started(S, E, m) == 0 < Len(S) /\ S[1].message = m /\ m \in E

(******************************************************************************)
(* One of these is true of every message that was sent.                       *)
(******************************************************************************)
Placed(S, s, E, m) == Whole(S, s, m) \/ Gone(S, m) \/ Started(S, E, m)

(******************************************************************************)
(* The tokens of a stream are of messages 1 to n, in their order, at most one *)
(* of each a text.                                                            *)
(******************************************************************************)
InOrder(S, n) ==
  /\ \A i \in 1..Len(S) : S[i].message \in 1..n
  /\ \A i, j \in 1..Len(S) : i < j => S[i].message <= S[j].message
  /\ \A i, j \in 1..Len(S) :
       i < j /\ S[i].type = "text" /\ S[j].type = "text" => S[i].message < S[j].message

(******************************************************************************)
(* The messages V are delivered in order, and before every text in the        *)
(* stream.                                                                    *)
(******************************************************************************)
InOrderBefore(V, S, n) ==
  /\ \A i \in 1..Len(V) - 1 : V[i] < V[i + 1]
  /\ \A i \in 1..Len(V) : V[i] \in 1..n
  /\ \A i \in 1..Len(V), j \in 1..Len(S) : S[j].type = "text" => V[i] < S[j].message

(******************************************************************************)
(* Message m was delivered.                                                   *)
(******************************************************************************)
Among(V, m) == \E i \in 1..Len(V) : V[i] = m

(******************************************************************************)
(* What became of a message that was not exposed.                             *)
(******************************************************************************)
Fate(S, s, d, V, m) ==
  \/ Whole(S, s, m) /\ ~Among(V, m)
  \/ /\ Gone(S, m)
     /\ d = "none" => Among(V, m)
     /\ d \in {"open", "text", "close"} => ~Among(V, m)

(******************************************************************************)
(* A stream from which the first c tokens were taken.                         *)
(******************************************************************************)
TakenFrom(S, c, T) ==
  /\ c \in 1..Len(S) /\ T \in Seq(Tokens) /\ Len(T) = Len(S) - c
  /\ \A i \in 1..Len(T) : T[i] = S[c + i] /\ c + i \in 1..Len(S)

(******************************************************************************)
(* Taking tokens from the front of the stream leaves the rest in order.       *)
(******************************************************************************)
LEMMA TakenInOrder ==
  ASSUME NEW S \in Seq(Tokens), NEW c, NEW T, TakenFrom(S, c, T), NEW n \in Nat, InOrder(S, n)
  PROVE  InOrder(T, n)
<1>1. /\ c \in Nat /\ Len(T) \in Nat
      /\ \A i \in 1..Len(T) : T[i] = S[c + i] /\ c + i \in 1..Len(S)
  BY DEF TakenFrom
<1>2. \A i \in 1..Len(T) : T[i].message \in 1..n
  BY <1>1 DEF InOrder
<1>3. ASSUME NEW i \in 1..Len(T), NEW j \in 1..Len(T), i < j
      PROVE  /\ T[i].message <= T[j].message
             /\ T[i].type = "text" /\ T[j].type = "text" => T[i].message < T[j].message
  <2> DEFINE x == c + i
             y == c + j
  <2>1. T[i] = S[x] /\ T[j] = S[y] /\ x \in 1..Len(S) /\ y \in 1..Len(S) /\ x < y
    BY <1>1, <1>3
  <2> HIDE DEF x, y
  <2>2. /\ S[x].message <= S[y].message
        /\ S[x].type = "text" /\ S[y].type = "text" => S[x].message < S[y].message
    BY <2>1 DEF InOrder
  <2> QED
    BY <2>1, <2>2
<1> QED
  BY <1>2, <1>3 DEF InOrder

(******************************************************************************)
(* What has gone by stays gone.                                               *)
(******************************************************************************)
LEMMA TakenGone ==
  ASSUME NEW S, NEW c, NEW T, TakenFrom(S, c, T), NEW m, Gone(S, m)
  PROVE  Gone(T, m)
  BY DEF TakenFrom, Gone

(******************************************************************************)
(* A message that is whole behind the taken tokens stays whole; one among     *)
(* them has gone.                                                             *)
(******************************************************************************)
LEMMA TakenBefore ==
  ASSUME NEW S \in Seq(Tokens), NEW c, NEW T, TakenFrom(S, c, T),
         NEW s \in Seq(Tokens), NEW m \in Nat, NEW a \in 0..Len(S), BlockAt(S, s, m, a), c <= a
  PROVE  Whole(T, s, m)
<1> DEFINE b == a - c
<1>1. /\ c \in Nat /\ Len(T) = Len(S) - c /\ Len(S) \in Nat /\ Len(s) \in Nat
      /\ \A i \in 1..Len(T) : T[i] = S[c + i]
  BY DEF TakenFrom
<1>2. b \in 0..Len(T) /\ b \in Nat /\ c + b = a
  BY <1>1
<1>3. /\ a + Len(s) <= Len(S)
      /\ \A i \in 1..Len(s) : S[a + i] = s[i]
      /\ \A i \in 1..a : S[i].message < m
      /\ \A i \in a + Len(s) + 1..Len(S) : S[i].message > m
  BY DEF BlockAt
<1> HIDE DEF b
<1>4. b + Len(s) <= Len(T)
  BY <1>1, <1>2, <1>3
<1>5. ASSUME NEW i \in 1..Len(s) PROVE T[b + i] = s[i]
  <2> DEFINE x == b + i
  <2>1. x \in 1..Len(T) /\ c + x = a + i
    BY <1>1, <1>2, <1>4
  <2> HIDE DEF x
  <2>2. T[x] = S[a + i]
    BY <1>1, <2>1
  <2> QED
    BY <1>3, <2>2 DEF x
<1>6. ASSUME NEW i \in 1..b PROVE T[i].message < m
  <2>1. i \in 1..Len(T) /\ c + i \in 1..a
    BY <1>1, <1>2
  <2> QED
    BY <1>1, <1>3, <2>1
<1>7. ASSUME NEW i \in b + Len(s) + 1..Len(T) PROVE T[i].message > m
  <2>1. i \in 1..Len(T) /\ c + i \in a + Len(s) + 1..Len(S)
    BY <1>1, <1>2
  <2> QED
    BY <1>1, <1>3, <2>1
<1>8. BlockAt(T, s, m, b)
  BY <1>4, <1>5, <1>6, <1>7 DEF BlockAt
<1> QED
  BY <1>2, <1>8 DEF Whole

(******************************************************************************)
(* A message that ends within the taken tokens has gone.                      *)
(******************************************************************************)
LEMMA TakenWith ==
  ASSUME NEW S \in Seq(Tokens), NEW c, NEW T, TakenFrom(S, c, T),
         NEW s \in Seq(Tokens), NEW m \in Nat, NEW a \in 0..Len(S), BlockAt(S, s, m, a),
         a + Len(s) <= c
  PROVE  Gone(T, m)
<1>1. /\ c \in Nat /\ Len(T) = Len(S) - c /\ Len(S) \in Nat /\ Len(s) \in Nat
      /\ \A i \in 1..Len(T) : T[i] = S[c + i]
  BY DEF TakenFrom
<1>2. ASSUME NEW i \in 1..Len(T) PROVE T[i].message > m
  <2>1. c + i \in a + Len(s) + 1..Len(S)
    BY <1>1
  <2> QED
    BY <1>1, <2>1 DEF BlockAt
<1> QED
  BY <1>2 DEF Gone

(******************************************************************************)
(* What the handler exposes: all it takes tokens of but the first message.    *)
(******************************************************************************)
Exposes(S, c, E, F) == F = E \cup ({S[i].message : i \in 1..c} \ {S[1].message})

(******************************************************************************)
(* The first message, when it is whole, is taken as a whole.                  *)
(******************************************************************************)
FirstTaken(S, c, W) ==
  Whole(S, W[S[1].message], S[1].message) => Len(W[S[1].message]) <= c

(******************************************************************************)
(* When the message that the stream starts with is whole, it begins there.    *)
(******************************************************************************)
LEMMA WholeFirst ==
  ASSUME NEW S \in Seq(Tokens), 0 < Len(S), NEW s \in Seq(Tokens),
         NEW a \in 0..Len(S), BlockAt(S, s, S[1].message, a)
  PROVE  a = 0
<1>1. ASSUME a # 0 PROVE FALSE
  <2>1. 1 \in 1..a /\ 1 \in 1..Len(S)
    BY <1>1
  <2>2. S[1].message < S[1].message
    BY <2>1 DEF BlockAt
  <2>3. S[1] \in Tokens
    BY <2>1, ElementOfSeq
  <2>4. S[1].message \in Nat
    BY <2>3 DEF Tokens
  <2> QED
    BY <2>2, <2>4
<1> QED
  BY <1>1

(******************************************************************************)
(* After the handler every message is placed in what is left of the stream:   *)
(* one that is broken off is one that the handler exposed, for the first      *)
(* message is taken as a whole.                                               *)
(******************************************************************************)
LEMMA TakenPlaced ==
  ASSUME NEW S \in Seq(Tokens), NEW c, NEW T, TakenFrom(S, c, T), NEW n \in Nat, InOrder(S, n),
         NEW W, NEW E, NEW F, Exposes(S, c, E, F), FirstTaken(S, c, W),
         NEW m \in Nat, W[m] \in Seq(Tokens), \A i \in 1..Len(W[m]) : W[m][i].message = m,
         Placed(S, W[m], E, m)
  PROVE  Placed(T, W[m], F, m)
<1> DEFINE s == W[m]
           h == S[1].message
<1>1. /\ c \in 1..Len(S) /\ c \in Nat /\ T \in Seq(Tokens) /\ Len(T) = Len(S) - c
      /\ Len(S) \in Nat /\ Len(T) \in Nat /\ Len(s) \in Nat /\ 1 \in 1..Len(S) /\ 0 < Len(S)
      /\ \A i \in 1..Len(T) : T[i] = S[c + i] /\ c + i \in 1..Len(S)
  BY DEF TakenFrom
<1>2. E \subseteq F /\ \A i \in 1..c : S[i].message # h => S[i].message \in F
  BY DEF Exposes
<1>3. InOrder(T, n)
  BY TakenInOrder
<1>4. CASE Gone(S, m)
  BY <1>4, TakenGone DEF Placed
<1>5. CASE Started(S, E, m)
  <2>1. h = m /\ m \in F
    BY <1>2, <1>5 DEF Started
  <2>2. \A i \in 1..Len(T) : T[i].message >= m
    <3> SUFFICES ASSUME NEW i \in 1..Len(T) PROVE T[i].message >= m
      OBVIOUS
    <3>1. T[i] = S[c + i] /\ c + i \in 1..Len(S) /\ 1 < c + i
      BY <1>1
    <3>2. S[1].message <= S[c + i].message /\ S[c + i].message \in 1..n
      BY <1>1, <3>1 DEF InOrder
    <3> QED
      BY <2>1, <3>1, <3>2
  <2>3. CASE 0 < Len(T) /\ T[1].message = m
    BY <2>1, <2>3 DEF Started, Placed
  <2>4. CASE ~(0 < Len(T) /\ T[1].message = m)
    <3>1. ASSUME NEW i \in 1..Len(T) PROVE T[i].message > m
      <4>1. 1 \in 1..Len(T) /\ 0 < Len(T)
        BY <1>1
      <4>2. T[1].message >= m /\ T[1].message # m /\ T[1].message \in Nat /\ T[i].message \in Nat
        BY <1>3, <2>2, <2>4, <4>1 DEF InOrder
      <4>3. i = 1 \/ T[1].message <= T[i].message
        BY <1>1, <1>3, <4>1 DEF InOrder
      <4> QED
        BY <4>2, <4>3
    <3> QED
      BY <3>1 DEF Gone, Placed
  <2> QED
    BY <2>3, <2>4
<1>6. CASE Whole(S, s, m)
  <2>1. PICK a \in 0..Len(S) : BlockAt(S, s, m, a)
    BY <1>6 DEF Whole
  <2>2. CASE c <= a
    BY <2>1, <2>2, TakenBefore DEF Placed
  <2>3. CASE a + Len(s) <= c
    BY <2>1, <2>3, TakenWith DEF Placed
  <2>4. CASE a < c /\ c < a + Len(s)
    <3>1. \A i \in 1..Len(s) : S[a + i].message = m
      BY <2>1 DEF BlockAt
    <3>2. a + Len(s) <= Len(S)
      BY <2>1 DEF BlockAt
    <3>3. 0 < Len(T) /\ T[1].message = m
      <4> DEFINE i == c + 1 - a
      <4>1. i \in 1..Len(s) /\ a + i = c + 1 /\ 1 \in 1..Len(T) /\ 0 < Len(T)
        BY <1>1, <2>4, <3>2
      <4> HIDE DEF i
      <4>2. S[a + i].message = m
        BY <3>1, <4>1
      <4>3. S[c + 1].message = m
        BY <4>1, <4>2
      <4> QED
        BY <1>1, <4>1, <4>3
    <3>4. m # h
      <4> SUFFICES ASSUME m = h PROVE FALSE
        OBVIOUS
      <4>1. a = 0
        BY <1>1, <2>1, WholeFirst
      <4>2. Len(s) <= c
        BY <1>6 DEF FirstTaken
      <4> QED
        BY <1>1, <2>4, <4>1, <4>2
    <3>5. m \in F
      <4>1. a + 1 \in 1..c /\ 1 \in 1..Len(s)
        BY <1>1, <2>4
      <4>2. S[a + 1].message = m
        BY <3>1, <4>1
      <4> QED
        BY <1>2, <3>4, <4>1, <4>2
    <3> QED
      BY <3>3, <3>5 DEF Started, Placed
  <2> QED
    BY <1>1, <2>2, <2>3, <2>4
<1> QED
  BY <1>4, <1>5, <1>6 DEF Placed

(******************************************************************************)
(* The message that the handler delivers, if any, is one whose text it takes. *)
(******************************************************************************)
Handed(V, r) == IF r = Nothing THEN V ELSE Append(V, r)

(******************************************************************************)
(* What is delivered after the handler.                                       *)
(******************************************************************************)
LEMMA HandedFacts ==
  ASSUME NEW V \in Seq(Nat), NEW r, r = Nothing \/ r \in Nat
  PROVE  /\ Handed(V, r) \in Seq(Nat)
         /\ r = Nothing => Handed(V, r) = V
         /\ r # Nothing => /\ Len(Handed(V, r)) = Len(V) + 1
                           /\ \A i \in 1..Len(V) : Handed(V, r)[i] = V[i]
                           /\ Handed(V, r)[Len(V) + 1] = r
<1>1. CASE r = Nothing
  BY <1>1 DEF Handed
<1>2. CASE r # Nothing
  <2>1. r \in Nat
    BY <1>2
  <2>2. Handed(V, r) = Append(V, r)
    BY <1>2 DEF Handed
  <2> QED
    BY <1>2, <2>1, <2>2, AppendProperties
<1> QED
  BY <1>1, <1>2

(******************************************************************************)
(* The message that the parser returned is one that had a text in what it     *)
(* took.                                                                      *)
(******************************************************************************)
LEMMA TakenText ==
  ASSUME NEW S \in Seq(Tokens), NEW c, NEW T, TakenFrom(S, c, T), NEW r, TookText(S, c, r)
  PROVE  \/ r = Nothing
         \/ /\ r \in Nat
            /\ \E i \in 1..c : i \in 1..Len(S) /\ S[i].type = "text" /\ S[i].message = r
<1>1. c \in 1..Len(S)
  BY DEF TakenFrom
<1>2. CASE r # Nothing
  <2>1. PICK i \in 1..c : S[i].type = "text" /\ S[i].message = r
    BY <1>2 DEF TookText
  <2>2. i \in 1..Len(S)
    BY <1>1
  <2>3. S[i] \in Tokens
    BY <2>2, ElementOfSeq
  <2>4. r \in Nat
    BY <2>1, <2>3 DEF Tokens
  <2> QED
    BY <2>1, <2>2, <2>4
<1> QED
  BY <1>2

(******************************************************************************)
(* Delivered messages stay in order and ahead of the stream: the text that    *)
(* was delivered was taken from it, and there is only one of each message     *)
(* (transport.cpp:319-323).                                                   *)
(******************************************************************************)
LEMMA HandedInOrder ==
  ASSUME NEW S \in Seq(Tokens), NEW c, NEW T, TakenFrom(S, c, T), NEW n \in Nat, InOrder(S, n),
         NEW V \in Seq(Nat), InOrderBefore(V, S, n), NEW r, TookText(S, c, r)
  PROVE  InOrderBefore(Handed(V, r), T, n)
<1> DEFINE X == Handed(V, r)
<1>1. /\ c \in 1..Len(S) /\ c \in Nat /\ Len(S) \in Nat /\ Len(T) \in Nat /\ Len(V) \in Nat
      /\ \A i \in 1..Len(T) : T[i] = S[c + i] /\ c + i \in 1..Len(S)
  BY DEF TakenFrom
<1>2. /\ \A i \in 1..Len(V) - 1 : V[i] < V[i + 1]
      /\ \A i \in 1..Len(V) : V[i] \in 1..n
      /\ \A i \in 1..Len(V), j \in 1..Len(S) : S[j].type = "text" => V[i] < S[j].message
  BY DEF InOrderBefore
<1>3. \/ r = Nothing
      \/ /\ r \in Nat
         /\ \E i \in 1..c : i \in 1..Len(S) /\ S[i].type = "text" /\ S[i].message = r
  BY TakenText
<1>4. \A i \in 1..Len(V), j \in 1..Len(T) : T[j].type = "text" => V[i] < T[j].message
  BY <1>1, <1>2
<1>5. CASE r = Nothing
  <2>1. X = V
    BY <1>5 DEF Handed
  <2> QED
    BY <1>2, <1>4, <2>1 DEF InOrderBefore
<1>6. CASE r # Nothing
  <2>1. PICK k \in 1..c : k \in 1..Len(S) /\ S[k].type = "text" /\ S[k].message = r
    BY <1>3, <1>6
  <2>2. r \in 1..n
    BY <2>1 DEF InOrder
  <2>3. /\ Len(X) = Len(V) + 1 /\ X[Len(V) + 1] = r
        /\ \A i \in 1..Len(V) : X[i] = V[i]
    BY <1>3, <1>6, HandedFacts
  <2> HIDE DEF X
  <2>4. \A i \in 1..Len(V) : V[i] < r
    BY <1>2, <2>1
  <2>5. \A j \in 1..Len(T) : T[j].type = "text" => r < T[j].message
    <3> SUFFICES ASSUME NEW j \in 1..Len(T), T[j].type = "text" PROVE r < T[j].message
      OBVIOUS
    <3>1. T[j] = S[c + j] /\ c + j \in 1..Len(S) /\ k < c + j
      BY <1>1
    <3> QED
      BY <2>1, <3>1 DEF InOrder
  <2>6. ASSUME NEW i \in 1..Len(X) - 1 PROVE X[i] < X[i + 1]
    <3>1. CASE i = Len(V)
      BY <1>1, <2>3, <2>4, <3>1
    <3>2. CASE i # Len(V)
      <4>1. i \in 1..Len(V) - 1 /\ i \in 1..Len(V) /\ i + 1 \in 1..Len(V)
        BY <1>1, <2>3, <3>2
      <4> QED
        BY <1>2, <2>3, <4>1
    <3> QED
      BY <3>1, <3>2
  <2>7. \A i \in 1..Len(X) : i \in 1..Len(V) \/ i = Len(V) + 1
    BY <1>1, <2>3
  <2>8. \A i \in 1..Len(X) : X[i] \in 1..n
    BY <1>2, <2>2, <2>3, <2>7
  <2>9. \A i \in 1..Len(X), j \in 1..Len(T) : T[j].type = "text" => X[i] < T[j].message
    BY <1>4, <2>3, <2>5, <2>7
  <2>10. InOrderBefore(X, T, n)
    BY <2>6, <2>8, <2>9 DEF InOrderBefore
  <2> QED
    BY <2>10 DEF X
<1> QED
  BY <1>5, <1>6

(******************************************************************************)
(* What else was delivered than before.                                       *)
(******************************************************************************)
LEMMA HandedAmong ==
  ASSUME NEW V \in Seq(Nat), NEW r, r = Nothing \/ r \in Nat, NEW m
  PROVE  /\ Among(V, m) => Among(Handed(V, r), m)
         /\ Among(Handed(V, r), m) => Among(V, m) \/ (r # Nothing /\ m = r)
         /\ r # Nothing => Among(Handed(V, r), r)
<1> DEFINE X == Handed(V, r)
<1>1. /\ r = Nothing => X = V
      /\ r # Nothing => /\ Len(X) = Len(V) + 1
                        /\ \A i \in 1..Len(V) : X[i] = V[i]
                        /\ X[Len(V) + 1] = r
  BY HandedFacts
<1>2. Len(V) \in Nat
  OBVIOUS
<1> HIDE DEF X
<1>3. CASE r = Nothing
  BY <1>1, <1>3 DEF X
<1>4. CASE r # Nothing
  <2>1. Len(X) = Len(V) + 1 /\ X[Len(V) + 1] = r /\ \A i \in 1..Len(V) : X[i] = V[i]
    BY <1>1, <1>4
  <2>2. \A i \in 1..Len(V) : i \in 1..Len(X)
    BY <1>2, <2>1
  <2>3. Len(V) + 1 \in 1..Len(X)
    BY <1>2, <2>1
  <2>4. \A i \in 1..Len(X) : i \in 1..Len(V) \/ i = Len(V) + 1
    BY <1>2, <2>1
  <2>5. Among(V, m) => Among(X, m)
    BY <2>1, <2>2 DEF Among
  <2>6. Among(X, m) => Among(V, m) \/ m = r
    BY <2>1, <2>4 DEF Among
  <2>7. Among(X, r)
    BY <2>1, <2>3 DEF Among
  <2> QED
    BY <1>4, <2>5, <2>6, <2>7 DEF X
<1> QED
  BY <1>3, <1>4

(******************************************************************************)
(* The first message, when it is whole and may not lead the parser astray, is *)
(* delivered if it is intact, and nothing is if it is damaged.                *)
(******************************************************************************)
FirstParsed(S, c, W, D, r) ==
  LET h == S[1].message
  IN  Whole(S, W[h], h) /\ D[h] \notin {"count", "eol"} =>
        c = Len(W[h]) /\ r = IF D[h] = "none" THEN h ELSE Nothing

(******************************************************************************)
(* The handler keeps to the fate of a message that it does not expose: it is  *)
(* whole and not delivered, or gone, and then delivered if it was intact and  *)
(* not if its payload was damaged.                                            *)
(******************************************************************************)
LEMMA TakenFate ==
  ASSUME NEW S \in Seq(Tokens), NEW c, NEW T, TakenFrom(S, c, T), NEW n \in Nat, InOrder(S, n),
         NEW W, NEW D, NEW E, NEW F, Exposes(S, c, E, F), FirstTaken(S, c, W),
         NEW V \in Seq(Nat), NEW r, TookText(S, c, r), FirstParsed(S, c, W, D, r),
         NEW m \in Nat, W[m] \in Seq(Tokens), 0 < Len(W[m]), \A i \in 1..Len(W[m]) : W[m][i].message = m,
         m \notin F, Fate(S, W[m], D[m], V, m)
  PROVE  Fate(T, W[m], D[m], Handed(V, r), m)
<1> DEFINE s == W[m]
           h == S[1].message
           X == Handed(V, r)
<1>1. /\ c \in 1..Len(S) /\ c \in Nat /\ Len(S) \in Nat /\ Len(s) \in Nat /\ 0 < Len(S)
  BY DEF TakenFrom
<1>2. \A i \in 1..c : S[i].message # h => S[i].message \in F
  BY DEF Exposes
<1>3. \/ r = Nothing
      \/ /\ r \in Nat
         /\ \E i \in 1..c : i \in 1..Len(S) /\ S[i].type = "text" /\ S[i].message = r
  BY TakenText
<1>4. /\ Among(V, m) => Among(X, m)
      /\ Among(X, m) => Among(V, m) \/ (r # Nothing /\ m = r)
      /\ r # Nothing => Among(X, r)
  BY <1>3, HandedAmong
<1> HIDE DEF X
<1>5. \A i \in 1..Len(S) : S[i].message \in Nat
  <2>1. \A i \in 1..Len(S) : S[i] \in Tokens
    BY ElementOfSeq
  <2> QED
    BY <2>1 DEF Tokens
<1>6. CASE Gone(S, m)
  <2>1. Gone(T, m)
    BY <1>6, TakenGone
  <2>2. r # Nothing => m # r
    <3>1. \A i \in 1..Len(S) : S[i].message # m
      BY <1>5, <1>6 DEF Gone
    <3> QED
      BY <1>3, <3>1
  <2>3. ~Whole(S, s, m)
    <3>1. ASSUME NEW a \in 0..Len(S), BlockAt(S, s, m, a) PROVE FALSE
      <4>1. S[a + 1] = s[1] /\ a + 1 \in 1..Len(S) /\ s[1].message = m
        BY <1>1, <3>1 DEF BlockAt
      <4>2. S[a + 1].message > m
        BY <1>6, <4>1 DEF Gone
      <4> QED
        BY <1>5, <4>1, <4>2
    <3> QED
      BY <3>1 DEF Whole
  <2>4. /\ D[m] = "none" => Among(V, m)
        /\ D[m] \in {"open", "text", "close"} => ~Among(V, m)
    BY <2>3 DEF Fate
  <2>5. Fate(T, s, D[m], X, m)
    BY <1>4, <2>1, <2>2, <2>4 DEF Fate
  <2> QED
    BY <2>5 DEF X
<1>7. CASE Whole(S, s, m) /\ ~Among(V, m)
  <2>1. PICK a \in 0..Len(S) : BlockAt(S, s, m, a)
    BY <1>7 DEF Whole
  <2>2. CASE c <= a
    <3>1. Whole(T, s, m)
      BY <2>1, <2>2, TakenBefore
    <3>2. r # Nothing => m # r
      <4> SUFFICES ASSUME r # Nothing PROVE m # r
        OBVIOUS
      <4>1. PICK i \in 1..c : i \in 1..Len(S) /\ S[i].message = r
        BY <1>3
      <4>2. i \in 1..a
        BY <1>1, <2>2
      <4>3. S[i].message < m
        BY <2>1, <4>2 DEF BlockAt
      <4> QED
        BY <1>5, <4>1, <4>3
    <3>3. Fate(T, s, D[m], X, m)
      BY <1>4, <1>7, <3>1, <3>2 DEF Fate
    <3> QED
      BY <3>3 DEF X
  <2>3. CASE a < c
    <3>1. S[a + 1] = s[1] /\ a + 1 \in 1..c /\ s[1].message = m
      BY <1>1, <2>1, <2>3 DEF BlockAt
    <3>2. m = h
      BY <1>2, <3>1
    <3>3. a = 0
      BY <1>1, <2>1, <3>2, WholeFirst
    <3>4. Len(s) <= c
      BY <1>7, <3>2 DEF FirstTaken
    <3>5. Gone(T, m)
      BY <2>1, <3>3, <3>4, TakenWith
    <3>6. D[m] \notin {"count", "eol"} => r = IF D[m] = "none" THEN m ELSE Nothing
      BY <1>7, <3>2 DEF FirstParsed
    <3>7. D[m] = "none" => Among(X, m)
      <4>1. m # Nothing
        BY DEF Nothing
      <4> QED
        BY <1>4, <3>6, <4>1
    <3>8. D[m] \in {"open", "text", "close"} => ~Among(X, m)
      BY <1>4, <1>7, <3>6
    <3>9. Fate(T, s, D[m], X, m)
      BY <3>5, <3>7, <3>8 DEF Fate
    <3> QED
      BY <3>9 DEF X
  <2> QED
    BY <1>1, <2>2, <2>3
<1> QED
  BY <1>6, <1>7 DEF Fate

(******************************************************************************)
(* A message is only exposed after one that may lead the parser astray.       *)
(******************************************************************************)
Explained(E, D, n) ==
  \A m \in E : m \in 1..n /\ \E k \in 1..m - 1 : D[k] \in {"count", "eol"}

(******************************************************************************)
(* The handler exposes other messages only where the first one has a wrong    *)
(* count or a lost delimiter, or was exposed itself.                          *)
(******************************************************************************)
LEMMA TakenExplained ==
  ASSUME NEW S \in Seq(Tokens), NEW c, NEW T, TakenFrom(S, c, T), NEW n \in Nat, InOrder(S, n),
         NEW W, NEW D, NEW E, NEW F, Exposes(S, c, E, F), NEW r, FirstParsed(S, c, W, D, r),
         Placed(S, W[S[1].message], E, S[1].message),
         \A i \in 1..Len(W[S[1].message]) : W[S[1].message][i].message = S[1].message,
         Explained(E, D, n)
  PROVE  Explained(F, D, n)
<1> DEFINE h == S[1].message
<1>1. c \in 1..Len(S) /\ c \in Nat /\ Len(S) \in Nat /\ 1 \in 1..Len(S) /\ h \in 1..n
  BY DEF TakenFrom, InOrder
<1>2. ASSUME NEW i \in 1..c, S[i].message # h
      PROVE  S[i].message \in 1..n /\ \E k \in 1..S[i].message - 1 : D[k] \in {"count", "eol"}
  <2>1. i \in 1..Len(S) /\ 1 < i
    BY <1>1, <1>2
  <2>2. S[i].message \in 1..n /\ h < S[i].message
    <3>1. h <= S[i].message /\ S[i].message \in 1..n
      BY <1>1, <2>1 DEF InOrder
    <3> QED
      BY <1>1, <1>2, <3>1
  <2>3. CASE D[h] \in {"count", "eol"}
    <3>1. h \in 1..S[i].message - 1
      BY <1>1, <2>2
    <3> QED
      BY <2>2, <2>3, <3>1
  <2>4. CASE h \in E
    <3>1. PICK k \in 1..h - 1 : D[k] \in {"count", "eol"}
      BY <2>4 DEF Explained
    <3>2. k \in 1..S[i].message - 1
      BY <1>1, <2>2
    <3> QED
      BY <2>2, <3>1, <3>2
  <2>5. ASSUME D[h] \notin {"count", "eol"}, h \notin E PROVE FALSE
    <3>1. ~Gone(S, h)
      BY <1>1 DEF Gone
    <3>2. ~Started(S, E, h)
      BY <2>5 DEF Started
    <3>3. Whole(S, W[h], h)
      BY <3>1, <3>2 DEF Placed
    <3>4. c = Len(W[h])
      BY <2>5, <3>3 DEF FirstParsed
    <3>5. PICK a \in 0..Len(S) : BlockAt(S, W[h], h, a)
      BY <3>3 DEF Whole
    <3>6. a = 0
      <4>1. ASSUME a # 0 PROVE FALSE
        <5>1. 1 \in 1..a
          BY <4>1
        <5>2. h < h
          BY <3>5, <5>1 DEF BlockAt
        <5> QED
          BY <1>1, <5>2
      <4> QED
        BY <4>1
    <3>7. S[0 + i] = W[h][i] /\ 0 + i = i
      BY <3>4, <3>5, <3>6 DEF BlockAt
    <3>8. S[i].message = h
      BY <3>4, <3>7
    <3> QED
      BY <1>2, <3>8
  <2> QED
    BY <2>3, <2>4, <2>5
<1>3. ASSUME NEW m \in F, m \notin E PROVE \E i \in 1..c : S[i].message # h /\ m = S[i].message
  BY <1>3 DEF Exposes
<1>4. ASSUME NEW m \in F PROVE m \in 1..n /\ \E k \in 1..m - 1 : D[k] \in {"count", "eol"}
  <2>1. CASE m \in E
    BY <2>1 DEF Explained
  <2>2. CASE m \notin E
    BY <1>2, <1>3, <2>2
  <2> QED
    BY <2>1, <2>2
<1> QED
  BY <1>4 DEF Explained

--------------------------------------------------------------------------------
(******************************************************************************)
(* A message that is sent comes last in the stream.                           *)
(******************************************************************************)
Extended(S, s, U) ==
  /\ U \in Seq(Tokens) /\ Len(U) = Len(S) + Len(s)
  /\ \A i \in 1..Len(S) : U[i] = S[i]
  /\ \A i \in 1..Len(s) : U[Len(S) + i] = s[i]

(******************************************************************************)
(* The tokens of the extended stream are the old ones, and behind them those  *)
(* of the message.                                                            *)
(******************************************************************************)
ExtendedWith(S, s, m, U) ==
  /\ Len(S) \in Nat /\ Len(s) \in Nat /\ Len(U) = Len(S) + Len(s)
  /\ \A i \in 1..Len(U) : \/ i \in 1..Len(S) /\ U[i] = S[i]
                          \/ /\ i > Len(S) /\ U[i].message = m
                             /\ i - Len(S) \in 1..Len(s) /\ U[i] = s[i - Len(S)]

(******************************************************************************)
(* That follows from the way the stream was extended.                         *)
(******************************************************************************)
LEMMA ExtendedFacts ==
  ASSUME NEW S \in Seq(Tokens), NEW s \in Seq(Tokens), NEW m,
         \A i \in 1..Len(s) : s[i].message = m, NEW U, Extended(S, s, U)
  PROVE  ExtendedWith(S, s, m, U)
<1>1. /\ Len(S) \in Nat /\ Len(s) \in Nat /\ Len(U) = Len(S) + Len(s)
      /\ \A i \in 1..Len(S) : U[i] = S[i]
      /\ \A i \in 1..Len(s) : U[Len(S) + i] = s[i]
  BY DEF Extended
<1>2. ASSUME NEW i \in 1..Len(U), i \notin 1..Len(S)
      PROVE  /\ i > Len(S) /\ U[i].message = m
             /\ i - Len(S) \in 1..Len(s) /\ U[i] = s[i - Len(S)]
  <2> DEFINE j == i - Len(S)
  <2>1. j \in 1..Len(s) /\ Len(S) + j = i /\ i > Len(S)
    BY <1>1, <1>2
  <2> HIDE DEF j
  <2>2. U[i] = s[j] /\ s[j].message = m
    BY <1>1, <2>1
  <2> QED
    BY <2>1, <2>2 DEF j
<1> QED
  BY <1>1, <1>2 DEF ExtendedWith

(******************************************************************************)
(* The stream stays in order.                                                 *)
(******************************************************************************)
LEMMA SentInOrder ==
  ASSUME NEW S \in Seq(Tokens), NEW n \in Nat, InOrder(S, n), NEW s, NEW d,
         FormOf(s, n + 1, d), NEW U, Extended(S, s, U)
  PROVE  InOrder(U, n + 1)
<1> DEFINE m == n + 1
<1>1. /\ s \in Seq(Tokens) /\ \A i \in 1..Len(s) : s[i].message = m
      /\ \A i, j \in 1..Len(s) : s[i].type = "text" /\ s[j].type = "text" => i = j
  BY DEF FormOf
<1>2. m \in Nat /\ m > n
  OBVIOUS
<1> HIDE DEF m
<1>3. /\ Len(S) \in Nat /\ Len(s) \in Nat /\ Len(U) = Len(S) + Len(s)
      /\ \A i \in 1..Len(U) : \/ i \in 1..Len(S) /\ U[i] = S[i]
                              \/ /\ i > Len(S) /\ U[i].message = m
                                 /\ i - Len(S) \in 1..Len(s) /\ U[i] = s[i - Len(S)]
  <2>1. ExtendedWith(S, s, m, U)
    BY <1>1, ExtendedFacts
  <2> QED
    BY <2>1 DEF ExtendedWith
<1>4. \A i \in 1..Len(S) : S[i].message \in 1..n
  BY DEF InOrder
<1>5. \A i \in 1..Len(U) : U[i].message \in 1..m
  BY <1>2, <1>3, <1>4 DEF m
<1>6. ASSUME NEW i \in 1..Len(U), NEW j \in 1..Len(U), i < j
      PROVE  /\ U[i].message <= U[j].message
             /\ U[i].type = "text" /\ U[j].type = "text" => U[i].message < U[j].message
  <2>1. CASE j \in 1..Len(S)
    <3>1. i \in 1..Len(S)
      BY <1>3, <1>6, <2>1
    <3>2. U[i] = S[i] /\ U[j] = S[j]
      BY <1>3, <2>1, <3>1
    <3> QED
      BY <1>6, <2>1, <3>1, <3>2 DEF InOrder
  <2>2. CASE j \notin 1..Len(S)
    <3>1. /\ U[j].message = m /\ j - Len(S) \in 1..Len(s) /\ U[j] = s[j - Len(S)]
      BY <1>3, <2>2
    <3>2. CASE i \in 1..Len(S)
      <4>1. U[i].message \in 1..n
        BY <1>3, <1>4, <3>2
      <4>2. U[j].message = m
        BY <3>1
      <4>3. U[i].message < U[j].message
        BY <1>2, <4>1, <4>2
      <4> QED
        BY <4>1, <4>2, <4>3, <1>2
    <3>3. CASE i \notin 1..Len(S)
      <4>1. U[i].message = m /\ i - Len(S) \in 1..Len(s) /\ U[i] = s[i - Len(S)]
        BY <1>3, <3>3
      <4>2. i - Len(S) # j - Len(S)
        BY <1>3, <1>6
      <4>3. ~(U[i].type = "text" /\ U[j].type = "text")
        BY <1>1, <3>1, <4>1, <4>2
      <4> QED
        BY <1>2, <3>1, <4>1, <4>3
    <3> QED
      BY <3>2, <3>3
  <2> QED
    BY <2>1, <2>2
<1>7. InOrder(U, m)
  BY <1>5, <1>6 DEF InOrder
<1> QED
  BY <1>7 DEF m

(******************************************************************************)
(* The new message is whole in it.                                            *)
(******************************************************************************)
LEMMA SentWhole ==
  ASSUME NEW S \in Seq(Tokens), NEW n \in Nat, InOrder(S, n), NEW s \in Seq(Tokens),
         NEW U, Extended(S, s, U)
  PROVE  Whole(U, s, n + 1)
<1> DEFINE a == Len(S)
<1>1. /\ a \in Nat /\ Len(s) \in Nat /\ Len(U) = a + Len(s)
      /\ \A i \in 1..a : U[i] = S[i]
      /\ \A i \in 1..Len(s) : U[a + i] = s[i]
  BY DEF Extended
<1>2. \A i \in 1..a : S[i].message \in 1..n
  BY DEF InOrder
<1> HIDE DEF a
<1>3. \A i \in 1..a : U[i].message < n + 1
  BY <1>1, <1>2
<1>4. \A i \in a + Len(s) + 1..Len(U) : FALSE
  BY <1>1
<1>5. a \in 0..Len(U) /\ a + Len(s) <= Len(U)
  BY <1>1
<1>6. BlockAt(U, s, n + 1, a)
  BY <1>1, <1>3, <1>4, <1>5 DEF BlockAt
<1> QED
  BY <1>5, <1>6 DEF Whole

(******************************************************************************)
(* It leaves the earlier ones where they are.                                 *)
(******************************************************************************)
LEMMA SentBehind ==
  ASSUME NEW S \in Seq(Tokens), NEW m \in Nat, NEW s \in Seq(Tokens),
         \A i \in 1..Len(s) : s[i].message = m, NEW U, Extended(S, s, U),
         NEW k \in Nat, k < m, NEW w \in Seq(Tokens)
  PROVE  /\ Whole(S, w, k) => Whole(U, w, k)
         /\ Gone(S, k) => Gone(U, k)
         /\ \A E : Started(S, E, k) => Started(U, E, k)
<1>1. /\ Len(S) \in Nat /\ Len(s) \in Nat /\ Len(U) = Len(S) + Len(s)
      /\ \A i \in 1..Len(U) : \/ i \in 1..Len(S) /\ U[i] = S[i]
                              \/ i > Len(S) /\ U[i].message = m
  <2>1. ExtendedWith(S, s, m, U)
    BY ExtendedFacts
  <2> QED
    BY <2>1 DEF ExtendedWith
<1>2. \A i \in 1..Len(S) : U[i] = S[i]
  BY DEF Extended
<1>3. ASSUME Gone(S, k) PROVE Gone(U, k)
  BY <1>1, <1>3 DEF Gone
<1>4. ASSUME NEW E, Started(S, E, k) PROVE Started(U, E, k)
  <2>1. 1 \in 1..Len(S) /\ 0 < Len(U)
    BY <1>1, <1>4 DEF Started
  <2> QED
    BY <1>2, <1>4, <2>1 DEF Started
<1>5. ASSUME NEW a \in 0..Len(S), BlockAt(S, w, k, a) PROVE Whole(U, w, k)
  <2>1. /\ a + Len(w) <= Len(S) /\ Len(w) \in Nat
        /\ \A i \in 1..Len(w) : S[a + i] = w[i]
        /\ \A i \in 1..a : S[i].message < k
        /\ \A i \in a + Len(w) + 1..Len(S) : S[i].message > k
    BY <1>5 DEF BlockAt
  <2>2. a \in 0..Len(U) /\ a + Len(w) <= Len(U)
    BY <1>1, <2>1
  <2>3. \A i \in 1..Len(w) : U[a + i] = w[i]
    <3> SUFFICES ASSUME NEW i \in 1..Len(w) PROVE U[a + i] = w[i]
      OBVIOUS
    <3>1. a + i \in 1..Len(S)
      BY <1>1, <2>1
    <3> QED
      BY <1>2, <2>1, <3>1
  <2>4. \A i \in 1..a : U[i].message < k
    <3>1. \A i \in 1..a : i \in 1..Len(S)
      BY <1>1
    <3> QED
      BY <1>2, <2>1, <3>1
  <2>5. \A i \in a + Len(w) + 1..Len(U) : U[i].message > k
    <3> SUFFICES ASSUME NEW i \in a + Len(w) + 1..Len(U) PROVE U[i].message > k
      OBVIOUS
    <3>1. CASE i \in 1..Len(S)
      <4>1. i \in a + Len(w) + 1..Len(S)
        BY <1>1, <2>1, <3>1
      <4> QED
        BY <1>2, <2>1, <3>1, <4>1
    <3>2. CASE i \notin 1..Len(S)
      <4>1. i \in 1..Len(U)
        BY <1>1, <2>1
      <4> QED
        BY <1>1, <3>2, <4>1
    <3> QED
      BY <3>1, <3>2
  <2>6. BlockAt(U, w, k, a)
    BY <2>2, <2>3, <2>4, <2>5 DEF BlockAt
  <2> QED
    BY <2>2, <2>6 DEF Whole
<1>6. Whole(S, w, k) => Whole(U, w, k)
  BY <1>5 DEF Whole
<1> QED
  BY <1>3, <1>4, <1>6

(******************************************************************************)
(* What was delivered stays ahead of the texts in the stream.                 *)
(******************************************************************************)
LEMMA SentInOrderBefore ==
  ASSUME NEW S \in Seq(Tokens), NEW n \in Nat, NEW s \in Seq(Tokens),
         \A i \in 1..Len(s) : s[i].message = n + 1, NEW U, Extended(S, s, U),
         NEW V, InOrderBefore(V, S, n)
  PROVE  InOrderBefore(V, U, n + 1)
<1> DEFINE m == n + 1
<1>1. m \in Nat /\ m > n /\ \A k \in 1..n : k \in 1..m /\ k < m
  OBVIOUS
<1>2. \A i \in 1..Len(s) : s[i].message = m
  OBVIOUS
<1> HIDE DEF m
<1>3. \A i \in 1..Len(U) : \/ i \in 1..Len(S) /\ U[i] = S[i]
                           \/ i > Len(S) /\ U[i].message = m
  <2>1. ExtendedWith(S, s, m, U)
    BY <1>2, ExtendedFacts
  <2> QED
    BY <2>1 DEF ExtendedWith
<1>4. /\ \A i \in 1..Len(V) - 1 : V[i] < V[i + 1]
      /\ \A i \in 1..Len(V) : V[i] \in 1..n
      /\ \A i \in 1..Len(V), j \in 1..Len(S) : S[j].type = "text" => V[i] < S[j].message
  BY DEF InOrderBefore
<1>5. \A i \in 1..Len(V) : V[i] \in 1..m
  BY <1>1, <1>4
<1>6. ASSUME NEW i \in 1..Len(V), NEW j \in 1..Len(U), U[j].type = "text"
      PROVE  V[i] < U[j].message
  <2>1. CASE j \in 1..Len(S) /\ U[j] = S[j]
    BY <1>4, <1>6, <2>1
  <2>2. CASE U[j].message = m
    BY <1>1, <1>4, <2>2
  <2> QED
    BY <1>3, <2>1, <2>2
<1>7. InOrderBefore(V, U, m)
  BY <1>4, <1>5, <1>6 DEF InOrderBefore
<1> QED
  BY <1>7 DEF m

(******************************************************************************)
(* Exposed messages stay explained.                                           *)
(******************************************************************************)
LEMMA SentExplained ==
  ASSUME NEW S, NEW D \in Seq(S), NEW n \in Nat, Len(D) = n, NEW d \in S,
         NEW E, Explained(E, D, n)
  PROVE  Explained(E, Append(D, d), n + 1)
<1> DEFINE F == Append(D, d)
<1>1. \A i \in 1..n : F[i] = D[i]
  BY AppendProperties
<1> HIDE DEF F
<1>2. ASSUME NEW m \in E PROVE m \in 1..n + 1 /\ \E k \in 1..m - 1 : F[k] \in {"count", "eol"}
  <2>1. m \in 1..n
    BY DEF Explained
  <2>2. PICK k \in 1..m - 1 : D[k] \in {"count", "eol"}
    BY DEF Explained
  <2>3. k \in 1..n
    BY <2>1
  <2> QED
    BY <1>1, <2>1, <2>2, <2>3
<1> QED
  BY <1>2 DEF Explained, F

--------------------------------------------------------------------------------
(******************************************************************************)
(* A message that is whole at the start of the stream, and what follows it.   *)
(******************************************************************************)
AllForms(W, D, n) == \A k \in 1..n : IsForm(k, W[k], D[k])

(******************************************************************************)
(* All messages are placed in the stream.                                     *)
(******************************************************************************)
AllPlaced(S, W, E, n) == \A k \in 1..n : Placed(S, W[k], E, k)

(******************************************************************************)
(* Behind a message that is whole at the start of the stream the next one     *)
(* starts, not with a delimiter or a closing brace: the parser that looks for *)
(* a closing brace there does not find one.                                   *)
(******************************************************************************)
LEMMA NextMessage ==
  ASSUME NEW S \in Seq(Tokens), NEW n \in Nat, InOrder(S, n), NEW W, NEW D, NEW E,
         AllForms(W, D, n), AllPlaced(S, W, E, n), 0 < Len(S),
         NEW h, h = S[1].message, BlockAt(S, W[h], h, 0), Len(W[h]) < Len(S)
  PROVE  S[Len(W[h]) + 1].type \notin {"eol", "close"}
<1> DEFINE L == Len(W[h])
           x == S[L + 1].message
<1>1. 1 \in 1..Len(S) /\ h \in 1..n /\ h \in Nat
  <2>1. 1 \in 1..Len(S)
    OBVIOUS
  <2>2. h \in 1..n
    BY <2>1 DEF InOrder
  <2> QED
    BY <2>1, <2>2
<1>2. W[h] \in Seq(Tokens) /\ L >= 3 /\ L \in Nat /\ \A i \in 1..L : W[h][i].message = h
  <2>1. FormOf(W[h], h, D[h])
    BY <1>1, FormFacts DEF AllForms
  <2> QED
    BY <2>1 DEF FormOf
<1>3. /\ \A i \in 1..L : S[0 + i] = W[h][i]
      /\ \A i \in 0 + L + 1..Len(S) : S[i].message > h
  BY DEF BlockAt
<1>4. L + 1 \in 1..Len(S) /\ L + 1 \in 0 + L + 1..Len(S)
  BY <1>2
<1>5. x \in 1..n /\ x \in Nat /\ x > h
  BY <1>3, <1>4 DEF InOrder
<1>6. \A i \in 1..L : S[i].message = h
  BY <1>2, <1>3
<1> HIDE DEF L
<1>7. FormOf(W[x], x, D[x])
  <2> HIDE DEF x
  <2> QED
    BY <1>5, FormFacts DEF AllForms
<1>8. Placed(S, W[x], E, x)
  BY <1>5 DEF AllPlaced
<1>9. ~Gone(S, x)
  <2>1. ASSUME Gone(S, x) PROVE FALSE
    <3>1. S[L + 1].message > S[L + 1].message
      BY <1>4, <2>1 DEF Gone
    <3> QED
      BY <1>5, <3>1
  <2> QED
    BY <2>1
<1>10. ~Started(S, E, x)
  BY <1>1, <1>5 DEF Started
<1>11. Whole(S, W[x], x)
  BY <1>8, <1>9, <1>10 DEF Placed
<1> HIDE DEF x
<1>12. PICK a \in 0..Len(S) : BlockAt(S, W[x], x, a)
  BY <1>11 DEF Whole
<1>13. /\ W[x] \in Seq(Tokens) /\ Len(W[x]) >= 3 /\ Len(W[x]) \in Nat
       /\ \A i \in 1..Len(W[x]) : W[x][i].message = x
       /\ W[x][1].type \notin {"eol", "close"}
  BY <1>7 DEF FormOf
<1>14. /\ a + Len(W[x]) <= Len(S)
       /\ S[a + 1] = W[x][1] /\ S[a + 1].message = x
       /\ \A i \in 1..a : S[i].message < x
  <2>1. 1 \in 1..Len(W[x])
    BY <1>13
  <2> QED
    BY <1>12, <1>13, <2>1 DEF BlockAt
<1>15. a = L
  <2>1. ~(L + 1 <= a)
    <3>1. ASSUME L + 1 <= a PROVE FALSE
      <4>1. L + 1 \in 1..a
        BY <1>4, <3>1
      <4>2. S[L + 1].message < x
        BY <1>14, <4>1
      <4> QED
        BY <1>5, <4>2 DEF x
    <3> QED
      BY <3>1
  <2>2. ~(a < L)
    <3>1. ASSUME a < L PROVE FALSE
      <4>1. a + 1 \in 1..L
        BY <1>2, <3>1
      <4>2. S[a + 1].message = h
        BY <1>6, <4>1
      <4> QED
        BY <1>1, <1>5, <1>14, <4>2
    <3> QED
      BY <3>1
  <2>3. a \in Nat /\ L \in Nat
    BY <1>2 DEF L
  <2> QED
    BY <2>1, <2>2, <2>3
<1> QED
  BY <1>13, <1>14, <1>15 DEF L

(******************************************************************************)
(* The buffer is the start of the stream.                                     *)
(******************************************************************************)
StartOf(B, S) == Len(B) <= Len(S) /\ \A i \in 1..Len(B) : S[i] = B[i]

(******************************************************************************)
(* The handler takes the message s from the start of its buffer B, and no     *)
(* more of it unless its count or its delimiter was damaged.                  *)
(******************************************************************************)
TakesExactly(B, s, d, h) ==
  /\ Len(s) <= LineLength
  /\ d \notin {"count", "eol"} =>
       /\ ParseIncomingMessage(LineLength).rest = Drop(B, Len(s))
       /\ ParseIncomingMessage(LineLength).message = IF d = "none" THEN h ELSE Nothing

(******************************************************************************)
(* The line of a message that is whole at the start of the stream is not      *)
(* shorter than the message, and when neither a count nor the delimiter was   *)
(* damaged the handler takes exactly the message.                             *)
(******************************************************************************)
LEMMA HandlerExact ==
  ASSUME NEW B \in Seq(Tokens), B = incoming_message_buffer_, LineLength > 0,
         NEW S \in Seq(Tokens), StartOf(B, S), NEW n \in Nat, InOrder(S, n), NEW W, NEW D, NEW E,
         AllForms(W, D, n), AllPlaced(S, W, E, n),
         NEW h, h = S[1].message, BlockAt(S, W[h], h, 0)
  PROVE  TakesExactly(B, W[h], D[h], h)
<1> DEFINE L == Len(W[h])
           length == LineLength
<1>1. /\ length \in 1..Len(B) /\ B[length].type = "eol"
      /\ \A i \in 1..length - 1 : B[i].type # "eol"
  BY LineLengthFacts DEF IsLine
<1>2. Len(B) \in Nat /\ Len(S) \in Nat /\ 0 < Len(S) /\ 1 \in 1..Len(S)
      /\ Len(B) <= Len(S) /\ \A i \in 1..Len(B) : S[i] = B[i]
  BY <1>1 DEF StartOf
<1>3. h \in 1..n
  BY <1>2 DEF InOrder
<1>4. FormOf(W[h], h, D[h]) /\ IsForm(h, W[h], D[h]) /\ h \in Nat /\ h > 0
  BY <1>3, FormFacts DEF AllForms
<1>5. /\ W[h] \in Seq(Tokens) /\ L >= 3 /\ L \in Nat
      /\ \A i \in 1..L - 1 : W[h][i].type # "eol"
      /\ D[h] # "eol" => W[h][L].type = "eol"
  BY <1>4 DEF FormOf
<1>6. 0 + L <= Len(S) /\ \A i \in 1..L : S[0 + i] = W[h][i]
  BY DEF BlockAt
<1>7. \A i \in 1..L : S[i] = W[h][i]
  BY <1>5, <1>6
<1> HIDE DEF length, L
<1>8. L <= length
  <2>1. ASSUME length < L PROVE FALSE
    <3>1. length \in 1..L - 1 /\ length \in 1..L
      BY <1>1, <1>2, <1>5, <2>1
    <3>2. B[length] = W[h][length]
      BY <1>1, <1>2, <1>7, <3>1
    <3> QED
      BY <1>1, <1>5, <3>1, <3>2
  <2> QED
    BY <1>1, <1>2, <1>5, <2>1
<1>9. ASSUME D[h] \notin {"count", "eol"}
      PROVE  /\ ParseIncomingMessage(length).rest = Drop(B, L)
             /\ ParseIncomingMessage(length).message = IF D[h] = "none" THEN h ELSE Nothing
  <2>1. L \in 1..Len(B) /\ L \in 1..L
    BY <1>1, <1>2, <1>5, <1>8
  <2>2. B[L].type = "eol"
    BY <1>2, <1>5, <1>7, <1>9, <2>1
  <2>3. length = L
    <3>1. ASSUME L < length PROVE FALSE
      <4>1. L \in 1..length - 1
        BY <1>1, <1>5, <3>1
      <4> QED
        BY <1>1, <2>2, <4>1
    <3> QED
      BY <1>1, <1>5, <1>8, <3>1
  <2>4. Begins(B, W[h])
    <3>1. \A i \in 1..L : i \in 1..Len(B)
      BY <2>1
    <3>2. \A i \in 1..L : B[i] = W[h][i]
      BY <1>2, <1>7, <3>1
    <3> QED
      BY <2>1, <3>2 DEF Begins, L
  <2>5. L < Len(B) => B[L + 1].type \notin {"eol", "close"}
    <3> SUFFICES ASSUME L < Len(B) PROVE B[L + 1].type \notin {"eol", "close"}
      OBVIOUS
    <3>1. L < Len(S) /\ L + 1 \in 1..Len(B)
      BY <1>2, <1>5
    <3>2. S[L + 1].type \notin {"eol", "close"}
      BY <1>2, <3>1, NextMessage DEF L
    <3> QED
      BY <1>2, <3>1, <3>2
  <2>6. PICK q \in 0..L : Outcome(B, q, IF D[h] = "none" THEN h ELSE Nothing)
    <3>1. Len(W[h]) < Len(B) => B[Len(W[h]) + 1].type \notin {"eol", "close"}
      BY <2>5 DEF L
    <3>2. \E q \in 0..Len(W[h]) : Outcome(B, q, IF D[h] = "none" THEN h ELSE Nothing)
      BY <1>4, <1>9, <2>4, <3>1, MessageParsed
    <3> QED
      BY <3>2 DEF L
  <2>7. q \in 0..Len(B) /\ ParseMessage(B).rest = Drop(B, q)
        /\ ParseMessage(B).message = IF D[h] = "none" THEN h ELSE Nothing
    BY <2>1, <2>6 DEF Outcome
  <2>8. /\ ParseIncomingMessage(length).message = ParseMessage(B).message
        /\ ParseIncomingMessage(length).rest = Drop(B, Larger(q, length))
    BY <1>1, <2>7, HandlerTakes
  <2>9. Larger(q, length) = L
    BY <1>5, <2>3, <2>6 DEF Larger
  <2> QED
    BY <2>7, <2>8, <2>9
<1> QED
  BY <1>8, <1>9 DEF L, length, TakesExactly

--------------------------------------------------------------------------------
(******************************************************************************)
(* The types of the variables, and the inductive invariant.  The device sends *)
(* all of its messages before the first of them arrives (Arrive).             *)
(******************************************************************************)
FramingTypes ==
  /\ sent \in Seq(Seq(Tokens)) /\ damage \in Seq(TokenTypes \cup {"none"})
  /\ network \in Seq(Tokens) /\ incoming_message_buffer_ \in Seq(Tokens)
  /\ delivered \in Seq(Nat)

(******************************************************************************)
(* What is on its way to the parser, in the order it was sent.                *)
(******************************************************************************)
Stream == incoming_message_buffer_ \o network

(******************************************************************************)
(* All messages are of these forms, and none has arrived while there are      *)
(* messages to send.                                                          *)
(******************************************************************************)
FormsInv ==
  /\ Len(damage) = Len(sent) /\ AllForms(sent, damage, Len(sent))
  /\ Len(sent) < MaxMessages => incoming_message_buffer_ = <<>>

(******************************************************************************)
(* The messages are in order, and each of them is whole, gone, or broken off  *)
(* and exposed.                                                               *)
(******************************************************************************)
StreamInv == InOrder(Stream, Len(sent)) /\ AllPlaced(Stream, sent, exposed, Len(sent))

(******************************************************************************)
(* Messages are delivered in order, and before the texts that are still in    *)
(* the stream.                                                                *)
(******************************************************************************)
DeliveredInv == InOrderBefore(delivered, Stream, Len(sent))

(******************************************************************************)
(* What became of each message that was not exposed.                          *)
(******************************************************************************)
FatesInv ==
  \A m \in 1..Len(sent) : m \notin exposed => Fate(Stream, sent[m], damage[m], delivered, m)

(******************************************************************************)
(* Each message that was exposed comes behind one with a wrong count or a     *)
(* lost delimiter.                                                            *)
(******************************************************************************)
ExposedInv == Explained(exposed, damage, Len(sent))

(******************************************************************************)
(* All of this together is inductive.                                         *)
(******************************************************************************)
FramingInv ==
  FramingTypes /\ FormsInv /\ StreamInv /\ DeliveredInv /\ FatesInv /\ ExposedInv

(******************************************************************************)
(* The stream begins with the buffer and goes on with the network.            *)
(******************************************************************************)
LEMMA StreamFacts ==
  ASSUME NEW B \in Seq(Tokens), NEW N \in Seq(Tokens)
  PROVE  /\ B \o N \in Seq(Tokens) /\ Len(B \o N) = Len(B) + Len(N) /\ StartOf(B, B \o N)
         /\ \A i \in 1..Len(N) : (B \o N)[Len(B) + i] = N[i]
<1> DEFINE S == B \o N
<1>1. /\ S \in Seq(Tokens) /\ Len(S) = Len(B) + Len(N)
      /\ \A i \in 1..Len(B) + Len(N) : S[i] = IF i <= Len(B) THEN B[i] ELSE N[i - Len(B)]
  BY ConcatProperties
<1>2. Len(B) \in Nat /\ Len(N) \in Nat
  OBVIOUS
<1> HIDE DEF S
<1>3. \A i \in 1..Len(B) : S[i] = B[i]
  BY <1>1, <1>2
<1>4. ASSUME NEW i \in 1..Len(N) PROVE S[Len(B) + i] = N[i]
  <2> DEFINE j == Len(B) + i
  <2>1. j \in 1..Len(B) + Len(N) /\ ~(j <= Len(B)) /\ j - Len(B) = i
    BY <1>2
  <2> HIDE DEF j
  <2>2. S[j] = N[j - Len(B)]
    BY <1>1, <2>1
  <2> QED
    BY <2>1, <2>2 DEF j
<1>5. StartOf(B, S)
  BY <1>1, <1>2, <1>3 DEF StartOf
<1> QED
  BY <1>1, <1>4, <1>5 DEF S

(******************************************************************************)
(* What the parser drops from the buffer is dropped from the stream.          *)
(******************************************************************************)
LEMMA DropFromStream ==
  ASSUME NEW B \in Seq(Tokens), NEW N \in Seq(Tokens), NEW c \in 1..Len(B)
  PROVE  TakenFrom(B \o N, c, Drop(B, c) \o N)
<1> DEFINE S == B \o N
           R == Drop(B, c)
           T == R \o N
<1>1. c \in Nat /\ c <= Len(B) /\ Len(B) \in Nat /\ Len(N) \in Nat
  OBVIOUS
<1>2. R \in Seq(Tokens) /\ Len(R) = Len(B) - c /\ \A i \in 1..Len(B) - c : R[i] = B[c + i]
  BY <1>1, DropFacts
<1>3. /\ S \in Seq(Tokens) /\ Len(S) = Len(B) + Len(N) /\ \A i \in 1..Len(B) : S[i] = B[i]
      /\ \A i \in 1..Len(N) : S[Len(B) + i] = N[i]
  BY StreamFacts DEF StartOf
<1> HIDE DEF R, S
<1>4. /\ T \in Seq(Tokens) /\ Len(T) = Len(R) + Len(N) /\ \A i \in 1..Len(R) : T[i] = R[i]
      /\ \A i \in 1..Len(N) : T[Len(R) + i] = N[i]
  <2>1. R \in Seq(Tokens)
    BY <1>2
  <2> QED
    BY <2>1, StreamFacts DEF StartOf
<1> HIDE DEF T
<1>5. c \in 1..Len(S) /\ Len(T) = Len(S) - c
  BY <1>1, <1>2, <1>3, <1>4
<1>6. ASSUME NEW i \in 1..Len(T) PROVE T[i] = S[c + i] /\ c + i \in 1..Len(S)
  <2>1. c + i \in 1..Len(S)
    BY <1>1, <1>5
  <2>2. CASE i <= Len(R)
    <3>1. i \in 1..Len(R) /\ i \in 1..Len(B) - c /\ c + i \in 1..Len(B)
      BY <1>1, <1>2, <2>2
    <3> QED
      BY <1>2, <1>3, <1>4, <2>1, <3>1
  <2>3. CASE ~(i <= Len(R))
    <3> DEFINE j == i - Len(R)
    <3>1. j \in 1..Len(N) /\ Len(R) + j = i /\ Len(B) + j = c + i
      BY <1>1, <1>2, <1>4, <2>3
    <3> HIDE DEF j
    <3>2. T[Len(R) + j] = N[j] /\ S[Len(B) + j] = N[j]
      BY <1>3, <1>4, <3>1
    <3> QED
      BY <2>1, <3>1, <3>2
  <2> QED
    BY <2>2, <2>3
<1>7. TakenFrom(S, c, T)
  BY <1>4, <1>5, <1>6 DEF TakenFrom
<1> QED
  BY <1>7 DEF S, T, R

(******************************************************************************)
(* What the handler does, in terms of the stream.                             *)
(******************************************************************************)
HandlerTook(c, r) ==
  /\ TakenFrom(Stream, c, Stream') /\ TookText(Stream, c, r)
  /\ delivered' = Handed(delivered, r) /\ Exposes(Stream, c, exposed, exposed')
  /\ FirstTaken(Stream, c, sent) /\ FirstParsed(Stream, c, sent, damage, r)

(******************************************************************************)
(* The handler takes tokens from the front of the stream, at least one, in    *)
(* the way the lemmas above ask for.                                          *)
(******************************************************************************)
LEMMA HandlerStep ==
  ASSUME FramingInv, IncomingMessageHandler
  PROVE  /\ \E c, r : HandlerTook(c, r)
         /\ incoming_message_buffer_' \in Seq(Tokens)
         /\ Len(incoming_message_buffer_') < Len(incoming_message_buffer_)
         /\ UNCHANGED <<sent, damage, network>>
<1> DEFINE B == incoming_message_buffer_
           S == B \o network
           n == Len(sent)
           r == ParseIncomingMessage(LineLength).message
           rest == ParseIncomingMessage(LineLength).rest
<1>1. /\ LineLength > 0 /\ incoming_message_buffer_' = rest
      /\ delivered' = IF r = Nothing THEN delivered ELSE Append(delivered, r)
      /\ exposed' = exposed \cup Touched(B, LineLength)
      /\ sent' = sent /\ damage' = damage /\ network' = network
  BY DEF IncomingMessageHandler
<1>2. /\ B \in Seq(Tokens) /\ network \in Seq(Tokens) /\ n \in Nat /\ sent \in Seq(Seq(Tokens))
      /\ InOrder(S, n) /\ AllPlaced(S, sent, exposed, n) /\ AllForms(sent, damage, n)
  BY DEF FramingInv, FramingTypes, FormsInv, StreamInv, Stream
<1>3. PICK c \in LineLength..Len(B) :
             /\ c \in 1..Len(B) /\ rest = Drop(B, c) /\ TookText(B, c, r)
             /\ Touched(B, LineLength) = {B[i].message : i \in 1..c} \ {Head(B).message}
  BY <1>1, <1>2, HandlerFacts
<1> HIDE DEF B, n, r, rest
<1>4. c \in Nat /\ c <= Len(B) /\ Len(B) \in Nat /\ LineLength \in Nat /\ LineLength <= c
  BY <1>2, <1>3, LineLengthFacts DEF B
<1>5. rest \in Seq(Tokens) /\ Len(rest) = Len(B) - c
  BY <1>2, <1>3, <1>4, DropFacts
<1>6. TakenFrom(S, c, Drop(B, c) \o network)
  BY <1>2, <1>3, DropFromStream
<1>7. /\ S \in Seq(Tokens) /\ Len(S) = Len(B) + Len(network) /\ StartOf(B, S)
  BY <1>2, StreamFacts
<1>8. Stream = S /\ Stream' = Drop(B, c) \o network
  BY <1>1, <1>3 DEF Stream, B
<1> HIDE DEF S
<1>9. \A i \in 1..c : S[i] = B[i]
  <2>1. \A i \in 1..c : i \in 1..Len(B)
    BY <1>4
  <2> QED
    BY <1>7, <2>1 DEF StartOf
<1>10. TookText(S, c, r)
  BY <1>3, <1>9 DEF TookText
<1>11. delivered' = Handed(delivered, r)
  BY <1>1 DEF Handed
<1>12. Exposes(S, c, exposed, exposed')
  <2>1. Head(B) = B[1] /\ B[1] = S[1]
    <3>1. B # <<>> /\ 1 \in 1..c
      BY <1>3, <1>4
    <3> QED
      BY <1>9, <3>1
  <2>2. Touched(B, LineLength) = {B[i].message : i \in 1..c} \ {S[1].message}
    BY <1>3, <2>1
  <2>3. {B[i].message : i \in 1..c} = {S[i].message : i \in 1..c}
    BY <1>9
  <2> QED
    BY <1>1, <2>2, <2>3 DEF Exposes
<1> DEFINE h == S[1].message
<1>13. ASSUME Whole(S, sent[h], h)
       PROVE  /\ Len(sent[h]) <= c
              /\ damage[h] \notin {"count", "eol"} =>
                   c = Len(sent[h]) /\ r = IF damage[h] = "none" THEN h ELSE Nothing
  <2>1. 0 < Len(S) /\ 1 \in 1..Len(S)
    BY <1>2, <1>3, <1>4, <1>7
  <2>2. h \in 1..n
    BY <1>2, <2>1 DEF InOrder, S
  <2>3. sent[h] \in Seq(Tokens)
    <3> HIDE DEF h
    <3> QED
      BY <1>2, <2>2, ElementOfSeq DEF n
  <2>4. PICK a \in 0..Len(S) : BlockAt(S, sent[h], h, a)
    BY <1>13 DEF Whole
  <2>5. a = 0
    BY <1>7, <2>1, <2>3, <2>4, WholeFirst
  <2>6. BlockAt(S, sent[h], h, 0)
    BY <2>4, <2>5
  <2>7. InOrder(S, n) /\ AllPlaced(S, sent, exposed, n)
    BY <1>2 DEF S
  <2>8. /\ Len(sent[h]) <= LineLength
        /\ damage[h] \notin {"count", "eol"} =>
             /\ ParseIncomingMessage(LineLength).rest = Drop(B, Len(sent[h]))
             /\ ParseIncomingMessage(LineLength).message = IF damage[h] = "none" THEN h ELSE Nothing
    <3> DEFINE W == sent
               D == damage
               g == h
    <3>1. /\ B = incoming_message_buffer_ /\ g = S[1].message /\ BlockAt(S, W[g], g, 0)
          /\ AllForms(W, D, n) /\ AllPlaced(S, W, exposed, n)
      BY <1>2, <2>6, <2>7 DEF B
    <3> HIDE DEF W, D, g
    <3>2. B \in Seq(Tokens) /\ S \in Seq(Tokens) /\ n \in Nat
      BY <1>2, <1>7
    <3>3. LineLength > 0 /\ StartOf(B, S) /\ InOrder(S, n)
      BY <1>1, <1>7, <2>7
    <3>4. TakesExactly(B, W[g], D[g], g)
      BY <3>1, <3>2, <3>3, HandlerExact
    <3> QED
      BY <3>4 DEF W, D, g, TakesExactly
  <2>9. Len(sent[h]) \in Nat
    BY <2>3
  <2>10. Len(sent[h]) <= c
    BY <1>4, <2>8, <2>9
  <2>11. ASSUME damage[h] \notin {"count", "eol"}
         PROVE  c = Len(sent[h]) /\ r = IF damage[h] = "none" THEN h ELSE Nothing
    <3>1. rest = Drop(B, Len(sent[h])) /\ r = IF damage[h] = "none" THEN h ELSE Nothing
      BY <2>8, <2>11 DEF rest, r
    <3>2. Len(rest) = Len(B) - Len(sent[h])
      <4>1. Len(sent[h]) <= Len(B)
        BY <1>4, <2>9, <2>10
      <4> QED
        BY <1>2, <2>9, <3>1, <4>1, DropFacts
    <3>3. c = Len(sent[h])
      <4> DEFINE l == Len(sent[h])
      <4>1. l \in Nat /\ Len(rest) = Len(B) - l
        BY <2>9, <3>2
      <4> HIDE DEF l
      <4>2. c = l
        BY <1>4, <1>5, <4>1
      <4> QED
        BY <4>2 DEF l
    <3> QED
      BY <3>1, <3>3
  <2> QED
    BY <2>10, <2>11
<1>14. FirstTaken(S, c, sent) /\ FirstParsed(S, c, sent, damage, r)
  BY <1>13 DEF FirstTaken, FirstParsed
<1>15. HandlerTook(c, r)
  BY <1>6, <1>8, <1>10, <1>11, <1>12, <1>14 DEF HandlerTook
<1>16. Len(rest) < Len(B)
  BY <1>3, <1>4, <1>5
<1> QED
  BY <1>1, <1>5, <1>15, <1>16 DEF B

(******************************************************************************)
(* It preserves the invariant.                                                *)
(******************************************************************************)
LEMMA HandlerPreserves ==
  ASSUME FramingInv, IncomingMessageHandler
  PROVE  FramingInv'
<1> DEFINE S == Stream
           T == Stream'
           n == Len(sent)
<1>1. /\ sent' = sent /\ damage' = damage /\ network' = network
      /\ incoming_message_buffer_' \in Seq(Tokens)
  BY HandlerStep
<1>2. PICK c, r : HandlerTook(c, r)
  BY HandlerStep
<1>3. /\ TakenFrom(S, c, T) /\ TookText(S, c, r)
      /\ delivered' = Handed(delivered, r) /\ Exposes(S, c, exposed, exposed')
      /\ FirstTaken(S, c, sent) /\ FirstParsed(S, c, sent, damage, r)
  BY <1>2 DEF HandlerTook
<1>4. /\ sent \in Seq(Seq(Tokens)) /\ delivered \in Seq(Nat) /\ network \in Seq(Tokens)
      /\ damage \in Seq(TokenTypes \cup {"none"})
      /\ AllForms(sent, damage, n) /\ InOrder(S, n) /\ AllPlaced(S, sent, exposed, n)
      /\ InOrderBefore(delivered, S, n) /\ Explained(exposed, damage, n)
      /\ \A m \in 1..n : m \notin exposed => Fate(S, sent[m], damage[m], delivered, m)
  BY DEF FramingInv, FramingTypes, FormsInv, StreamInv, DeliveredInv, FatesInv, ExposedInv
<1>5. S \in Seq(Tokens) /\ n \in Nat /\ exposed \subseteq exposed'
  <2>1. S \in Seq(Tokens)
    BY StreamFacts DEF FramingInv, FramingTypes, Stream
  <2> QED
    BY <1>3, <1>4, <2>1 DEF Exposes
<1>6. \A m \in 1..n : /\ m \in Nat /\ sent[m] \in Seq(Tokens) /\ 0 < Len(sent[m])
                      /\ \A i \in 1..Len(sent[m]) : sent[m][i].message = m
  <2> SUFFICES ASSUME NEW m \in 1..n
               PROVE  /\ m \in Nat /\ sent[m] \in Seq(Tokens) /\ 0 < Len(sent[m])
                      /\ \A i \in 1..Len(sent[m]) : sent[m][i].message = m
    OBVIOUS
  <2>1. m \in Nat /\ IsForm(m, sent[m], damage[m])
    BY <1>4, <1>5 DEF AllForms
  <2>2. FormOf(sent[m], m, damage[m])
    BY <2>1, FormFacts
  <2> QED
    BY <2>1, <2>2 DEF FormOf
<1> HIDE DEF S, T, n
<1>7. InOrder(T, n)
  BY <1>3, <1>4, <1>5, TakenInOrder
<1>8. ASSUME NEW m \in 1..n PROVE Placed(T, sent[m], exposed', m)
  <2>1. Placed(S, sent[m], exposed, m)
    BY <1>4 DEF AllPlaced
  <2> QED
    BY <1>3, <1>4, <1>5, <1>6, <2>1, TakenPlaced
<1>9. InOrderBefore(delivered', T, n)
  BY <1>3, <1>4, <1>5, HandedInOrder
<1>10. ASSUME NEW m \in 1..n, m \notin exposed' PROVE Fate(T, sent[m], damage[m], delivered', m)
  <2>1. Fate(S, sent[m], damage[m], delivered, m)
    BY <1>4, <1>5, <1>10
  <2> QED
    BY <1>3, <1>4, <1>5, <1>6, <1>10, <2>1, TakenFate
<1>11. Explained(exposed', damage, n)
  <2>1. 1 \in 1..Len(S)
    BY <1>3, <1>5 DEF TakenFrom
  <2>2. S[1].message \in 1..n
    BY <1>4, <2>1 DEF InOrder
  <2>3. Placed(S, sent[S[1].message], exposed, S[1].message)
    BY <1>4, <2>2 DEF AllPlaced
  <2>4. \A i \in 1..Len(sent[S[1].message]) : sent[S[1].message][i].message = S[1].message
    BY <1>6, <2>2
  <2> QED
    BY <1>3, <1>4, <1>5, <2>3, <2>4, TakenExplained
<1>12. delivered' \in Seq(Nat)
  <2>1. r = Nothing \/ r \in Nat
    BY <1>3, <1>5, TakenText
  <2> QED
    BY <1>3, <1>4, <2>1, HandedFacts
<1>13. FramingTypes'
  BY <1>1, <1>4, <1>12 DEF FramingTypes
<1>14. FormsInv'
  <2>1. LineLength > 0 /\ incoming_message_buffer_ \in Seq(Tokens)
    BY DEF IncomingMessageHandler, FramingInv, FramingTypes
  <2>2. incoming_message_buffer_ # <<>>
    BY <2>1, LineLengthFacts
  <2>3. ~(Len(sent) < MaxMessages) /\ Len(damage) = Len(sent)
    BY <2>2 DEF FramingInv, FormsInv
  <2> QED
    BY <1>1, <1>4, <2>3 DEF FormsInv, n
<1>15. StreamInv'
  BY <1>1, <1>7, <1>8 DEF StreamInv, AllPlaced, T, n
<1>16. DeliveredInv' /\ FatesInv' /\ ExposedInv'
  BY <1>1, <1>9, <1>10, <1>11 DEF DeliveredInv, FatesInv, ExposedInv, T, n
<1> QED
  BY <1>13, <1>14, <1>15, <1>16 DEF FramingInv

--------------------------------------------------------------------------------
(******************************************************************************)
(* Sending a message, and its arrival.                                        *)
(******************************************************************************)
LEMMA SendPreserves ==
  ASSUME FramingInv, Len(sent) < MaxMessages, NEW s, NEW d \in TokenTypes \cup {"none"},
         IsForm(Len(sent) + 1, s, d), Send(s, d)
  PROVE  FramingInv'
<1> DEFINE S == Stream
           U == Stream'
           n == Len(sent)
           m == n + 1
<1>1. /\ sent \in Seq(Seq(Tokens)) /\ damage \in Seq(TokenTypes \cup {"none"})
      /\ network \in Seq(Tokens) /\ delivered \in Seq(Nat)
      /\ incoming_message_buffer_ = <<>> /\ Len(damage) = n /\ n \in Nat
      /\ AllForms(sent, damage, n) /\ InOrder(S, n) /\ AllPlaced(S, sent, exposed, n)
      /\ InOrderBefore(delivered, S, n) /\ Explained(exposed, damage, n)
  BY DEF FramingInv, FramingTypes, FormsInv, StreamInv, DeliveredInv, ExposedInv
<1>2. \A k \in 1..n : k \notin exposed => Fate(S, sent[k], damage[k], delivered, k)
  BY DEF FramingInv, FatesInv
<1>3. /\ sent' = Append(sent, s) /\ damage' = Append(damage, d) /\ network' = network \o s
      /\ incoming_message_buffer_' = incoming_message_buffer_
      /\ delivered' = delivered /\ exposed' = exposed
  BY DEF Send
<1>4. m \in Nat /\ n < m /\ FormOf(s, m, d)
  BY <1>1, FormFacts
<1>5. s \in Seq(Tokens) /\ \A i \in 1..Len(s) : s[i].message = m
  BY <1>4 DEF FormOf
<1>6. S = network /\ S \in Seq(Tokens) /\ U = network \o s
  BY <1>1, <1>3, <1>5, ConcatEmptySeq DEF Stream
<1>7. Extended(S, s, U)
  <2>1. network \o s \in Seq(Tokens)
    BY <1>1, <1>5, StreamFacts
  <2> QED
    BY <1>1, <1>5, <1>6, <2>1, StreamFacts DEF Extended, StartOf
<1> HIDE DEF S, U
<1>8. /\ sent' \in Seq(Seq(Tokens)) /\ Len(sent') = m /\ sent'[m] = s
      /\ \A k \in 1..n : sent'[k] = sent[k]
  BY <1>1, <1>3, <1>5, AppendProperties
<1>9. /\ damage' \in Seq(TokenTypes \cup {"none"}) /\ Len(damage') = m /\ damage'[m] = d
      /\ \A k \in 1..n : damage'[k] = damage[k]
  <2> DEFINE kinds == TokenTypes \cup {"none"}
  <2>1. damage \in Seq(kinds) /\ d \in kinds
    BY <1>1
  <2> HIDE DEF kinds
  <2>2. /\ Append(damage, d) \in Seq(kinds) /\ Len(Append(damage, d)) = Len(damage) + 1
        /\ Append(damage, d)[Len(damage) + 1] = d
        /\ \A k \in 1..Len(damage) : Append(damage, d)[k] = damage[k]
    BY <2>1, AppendProperties
  <2> QED
    BY <1>1, <1>3, <2>2 DEF kinds
<1>10. \A k \in 1..m : k \in Nat /\ (k = m \/ k \in 1..n)
  BY <1>1
<1>11. \A k \in 1..n : k \in Nat /\ k < m /\ sent[k] \in Seq(Tokens)
  BY <1>1, ElementOfSeq
<1> HIDE DEF n, m
<1>12. AllForms(sent', damage', m)
  <2> SUFFICES ASSUME NEW k \in 1..m PROVE IsForm(k, sent'[k], damage'[k])
    BY DEF AllForms
  <2>1. CASE k = m
    <3>1. IsForm(m, s, d)
      BY DEF m, n
    <3> QED
      BY <1>8, <1>9, <2>1, <3>1
  <2>2. CASE k \in 1..n
    <3>1. IsForm(k, sent[k], damage[k])
      BY <1>1, <2>2 DEF AllForms
    <3> QED
      BY <1>8, <1>9, <2>2, <3>1
  <2> QED
    BY <1>10, <2>1, <2>2
<1>13. InOrder(U, m)
  BY <1>1, <1>4, <1>6, <1>7, SentInOrder DEF m
<1>14. Whole(U, s, m)
  BY <1>1, <1>5, <1>6, <1>7, SentWhole DEF m
<1>15. ASSUME NEW k \in 1..n
       PROVE  /\ Whole(S, sent[k], k) => Whole(U, sent[k], k)
              /\ Gone(S, k) => Gone(U, k)
              /\ Started(S, exposed, k) => Started(U, exposed, k)
  BY <1>4, <1>5, <1>6, <1>7, <1>11, SentBehind
<1>16. AllPlaced(U, sent', exposed', m)
  <2> SUFFICES ASSUME NEW k \in 1..m PROVE Placed(U, sent'[k], exposed', k)
    BY DEF AllPlaced
  <2>1. CASE k = m
    BY <1>8, <1>14, <2>1 DEF Placed
  <2>2. CASE k \in 1..n
    <3>1. Placed(S, sent[k], exposed, k)
      BY <1>1, <2>2 DEF AllPlaced
    <3>2. Placed(U, sent[k], exposed, k)
      BY <1>15, <2>2, <3>1 DEF Placed
    <3> QED
      BY <1>3, <1>8, <2>2, <3>2
  <2> QED
    BY <1>10, <2>1, <2>2
<1>17. InOrderBefore(delivered', U, m)
  <2>1. InOrderBefore(delivered, U, m)
    BY <1>1, <1>5, <1>6, <1>7, SentInOrderBefore DEF m
  <2> QED
    BY <1>3, <2>1
<1>18. ~Among(delivered, m)
  <2>1. \A i \in 1..Len(delivered) : delivered[i] \in 1..n
    BY <1>1 DEF InOrderBefore
  <2>2. \A k \in 1..n : k # m
    BY <1>4, <1>11
  <2> QED
    BY <2>1, <2>2 DEF Among
<1>19. ASSUME NEW k \in 1..m, k \notin exposed'
       PROVE  Fate(U, sent'[k], damage'[k], delivered', k)
  <2>1. CASE k = m
    BY <1>3, <1>8, <1>14, <1>18, <2>1 DEF Fate
  <2>2. CASE k \in 1..n
    <3>1. Fate(S, sent[k], damage[k], delivered, k)
      BY <1>2, <1>3, <1>19, <2>2 DEF S, n
    <3>2. Fate(U, sent[k], damage[k], delivered, k)
      BY <1>15, <2>2, <3>1 DEF Fate
    <3> QED
      BY <1>3, <1>8, <1>9, <2>2, <3>2
  <2> QED
    BY <1>10, <2>1, <2>2
<1>20. Explained(exposed', damage', m)
  <2>1. Explained(exposed, Append(damage, d), m)
    BY <1>1, SentExplained DEF m
  <2> QED
    BY <1>3, <2>1
<1>21. FramingTypes'
  BY <1>1, <1>3, <1>5, <1>6, <1>7, <1>8, <1>9 DEF FramingTypes, Extended
<1>22. FormsInv'
  BY <1>1, <1>3, <1>8, <1>9, <1>12 DEF FormsInv
<1>23. StreamInv'
  BY <1>8, <1>13, <1>16 DEF StreamInv, U
<1>24. DeliveredInv' /\ FatesInv' /\ ExposedInv'
  BY <1>8, <1>17, <1>19, <1>20 DEF DeliveredInv, FatesInv, ExposedInv, U
<1> QED
  BY <1>21, <1>22, <1>23, <1>24 DEF FramingInv

(******************************************************************************)
(* What is sent is a message in one of these forms.                           *)
(******************************************************************************)
LEMMA SendsForm ==
  ASSUME FramingInv, SendIntact \/ SendDamaged
  PROVE  \E s : \E d \in TokenTypes \cup {"none"} :
           IsForm(Len(sent) + 1, s, d) /\ Len(sent) < MaxMessages /\ Send(s, d)
<1> DEFINE m == Len(sent) + 1
<1>1. m \in Nat
  BY DEF FramingInv, FramingTypes
<1> HIDE DEF m
<1>2. ASSUME NEW t \in Forms PROVE Template(m, t) /\ t \in Seq(Tokens)
  <2>1. t = EncapsulateOutgoingMessage(m) \/ t = Bare(m)
    BY DEF Forms, m
  <2>2. IsFrame(EncapsulateOutgoingMessage(m), m) /\ IsBare(Bare(m), m)
    BY <1>1, FrameFacts, BareFacts
  <2> QED
    BY <2>1, <2>2 DEF Template, IsFrame, IsBare
<1>3. CASE SendIntact
  <2>1. PICK t \in Forms : Send(t, "none")
    BY <1>3 DEF SendIntact
  <2>2. IsForm(m, t, "none")
    BY <1>2, <2>1 DEF IsForm
  <2> QED
    BY <1>3, <2>1, <2>2 DEF SendIntact, m
<1>4. CASE SendDamaged
  <2>1. PICK t, p, s : t \in Forms /\ p \in DOMAIN t /\ s \in Damaged(t, p) /\ Send(s, t[p].type)
    BY <1>4 DEF SendDamaged
  <2>2. t \in Seq(Tokens) /\ p \in 1..Len(t) /\ Template(m, t)
    BY <1>2, <2>1
  <2>3. Change(t, p, s)
    BY <2>1, <2>2, DamagedFacts
  <2>4. IsForm(m, s, t[p].type)
    BY <2>2, <2>3 DEF IsForm
  <2>5. t[p] \in Tokens
    BY <2>2, ElementOfSeq
  <2>6. t[p].type \in TokenTypes \cup {"none"}
    BY <2>5 DEF Tokens
  <2> QED
    BY <1>4, <2>1, <2>4, <2>6 DEF SendDamaged, m
<1> QED
  BY <1>3, <1>4

(******************************************************************************)
(* Arrival moves tokens within the stream.                                    *)
(******************************************************************************)
LEMMA ArrivePreserves ==
  ASSUME FramingInv, Arrive
  PROVE  FramingInv'
<1> DEFINE B == incoming_message_buffer_
           N == network
<1>1. PICK k \in 1..Len(N) : /\ incoming_message_buffer_' = B \o SubSeq(N, 1, k)
                             /\ network' = From(N, k + 1)
  BY DEF Arrive
<1>2. /\ sent' = sent /\ damage' = damage /\ delivered' = delivered /\ exposed' = exposed
      /\ Len(sent) = MaxMessages
  BY DEF Arrive
<1>3. B \in Seq(Tokens) /\ N \in Seq(Tokens) /\ sent \in Seq(Seq(Tokens))
  BY DEF FramingInv, FramingTypes
<1> DEFINE P == SubSeq(N, 1, k)
           R == Drop(N, k)
<1>4. k \in Nat /\ k <= Len(N) /\ Len(N) \in Nat
  BY <1>3
<1>5. R \in Seq(Tokens) /\ Len(R) = Len(N) - k /\ \A i \in 1..Len(N) - k : R[i] = N[k + i]
  BY <1>3, <1>4, DropFacts
<1>6. P \in Seq(Tokens) /\ Len(P) = k /\ \A i \in 1..k : P[i] = N[i]
  <2>1. \A i \in 1..k : N[i] \in Tokens
    BY <1>3, <1>4, ElementOfSeq
  <2>2. /\ P \in Seq(Tokens) /\ Len(P) = IF 1 <= k THEN k - 1 + 1 ELSE 0
        /\ \A i \in 1..k - 1 + 1 : P[i] = N[1 + i - 1]
    BY <1>4, <2>1, SubSeqProperties
  <2>3. 1 <= k /\ \A i \in 1..k : i \in 1..k - 1 + 1 /\ 1 + i - 1 = i
    BY <1>4
  <2> QED
    BY <1>4, <2>2, <2>3
<1>7. network' = R
  BY <1>1 DEF Drop
<1> HIDE DEF B, N, P, R
<1>8. N = P \o R
  <2>1. /\ 1 \in 1..Len(N) + 1 /\ k \in 1 - 1..Len(N) /\ Len(N) \in k..Len(N)
    BY <1>4
  <2>2. SubSeq(N, 1, k) \o SubSeq(N, k + 1, Len(N)) = SubSeq(N, 1, Len(N))
    BY <1>3, <2>1, ConcatAdjacentSubSeq
  <2>3. SubSeq(N, 1, Len(N)) = N
    BY <1>3, SubSeqFull
  <2> QED
    BY <2>2, <2>3 DEF P, R, Drop, From
<1>9. Stream' = Stream
  <2>1. B \in Seq(Tokens) /\ P \in Seq(Tokens) /\ R \in Seq(Tokens)
    BY <1>3, <1>5, <1>6
  <2>2. (B \o P) \o R = B \o (P \o R)
    <3>1. \A s, t, u \in Seq(Tokens) : (s \o t) \o u = s \o (t \o u)
      BY ConcatAssociative, SMTT(30)
    <3> QED
      BY <2>1, <3>1, Zenon
  <2> QED
    BY <1>1, <1>7, <1>8, <2>2 DEF Stream, B, N, P
<1>10. FramingTypes'
  <2>1. B \o P \in Seq(Tokens)
    BY <1>3, <1>6, StreamFacts
  <2> QED
    BY <1>1, <1>2, <1>5, <1>7, <2>1 DEF FramingInv, FramingTypes, P
<1>11. FormsInv'
  <2>1. ~(Len(sent) < MaxMessages)
    BY <1>2, <1>3, FramingAssumption
  <2> QED
    BY <1>2, <2>1 DEF FramingInv, FormsInv
<1>12. StreamInv' /\ DeliveredInv' /\ FatesInv' /\ ExposedInv'
  BY <1>2, <1>9 DEF FramingInv, StreamInv, DeliveredInv, FatesInv, ExposedInv
<1> QED
  BY <1>10, <1>11, <1>12 DEF FramingInv

(******************************************************************************)
(* Nothing was sent initially.                                                *)
(******************************************************************************)
LEMMA FramingInitially ==
  ASSUME Init
  PROVE  FramingInv
<1>1. /\ sent = <<>> /\ damage = <<>> /\ network = <<>> /\ incoming_message_buffer_ = <<>>
      /\ delivered = <<>> /\ exposed = {}
  BY DEF Init
<1>2. FramingTypes
  BY <1>1 DEF FramingTypes
<1>3. Stream = <<>> /\ Len(Stream) = 0 /\ Len(sent) = 0 /\ Len(delivered) = 0
  <2>1. <<>> \o <<>> = <<>>
    BY ConcatEmptySeq
  <2> QED
    BY <1>1, <2>1 DEF Stream
<1>4. FormsInv
  BY <1>1, <1>3 DEF FormsInv, AllForms
<1>5. StreamInv /\ DeliveredInv /\ FatesInv /\ ExposedInv
  BY <1>1, <1>3 DEF StreamInv, InOrder, AllPlaced, DeliveredInv, InOrderBefore, FatesInv,
                    ExposedInv, Explained
<1> QED
  BY <1>2, <1>4, <1>5 DEF FramingInv

(******************************************************************************)
(* The invariant is inductive: the handler takes a whole number of messages   *)
(* from the stream, or breaks one off that it has then exposed.               *)
(******************************************************************************)
THEOREM FramingInductive == Spec => []FramingInv
<1>1. Init => FramingInv
  BY FramingInitially
<1>2. FramingInv /\ [Next]_vars => FramingInv'
  <2> SUFFICES ASSUME FramingInv, [Next]_vars PROVE FramingInv'
    OBVIOUS
  <2>1. CASE SendIntact \/ SendDamaged
    <3>1. PICK s, d : /\ d \in TokenTypes \cup {"none"} /\ IsForm(Len(sent) + 1, s, d)
                      /\ Len(sent) < MaxMessages /\ Send(s, d)
      BY <2>1, SendsForm
    <3> QED
      BY <3>1, SendPreserves
  <2>2. CASE Arrive
    BY <2>2, ArrivePreserves
  <2>3. CASE IncomingMessageHandler
    BY <2>3, HandlerPreserves
  <2>4. CASE UNCHANGED vars
    BY <2>4 DEF vars, FramingInv, FramingTypes, FormsInv, StreamInv, DeliveredInv, FatesInv,
                ExposedInv, Stream
  <2> QED
    BY <2>1, <2>2, <2>3, <2>4 DEF Next
<1> QED
  BY <1>1, <1>2, PTL DEF Spec

(******************************************************************************)
(* No message reaches the session twice or out of order, nor with a damaged   *)
(* payload, unless its frame was broken off (transport.cpp:252-312).          *)
(******************************************************************************)
THEOREM IntactInOrder == Spec => []DeliveredIntactInOrder
<1>1. FramingInv => DeliveredIntactInOrder
  <2> SUFFICES ASSUME FramingInv PROVE DeliveredIntactInOrder
    OBVIOUS
  <2>1. delivered \in Seq(Nat) /\ DOMAIN delivered = 1..Len(delivered)
    BY DEF FramingInv, FramingTypes
  <2>2. /\ \A i \in 1..Len(delivered) - 1 : delivered[i] < delivered[i + 1]
        /\ \A i \in 1..Len(delivered) : delivered[i] \in 1..Len(sent)
    BY DEF FramingInv, DeliveredInv, InOrderBefore
  <2>3. ASSUME NEW i \in DOMAIN delivered, damage[delivered[i]] \in {"open", "text", "close"},
               delivered[i] \notin exposed
        PROVE  FALSE
    <3>1. Among(delivered, delivered[i]) /\ delivered[i] \in 1..Len(sent)
      BY <2>1, <2>2, <2>3 DEF Among
    <3>2. Fate(Stream, sent[delivered[i]], damage[delivered[i]], delivered, delivered[i])
      BY <2>3, <3>1 DEF FramingInv, FatesInv
    <3> QED
      BY <2>3, <3>1, <3>2 DEF Fate
  <2> QED
    BY <2>2, <2>3 DEF DeliveredIntactInOrder
<1> QED
  BY <1>1, FramingInductive, PTL

(******************************************************************************)
(* A message is lost by its own damage, or to the line of another one when a  *)
(* wrong count or a lost delimiter before it made the parser read on          *)
(* (transport.cpp:314-317).                                                   *)
(******************************************************************************)
THEOREM LossExplained == Spec => []LossIsExplained
<1>1. FramingInv => LossIsExplained
  <2> SUFFICES ASSUME FramingInv, NEW m \in DOMAIN sent, damage[m] = "none", Passed(m),
                      m \in exposed => \A k \in 1..m - 1 : ~LeadsAstray(k)
               PROVE  Delivered(m)
    BY DEF LossIsExplained
  <2> DEFINE B == incoming_message_buffer_
             N == network
             S == Stream
  <2>1. /\ B \in Seq(Tokens) /\ N \in Seq(Tokens) /\ sent \in Seq(Seq(Tokens))
        /\ delivered \in Seq(Nat) /\ AllForms(sent, damage, Len(sent))
    BY DEF FramingInv, FramingTypes, FormsInv
  <2>2. m \in 1..Len(sent) /\ m \in Nat
    BY <2>1
  <2>3. m \notin exposed
    <3>1. ASSUME m \in exposed PROVE FALSE
      <4>1. PICK k \in 1..m - 1 : damage[k] \in {"count", "eol"}
        BY <3>1 DEF FramingInv, ExposedInv, Explained
      <4> QED
        BY <3>1, <4>1 DEF LeadsAstray
    <3> QED
      BY <3>1
  <2>4. Fate(S, sent[m], damage[m], delivered, m)
    BY <2>2, <2>3 DEF FramingInv, FatesInv
  <2>5. ~Whole(S, sent[m], m)
    <3>1. ASSUME NEW a \in 0..Len(S), BlockAt(S, sent[m], m, a) PROVE FALSE
      <4>1. FormOf(sent[m], m, damage[m])
        BY <2>1, <2>2, FormFacts DEF AllForms
      <4>2. /\ sent[m] \in Seq(Tokens) /\ Len(sent[m]) >= 3 /\ 1 \in 1..Len(sent[m])
            /\ sent[m][1].message = m
        BY <4>1 DEF FormOf
      <4>3. /\ S \in Seq(Tokens) /\ Len(S) = Len(B) + Len(N) /\ StartOf(B, S)
            /\ \A i \in 1..Len(N) : S[Len(B) + i] = N[i]
        BY <2>1, StreamFacts DEF Stream
      <4>4. a + 1 \in 1..Len(S) /\ S[a + 1].message = m
        BY <3>1, <4>2, <4>3 DEF BlockAt
      <4>5. Len(B) \in Nat /\ Len(N) \in Nat /\ DOMAIN B = 1..Len(B) /\ DOMAIN N = 1..Len(N)
        BY <2>1
      <4>6. /\ \A i \in 1..Len(N) : N[i].message > m
            /\ \A i \in 1..Len(B) : B[i].message > m
        BY <4>5 DEF Passed
      <4> HIDE DEF B, N, S
      <4>7. CASE a + 1 <= Len(B)
        <5>1. a + 1 \in 1..Len(B)
          BY <4>4, <4>5, <4>7
        <5>2. S[a + 1] = B[a + 1]
          BY <4>3, <5>1 DEF StartOf
        <5> QED
          BY <2>2, <4>4, <4>6, <5>1, <5>2
      <4>8. CASE ~(a + 1 <= Len(B))
        <5> DEFINE j == a + 1 - Len(B)
        <5>1. j \in 1..Len(N) /\ Len(B) + j = a + 1
          BY <4>3, <4>4, <4>5, <4>8
        <5> HIDE DEF j
        <5>2. S[a + 1] = N[j]
          BY <4>3, <5>1
        <5> QED
          BY <2>2, <4>4, <4>6, <5>1, <5>2
      <4> QED
        BY <4>7, <4>8
    <3> QED
      BY <3>1 DEF Whole
  <2>6. Among(delivered, m)
    BY <2>4, <2>5 DEF Fate
  <2> QED
    BY <2>1, <2>6 DEF Among, Delivered
<1> QED
  BY <1>1, FramingInductive, PTL

(******************************************************************************)
(* Every run of the handler takes something out of the buffer                 *)
(* (transport.cpp:314-317).                                                   *)
(******************************************************************************)
THEOREM Progress == Spec => []ParserMakesProgress
<1>1. FramingInv => ParserMakesProgress
  <2> SUFFICES ASSUME FramingInv, LineLength > 0
               PROVE  Len(ParseIncomingMessage(LineLength).rest) < Len(incoming_message_buffer_)
    BY DEF ParserMakesProgress
  <2> DEFINE B == incoming_message_buffer_
             rest == ParseIncomingMessage(LineLength).rest
  <2>1. B \in Seq(Tokens)
    BY DEF FramingInv, FramingTypes
  <2>2. PICK c \in 1..Len(B) : rest = Drop(B, c)
    BY <2>1, HandlerFacts
  <2> HIDE DEF B, rest
  <2>3. c \in Nat /\ c <= Len(B) /\ 1 <= c /\ Len(B) \in Nat
    BY <2>1
  <2>4. Len(rest) = Len(B) - c
    BY <2>1, <2>2, <2>3, DropFacts
  <2>5. Len(rest) < Len(B)
    BY <2>3, <2>4
  <2> QED
    BY <2>5 DEF B, rest
<1> QED
  BY <1>1, FramingInductive, PTL
================================================================================
