--------------------------- MODULE ScanStreamProofs ----------------------------
(******************************************************************************)
(* Proofs that ScanStream keeps its invariants for every number of blocks of  *)
(* a frame, every capacity of the queues and every length of the stream.      *)
(******************************************************************************)
EXTENDS ScanStream, SequenceTheorems, TLAPS

(******************************************************************************)
(* The inductive invariant.  Every block anywhere in the session was produced *)
(* by the device, and a stream fills only its own queue.                      *)
(******************************************************************************)
Produced(n) == n \in Nat /\ n < next /\ n < MaxBlock

StreamOrigin ==
  /\ first <= next
  /\ resized = Never \/ resized % BlockCount = 0
  /\ \A n \in in_flight : Produced(n)
  /\ \A i \in 1..Len(scan_block_queue_primary_) : Produced(scan_block_queue_primary_[i].number)
  /\ \A i \in 1..Len(scan_block_queue_oob_) :
       Produced(scan_block_queue_oob_[i].number) /\ scan_block_queue_oob_[i].has = Kinds
  /\ \A i \in 1..Len(polled) : Produced(polled[i].number)
  /\ source = "primary" => in_flight = {} /\ scan_block_queue_oob_ = <<>>
  /\ source = "oob" => scan_block_queue_primary_ = <<>>

(******************************************************************************)
(* On the primary connection the blocks are in the order of their numbers,    *)
(* and whatever the call has seen is older than all the queue holds.          *)
(******************************************************************************)
Increasing(blocks) ==
  \A i, j \in 1..Len(blocks) : i < j => blocks[i].number < blocks[j].number

Below(n, blocks) == \A j \in 1..Len(blocks) : n < blocks[j].number

Past(n) ==
  /\ n \in Nat \cup {NoSamples} /\ n < next
  /\ reader # "idle" => Below(n, scan_block_queue_primary_)

StreamOrder ==
  source = "primary" =>
    /\ Increasing(scan_block_queue_primary_)
    /\ Increasing(polled)
    /\ \A i \in 1..Len(polled) :
         Past(polled[i].number) /\ (reader # "idle" => polled[i].number >= first)

(******************************************************************************)
(* The first expected_block_index slots are the blocks polled last, as long   *)
(* as the program runs.                                                       *)
(******************************************************************************)
Assembly ==
  /\ reader # "idle" => returned = "nothing" /\ expected_block_index < BlockCount
  /\ call = "block" =>
       /\ expected_block_index = 0 /\ slots = <<>> /\ ProgramRuns
       /\ reader # "idle" => polled = <<>>
  /\ expected_block_index <= Len(slots) /\ expected_block_index <= Len(polled)
  /\ ProgramRuns =>
       \A i \in 1..expected_block_index :
         /\ slots[i].block = polled[Len(polled) - expected_block_index + i]
         /\ Index(slots[i].block) = i - 1
  /\ FrameReturned => expected_block_index = BlockCount /\ Len(slots) = BlockCount

(******************************************************************************)
(* scan_block holds the samples of the last block polled that had any, of     *)
(* each kind by itself.                                                       *)
(******************************************************************************)
Newest(number, kind, blocks) ==
  \A i \in 1..Len(blocks) : kind \in blocks[i].has => blocks[i].number <= number

Samples ==
  /\ \A i \in 1..Len(slots) : \A kind \in Kinds :
       kind \in slots[i].block.has => slots[i].samples[kind] = slots[i].block.number
  /\ source = "oob" => \A i \in 1..Len(slots) : slots[i].block.has = Kinds
  /\ source = "primary" =>
       /\ \A kind \in Kinds : Past(scan_block[kind]) /\ Newest(scan_block[kind], kind, polled)
       /\ \A i \in 1..Len(slots) : Past(slots[i].block.number)
       /\ SamplesOwnOrRepeated

(******************************************************************************)
(* There are no samples of a kind only while no block polled had any, and     *)
(* readScanFrame throws only while there are no ranges.                       *)
(******************************************************************************)
NoneYet ==
  /\ \A kind \in Kinds :
       scan_block[kind] = NoSamples => \A i \in 1..Len(polled) : kind \notin polled[i].has
  /\ returned = "exception" => scan_block["ranges"] = NoSamples

(******************************************************************************)
(* As long as block 0 has both kinds of samples and nothing is lost, the      *)
(* samples at hand are of this frame and have its length.                     *)
(******************************************************************************)
SoundSoFar ==
  /\ slots[1].block.has = Kinds
  /\ \A i \in 1..expected_block_index - 1 :
       slots[i + 1].block.number = slots[i].block.number + 1

WholeSoFar ==
  /\ \A i \in 1..expected_block_index :
       /\ slots[i].block.number = slots[1].block.number + (i - 1)
       /\ slots[i].whole
       /\ block_length = Length(slots[i].block.number)
  /\ \A kind \in Kinds :
       scan_block[kind] \in slots[1].block.number..slots[1].block.number + expected_block_index - 1

FrameIsWhole ==
  ProgramRuns /\ call = "frame" /\ expected_block_index > 0 /\ SoundSoFar => WholeSoFar

TerminatedUnsound ==
  reader = "terminated" => ~IsSound(Last(polled, expected_block_index + 1))

(******************************************************************************)
(* The last k blocks polled follow each other without a gap.  If the end of a *)
(* frame is among them and not the last, the next block was accepted as the   *)
(* first of a frame and all after it as well; so k is bounded.                *)
(******************************************************************************)
Run(k) ==
  \A i \in Len(polled) - k + 1..Len(polled) - 1 : polled[i + 1].number = polled[i].number + 1

Recovery ==
  Reads =>
    \A k \in 1..Len(polled) :
      Run(k) =>
        /\ k > Index(polled[Len(polled)]) + 1
             => expected_block_index = Index(polled[Len(polled)]) + 1
        /\ k <= BlockCount + Index(polled[Len(polled)]) + 1

Inductive ==
  /\ TypeOK
  /\ QueuesHoldNewest
  /\ NoLostWakeup
  /\ StreamOrigin
  /\ StreamOrder
  /\ Assembly
  /\ Samples
  /\ NoneYet
  /\ FrameIsWhole
  /\ TerminatedUnsound
  /\ Recovery

--------------------------------------------------------------------------------
(******************************************************************************)
(* Division with remainder, as the index of a block in its frame uses it      *)
(* (device.cpp:209, 232).                                                     *)
(******************************************************************************)
LEMMA DivMod ==
  ASSUME NEW a \in Nat, NEW b \in Nat \ {0}
  PROVE  /\ a \div b \in Nat /\ a % b \in 0..b - 1
         /\ a = b * (a \div b) + (a % b)
OBVIOUS

(******************************************************************************)
(* The remainder is determined by the quotient.                               *)
(******************************************************************************)
LEMMA ModUnique ==
  ASSUME NEW b \in Nat \ {0}, NEW q \in Nat, NEW r \in 0..b - 1
  PROVE  (b * q + r) % b = r
OBVIOUS

(******************************************************************************)
(* The block after one with index i has index i + 1 or, after the last of a   *)
(* frame, 0.                                                                  *)
(******************************************************************************)
LEMMA NextIndex ==
  ASSUME NEW n \in Nat, NEW b \in Nat \ {0}
  PROVE  (n + 1) % b = IF n % b = b - 1 THEN 0 ELSE (n % b) + 1
<1> DEFINE q == n \div b
           r == n % b
<1>1. q \in Nat /\ r \in 0..b - 1 /\ n = b * q + r
  BY DivMod
<1> HIDE DEF q, r
<1>2. CASE r = b - 1
  <2>1. n + 1 = b * (q + 1) + 0 /\ q + 1 \in Nat /\ 0 \in 0..b - 1
    BY <1>1, <1>2
  <2> QED
    BY <1>1, <1>2, <2>1, ModUnique DEF r
<1>3. CASE r # b - 1
  <2>1. n + 1 = b * q + (r + 1) /\ r + 1 \in 0..b - 1
    BY <1>1, <1>3
  <2> QED
    BY <1>1, <1>3, <2>1, ModUnique DEF r
<1> QED
  BY <1>2, <1>3

(******************************************************************************)
(* A restarted stream goes on with the first block of a frame, and with no    *)
(* block it has produced already.                                             *)
(******************************************************************************)
LEMMA NextFrameStarts ==
  ASSUME next \in Nat
  PROVE  NextFrame \in Nat /\ NextFrame >= next /\ NextFrame % BlockCount = 0
<1> USE ScanAssumption
<1> DEFINE q == (next + BlockCount - 1) \div BlockCount
           r == (next + BlockCount - 1) % BlockCount
<1>1. next + BlockCount - 1 \in Nat
  OBVIOUS
<1>2. q \in Nat /\ r \in 0..BlockCount - 1 /\ next + BlockCount - 1 = BlockCount * q + r
  BY <1>1, DivMod
<1> HIDE DEF q, r
<1>3. /\ q * BlockCount = BlockCount * q + 0
      /\ q * BlockCount \in Nat /\ q * BlockCount >= next
      /\ 0 \in 0..BlockCount - 1
  BY <1>2
<1>4. (q * BlockCount) % BlockCount = 0
  BY <1>2, <1>3, ModUnique
<1> QED
  BY <1>3, <1>4 DEF q, NextFrame

--------------------------------------------------------------------------------
(******************************************************************************)
(* What the queues hold after push_back, with or without the pop_front of a   *)
(* full queue (session.cpp:175-177, 185-187).                                 *)
(******************************************************************************)
LEMMA PushFacts ==
  ASSUME NEW queue \in Seq(Block), Len(queue) <= SCAN_BLOCK_BUFFERING_COUNT, NEW block \in Block
  PROVE  /\ Push(queue, block) \in Seq(Block)
         /\ Len(Push(queue, block)) \in 1..SCAN_BLOCK_BUFFERING_COUNT
         /\ Push(queue, block)[Len(Push(queue, block))] = block
         /\ \E drop \in {0, 1} :
              /\ Len(Push(queue, block)) = Len(queue) - drop + 1
              /\ \A i \in 1..Len(queue) - drop : Push(queue, block)[i] = queue[i + drop]
<1> USE ScanAssumption
<1>1. CASE Full(queue)
  <2> DEFINE rest == Tail(queue)
  <2>1. queue # <<>> /\ Len(queue) = SCAN_BLOCK_BUFFERING_COUNT
    BY <1>1 DEF Full
  <2>2. /\ rest \in Seq(Block) /\ Len(rest) = Len(queue) - 1
        /\ \A i \in 1..Len(rest) : rest[i] = queue[i + 1]
    BY <2>1, HeadTailProperties
  <2>3. Push(queue, block) = Append(rest, block)
    BY <1>1 DEF Push
  <2> HIDE DEF rest
  <2>4. /\ Append(rest, block) \in Seq(Block)
        /\ Len(Append(rest, block)) = Len(rest) + 1
        /\ \A i \in 1..Len(rest) : Append(rest, block)[i] = rest[i]
        /\ Append(rest, block)[Len(rest) + 1] = block
    BY <2>2, AppendProperties
  <2>5. Len(queue) \in Nat
    OBVIOUS
  <2> QED
    BY <2>1, <2>2, <2>3, <2>4, <2>5
<1>2. CASE ~Full(queue)
  <2>1. Push(queue, block) = Append(queue, block) /\ Len(queue) < SCAN_BLOCK_BUFFERING_COUNT
    BY <1>2 DEF Push, Full
  <2>2. /\ Append(queue, block) \in Seq(Block)
        /\ Len(Append(queue, block)) = Len(queue) + 1
        /\ \A i \in 1..Len(queue) : Append(queue, block)[i] = queue[i]
        /\ Append(queue, block)[Len(queue) + 1] = block
    BY AppendProperties
  <2> QED
    BY <2>1, <2>2
<1> QED
  BY <1>1, <1>2

(******************************************************************************)
(* The blocks of a queue are linked: each is followed by the next one the     *)
(* device produced or by the first of a frame, and after the last comes high. *)
(******************************************************************************)
LinkedAt(queue, i, low, high) ==
  LET follower == IF i = Len(queue) THEN high ELSE queue[i + 1].number
  IN  /\ queue[i].number \in low..high - 1
      /\ follower = queue[i].number + 1 \/ follower % BlockCount = 0

Linked(queue, low, high) == \A i \in 1..Len(queue) : LinkedAt(queue, i, low, high)

(******************************************************************************)
(* push_back of the block the device has produced keeps the queue linked,     *)
(* also when the oldest one is dropped (session.cpp:175-177).                 *)
(******************************************************************************)
LEMMA PushLinked ==
  ASSUME NEW queue \in Seq(Block), Len(queue) <= SCAN_BLOCK_BUFFERING_COUNT,
         NEW block \in Block, NEW low \in Nat, low <= block.number,
         Linked(queue, low, block.number)
  PROVE  Linked(Push(queue, block), low, block.number + 1)
<1> DEFINE pushed == Push(queue, block)
           last == Len(pushed)
           high == block.number
<1>0. high \in Nat
  BY DEF Block
<1> HIDE DEF high
<1>1. Len(queue) \in Nat /\ last \in Nat \ {0} /\ pushed[last] = block /\ high \in Nat
  <2>1. last \in 1..SCAN_BLOCK_BUFFERING_COUNT /\ pushed[last] = block
    BY PushFacts
  <2> HIDE DEF last, pushed
  <2> QED
    BY <1>0, <2>1, ScanAssumption
<1>2. PICK drop \in {0, 1} : /\ last = Len(queue) - drop + 1
                             /\ \A i \in 1..Len(queue) - drop : pushed[i] = queue[i + drop]
  BY PushFacts
<1> HIDE DEF pushed, last, high
<1> SUFFICES ASSUME NEW i \in 1..last
             PROVE  LinkedAt(pushed, i, low, high + 1)
  BY DEF Linked, pushed, last, high
<1>3. CASE i = last
  BY <1>1, <1>3 DEF LinkedAt, last, high
<1>4. CASE i < last
  <2>1. i + drop \in 1..Len(queue) /\ pushed[i] = queue[i + drop]
    BY <1>1, <1>2, <1>4
  <2>2. queue[i + drop].number \in low..high - 1
    BY <2>1 DEF Linked, LinkedAt, high
  <2>3. CASE i = last - 1
    <3>1. i + drop = Len(queue) /\ pushed[i + 1] = block
      BY <1>1, <1>2, <2>3
    <3>2. high = queue[i + drop].number + 1 \/ high % BlockCount = 0
      BY <2>1, <3>1 DEF Linked, LinkedAt, high
    <3>3. Len(pushed) = last /\ i # last /\ pushed[i + 1].number = high
      BY <1>1, <2>3, <3>1 DEF last, high
    <3>4. pushed[i].number \in low..(high + 1) - 1
      BY <1>1, <2>1, <2>2
    <3>5. high = pushed[i].number + 1 \/ high % BlockCount = 0
      BY <2>1, <3>2
    <3> QED
      BY <3>3, <3>4, <3>5 DEF LinkedAt
  <2>4. CASE i < last - 1
    <3>0. /\ i + 1 \in 1..Len(queue) - drop /\ (i + 1) + drop = i + drop + 1
          /\ i + drop # Len(queue) /\ i # last
      BY <1>1, <1>2, <2>4
    <3>1. i + drop # Len(queue) /\ pushed[i + 1] = queue[i + drop + 1]
      BY <1>2, <3>0
    <3>2. \/ queue[i + drop + 1].number = queue[i + drop].number + 1
          \/ queue[i + drop + 1].number % BlockCount = 0
      BY <2>1, <3>1 DEF Linked, LinkedAt
    <3>3. Len(pushed) = last
      BY DEF last
    <3>4. pushed[i].number \in low..(high + 1) - 1
      BY <1>1, <2>1, <2>2
    <3>5. \/ pushed[i + 1].number = pushed[i].number + 1
          \/ pushed[i + 1].number % BlockCount = 0
      BY <2>1, <3>1, <3>2
    <3> QED
      BY <3>0, <3>3, <3>4, <3>5 DEF LinkedAt
  <2> QED
    BY <1>1, <1>4, <2>3, <2>4
<1> QED
  BY <1>1, <1>3, <1>4

(******************************************************************************)
(* What pop_front returns and leaves (session.cpp:144-151).                   *)
(******************************************************************************)
LEMMA PopFacts ==
  ASSUME NEW queue \in Seq(Block), Len(queue) > 0
  PROVE  /\ Head(queue) \in Block /\ Head(queue) = queue[1]
         /\ Tail(queue) \in Seq(Block) /\ Len(Tail(queue)) = Len(queue) - 1
         /\ \A i \in 1..Len(queue) - 1 : Tail(queue)[i] = queue[i + 1]
BY HeadTailProperties, EmptySeq

(******************************************************************************)
(* Which block a poll takes, and from which queue.                            *)
(******************************************************************************)
Took(block) ==
  \/ /\ Len(scan_block_queue_primary_) > 0
     /\ block = scan_block_queue_primary_[1]
     /\ scan_block_queue_primary_' = Tail(scan_block_queue_primary_)
     /\ scan_block_queue_oob_' = scan_block_queue_oob_
  \/ /\ Len(scan_block_queue_primary_) = 0 /\ Len(scan_block_queue_oob_) > 0
     /\ block = scan_block_queue_oob_[1]
     /\ scan_block_queue_primary_' = scan_block_queue_primary_
     /\ scan_block_queue_oob_' = Tail(scan_block_queue_oob_)

(******************************************************************************)
(* The three ways a poll ends: with a block, past the deadline, or asleep     *)
(* (session.cpp:139-155).                                                     *)
(******************************************************************************)
LEMMA PollCases ==
  ASSUME TypeOK, PollForScanBlock
  PROVE  /\ reader \in {"evaluating", "expired"} /\ UNCHANGED <<deviceVars, call>>
         /\ \/ \E block \in Block : Took(block) /\ Use(block)
            \/ /\ ~HasBlock /\ reader' = "idle" /\ returned' = "timed_out"
               /\ UNCHANGED <<queues, expected_block_index, block_length, scan_block, slots, polled>>
            \/ /\ ~HasBlock /\ reader' = "waiting"
               /\ UNCHANGED <<queues, readerVars>>
<1>1. scan_block_queue_primary_ \in Seq(Block) /\ scan_block_queue_oob_ \in Seq(Block)
  BY DEF TypeOK
<1>2. CASE /\ Len(scan_block_queue_primary_) > 0
           /\ scan_block_queue_primary_' = Tail(scan_block_queue_primary_)
           /\ UNCHANGED scan_block_queue_oob_
           /\ Use(Head(scan_block_queue_primary_))
  <2>1. Head(scan_block_queue_primary_) \in Block /\ Took(Head(scan_block_queue_primary_))
    BY <1>1, <1>2, PopFacts DEF Took
  <2> QED
    BY <1>2, <2>1 DEF PollForScanBlock
<1>3. CASE /\ Len(scan_block_queue_primary_) = 0
           /\ Len(scan_block_queue_oob_) > 0
           /\ scan_block_queue_oob_' = Tail(scan_block_queue_oob_)
           /\ UNCHANGED scan_block_queue_primary_
           /\ Use(Head(scan_block_queue_oob_))
  <2>1. Head(scan_block_queue_oob_) \in Block /\ Took(Head(scan_block_queue_oob_))
    BY <1>1, <1>3, PopFacts DEF Took
  <2> QED
    BY <1>3, <2>1 DEF PollForScanBlock
<1> QED
  BY <1>2, <1>3 DEF PollForScanBlock, Return

(******************************************************************************)
(* A block has samples, at either resolution.                                 *)
(******************************************************************************)
LEMMA LengthIsPositive ==
  ASSUME TypeOK, NEW number
  PROVE  Length(number) \in Nat \ {0}
<1>1. lengths[1] \in BlockLengths /\ lengths[2] \in BlockLengths
  BY DEF TypeOK
<1> QED
  BY <1>1, ScanAssumption DEF Length

(******************************************************************************)
(* What scan_block holds after the block is decoded, and how many samples     *)
(* are copied (device.cpp:216-217, 254-279).                                  *)
(******************************************************************************)
LEMMA DecodeFacts ==
  ASSUME TypeOK, NEW block \in Block
  PROVE  /\ Decode(block) \in [Kinds -> Nat \cup {NoSamples}]
         /\ \A kind \in Kinds :
              Decode(block)[kind] = IF kind \in block.has THEN block.number ELSE scan_block[kind]
         /\ CopiedLength(Decode(block)) \in Nat \cup {Uninitialised}
<1>1. block.number \in Nat /\ scan_block \in [Kinds -> Nat \cup {NoSamples}]
  BY DEF Block, TypeOK
<1>2. /\ Decode(block) \in [Kinds -> Nat \cup {NoSamples}]
      /\ \A kind \in Kinds :
           Decode(block)[kind] = IF kind \in block.has THEN block.number ELSE scan_block[kind]
  BY <1>1 DEF Decode
<1>3. CopiedLength(Decode(block)) \in Nat \cup {Uninitialised}
  <2>1. block_length \in Nat \cup {Uninitialised}
    BY DEF TypeOK
  <2>2. Length(Decode(block)["ranges"]) \in Nat
    BY LengthIsPositive
  <2> QED
    BY <2>1, <2>2 DEF CopiedLength
<1> QED
  BY <1>2, <1>3

(******************************************************************************)
(* What becomes of the block: readScanBlock returns; readScanFrame begins     *)
(* anew, copies the block, or copies it and returns; or it ends the program   *)
(* or throws (device.cpp:204-236).                                            *)
(******************************************************************************)
BlockReturned == call = "block" /\ reader' = "idle" /\ returned' = "no_error"
                 /\ UNCHANGED <<expected_block_index, block_length, slots>>

BlockDropped(block) ==
  /\ call = "frame" /\ Index(block) # expected_block_index
  /\ expected_block_index' = 0 /\ reader' = "evaluating"
  /\ UNCHANGED <<block_length, slots, returned>>

BlockCopied(block) ==
  /\ call = "frame" /\ Index(block) = expected_block_index
  /\ block_length' = CopiedLength(Decode(block))
  /\ expected_block_index' = expected_block_index + 1
  /\ slots' \in Seq(Slot) /\ Len(slots') = expected_block_index + 1
  /\ \A i \in 1..expected_block_index : slots'[i] = slots[i]
  /\ slots'[expected_block_index + 1] =
       [block |-> block, samples |-> Decode(block),
        whole |-> IsWhole(CopiedLength(Decode(block)), Decode(block))]
  /\ IF expected_block_index + 1 = BlockCount
       THEN reader' = "idle" /\ returned' = "no_error"
       ELSE reader' = "evaluating" /\ returned' = returned

CopyFailed(block) ==
  /\ call = "frame" /\ Index(block) = expected_block_index
  /\ block_length' = CopiedLength(Decode(block))
  /\ UNCHANGED <<expected_block_index, slots>>
  /\ \/ /\ ~IsWhole(CopiedLength(Decode(block)), Decode(block))
        /\ reader' = "terminated" /\ returned' = returned
     \/ /\ expected_block_index = 0 /\ CopiedLength(Decode(block)) = Uninitialised
        /\ reader' = "idle" /\ returned' = "exception"

(******************************************************************************)
(* There is no other (device.cpp:204-236).                                    *)
(******************************************************************************)
LEMMA UseCases ==
  ASSUME TypeOK, Assembly, NEW block \in Block, Use(block), reader # "idle"
  PROVE  /\ polled' \in Seq(Block) /\ Len(polled') = Len(polled) + 1
         /\ \A i \in 1..Len(polled) : polled'[i] = polled[i]
         /\ polled'[Len(polled) + 1] = block
         /\ scan_block' = Decode(block)
         /\ BlockReturned \/ BlockDropped(block) \/ BlockCopied(block) \/ CopyFailed(block)
<1> USE ScanAssumption
<1>1. polled \in Seq(Block) /\ polled' = Append(polled, block)
  BY DEF TypeOK, Use
<1>2. /\ polled' \in Seq(Block) /\ Len(polled') = Len(polled) + 1
      /\ \A i \in 1..Len(polled) : polled'[i] = polled[i]
      /\ polled'[Len(polled) + 1] = block
  BY <1>1, AppendProperties
<1>3. scan_block' = Decode(block)
  BY DEF Use
<1>4. CASE call = "block"
  BY <1>2, <1>3, <1>4 DEF Use, Return, BlockReturned
<1>5. CASE call = "frame"
  <2> DEFINE samples == Decode(block)
             length == CopiedLength(samples)
  <2> HIDE DEF samples, length
  <2>1. CASE Index(block) # expected_block_index
    BY <1>2, <1>3, <1>5, <2>1 DEF Use, Assemble, AfterMismatch, BlockDropped
  <2>2. CASE /\ Index(block) = expected_block_index
             /\ block_length' = length
             /\ Copy(block, samples, length)
    <3> DEFINE slot == [block |-> block, samples |-> samples, whole |-> IsWhole(length, samples)]
               kept == SubSeq(slots, 1, expected_block_index)
    <3>1. /\ expected_block_index \in Nat /\ expected_block_index < BlockCount
          /\ slots \in Seq(Slot) /\ expected_block_index <= Len(slots)
      BY DEF TypeOK, Assembly
    <3>2. slot \in Slot
      BY DecodeFacts DEF Slot, IsWhole, samples
    <3>3. \A i \in 1..expected_block_index : slots[i] \in Slot
      BY <3>1, ElementOfSeq
    <3>4. /\ kept \in Seq(Slot) /\ Len(kept) = expected_block_index
          /\ \A i \in 1..expected_block_index : kept[i] = slots[i]
      BY <3>1, <3>3, SubSeqProperties
    <3>5. /\ expected_block_index' = expected_block_index + 1
          /\ slots' = Append(kept, slot)
          /\ IF expected_block_index + 1 >= BlockCount
               THEN reader' = "idle" /\ returned' = "no_error"
               ELSE reader' = "evaluating" /\ returned' = returned
      BY <2>2 DEF Copy, FrameIsComplete, Return
    <3> HIDE DEF slot, kept
    <3>6. /\ slots' \in Seq(Slot) /\ Len(slots') = expected_block_index + 1
          /\ \A i \in 1..expected_block_index : slots'[i] = slots[i]
          /\ slots'[expected_block_index + 1] = slot
      BY <3>1, <3>2, <3>4, <3>5, AppendProperties
    <3>7. expected_block_index + 1 >= BlockCount <=> expected_block_index + 1 = BlockCount
      BY <3>1
    <3>8. BlockCopied(block)
      BY <1>5, <2>2, <3>5, <3>6, <3>7 DEF slot, samples, length, BlockCopied
    <3> QED
      BY <1>2, <1>3, <3>8
  <2>3. CASE /\ Index(block) = expected_block_index
             /\ block_length' = length
             /\ UNCHANGED <<expected_block_index, slots>>
             /\ \/ ~IsWhole(length, samples) /\ reader' = "terminated" /\ UNCHANGED returned
                \/ /\ expected_block_index = 0 /\ length = Uninitialised
                   /\ Return("exception")
    BY <1>2, <1>3, <1>5, <2>3 DEF Return, CopyFailed, samples, length
  <2>4. Assemble(block)
    BY <1>5 DEF Use
  <2> QED
    BY <2>1, <2>2, <2>3, <2>4 DEF Assemble, samples, length
<1> QED
  BY <1>4, <1>5 DEF TypeOK

--------------------------------------------------------------------------------
(******************************************************************************)
(* Every step keeps the state well formed (session.cpp:137-189,               *)
(* device.cpp:198-237).                                                       *)
(******************************************************************************)
LEMMA TypeStep ==
  ASSUME TypeOK, QueuesHoldNewest, Assembly, [Next]_vars
  PROVE  TypeOK'
<1> USE ScanAssumption DEF deviceVars, queues, readerVars
<1>0. /\ scan_block_queue_primary_ \in Seq(Block) /\ scan_block_queue_oob_ \in Seq(Block)
      /\ Len(scan_block_queue_primary_) <= SCAN_BLOCK_BUFFERING_COUNT
      /\ Len(scan_block_queue_oob_) <= SCAN_BLOCK_BUFFERING_COUNT
      /\ next \in Nat
  BY DEF TypeOK, QueuesHoldNewest
<1>1. CASE OnMessageReceived
  <2>1. PICK has \in SUBSET Kinds : scan_block_queue_primary_' =
                                   Push(scan_block_queue_primary_, [number |-> next, has |-> has])
    BY <1>1 DEF OnMessageReceived
  <2>2. [number |-> next, has |-> has] \in Block
    BY <1>0 DEF Block
  <2>3. scan_block_queue_primary_' \in Seq(Block)
    BY <1>0, <2>1, <2>2, PushFacts
  <2> QED
    BY <1>1, <2>3 DEF OnMessageReceived, NotifyOne, TypeOK
<1>2. CASE OnOobPacketReceived
  <2>1. PICK n \in in_flight : /\ in_flight' = in_flight \ {n}
                               /\ scan_block_queue_oob_' =
                                    Push(scan_block_queue_oob_, [number |-> n, has |-> Kinds])
    BY <1>2 DEF OnOobPacketReceived
  <2>2. [number |-> n, has |-> Kinds] \in Block
    BY DEF Block, TypeOK
  <2>3. scan_block_queue_oob_' \in Seq(Block)
    BY <1>0, <2>1, <2>2, PushFacts
  <2> QED
    BY <1>2, <2>1, <2>3 DEF OnOobPacketReceived, NotifyOne, TypeOK
<1>3. CASE SendPacket \/ LosePacket
  <2>1. in_flight' \subseteq in_flight \cup {next} /\ next' \in {next, next + 1}
    BY <1>3 DEF SendPacket, LosePacket
  <2>2. in_flight' \in SUBSET Nat /\ next' \in Nat
    BY <1>0, <2>1 DEF TypeOK
  <2> QED
    BY <1>3, <2>2 DEF SendPacket, LosePacket, TypeOK
<1>4. CASE RestartStreaming
  <2>1. lengths' \in BlockLengths \X BlockLengths
    BY <1>4 DEF RestartStreaming, TypeOK
  <2> QED
    BY <1>0, <1>4, <2>1, NextFrameStarts DEF RestartStreaming, TypeOK
<1>5. CASE Reopen
  BY <1>0, <1>5, NextFrameStarts, EmptySeq DEF Reopen, Cleared, TypeOK
<1>6. CASE Read
  BY <1>6, EmptySeq DEF Read, NoSamples, TypeOK
<1>7. CASE Expire \/ SpuriousWake
  BY <1>7 DEF Expire, SpuriousWake, TypeOK
<1>8. CASE PollForScanBlock
  <2>1. ASSUME NEW block \in Block, Took(block), Use(block),
               reader \in {"evaluating", "expired"}, UNCHANGED <<deviceVars, call>>
        PROVE  TypeOK'
    <3>1. scan_block_queue_primary_' \in Seq(Block) /\ scan_block_queue_oob_' \in Seq(Block)
      BY <1>0, <2>1, PopFacts DEF Took
    <3>2. polled' \in Seq(Block) /\ scan_block' \in [Kinds -> Nat \cup {NoSamples}]
      BY <2>1, UseCases, DecodeFacts
    <3>3. /\ slots \in Seq(Slot) /\ expected_block_index \in 0..BlockCount - 1
          /\ block_length \in Nat \cup {Uninitialised}
          /\ CopiedLength(Decode(block)) \in Nat \cup {Uninitialised}
      BY <2>1, DecodeFacts DEF TypeOK, Assembly
    <3>4. /\ slots' \in Seq(Slot) /\ expected_block_index' \in 0..BlockCount
          /\ block_length' \in Nat \cup {Uninitialised}
      <4>1. /\ slots' = slots \/ slots' \in Seq(Slot)
            /\ expected_block_index' \in {expected_block_index, 0, expected_block_index + 1}
            /\ block_length' \in {block_length, CopiedLength(Decode(block))}
        BY <2>1, UseCases DEF BlockReturned, BlockDropped, BlockCopied, CopyFailed
      <4> QED
        BY <3>3, <4>1
    <3>5. /\ reader' \in {"idle", "evaluating", "terminated"}
          /\ returned' \in {"no_error", "exception", returned}
      BY <2>1, UseCases DEF BlockReturned, BlockDropped, BlockCopied, CopyFailed
    <3> QED
      BY <2>1, <3>1, <3>2, <3>4, <3>5 DEF TypeOK
  <2>2. CASE UNCHANGED <<deviceVars, call, queues, expected_block_index, block_length, scan_block,
                         slots, polled>>
    BY <1>8, <2>2, PollCases DEF TypeOK, PollForScanBlock, Return, Use
  <2> QED
    BY <1>8, <2>1, <2>2, PollCases
<1>9. CASE UNCHANGED vars
  BY <1>9 DEF vars, TypeOK
<1> QED
  BY <1>1, <1>2, <1>3, <1>4, <1>5, <1>6, <1>7, <1>8, <1>9 DEF Next

(******************************************************************************)
(* A poll takes the oldest block of a queue and leaves the others in order.   *)
(******************************************************************************)
LEMMA TookFacts ==
  ASSUME TypeOK, NEW block \in Block, Took(block)
  PROVE  \/ /\ Len(scan_block_queue_primary_) > 0 /\ block = scan_block_queue_primary_[1]
            /\ Len(scan_block_queue_primary_') = Len(scan_block_queue_primary_) - 1
            /\ \A i \in 1..Len(scan_block_queue_primary_) - 1 :
                 scan_block_queue_primary_'[i] = scan_block_queue_primary_[i + 1]
            /\ scan_block_queue_oob_' = scan_block_queue_oob_
         \/ /\ Len(scan_block_queue_primary_) = 0 /\ Len(scan_block_queue_oob_) > 0
            /\ block = scan_block_queue_oob_[1]
            /\ scan_block_queue_primary_' = scan_block_queue_primary_
            /\ Len(scan_block_queue_oob_') = Len(scan_block_queue_oob_) - 1
            /\ \A i \in 1..Len(scan_block_queue_oob_) - 1 :
                 scan_block_queue_oob_'[i] = scan_block_queue_oob_[i + 1]
<1>1. scan_block_queue_primary_ \in Seq(Block) /\ scan_block_queue_oob_ \in Seq(Block)
  BY DEF TypeOK
<1>2. ASSUME NEW queue \in Seq(Block), Len(queue) > 0
      PROVE  /\ Len(Tail(queue)) = Len(queue) - 1
             /\ \A i \in 1..Len(queue) - 1 : Tail(queue)[i] = queue[i + 1]
  BY <1>2, PopFacts
<1> QED
  BY <1>1, <1>2 DEF Took

(******************************************************************************)
(* pop_front keeps the queue linked (session.cpp:144-151).                    *)
(******************************************************************************)
LEMMA PopLinked ==
  ASSUME NEW queue \in Seq(Block), Len(queue) > 0, NEW low, NEW high, Linked(queue, low, high)
  PROVE  Linked(Tail(queue), low, high)
<1> SUFFICES ASSUME NEW i \in 1..Len(Tail(queue))
             PROVE  LinkedAt(Tail(queue), i, low, high)
  BY DEF Linked
<1>1. Len(queue) \in Nat /\ Len(Tail(queue)) = Len(queue) - 1
  BY PopFacts
<1>2. i + 1 \in 1..Len(queue) /\ Tail(queue)[i] = queue[i + 1]
  BY <1>1, PopFacts
<1>3. CASE i = Len(Tail(queue))
  BY <1>1, <1>2, <1>3 DEF Linked, LinkedAt
<1>4. CASE i # Len(Tail(queue))
  <2>1. Tail(queue)[i + 1] = queue[i + 2] /\ i + 1 # Len(queue)
    BY <1>1, <1>4, PopFacts
  <2>2. LinkedAt(queue, i + 1, low, high)
    BY <1>2 DEF Linked
  <2>3. i + 1 + 1 = i + 2
    OBVIOUS
  <2>4. /\ queue[i + 1].number \in low..high - 1
        /\ \/ queue[i + 2].number = queue[i + 1].number + 1
           \/ queue[i + 2].number % BlockCount = 0
    BY <2>1, <2>2, <2>3 DEF LinkedAt
  <2> QED
    BY <1>2, <1>4, <2>1, <2>4 DEF LinkedAt
<1> QED
  BY <1>3, <1>4

(******************************************************************************)
(* A stream that starts anew with the first block of a frame keeps the queue  *)
(* linked.                                                                    *)
(******************************************************************************)
LEMMA RestartLinked ==
  ASSUME NEW queue \in Seq(Block), NEW low \in Nat, NEW high \in Nat, Linked(queue, low, high),
         NEW start \in Nat, start >= high, start % BlockCount = 0
  PROVE  Linked(queue, low, start)
<1> SUFFICES ASSUME NEW i \in 1..Len(queue)
             PROVE  LinkedAt(queue, i, low, start)
  BY DEF Linked
<1>1. queue[i].number \in low..start - 1
  BY DEF Linked, LinkedAt
<1>2. i # Len(queue) => \/ queue[i + 1].number = queue[i].number + 1
                        \/ queue[i + 1].number % BlockCount = 0
  BY DEF Linked, LinkedAt
<1> QED
  BY <1>1, <1>2 DEF LinkedAt

(******************************************************************************)
(* What the runs check of the queues, in terms of Linked.                     *)
(******************************************************************************)
NewestQueues ==
  /\ Len(scan_block_queue_primary_) <= SCAN_BLOCK_BUFFERING_COUNT
  /\ Len(scan_block_queue_oob_) <= SCAN_BLOCK_BUFFERING_COUNT
  /\ Linked(scan_block_queue_primary_, first, next)

(******************************************************************************)
(* The two ways to say it agree.                                              *)
(******************************************************************************)
LEMMA QueuesAreLinked ==
  /\ QueuesHoldNewest <=> NewestQueues
  /\ QueuesHoldNewest' <=> NewestQueues'
BY DEF QueuesHoldNewest, NewestQueues, Linked, LinkedAt

(******************************************************************************)
(* The queues stay within their capacity and the primary one keeps the newest *)
(* blocks: pushing, popping, restarting and clearing break no link of the     *)
(* chain (session.cpp:55-57, 144-151, 175-177, 185-187).                      *)
(******************************************************************************)
LEMMA QueuesStep ==
  ASSUME TypeOK, QueuesHoldNewest, StreamOrigin, [Next]_vars
  PROVE  QueuesHoldNewest'
<1> USE ScanAssumption DEF deviceVars, queues, readerVars
<1> SUFFICES NewestQueues'
  BY QueuesAreLinked
<1>0. /\ scan_block_queue_primary_ \in Seq(Block) /\ scan_block_queue_oob_ \in Seq(Block)
      /\ Len(scan_block_queue_primary_) <= SCAN_BLOCK_BUFFERING_COUNT
      /\ Len(scan_block_queue_oob_) <= SCAN_BLOCK_BUFFERING_COUNT
      /\ Linked(scan_block_queue_primary_, first, next)
      /\ next \in Nat /\ first \in Nat /\ first <= next
  BY QueuesAreLinked DEF TypeOK, NewestQueues, StreamOrigin
<1>1. CASE OnMessageReceived
  <2>1. PICK has \in SUBSET Kinds : scan_block_queue_primary_' =
                                   Push(scan_block_queue_primary_, [number |-> next, has |-> has])
    BY <1>1 DEF OnMessageReceived
  <2> DEFINE block == [number |-> next, has |-> has]
  <2>2. block \in Block /\ block.number = next
    BY <1>0 DEF Block
  <2>3. next' = next + 1 /\ UNCHANGED <<first, scan_block_queue_oob_>>
    BY <1>1 DEF OnMessageReceived
  <2> HIDE DEF block
  <2>4. Linked(Push(scan_block_queue_primary_, block), first, next + 1)
    BY <1>0, <2>2, PushLinked
  <2>5. Len(Push(scan_block_queue_primary_, block)) <= SCAN_BLOCK_BUFFERING_COUNT
    BY <1>0, <2>2, PushFacts
  <2> QED
    BY <1>0, <2>1, <2>3, <2>4, <2>5 DEF NewestQueues, block
<1>2. CASE OnOobPacketReceived
  <2>1. PICK n \in in_flight : scan_block_queue_oob_' =
                                 Push(scan_block_queue_oob_, [number |-> n, has |-> Kinds])
    BY <1>2 DEF OnOobPacketReceived
  <2>2. [number |-> n, has |-> Kinds] \in Block
    BY DEF Block, TypeOK
  <2>3. Len(scan_block_queue_oob_') <= SCAN_BLOCK_BUFFERING_COUNT
    BY <1>0, <2>1, <2>2, PushFacts
  <2>4. UNCHANGED <<next, first, scan_block_queue_primary_>>
    BY <1>2 DEF OnOobPacketReceived
  <2> QED
    BY <1>0, <2>3, <2>4 DEF NewestQueues
<1>3. CASE SendPacket
  <2>1. scan_block_queue_primary_ = <<>> /\ UNCHANGED queues
    BY <1>3 DEF SendPacket, StreamOrigin
  <2> QED
    BY <1>0, <2>1 DEF NewestQueues, Linked
<1>4. CASE RestartStreaming
  <2>1. next' = NextFrame /\ UNCHANGED <<first, queues>>
    BY <1>4 DEF RestartStreaming
  <2>2. Linked(scan_block_queue_primary_, first, NextFrame)
    BY <1>0, NextFrameStarts, RestartLinked
  <2> QED
    BY <1>0, <2>1, <2>2 DEF NewestQueues
<1>5. CASE Reopen
  BY <1>5 DEF Reopen, Cleared, NewestQueues, Linked
<1>6. CASE PollForScanBlock
  <2>1. UNCHANGED <<next, first>>
    BY <1>6 DEF PollForScanBlock
  <2>2. CASE UNCHANGED queues
    BY <1>0, <2>1, <2>2 DEF NewestQueues
  <2>3. ASSUME NEW block \in Block, Took(block)
        PROVE  NewestQueues'
    <3>1. CASE Len(scan_block_queue_primary_) > 0
      <4>1. /\ scan_block_queue_primary_' = Tail(scan_block_queue_primary_)
            /\ scan_block_queue_oob_' = scan_block_queue_oob_
        BY <2>3, <3>1 DEF Took
      <4>2. Linked(Tail(scan_block_queue_primary_), first, next)
        BY <1>0, <3>1, PopLinked
      <4>3. Len(Tail(scan_block_queue_primary_)) <= SCAN_BLOCK_BUFFERING_COUNT
        BY <1>0, <3>1, PopFacts
      <4> QED
        BY <1>0, <2>1, <4>1, <4>2, <4>3 DEF NewestQueues
    <3>2. CASE ~(Len(scan_block_queue_primary_) > 0)
      <4>1. /\ scan_block_queue_primary_' = scan_block_queue_primary_
            /\ scan_block_queue_oob_' = Tail(scan_block_queue_oob_)
            /\ Len(scan_block_queue_oob_) > 0
        BY <2>3, <3>2 DEF Took
      <4>2. Len(Tail(scan_block_queue_oob_)) <= SCAN_BLOCK_BUFFERING_COUNT
        BY <1>0, <4>1, PopFacts
      <4> QED
        BY <1>0, <2>1, <4>1, <4>2 DEF NewestQueues
    <3> QED
      BY <3>1, <3>2
  <2> QED
    BY <1>6, <2>2, <2>3, PollCases
<1>7. CASE UNCHANGED <<next, first, queues>>
  BY <1>0, <1>7 DEF NewestQueues
<1> QED
  BY <1>1, <1>2, <1>3, <1>4, <1>5, <1>6, <1>7
     DEF Next, LosePacket, Read, Expire, SpuriousWake, vars

(******************************************************************************)
(* A thread goes to sleep only on empty queues, and every push wakes it       *)
(* (session.cpp:140-142, 178, 188).                                           *)
(******************************************************************************)
LEMMA WakeupStep ==
  ASSUME TypeOK, NoLostWakeup, [Next]_vars
  PROVE  NoLostWakeup'
<1> USE DEF deviceVars, queues, readerVars, NoLostWakeup, HasBlock
<1>1. CASE OnMessageReceived \/ OnOobPacketReceived
  BY <1>1 DEF OnMessageReceived, OnOobPacketReceived, NotifyOne, TypeOK
<1>2. CASE PollForScanBlock
  <2>1. reader' = "waiting" => UNCHANGED queues /\ ~HasBlock
    BY <1>2 DEF PollForScanBlock, Return, Use, Assemble, Copy
  <2> QED
    BY <2>1
<1>3. CASE Reopen
  BY <1>3 DEF Reopen, Cleared
<1>4. CASE UNCHANGED queues /\ (reader' = "waiting" => reader = "waiting")
  BY <1>4
<1> QED
  BY <1>1, <1>2, <1>3, <1>4
     DEF Next, SendPacket, LosePacket, RestartStreaming, Read, Expire, SpuriousWake, vars

--------------------------------------------------------------------------------
(******************************************************************************)
(* Only Read and PollForScanBlock change what the application's thread holds, *)
(* or begin and end its call.                                                 *)
(******************************************************************************)
LEMMA ReaderUntouched ==
  ASSUME [Next]_vars, ~Read, ~PollForScanBlock
  PROVE  /\ UNCHANGED readerVars /\ (reader' = "idle" <=> reader = "idle")
         /\ reader' = "terminated" <=> reader = "terminated"
BY DEF Next, OnMessageReceived, OnOobPacketReceived, NotifyOne, SendPacket, LosePacket,
       RestartStreaming, Reopen, Expire, SpuriousWake, vars, readerVars

(******************************************************************************)
(* After a push the queue holds the new block and blocks it held before.      *)
(******************************************************************************)
LEMMA PushElements ==
  ASSUME NEW queue \in Seq(Block), Len(queue) <= SCAN_BLOCK_BUFFERING_COUNT, NEW block \in Block,
         NEW i \in 1..Len(Push(queue, block))
  PROVE  Push(queue, block)[i] = block \/ \E j \in 1..Len(queue) : Push(queue, block)[i] = queue[j]
<1> DEFINE pushed == Push(queue, block)
<1>0. Len(pushed) \in 1..SCAN_BLOCK_BUFFERING_COUNT /\ pushed[Len(pushed)] = block
  BY PushFacts
<1>1. Len(queue) \in Nat /\ Len(pushed) \in Nat /\ pushed[Len(pushed)] = block
  BY <1>0, ScanAssumption
<1>2. PICK drop \in {0, 1} : /\ Len(pushed) = Len(queue) - drop + 1
                             /\ \A j \in 1..Len(queue) - drop : pushed[j] = queue[j + drop]
  BY PushFacts
<1> HIDE DEF pushed
<1>3. CASE i = Len(pushed)
  BY <1>1, <1>3 DEF pushed
<1>4. CASE i # Len(pushed)
  <2>1. i \in 1..Len(queue) - drop /\ i + drop \in 1..Len(queue)
    BY <1>1, <1>2, <1>4 DEF pushed
  <2> QED
    BY <1>2, <2>1 DEF pushed
<1> QED
  BY <1>3, <1>4

(******************************************************************************)
(* After a poll the queues hold only blocks they held before.                 *)
(******************************************************************************)
LEMMA TookElements ==
  ASSUME TypeOK, NEW block \in Block, Took(block)
  PROVE  /\ \A i \in 1..Len(scan_block_queue_primary_') :
              \E j \in 1..Len(scan_block_queue_primary_) :
                scan_block_queue_primary_'[i] = scan_block_queue_primary_[j]
         /\ \A i \in 1..Len(scan_block_queue_oob_') :
              \E j \in 1..Len(scan_block_queue_oob_) :
                scan_block_queue_oob_'[i] = scan_block_queue_oob_[j]
<1>1. Len(scan_block_queue_primary_) \in Nat /\ Len(scan_block_queue_oob_) \in Nat
  BY DEF TypeOK
<1>2. CASE Len(scan_block_queue_primary_) > 0
  <2>1. /\ Len(scan_block_queue_primary_') = Len(scan_block_queue_primary_) - 1
        /\ \A i \in 1..Len(scan_block_queue_primary_) - 1 :
             scan_block_queue_primary_'[i] = scan_block_queue_primary_[i + 1]
        /\ scan_block_queue_oob_' = scan_block_queue_oob_
    BY <1>2, TookFacts
  <2>2. \A i \in 1..Len(scan_block_queue_primary_') : i + 1 \in 1..Len(scan_block_queue_primary_)
    BY <1>1, <2>1
  <2> QED
    BY <2>1, <2>2
<1>3. CASE ~(Len(scan_block_queue_primary_) > 0)
  <2>1. /\ Len(scan_block_queue_oob_') = Len(scan_block_queue_oob_) - 1
        /\ \A i \in 1..Len(scan_block_queue_oob_) - 1 :
             scan_block_queue_oob_'[i] = scan_block_queue_oob_[i + 1]
        /\ scan_block_queue_primary_' = scan_block_queue_primary_
    BY <1>3, TookFacts
  <2>2. \A i \in 1..Len(scan_block_queue_oob_') : i + 1 \in 1..Len(scan_block_queue_oob_)
    BY <1>1, <2>1
  <2> QED
    BY <2>1, <2>2
<1> QED
  BY <1>2, <1>3

(******************************************************************************)
(* A block is produced once and then never taken back: the streams only go    *)
(* forward, through restarts and new connections (session.cpp:55-57,          *)
(* 174-189).                                                                  *)
(******************************************************************************)
LEMMA OriginStep ==
  ASSUME TypeOK, QueuesHoldNewest, StreamOrigin, Assembly, [Next]_vars
  PROVE  StreamOrigin'
<1> USE ScanAssumption DEF deviceVars, queues, readerVars
<1>0. /\ scan_block_queue_primary_ \in Seq(Block) /\ scan_block_queue_oob_ \in Seq(Block)
      /\ Len(scan_block_queue_primary_) <= SCAN_BLOCK_BUFFERING_COUNT
      /\ Len(scan_block_queue_oob_) <= SCAN_BLOCK_BUFFERING_COUNT
      /\ next \in Nat /\ first \in Nat
  BY DEF TypeOK, QueuesHoldNewest
<1>1. CASE OnMessageReceived
  <2>1. PICK has \in SUBSET Kinds : scan_block_queue_primary_' =
                                   Push(scan_block_queue_primary_, [number |-> next, has |-> has])
    BY <1>1 DEF OnMessageReceived
  <2> DEFINE block == [number |-> next, has |-> has]
  <2>2. block \in Block /\ block.number = next
    BY <1>0 DEF Block
  <2> HIDE DEF block
  <2>3. /\ next' = next + 1 /\ next < MaxBlock /\ source = "primary"
        /\ UNCHANGED <<source, first, resized, in_flight, scan_block_queue_oob_, polled>>
    BY <1>1 DEF OnMessageReceived
  <2>4. \A i \in 1..Len(scan_block_queue_primary_') :
          \/ scan_block_queue_primary_'[i] = block
          \/ \E j \in 1..Len(scan_block_queue_primary_) :
               scan_block_queue_primary_'[i] = scan_block_queue_primary_[j]
    <3>1. scan_block_queue_primary_' = Push(scan_block_queue_primary_, block)
      BY <2>1 DEF block
    <3>2. \A i \in 1..Len(Push(scan_block_queue_primary_, block)) :
            \/ Push(scan_block_queue_primary_, block)[i] = block
            \/ \E j \in 1..Len(scan_block_queue_primary_) :
                 Push(scan_block_queue_primary_, block)[i] = scan_block_queue_primary_[j]
      BY <1>0, <2>2, PushElements
    <3> QED
      BY <3>1, <3>2
  <2>5. \A i \in 1..Len(scan_block_queue_primary_') : Produced(scan_block_queue_primary_[i].number)'
    <3>1. ASSUME NEW n, n = next \/ Produced(n)
          PROVE  n \in Nat /\ n < next + 1 /\ n < MaxBlock
      BY <1>0, <2>3, <3>1 DEF Produced
    <3>2. \A i \in 1..Len(scan_block_queue_primary_') :
            \/ scan_block_queue_primary_'[i].number = next
            \/ Produced(scan_block_queue_primary_'[i].number)
      BY <2>2, <2>4 DEF StreamOrigin
    <3> QED
      BY <2>3, <3>1, <3>2 DEF Produced
  <2> QED
    BY <1>0, <2>3, <2>5 DEF StreamOrigin, Produced
<1>2. CASE OnOobPacketReceived
  <2>1. PICK n \in in_flight : /\ in_flight' = in_flight \ {n}
                               /\ scan_block_queue_oob_' =
                                    Push(scan_block_queue_oob_, [number |-> n, has |-> Kinds])
    BY <1>2 DEF OnOobPacketReceived
  <2> DEFINE block == [number |-> n, has |-> Kinds]
  <2>2. block \in Block /\ block.number = n /\ block.has = Kinds
    BY DEF Block, TypeOK
  <2> HIDE DEF block
  <2>3. UNCHANGED <<source, next, first, resized, scan_block_queue_primary_, polled>>
    BY <1>2 DEF OnOobPacketReceived
  <2>4. \A i \in 1..Len(scan_block_queue_oob_') :
          \/ scan_block_queue_oob_'[i] = block
          \/ \E j \in 1..Len(scan_block_queue_oob_) :
               scan_block_queue_oob_'[i] = scan_block_queue_oob_[j]
    BY <1>0, <2>1, <2>2, PushElements DEF block
  <2>5. \A i \in 1..Len(scan_block_queue_oob_') :
          Produced(scan_block_queue_oob_[i].number)' /\ scan_block_queue_oob_'[i].has = Kinds
    BY <2>2, <2>3, <2>4 DEF StreamOrigin, Produced
  <2> QED
    BY <2>1, <2>3, <2>5 DEF StreamOrigin, Produced
<1>3. CASE SendPacket
  BY <1>0, <1>3 DEF SendPacket, StreamOrigin, Produced
<1>4. CASE LosePacket
  BY <1>4 DEF LosePacket, StreamOrigin, Produced
<1>5. CASE RestartStreaming
  <2>1. next' \in Nat /\ next' >= next /\ UNCHANGED <<source, first, in_flight, queues, polled>>
    BY <1>0, <1>5, NextFrameStarts DEF RestartStreaming
  <2>2. first' <= next' /\ (resized' = Never \/ resized' % BlockCount = 0)
    <3>1. next' % BlockCount = 0 /\ resized' \in {resized, next'}
      BY <1>0, <1>5, NextFrameStarts DEF RestartStreaming
    <3>2. first' <= next'
      BY <1>0, <2>1 DEF StreamOrigin
    <3>3. resized = Never \/ resized % BlockCount = 0
      BY DEF StreamOrigin
    <3> QED
      BY <3>1, <3>2, <3>3
  <2>3. ASSUME NEW n, Produced(n)
        PROVE  n \in Nat /\ n < next' /\ n < MaxBlock
    <3>1. next \in Nat /\ next' \in Nat /\ next' >= next
      BY <1>0, <2>1
    <3> QED
      BY <2>3, <3>1 DEF Produced
  <2> QED
    BY <2>1, <2>2, <2>3 DEF StreamOrigin, Produced
<1>6. CASE Reopen
  <2>1. /\ next' \in Nat /\ next' >= next /\ first' = next'
        /\ UNCHANGED <<source, resized, in_flight, polled>>
        /\ scan_block_queue_primary_' = <<>> /\ scan_block_queue_oob_' = <<>>
    BY <1>0, <1>6, NextFrameStarts DEF Reopen, Cleared
  <2> QED
    BY <1>0, <2>1 DEF StreamOrigin, Produced, Never
<1>7. CASE Read
  BY <1>7 DEF Read, StreamOrigin, Produced
<1>8. CASE PollForScanBlock
  <2>0. UNCHANGED deviceVars
    BY <1>8 DEF PollForScanBlock
  <2>1. ASSUME NEW block \in Block, Took(block), Use(block), reader # "idle"
        PROVE  StreamOrigin'
    <3>1. Produced(block.number)
      BY <1>0, <2>1 DEF Took, StreamOrigin
    <3>2. \A i \in 1..Len(polled') :
            polled'[i] = block \/ \E j \in 1..Len(polled) : polled'[i] = polled[j]
      <4>1. /\ Len(polled') = Len(polled) + 1
            /\ \A i \in 1..Len(polled) : polled'[i] = polled[i]
            /\ polled'[Len(polled) + 1] = block
        BY <2>1, UseCases
      <4>2. Len(polled) \in Nat
        BY DEF TypeOK
      <4> QED
        BY <4>1, <4>2
    <3>3. \A i \in 1..Len(polled') : Produced(polled[i].number)'
      BY <2>0, <3>1, <3>2 DEF StreamOrigin, Produced
    <3>4. \A i \in 1..Len(scan_block_queue_primary_') :
            Produced(scan_block_queue_primary_[i].number)'
      BY <2>0, <2>1, TookElements DEF StreamOrigin, Produced
    <3>5. \A i \in 1..Len(scan_block_queue_oob_') :
            Produced(scan_block_queue_oob_[i].number)' /\ scan_block_queue_oob_'[i].has = Kinds
      BY <2>0, <2>1, TookElements DEF StreamOrigin, Produced
    <3>6. /\ source = "primary" => scan_block_queue_oob_' = <<>>
          /\ source = "oob" => scan_block_queue_primary_' = <<>>
      BY <2>1 DEF Took, StreamOrigin
    <3> QED
      BY <2>0, <3>3, <3>4, <3>5, <3>6 DEF StreamOrigin, Produced
  <2>2. CASE UNCHANGED <<queues, polled>>
    BY <2>0, <2>2 DEF StreamOrigin, Produced
  <2> QED
    BY <1>8, <2>1, <2>2, PollCases
<1>9. CASE UNCHANGED <<deviceVars, queues, polled>>
  BY <1>9 DEF StreamOrigin, Produced
<1> QED
  BY <1>1, <1>2, <1>3, <1>4, <1>5, <1>6, <1>7, <1>8, <1>9
     DEF Next, Expire, SpuriousWake, vars

--------------------------------------------------------------------------------
(******************************************************************************)
(* A sequence of blocks stays in order when a newer block is appended.        *)
(******************************************************************************)
LEMMA IncreasingAppend ==
  ASSUME NEW blocks \in Seq(Block), Increasing(blocks), NEW block \in Block,
         \A i \in 1..Len(blocks) : blocks[i].number < block.number
  PROVE  Increasing(Append(blocks, block))
<1> DEFINE longer == Append(blocks, block)
<1>1. /\ Len(longer) = Len(blocks) + 1
      /\ \A i \in 1..Len(blocks) : longer[i] = blocks[i]
      /\ longer[Len(blocks) + 1] = block
  BY AppendProperties
<1>2. Len(blocks) \in Nat
  OBVIOUS
<1> HIDE DEF longer
<1> SUFFICES ASSUME NEW i \in 1..Len(longer), NEW j \in 1..Len(longer), i < j
             PROVE  longer[i].number < longer[j].number
  BY DEF Increasing, longer
<1>3. i \in 1..Len(blocks) /\ longer[i] = blocks[i]
  BY <1>1, <1>2
<1>4. CASE j = Len(blocks) + 1
  BY <1>1, <1>3, <1>4
<1>5. CASE j # Len(blocks) + 1
  <2>1. j \in 1..Len(blocks) /\ longer[j] = blocks[j]
    BY <1>1, <1>2, <1>5
  <2> QED
    BY <1>3, <2>1 DEF Increasing
<1> QED
  BY <1>4, <1>5

(******************************************************************************)
(* pop_front leaves a queue in order, and takes a block older than the rest.  *)
(******************************************************************************)
LEMMA IncreasingTail ==
  ASSUME NEW queue \in Seq(Block), Len(queue) > 0, Increasing(queue)
  PROVE  Increasing(Tail(queue)) /\ Below(queue[1].number, Tail(queue))
<1> DEFINE rest == Tail(queue)
<1>1. /\ Len(rest) = Len(queue) - 1
      /\ \A i \in 1..Len(queue) - 1 : rest[i] = queue[i + 1]
  BY PopFacts
<1>2. Len(queue) \in Nat
  OBVIOUS
<1> HIDE DEF rest
<1>3. \A i \in 1..Len(rest) : i + 1 \in 1..Len(queue) /\ rest[i] = queue[i + 1]
  BY <1>1, <1>2
<1>4. Increasing(rest)
  <2> SUFFICES ASSUME NEW i \in 1..Len(rest), NEW j \in 1..Len(rest), i < j
               PROVE  rest[i].number < rest[j].number
    BY DEF Increasing
  <2>1. i + 1 \in 1..Len(queue) /\ j + 1 \in 1..Len(queue) /\ i + 1 < j + 1
    BY <1>3
  <2>2. queue[i + 1].number < queue[j + 1].number
    BY <2>1 DEF Increasing
  <2> QED
    BY <1>3, <2>2
<1>5. Below(queue[1].number, rest)
  BY <1>1, <1>2, <1>3 DEF Increasing, Below
<1> QED
  BY <1>4, <1>5 DEF rest

(******************************************************************************)
(* push_back of a newer block keeps a queue in order.                         *)
(******************************************************************************)
LEMMA IncreasingPush ==
  ASSUME NEW queue \in Seq(Block), NEW block \in Block, Increasing(queue),
         \A i \in 1..Len(queue) : queue[i].number < block.number
  PROVE  Increasing(Push(queue, block))
<1>1. CASE ~Full(queue)
  BY <1>1, IncreasingAppend DEF Push
<1>2. CASE Full(queue)
  <2> DEFINE rest == Tail(queue)
  <2>1. Len(queue) > 0
    BY <1>2, ScanAssumption DEF Full
  <2>2. /\ rest \in Seq(Block) /\ Len(rest) = Len(queue) - 1
        /\ \A i \in 1..Len(queue) - 1 : rest[i] = queue[i + 1]
    BY <2>1, PopFacts
  <2>3. Increasing(rest)
    BY <2>1, IncreasingTail
  <2>4. Push(queue, block) = Append(rest, block)
    BY <1>2 DEF Push
  <2>5. Len(queue) \in Nat
    OBVIOUS
  <2> HIDE DEF rest
  <2>6. \A i \in 1..Len(rest) : rest[i].number < block.number
    BY <2>2, <2>5
  <2> QED
    BY <2>2, <2>3, <2>4, <2>6, IncreasingAppend
<1> QED
  BY <1>1, <1>2

(******************************************************************************)
(* What is older than a queue and than the block pushed is older than the     *)
(* queue after the push, and older than what a pop leaves.                    *)
(******************************************************************************)
LEMMA BelowPush ==
  ASSUME NEW queue \in Seq(Block), Len(queue) <= SCAN_BLOCK_BUFFERING_COUNT, NEW block \in Block,
         NEW n, Below(n, queue), n < block.number
  PROVE  Below(n, Push(queue, block))
BY PushElements DEF Below

(******************************************************************************)
(* What is older than a queue is older than its head and the rest.            *)
(******************************************************************************)
LEMMA BelowPop ==
  ASSUME NEW queue \in Seq(Block), Len(queue) > 0, NEW n, Below(n, queue)
  PROVE  n < queue[1].number /\ Below(n, Tail(queue))
<1>1. Len(queue) \in Nat
  OBVIOUS
<1>2. \A i \in 1..Len(queue) - 1 : Tail(queue)[i] = queue[i + 1] /\ i + 1 \in 1..Len(queue)
  BY <1>1, PopFacts
<1>3. Len(Tail(queue)) = Len(queue) - 1 /\ 1 \in 1..Len(queue)
  BY <1>1, PopFacts
<1> QED
  BY <1>2, <1>3 DEF Below

(******************************************************************************)
(* What the call has seen stays in the past while the worker pushes blocks    *)
(* and the device restarts its stream or reconnects (session.cpp:55-57,       *)
(* 174-178).                                                                  *)
(******************************************************************************)
LEMMA PastUntouched ==
  ASSUME TypeOK, QueuesHoldNewest, StreamOrigin, source = "primary",
         [Next]_vars, ~Read, ~PollForScanBlock, NEW n, Past(n)
  PROVE  Past(n)'
<1> USE ScanAssumption DEF deviceVars, queues, readerVars
<1>0. /\ scan_block_queue_primary_ \in Seq(Block) /\ next \in Nat
      /\ Len(scan_block_queue_primary_) <= SCAN_BLOCK_BUFFERING_COUNT
      /\ reader' # "idle" => reader # "idle"
  BY ReaderUntouched DEF TypeOK, QueuesHoldNewest
<1>1. CASE OnMessageReceived
  <2>1. PICK has \in SUBSET Kinds : scan_block_queue_primary_' =
                                   Push(scan_block_queue_primary_, [number |-> next, has |-> has])
    BY <1>1 DEF OnMessageReceived
  <2> DEFINE block == [number |-> next, has |-> has]
  <2>2. block \in Block /\ block.number = next /\ next' = next + 1
    BY <1>0, <1>1 DEF Block, OnMessageReceived
  <2> HIDE DEF block
  <2>3. n \in Nat \cup {NoSamples} /\ n < next + 1 /\ n < block.number
    BY <1>0, <2>2 DEF Past, NoSamples
  <2>4. reader # "idle" => Below(n, Push(scan_block_queue_primary_, block))
    BY <1>0, <2>2, <2>3, BelowPush DEF Past
  <2> QED
    BY <1>0, <2>1, <2>2, <2>3, <2>4 DEF Past, block
<1>2. CASE RestartStreaming
  <2>1. next' \in Nat /\ next' >= next /\ UNCHANGED scan_block_queue_primary_
    BY <1>0, <1>2, NextFrameStarts DEF RestartStreaming
  <2>2. n < next'
    BY <1>0, <2>1 DEF Past, NoSamples
  <2> QED
    BY <1>0, <2>1, <2>2 DEF Past
<1>3. CASE Reopen
  <2>1. next' \in Nat /\ next' >= next /\ reader' = "idle"
    BY <1>0, <1>3, NextFrameStarts DEF Reopen
  <2>2. n < next'
    BY <1>0, <2>1 DEF Past, NoSamples
  <2> QED
    BY <2>1, <2>2 DEF Past
<1>4. CASE UNCHANGED <<next, scan_block_queue_primary_>>
  BY <1>0, <1>4 DEF Past
<1> QED
  BY <1>1, <1>2, <1>3, <1>4
     DEF Next, OnOobPacketReceived, SendPacket, LosePacket, Expire, SpuriousWake, StreamOrigin, vars

(******************************************************************************)
(* On the primary connection a poll takes the head of the primary queue,      *)
(* which is newer than all the call has seen and older than what is left      *)
(* (session.cpp:144-151).                                                     *)
(******************************************************************************)
LEMMA PastPoll ==
  ASSUME TypeOK, QueuesHoldNewest, StreamOrigin, StreamOrder, source = "primary",
         NEW block \in Block, Took(block), reader # "idle", UNCHANGED next
  PROVE  /\ Past(block.number)' /\ block.number >= first
         /\ \A n : Past(n) => n < block.number /\ Past(n)'
         /\ Increasing(scan_block_queue_primary_)'
<1>1. scan_block_queue_primary_ \in Seq(Block) /\ next \in Nat
  BY DEF TypeOK
<1>2. Len(scan_block_queue_oob_) = 0
  BY DEF StreamOrigin
<1>3. /\ Len(scan_block_queue_primary_) > 0 /\ block = scan_block_queue_primary_[1]
      /\ scan_block_queue_primary_' = Tail(scan_block_queue_primary_)
  BY <1>2 DEF Took
<1>4. 1 \in 1..Len(scan_block_queue_primary_)
  BY <1>1, <1>3
<1>5. block.number \in Nat /\ block.number < next /\ block.number >= first
  <2>1. block.number \in first..next - 1
    BY <1>3, <1>4 DEF QueuesHoldNewest
  <2> QED
    BY <1>1, <2>1 DEF TypeOK
<1>6. /\ Increasing(scan_block_queue_primary_') /\ Below(block.number, scan_block_queue_primary_')
  BY <1>1, <1>3, IncreasingTail DEF StreamOrder
<1>7. ASSUME NEW n, Past(n)
      PROVE  n < block.number /\ Past(n)'
  <2>1. n < block.number /\ Below(n, scan_block_queue_primary_')
    BY <1>1, <1>3, <1>7, BelowPop DEF Past
  <2> QED
    BY <1>7, <2>1 DEF Past
<1> QED
  BY <1>5, <1>6, <1>7 DEF Past

(******************************************************************************)
(* The blocks a call polls are in the order the device produced them, and of  *)
(* this connection (session.cpp:55-57, 144-151, device.cpp:203-237).          *)
(******************************************************************************)
LEMMA OrderStep ==
  ASSUME TypeOK, QueuesHoldNewest, StreamOrigin, StreamOrder, Assembly, [Next]_vars
  PROVE  StreamOrder'
<1> USE ScanAssumption DEF deviceVars, queues, readerVars
<1> SUFFICES ASSUME source' = "primary"
             PROVE  /\ Increasing(scan_block_queue_primary_)'
                    /\ Increasing(polled)'
                    /\ \A i \in 1..Len(polled') :
                         Past(polled[i].number)' /\ (reader' # "idle" => polled'[i].number >= first')
  BY DEF StreamOrder
<1>0. /\ scan_block_queue_primary_ \in Seq(Block) /\ next \in Nat
      /\ Increasing(scan_block_queue_primary_) /\ Increasing(polled)
      /\ source = "primary"
  BY DEF TypeOK, StreamOrder, Next, OnMessageReceived, OnOobPacketReceived, SendPacket, LosePacket,
         RestartStreaming, Reopen, Read, Expire, SpuriousWake, PollForScanBlock, vars
<1>1. CASE Read
  <2>1. polled' = <<>> /\ UNCHANGED scan_block_queue_primary_
    BY <1>1 DEF Read
  <2> QED
    BY <1>0, <2>1 DEF Increasing
<1>2. CASE PollForScanBlock
  <2>0. UNCHANGED <<next, first>> /\ reader # "idle"
    BY <1>2 DEF PollForScanBlock
  <2>1. ASSUME NEW block \in Block, Took(block), Use(block)
        PROVE  /\ Increasing(scan_block_queue_primary_)'
               /\ Increasing(polled)'
               /\ \A i \in 1..Len(polled') :
                    Past(polled[i].number)' /\ (reader' # "idle" => polled'[i].number >= first')
    <3>1. /\ Past(block.number)' /\ block.number >= first
          /\ Increasing(scan_block_queue_primary_')
      BY <1>0, <2>0, <2>1, PastPoll
    <3>2. \A i \in 1..Len(polled) :
            /\ polled[i].number < block.number /\ polled[i].number >= first
            /\ polled[i].number \in Nat \cup {NoSamples} /\ polled[i].number < next'
            /\ reader' # "idle" => Below(polled[i].number, scan_block_queue_primary_')
      BY <1>0, <2>0, <2>1, PastPoll DEF StreamOrder, Past
    <3>3. polled \in Seq(Block) /\ polled' = Append(polled, block)
      BY <2>1 DEF TypeOK, Use
    <3>4. Increasing(polled')
      BY <1>0, <3>2, <3>3, IncreasingAppend
    <3>5. \A i \in 1..Len(polled') :
            polled'[i] = block \/ \E j \in 1..Len(polled) : polled'[i] = polled[j]
      BY <3>3, AppendProperties
    <3> QED
      BY <2>0, <3>1, <3>2, <3>4, <3>5 DEF Past
  <2>2. CASE UNCHANGED <<queues, polled>>
    BY <1>0, <2>0, <2>2 DEF StreamOrder, Past
  <2> QED
    BY <1>2, <2>1, <2>2, PollCases
<1>3. CASE ~Read /\ ~PollForScanBlock
  <2>1. UNCHANGED polled /\ (reader' = "idle" <=> reader = "idle")
    BY <1>3, ReaderUntouched
  <2>2. \A i \in 1..Len(polled) : Past(polled[i].number)'
    BY <1>0, <1>3, <2>1, PastUntouched DEF StreamOrder, Past
  <2>3. reader' # "idle" => first' = first
    BY <1>3, <2>1 DEF Next, OnMessageReceived, OnOobPacketReceived, SendPacket, LosePacket,
         RestartStreaming, Reopen, Expire, SpuriousWake, vars
  <2>4. Increasing(scan_block_queue_primary_')
    <3>1. CASE OnMessageReceived
      <4>1. PICK has \in SUBSET Kinds : scan_block_queue_primary_' =
                                       Push(scan_block_queue_primary_, [number |-> next, has |-> has])
        BY <3>1 DEF OnMessageReceived
      <4> DEFINE block == [number |-> next, has |-> has]
      <4>2. block \in Block /\ block.number = next
        BY <1>0 DEF Block
      <4> HIDE DEF block
      <4>3. \A i \in 1..Len(scan_block_queue_primary_) :
              scan_block_queue_primary_[i].number < block.number
        BY <4>2 DEF StreamOrigin, Produced
      <4> QED
        BY <1>0, <4>1, <4>2, <4>3, IncreasingPush DEF block
    <3>2. CASE scan_block_queue_primary_' = <<>>
      BY <3>2 DEF Increasing
    <3>3. CASE UNCHANGED scan_block_queue_primary_
      BY <1>0, <3>3
    <3> QED
      BY <1>3, <3>1, <3>2, <3>3 DEF Next, OnOobPacketReceived, SendPacket, LosePacket,
         RestartStreaming, Reopen, Cleared, Expire, SpuriousWake, vars
  <2> QED
    BY <1>0, <2>1, <2>2, <2>3, <2>4 DEF StreamOrder, Past
<1> QED
  BY <1>1, <1>2, <1>3

--------------------------------------------------------------------------------
(******************************************************************************)
(* What is true of the application's thread when a call begins, whatever came *)
(* before (device.cpp:200-202).                                               *)
(******************************************************************************)
LEMMA ReadFacts ==
  ASSUME Read
  PROVE  /\ expected_block_index' = 0 /\ returned' = "nothing" /\ reader' = "evaluating"
         /\ scan_block' = [kind \in Kinds |-> NoSamples]
         /\ slots' = <<>> /\ polled' = <<>>
BY DEF Read

(******************************************************************************)
(* The first expected_block_index slots are always the blocks polled last     *)
(* (device.cpp:203-236).                                                      *)
(******************************************************************************)
LEMMA AssemblyStep ==
  ASSUME TypeOK, Assembly, [Next]_vars
  PROVE  Assembly'
<1> USE ScanAssumption DEF readerVars
<1>0. /\ expected_block_index \in 0..BlockCount /\ polled \in Seq(Block) /\ slots \in Seq(Slot)
      /\ Len(polled) \in Nat /\ Len(slots) \in Nat
  BY DEF TypeOK
<1>1. CASE Read
  BY <1>1, ReadFacts DEF Assembly, FrameReturned, ProgramRuns
<1>2. CASE ~Read /\ ~PollForScanBlock
  <2>1. /\ UNCHANGED readerVars /\ (reader' = "idle" <=> reader = "idle")
        /\ ProgramRuns' <=> ProgramRuns
    BY <1>2, ReaderUntouched DEF ProgramRuns
  <2> QED
    BY <2>1 DEF Assembly, FrameReturned, Index
<1>3. CASE PollForScanBlock
  <2>0. UNCHANGED call /\ reader # "idle" /\ ProgramRuns
    BY <1>3 DEF PollForScanBlock, ProgramRuns
  <2>1. ASSUME NEW block \in Block, Took(block), Use(block)
        PROVE  Assembly'
    <3>0. /\ expected_block_index < BlockCount /\ returned = "nothing"
          /\ expected_block_index <= Len(slots) /\ expected_block_index <= Len(polled)
      BY <2>0 DEF Assembly
    <3>1. /\ Len(polled') = Len(polled) + 1
          /\ \A i \in 1..Len(polled) : polled'[i] = polled[i]
          /\ polled'[Len(polled) + 1] = block
      BY <2>0, <2>1, UseCases
    <3>2. CASE BlockReturned
      <4>1. /\ reader' = "idle" /\ UNCHANGED <<expected_block_index, slots>>
            /\ expected_block_index = 0 /\ slots = <<>> /\ call = "block"
        BY <2>0, <3>2 DEF Assembly, BlockReturned
      <4> QED
        BY <1>0, <2>0, <3>1, <4>1 DEF Assembly, FrameReturned, ProgramRuns
    <3>3. CASE BlockDropped(block)
      <4>1. /\ expected_block_index' = 0 /\ reader' = "evaluating" /\ returned' = "nothing"
            /\ slots' = slots /\ call = "frame"
        BY <3>0, <3>3 DEF BlockDropped
      <4> QED
        BY <1>0, <2>0, <3>1, <4>1 DEF Assembly, FrameReturned
    <3>4. CASE BlockCopied(block)
      <4>1. /\ expected_block_index' = expected_block_index + 1
            /\ Len(slots') = expected_block_index + 1
            /\ \A i \in 1..expected_block_index : slots'[i] = slots[i]
            /\ IF expected_block_index + 1 = BlockCount
                 THEN reader' = "idle" /\ returned' = "no_error"
                 ELSE reader' = "evaluating" /\ returned' = returned
            /\ call = "frame" /\ Index(block) = expected_block_index
        BY <3>4 DEF BlockCopied
      <4>0. slots'[expected_block_index + 1].block = block
        BY <3>4 DEF BlockCopied
      <4>2. \A i \in 1..expected_block_index' :
              /\ slots'[i].block = polled'[Len(polled') - expected_block_index' + i]
              /\ Index(slots'[i].block) = i - 1
        <5>0. Len(polled') - expected_block_index' = Len(polled) - expected_block_index
          BY <1>0, <3>1, <4>1
        <5> SUFFICES ASSUME NEW i \in 1..expected_block_index + 1
                     PROVE  /\ slots'[i].block = polled'[Len(polled) - expected_block_index + i]
                            /\ Index(slots'[i].block) = i - 1
          BY <4>1, <5>0
        <5>1. CASE i = expected_block_index + 1
          <6>1. Len(polled) - expected_block_index + i = Len(polled) + 1
            BY <1>0, <5>1
          <6>2. slots'[i].block = block
            BY <4>0, <5>1
          <6>3. Index(block) = i - 1
            BY <1>0, <4>1, <5>1
          <6> QED
            BY <3>1, <6>1, <6>2, <6>3
        <5>2. CASE i # expected_block_index + 1
          <6>1. i \in 1..expected_block_index
            BY <1>0, <5>2
          <6>2. Len(polled) - expected_block_index + i \in 1..Len(polled)
            BY <1>0, <3>0, <6>1
          <6>3. /\ slots[i].block = polled[Len(polled) - expected_block_index + i]
                /\ Index(slots[i].block) = i - 1
            BY <2>0, <6>1 DEF Assembly
          <6> QED
            BY <3>1, <4>1, <6>1, <6>2, <6>3
        <5> QED
          BY <5>1, <5>2
      <4>3. /\ expected_block_index' <= Len(slots') /\ expected_block_index' <= Len(polled')
            /\ reader' # "idle" => returned' = "nothing" /\ expected_block_index' < BlockCount
            /\ returned' = "no_error" => expected_block_index' = BlockCount /\ Len(slots') = BlockCount
        BY <1>0, <3>0, <3>1, <4>1
      <4> QED
        BY <2>0, <4>1, <4>2, <4>3 DEF Assembly, FrameReturned, Index
    <3>5. CASE CopyFailed(block)
      <4>1. /\ call' = "frame" /\ UNCHANGED <<expected_block_index, slots>>
            /\ expected_block_index' <= Len(slots') /\ expected_block_index' <= Len(polled')
            /\ returned' # "no_error" /\ (reader' # "idle" => returned' = "nothing")
            /\ expected_block_index' < BlockCount
        BY <1>0, <2>0, <3>0, <3>1, <3>5 DEF CopyFailed
      <4>2. ProgramRuns' => expected_block_index' = 0
        BY <3>5 DEF CopyFailed, ProgramRuns
      <4> QED
        BY <4>1, <4>2 DEF Assembly, FrameReturned
    <3> QED
      BY <2>0, <2>1, <3>2, <3>3, <3>4, <3>5, UseCases
  <2>2. CASE /\ UNCHANGED <<expected_block_index, slots, polled>>
             /\ \/ reader' = "idle" /\ returned' = "timed_out"
                \/ reader' = "waiting" /\ returned' = returned
    BY <2>0, <2>2 DEF Assembly, FrameReturned, Index, ProgramRuns
  <2> QED
    BY <1>3, <2>1, <2>2, PollCases
<1> QED
  BY <1>1, <1>2, <1>3

(******************************************************************************)
(* The blocks of the frame under way were produced by the device.             *)
(******************************************************************************)
LEMMA SlotsProduced ==
  ASSUME TypeOK, StreamOrigin, Assembly, ProgramRuns, NEW i \in 1..expected_block_index
  PROVE  slots[i].block \in Block /\ Produced(slots[i].block.number)
<1>1. /\ Len(polled) \in Nat /\ polled \in Seq(Block) /\ expected_block_index \in Nat
      /\ expected_block_index <= Len(polled)
  BY ScanAssumption DEF TypeOK, Assembly
<1>2. Len(polled) - expected_block_index + i \in 1..Len(polled)
  BY <1>1
<1>3. slots[i].block = polled[Len(polled) - expected_block_index + i]
  BY DEF Assembly
<1> QED
  BY <1>1, <1>2, <1>3, ElementOfSeq DEF StreamOrigin

--------------------------------------------------------------------------------
(******************************************************************************)
(* The blocks of a sequence have numbers.                                     *)
(******************************************************************************)
LEMMA BlockNumber ==
  ASSUME NEW blocks \in Seq(Block), NEW i \in 1..Len(blocks)
  PROVE  blocks[i] \in Block /\ blocks[i].number \in Nat
<1>1. blocks[i] \in Block
  BY ElementOfSeq
<1> QED
  BY <1>1 DEF Block

(******************************************************************************)
(* What SamplesOwnOrRepeated says of one kind of samples of a slot, over the  *)
(* blocks polled so far.                                                      *)
(******************************************************************************)
SlotSamples(slot, kind, blocks) ==
  IF kind \in slot.block.has
    THEN slot.samples[kind] = slot.block.number
    ELSE /\ slot.samples[kind] < slot.block.number
         /\ \A j \in 1..Len(blocks) :
              blocks[j].number < slot.block.number /\ kind \in blocks[j].has
                => slot.samples[kind] >= blocks[j].number

(******************************************************************************)
(* The two ways to say it agree.                                              *)
(******************************************************************************)
LEMMA SamplesBySlot ==
  /\ SamplesOwnOrRepeated <=>
       \A i \in 1..Len(slots) : \A kind \in Kinds : SlotSamples(slots[i], kind, polled)
  /\ SamplesOwnOrRepeated' <=>
       \A i \in 1..Len(slots') : \A kind \in Kinds : SlotSamples(slots'[i], kind, polled')
BY DEF SamplesOwnOrRepeated, SlotSamples

(******************************************************************************)
(* A slot's samples do not depend on newer blocks.                            *)
(******************************************************************************)
LEMMA SlotKept ==
  ASSUME NEW blocks \in Seq(Block), NEW block \in Block, NEW slot \in Slot, NEW kind \in Kinds,
         SlotSamples(slot, kind, blocks), slot.block.number < block.number
  PROVE  SlotSamples(slot, kind, Append(blocks, block))
<1>1. /\ Len(Append(blocks, block)) = Len(blocks) + 1 /\ Len(blocks) \in Nat
      /\ \A i \in 1..Len(blocks) : Append(blocks, block)[i] = blocks[i]
      /\ Append(blocks, block)[Len(blocks) + 1] = block
  BY AppendProperties
<1>2. slot.block.number \in Nat /\ block.number \in Nat
  BY DEF Slot, Block
<1>3. ~(block.number < slot.block.number)
  BY <1>2
<1> QED
  BY <1>1, <1>3 DEF SlotSamples

(******************************************************************************)
(* The slot of a block just polled: its own samples, or those of the last     *)
(* block before it that had any (device.cpp:225-230, 254-279).                *)
(******************************************************************************)
LEMMA SlotFilled ==
  ASSUME NEW blocks \in Seq(Block), NEW block \in Block, NEW kind \in Kinds,
         NEW before \in Nat \cup {NoSamples}, before < block.number,
         Newest(before, kind, blocks),
         NEW slot, slot.block = block,
         slot.samples[kind] = IF kind \in block.has THEN block.number ELSE before
  PROVE  SlotSamples(slot, kind, Append(blocks, block))
<1>1. /\ Len(Append(blocks, block)) = Len(blocks) + 1 /\ Len(blocks) \in Nat
      /\ \A i \in 1..Len(blocks) : Append(blocks, block)[i] = blocks[i]
      /\ Append(blocks, block)[Len(blocks) + 1] = block
  BY AppendProperties
<1>2. \A i \in 1..Len(blocks) : blocks[i].number \in Nat
  BY BlockNumber
<1>3. CASE kind \notin block.has
  BY <1>1, <1>2, <1>3 DEF SlotSamples, NoSamples, Newest
<1>4. CASE kind \in block.has
  BY <1>4 DEF SlotSamples
<1> QED
  BY <1>3, <1>4

(******************************************************************************)
(* The device keeps to one stream.                                            *)
(******************************************************************************)
LEMMA SourceFixed ==
  ASSUME [Next]_vars
  PROVE  source' = source
BY DEF Next, OnMessageReceived, OnOobPacketReceived, SendPacket, LosePacket, RestartStreaming,
       Reopen, Read, Expire, SpuriousWake, PollForScanBlock, vars, deviceVars, readerVars

(******************************************************************************)
(* scan_block holds the samples of the last block polled that had any, and    *)
(* the slots show them (device.cpp:200, 225-230, 254-279).                    *)
(******************************************************************************)
LEMMA SamplesStep ==
  ASSUME TypeOK, QueuesHoldNewest, StreamOrigin, StreamOrder, Assembly, Samples, [Next]_vars
  PROVE  Samples'
<1> USE ScanAssumption DEF readerVars
<1>0. source' = source
  BY SourceFixed
<1>1. CASE Read
  <2>1. scan_block' = [kind \in Kinds |-> NoSamples] /\ slots' = <<>> /\ polled' = <<>>
    BY <1>1, ReadFacts
  <2>2. UNCHANGED <<next, scan_block_queue_primary_>>
    BY <1>1 DEF Read, deviceVars, queues
  <2>3. \A i \in 1..Len(scan_block_queue_primary_) : scan_block_queue_primary_[i].number \in Nat
    BY BlockNumber DEF TypeOK
  <2>4. \A kind \in Kinds : Past(scan_block[kind])' /\ Newest(scan_block[kind], kind, polled)'
    BY <2>1, <2>2, <2>3 DEF Past, Below, NoSamples, TypeOK, Newest
  <2> QED
    BY <2>1, <2>4 DEF Samples, SamplesOwnOrRepeated
<1>2. CASE ~Read /\ ~PollForScanBlock
  <2>1. UNCHANGED readerVars
    BY <1>2, ReaderUntouched
  <2>2. ASSUME source = "primary"
        PROVE  /\ \A kind \in Kinds : Past(scan_block[kind])'
               /\ \A i \in 1..Len(slots) : Past(slots[i].block.number)'
    <3>1. ASSUME NEW n, Past(n)
          PROVE  Past(n)'
      BY <1>2, <2>2, <3>1, PastUntouched
    <3> QED
      BY <2>1, <2>2, <3>1 DEF Samples, Past
  <2> QED
    BY <1>0, <2>1, <2>2 DEF Samples, SamplesOwnOrRepeated, Newest
<1>3. CASE PollForScanBlock
  <2>0. UNCHANGED <<next, first>> /\ reader # "idle"
    BY <1>3 DEF PollForScanBlock, deviceVars
  <2>1. ASSUME NEW block \in Block, Took(block), Use(block)
        PROVE  Samples'
    <3> DEFINE slot == [block |-> block, samples |-> Decode(block),
                        whole |-> IsWhole(CopiedLength(Decode(block)), Decode(block))]
    <3>1. \A i \in 1..Len(slots') : slots'[i] = slot \/ \E j \in 1..Len(slots) : slots'[i] = slots[j]
      <4>1. Len(slots) \in Nat /\ expected_block_index \in Nat /\ expected_block_index <= Len(slots)
        BY DEF TypeOK, Assembly
      <4>2. CASE slots' = slots
        BY <4>2
      <4>3. CASE /\ Len(slots') = expected_block_index + 1
                 /\ \A i \in 1..expected_block_index : slots'[i] = slots[i]
                 /\ slots'[expected_block_index + 1] = slot
        BY <4>1, <4>3
      <4> QED
        BY <2>0, <2>1, <4>2, <4>3, UseCases
           DEF BlockReturned, BlockDropped, BlockCopied, CopyFailed
    <3>2. /\ slot.block = block /\ slot.samples = Decode(block)
          /\ scan_block' = Decode(block)
          /\ \A kind \in Kinds :
               Decode(block)[kind] = IF kind \in block.has THEN block.number ELSE scan_block[kind]
      BY <2>1, DecodeFacts DEF Use
    <3> HIDE DEF slot
    <3>3. \A i \in 1..Len(slots') : \A kind \in Kinds :
            kind \in slots'[i].block.has => slots'[i].samples[kind] = slots'[i].block.number
      BY <3>1, <3>2 DEF Samples
    <3>4. source = "oob" => \A i \in 1..Len(slots') : slots'[i].block.has = Kinds
      <4>1. source = "oob" => block.has = Kinds
        BY <2>1 DEF Took, StreamOrigin, TypeOK
      <4> QED
        BY <3>1, <3>2, <4>1 DEF Samples
    <3>5. ASSUME source = "primary"
          PROVE  /\ \A kind \in Kinds :
                      Past(scan_block[kind])' /\ Newest(scan_block[kind], kind, polled)'
                 /\ \A i \in 1..Len(slots') : Past(slots[i].block.number)'
                 /\ SamplesOwnOrRepeated'
      <4>1. /\ block.number \in Nat /\ block.number < next'
            /\ reader' # "idle" => Below(block.number, scan_block_queue_primary_')
        BY <2>0, <2>1, <3>5, PastPoll DEF Past, Block
      <4>2. ASSUME NEW n, Past(n)
            PROVE  /\ n \in Nat \cup {NoSamples} /\ n < block.number /\ n < next'
                   /\ reader' # "idle" => Below(n, scan_block_queue_primary_')
        BY <2>0, <2>1, <3>5, <4>2, PastPoll DEF Past
      <4>3. polled \in Seq(Block) /\ polled' = Append(polled, block)
        BY <2>1 DEF TypeOK, Use
      <4>4. \A kind \in Kinds :
              scan_block[kind] \in Nat \cup {NoSamples} /\ scan_block[kind] < block.number
        BY <3>5, <4>2 DEF Samples
      <4>5. \A kind \in Kinds : Past(scan_block[kind])'
        <5> SUFFICES ASSUME NEW kind \in Kinds
                     PROVE  Past(scan_block[kind])'
          OBVIOUS
        <5>1. scan_block'[kind] \in {block.number, scan_block[kind]}
          BY <3>2
        <5>2. Past(scan_block[kind])
          BY <3>5 DEF Samples
        <5> QED
          BY <4>1, <4>2, <5>1, <5>2 DEF Past
      <4>6. \A i \in 1..Len(slots') : Past(slots[i].block.number)'
        BY <3>1, <3>2, <3>5, <4>1, <4>2 DEF Samples, Past
      <4>7. \A kind \in Kinds : Newest(scan_block[kind], kind, polled)'
        <5> SUFFICES ASSUME NEW kind \in Kinds
                     PROVE  Newest(scan_block[kind], kind, polled)'
          OBVIOUS
        <5>1. \A i \in 1..Len(polled') :
                polled'[i] = block \/ \E j \in 1..Len(polled) : polled'[i] = polled[j]
          BY <4>3, AppendProperties
        <5>2. kind \in block.has => block.number <= scan_block'[kind]
          BY <3>2, <4>1
        <5>3. \A j \in 1..Len(polled) :
                kind \in polled[j].has => polled[j].number <= scan_block'[kind]
          <6> SUFFICES ASSUME NEW j \in 1..Len(polled), kind \in polled[j].has
                       PROVE  polled[j].number <= scan_block'[kind]
            OBVIOUS
          <6>1. polled[j].number <= scan_block[kind]
            BY <3>5 DEF Samples, Newest
          <6>2. polled[j].number \in Nat
            BY <4>3, BlockNumber
          <6> QED
            BY <3>2, <4>1, <4>4, <6>1, <6>2 DEF NoSamples
        <5> QED
          BY <5>1, <5>2, <5>3 DEF Newest
      <4>8. SamplesOwnOrRepeated'
        <5>1. \A j \in 1..Len(slots) : \A kind \in Kinds : SlotSamples(slots[j], kind, polled')
          <6> SUFFICES ASSUME NEW j \in 1..Len(slots), NEW kind \in Kinds
                       PROVE  SlotSamples(slots[j], kind, polled')
            OBVIOUS
          <6>1. slots[j] \in Slot
            BY ElementOfSeq DEF TypeOK
          <6>2. slots[j].block.number < block.number
            BY <3>5, <4>2 DEF Samples
          <6>3. SlotSamples(slots[j], kind, polled)
            BY <3>5, SamplesBySlot DEF Samples
          <6> QED
            BY <4>3, <6>1, <6>2, <6>3, SlotKept
        <5>2. \A kind \in Kinds : SlotSamples(slot, kind, polled')
          <6> SUFFICES ASSUME NEW kind \in Kinds
                       PROVE  SlotSamples(slot, kind, polled')
            OBVIOUS
          <6>1. Newest(scan_block[kind], kind, polled)
            BY <3>5 DEF Samples
          <6>2. slot.samples[kind] = IF kind \in block.has THEN block.number ELSE scan_block[kind]
            BY <3>2
          <6> QED
            BY <3>2, <4>3, <4>4, <6>1, <6>2, SlotFilled
        <5> QED
          BY <3>1, <5>1, <5>2, SamplesBySlot
      <4> QED
        BY <4>5, <4>6, <4>7, <4>8
    <3> QED
      BY <1>0, <3>3, <3>4, <3>5 DEF Samples
  <2>2. CASE UNCHANGED <<queues, scan_block, slots, polled>>
    BY <1>0, <2>0, <2>2 DEF Samples, Past, SamplesOwnOrRepeated, Newest, queues
  <2> QED
    BY <1>3, <2>1, <2>2, PollCases
<1> QED
  BY <1>1, <1>2, <1>3

--------------------------------------------------------------------------------
(******************************************************************************)
(* scan_block is without samples of a kind only as long as no block polled    *)
(* had any (device.cpp:200, 216-217, 254-279).                                *)
(******************************************************************************)
LEMMA NoneYetStep ==
  ASSUME TypeOK, Assembly, NoneYet, [Next]_vars
  PROVE  NoneYet'
<1>1. CASE Read
  BY <1>1, ReadFacts DEF NoneYet
<1>2. CASE ~Read /\ ~PollForScanBlock
  BY <1>2, ReaderUntouched DEF NoneYet, readerVars
<1>3. CASE PollForScanBlock
  <2>0. reader # "idle" /\ returned = "nothing"
    BY <1>3 DEF PollForScanBlock, Assembly
  <2>1. ASSUME NEW block \in Block, Took(block), Use(block)
        PROVE  NoneYet'
    <3>1. /\ scan_block' = Decode(block)
          /\ \A kind \in Kinds :
               Decode(block)[kind] = IF kind \in block.has THEN block.number ELSE scan_block[kind]
      BY <2>0, <2>1, UseCases, DecodeFacts
    <3>2. \A i \in 1..Len(polled') :
            polled'[i] = block \/ \E j \in 1..Len(polled) : polled'[i] = polled[j]
      <4>1. polled \in Seq(Block) /\ polled' = Append(polled, block)
        BY <2>1 DEF TypeOK, Use
      <4> QED
        BY <4>1, AppendProperties
    <3>3. ASSUME NEW kind \in Kinds, scan_block'[kind] = NoSamples, NEW i \in 1..Len(polled')
          PROVE  kind \notin polled'[i].has
      <4>1. block.number # NoSamples
        BY DEF Block, NoSamples
      <4>2. kind \notin block.has /\ scan_block[kind] = NoSamples
        BY <3>1, <3>3, <4>1
      <4>3. \A j \in 1..Len(polled) : kind \notin polled[j].has
        BY <4>2 DEF NoneYet
      <4> QED
        BY <3>2, <4>2, <4>3
    <3>4. ASSUME returned' = "exception"
          PROVE  scan_block'["ranges"] = NoSamples
      <4>1. expected_block_index = 0 /\ CopiedLength(Decode(block)) = Uninitialised
        BY <2>0, <2>1, <3>4, UseCases DEF BlockReturned, BlockDropped, BlockCopied, CopyFailed
      <4>2. Length(Decode(block)["ranges"]) # Uninitialised
        BY LengthIsPositive DEF Uninitialised
      <4> QED
        BY <3>1, <4>1, <4>2 DEF CopiedLength
    <3> QED
      BY <3>3, <3>4 DEF NoneYet
  <2>2. CASE UNCHANGED <<scan_block, polled>> /\ returned' \in {"timed_out", returned}
    BY <2>0, <2>2 DEF NoneYet
  <2> QED
    BY <1>3, <2>1, <2>2, PollCases DEF readerVars
<1> QED
  BY <1>1, <1>2, <1>3

--------------------------------------------------------------------------------
(******************************************************************************)
(* The resolution changes between two frames, so that the blocks of one frame *)
(* have one length.                                                           *)
(******************************************************************************)
LEMMA OneLength ==
  ASSUME TypeOK, StreamOrigin, NEW start \in Nat, start % BlockCount = 0,
         NEW n \in start..start + BlockCount - 1, n < MaxBlock
  PROVE  Length(n) = Length(start)
<1> USE ScanAssumption
<1>1. resized \in Nat /\ n \in Nat
  BY DEF TypeOK
<1>2. n >= resized <=> start >= resized
  <2>1. CASE resized = Never
    BY <1>1, <2>1 DEF Never
  <2>2. CASE resized % BlockCount = 0
    <3> DEFINE p == start \div BlockCount
               q == resized \div BlockCount
    <3>1. p \in Nat /\ start = BlockCount * p + (start % BlockCount)
      BY DivMod
    <3>2. q \in Nat /\ resized = BlockCount * q + (resized % BlockCount)
      BY <1>1, DivMod
    <3> HIDE DEF p, q
    <3>3. start = BlockCount * p /\ resized = BlockCount * q
      BY <2>2, <3>1, <3>2
    <3>4. CASE q <= p
      <4>1. p - q \in Nat
        BY <3>1, <3>2, <3>4
      <4>2. BlockCount * p = BlockCount * q + BlockCount * (p - q) /\ BlockCount * (p - q) \in Nat
        BY <3>1, <3>2, <4>1
      <4> QED
        BY <1>1, <3>3, <4>2
    <3>5. CASE q > p
      <4>1. q - p - 1 \in Nat
        BY <3>1, <3>2, <3>5
      <4>2. /\ BlockCount * q = BlockCount * p + BlockCount + BlockCount * (q - p - 1)
            /\ BlockCount * (q - p - 1) \in Nat
        BY <3>1, <3>2, <4>1
      <4> QED
        BY <1>1, <3>3, <4>2
    <3> QED
      BY <3>1, <3>2, <3>4, <3>5
  <2> QED
    BY <2>1, <2>2 DEF StreamOrigin
<1> QED
  BY <1>2 DEF Length

(******************************************************************************)
(* A change of the resolution does not touch the blocks produced before it.   *)
(******************************************************************************)
LEMMA LengthKept ==
  ASSUME TypeOK, [Next]_vars, NEW n, Produced(n)
  PROVE  lengths'[IF n >= resized' THEN 2 ELSE 1] = Length(n)
<1> USE ScanAssumption
<1>1. CASE UNCHANGED <<lengths, resized>>
  BY <1>1 DEF Length
<1>2. CASE /\ RestartStreaming
           /\ resized = Never /\ resized' = NextFrame
           /\ \E length \in BlockLengths \ {lengths[1]} : lengths' = [lengths EXCEPT ![2] = length]
  <2>1. lengths'[1] = lengths[1]
    BY <1>2 DEF TypeOK
  <2>2. n < resized' /\ n < resized /\ resized \in Nat /\ resized' \in Nat /\ n \in Nat
    BY <1>2, NextFrameStarts DEF TypeOK, Produced, Never
  <2> QED
    BY <2>1, <2>2 DEF Length
<1> QED
  BY <1>1, <1>2 DEF Next, OnMessageReceived, OnOobPacketReceived, SendPacket, LosePacket,
     RestartStreaming, Reopen, Read, Expire, SpuriousWake, PollForScanBlock, vars, deviceVars

(******************************************************************************)
(* A block taken from a queue was produced by the device.                     *)
(******************************************************************************)
LEMMA TookProduced ==
  ASSUME TypeOK, StreamOrigin, NEW block \in Block, Took(block)
  PROVE  Produced(block.number)
<1>1. Len(scan_block_queue_primary_) \in Nat /\ Len(scan_block_queue_oob_) \in Nat
  BY DEF TypeOK
<1> QED
  BY <1>1 DEF Took, StreamOrigin

(******************************************************************************)
(* The next block of a frame that has lost nothing and began with both kinds  *)
(* of samples: there are as many samples to be copied as block 0 has          *)
(* (device.cpp:216-230).                                                      *)
(******************************************************************************)
LEMMA NextIsWhole ==
  ASSUME TypeOK, StreamOrigin, Assembly, FrameIsWhole, ProgramRuns, call = "frame",
         NEW block \in Block, Produced(block.number),
         Index(block) = expected_block_index, expected_block_index < BlockCount,
         expected_block_index = 0 => block.has = Kinds,
         expected_block_index > 0 =>
           SoundSoFar /\ block.number = slots[expected_block_index].block.number + 1
  PROVE  /\ \A kind \in Kinds :
              Decode(block)[kind] \in block.number - expected_block_index..block.number
         /\ CopiedLength(Decode(block)) = Length(block.number)
         /\ IsWhole(CopiedLength(Decode(block)), Decode(block))
         /\ expected_block_index > 0 =>
              slots[1].block.number = block.number - expected_block_index
<1> USE ScanAssumption
<1> DEFINE samples == Decode(block)
           length == CopiedLength(samples)
           start == block.number - expected_block_index
<1>0. /\ block.number \in Nat /\ block.number < MaxBlock
      /\ expected_block_index \in Nat /\ "ranges" \in Kinds
      /\ \A kind \in Kinds :
           samples[kind] = IF kind \in block.has THEN block.number ELSE scan_block[kind]
  BY DecodeFacts DEF Produced, TypeOK, Kinds
<1> HIDE DEF samples
<1>1. CASE expected_block_index = 0
  <2>1. \A kind \in Kinds : samples[kind] = block.number
    BY <1>0, <1>1
  <2>2. block.number # NoSamples /\ Length(block.number) \in Nat
    BY <1>0, LengthIsPositive DEF NoSamples
  <2>3. \A kind \in Kinds : Size(samples[kind]) = Length(block.number)
    BY <2>1, <2>2 DEF Size
  <2>4. length = Length(block.number)
    BY <1>0, <1>1, <2>1, <2>2 DEF CopiedLength
  <2>5. IsWhole(length, samples)
    BY <2>2, <2>3, <2>4 DEF IsWhole, Uninitialised
  <2>6. \A kind \in Kinds : samples[kind] \in start..block.number
    BY <1>0, <1>1, <2>1
  <2> QED
    BY <1>1, <2>4, <2>5, <2>6 DEF samples
<1>2. CASE expected_block_index > 0
  <2>1. WholeSoFar
    BY <1>2 DEF FrameIsWhole
  <2>2. 1 \in 1..expected_block_index /\ expected_block_index \in 1..expected_block_index
    BY <1>0, <1>2
  <2>3. slots[1].block \in Block /\ slots[1].block.number \in Nat /\ Index(slots[1].block) = 0
    <3>1. slots[1].block \in Block /\ Produced(slots[1].block.number)
      BY <2>2, SlotsProduced
    <3>2. Index(slots[1].block) = 1 - 1
      BY <2>2 DEF Assembly
    <3> QED
      BY <3>1, <3>2 DEF Produced
  <2>4. block.number = slots[1].block.number + expected_block_index
    <3>1. slots[expected_block_index].block.number
            = slots[1].block.number + (expected_block_index - 1)
      BY <2>1, <2>2 DEF WholeSoFar
    <3> QED
      BY <1>0, <1>2, <2>3, <3>1
  <2>5. start = slots[1].block.number /\ start \in Nat /\ start % BlockCount = 0
    BY <1>0, <2>3, <2>4 DEF Index
  <2> HIDE DEF start
  <2>6. block.number = start + expected_block_index
    BY <2>4, <2>5
  <2>7. \A kind \in Kinds : samples[kind] \in start..block.number
    <3> SUFFICES ASSUME NEW kind \in Kinds
                 PROVE  samples[kind] \in start..block.number
      OBVIOUS
    <3>1. scan_block[kind] \in start..start + expected_block_index - 1
      BY <2>1, <2>5 DEF WholeSoFar
    <3> QED
      BY <1>0, <2>5, <2>6, <3>1
  <2>8. \A n \in start..block.number : Length(n) = Length(start)
    <3> SUFFICES ASSUME NEW n \in start..block.number
                 PROVE  Length(n) = Length(start)
      OBVIOUS
    <3>0. /\ start \in Nat /\ expected_block_index \in Nat /\ BlockCount \in Nat
          /\ block.number = start + expected_block_index /\ block.number < MaxBlock
          /\ MaxBlock \in Nat
      BY <1>0, <2>5, <2>6
    <3>1. n \in start..start + BlockCount - 1 /\ n < MaxBlock
      BY <3>0
    <3> QED
      BY <2>5, <3>1, OneLength
  <2>9. Length(start) \in Nat /\ block.number \in start..block.number
    <3>1. block.number >= start /\ block.number \in Int /\ start \in Int
      BY <1>0, <2>5, <2>6
    <3> QED
      BY <3>1, LengthIsPositive
  <2>10. length = Length(start)
    <3>1. block_length = Length(slots[1].block.number)
      BY <2>1, <2>2 DEF WholeSoFar
    <3> QED
      BY <1>2, <2>5, <3>1 DEF CopiedLength
  <2>11. \A kind \in Kinds : Size(samples[kind]) = Length(start)
    <3> SUFFICES ASSUME NEW kind \in Kinds
                 PROVE  Size(samples[kind]) = Length(start)
      OBVIOUS
    <3>1. samples[kind] \in start..block.number /\ samples[kind] # NoSamples
      BY <2>5, <2>7 DEF NoSamples
    <3> QED
      BY <2>8, <3>1 DEF Size
  <2>12. IsWhole(length, samples)
    BY <2>9, <2>10, <2>11 DEF IsWhole, Uninitialised
  <2>13. length = Length(block.number)
    BY <2>8, <2>9, <2>10
  <2> QED
    BY <2>5, <2>7, <2>12, <2>13 DEF samples, start
<1> QED
  BY <1>0, <1>1, <1>2

(******************************************************************************)
(* As long as block 0 has both kinds of samples and nothing is lost, every    *)
(* block is copied whole (device.cpp:203-237).                                *)
(******************************************************************************)
LEMMA FrameIsWholeStep ==
  ASSUME TypeOK, StreamOrigin, Assembly, FrameIsWhole, [Next]_vars
  PROVE  FrameIsWhole'
<1> USE ScanAssumption
<1>0. expected_block_index \in Nat
  BY DEF TypeOK
<1>1. CASE Read
  <2>1. expected_block_index' = 0
    BY <1>1, ReadFacts
  <2> QED
    BY <2>1 DEF FrameIsWhole
<1>2. CASE ~Read /\ ~PollForScanBlock
  <2>1. UNCHANGED readerVars /\ (ProgramRuns' <=> ProgramRuns)
    BY <1>2, ReaderUntouched DEF ProgramRuns
  <2> SUFFICES ASSUME ProgramRuns, call = "frame", expected_block_index > 0, SoundSoFar
               PROVE  WholeSoFar'
    BY <2>1 DEF FrameIsWhole, SoundSoFar, readerVars
  <2>2. WholeSoFar
    BY DEF FrameIsWhole
  <2>3. \A i \in 1..expected_block_index :
          lengths'[IF slots[i].block.number >= resized' THEN 2 ELSE 1]
            = Length(slots[i].block.number)
    BY SlotsProduced, LengthKept
  <2> QED
    BY <2>1, <2>2, <2>3 DEF WholeSoFar, Length, readerVars
<1>3. CASE PollForScanBlock
  <2>0. /\ UNCHANGED <<lengths, resized, call>> /\ ProgramRuns /\ reader # "idle"
        /\ expected_block_index < BlockCount
    BY <1>3 DEF PollForScanBlock, deviceVars, ProgramRuns, Assembly
  <2>1. ASSUME NEW block \in Block, Took(block), Use(block)
        PROVE  FrameIsWhole'
    <3>0. scan_block' = Decode(block) /\ Produced(block.number)
      BY <2>0, <2>1, UseCases, TookProduced
    <3>1. CASE BlockReturned
      BY <2>0, <3>1 DEF BlockReturned, FrameIsWhole
    <3>2. CASE BlockDropped(block)
      BY <3>2 DEF BlockDropped, FrameIsWhole
    <3>3. CASE CopyFailed(block)
      BY <3>3 DEF CopyFailed, FrameIsWhole, ProgramRuns
    <3>4. CASE BlockCopied(block)
      <4> DEFINE index == expected_block_index
      <4>1. /\ call = "frame" /\ Index(block) = index /\ index' = index + 1
            /\ block_length' = CopiedLength(Decode(block))
            /\ \A i \in 1..index : slots'[i] = slots[i]
            /\ slots'[index + 1] =
                 [block |-> block, samples |-> Decode(block),
                  whole |-> IsWhole(CopiedLength(Decode(block)), Decode(block))]
        BY <3>4 DEF BlockCopied
      <4>2. /\ slots'[index + 1].block = block
            /\ slots'[index + 1].whole = IsWhole(CopiedLength(Decode(block)), Decode(block))
        BY <4>1
      <4> SUFFICES ASSUME SoundSoFar'
                   PROVE  WholeSoFar'
        BY DEF FrameIsWhole
      <4>3. index = 0 => block.has = Kinds
        BY <4>2 DEF SoundSoFar
      <4>4. ASSUME index > 0
            PROVE  SoundSoFar /\ block.number = slots[index].block.number + 1
        <5>1. 1 \in 1..index /\ index \in 1..index
          BY <1>0, <4>4
        <5>2. \A i \in 1..index : slots'[i + 1].block.number = slots'[i].block.number + 1
          BY <1>0, <4>1 DEF SoundSoFar
        <5>3. block.number = slots[index].block.number + 1
          BY <4>1, <4>2, <5>1, <5>2
        <5>4. slots[1].block.has = Kinds
          BY <4>1, <5>1 DEF SoundSoFar
        <5>5. ASSUME NEW i \in 1..index - 1
              PROVE  slots[i + 1].block.number = slots[i].block.number + 1
          <6>1. i \in 1..index /\ i + 1 \in 1..index
            BY <1>0
          <6> QED
            BY <4>1, <5>2, <6>1
        <5> QED
          BY <5>3, <5>4, <5>5 DEF SoundSoFar
      <4>5. /\ \A kind \in Kinds : Decode(block)[kind] \in block.number - index..block.number
            /\ CopiedLength(Decode(block)) = Length(block.number)
            /\ IsWhole(CopiedLength(Decode(block)), Decode(block))
            /\ index > 0 => slots[1].block.number = block.number - index
        BY <2>0, <3>0, <4>1, <4>3, <4>4, NextIsWhole
      <4>6. block.number \in Nat
        BY DEF Block
      <4>7. slots'[1].block.number = block.number - index
        <5>1. CASE index = 0
          BY <4>2, <4>6, <5>1
        <5>2. CASE index > 0
          <6>1. 1 \in 1..index
            BY <1>0, <5>2
          <6> QED
            BY <4>1, <4>5, <5>2, <6>1
        <5> QED
          BY <1>0, <5>1, <5>2
      <4>8. \A kind \in Kinds :
              scan_block'[kind] \in slots'[1].block.number..slots'[1].block.number + index' - 1
        <5>1. slots'[1].block.number + index' - 1 = block.number
          BY <1>0, <4>1, <4>6, <4>7
        <5> QED
          BY <3>0, <4>5, <4>7, <5>1
      <4>9. \A n : Length(n)' = lengths[IF n >= resized THEN 2 ELSE 1]
        BY <2>0 DEF Length
      <4>10. ASSUME NEW i \in 1..index + 1
             PROVE  /\ slots'[i].block.number = slots'[1].block.number + (i - 1)
                    /\ slots'[i].whole
                    /\ block_length' = Length(slots'[i].block.number)
        <5>1. CASE i = index + 1
          <6>1. slots'[i].block.number = block.number
            BY <4>2, <5>1
          <6>2. slots'[i].whole
            BY <4>2, <4>5, <5>1
          <6> QED
            BY <1>0, <4>1, <4>5, <4>6, <4>7, <5>1, <6>1, <6>2
        <5>2. CASE i # index + 1
          <6>1. i \in 1..index /\ index > 0 /\ 1 \in 1..index
            BY <1>0, <5>2
          <6>2. WholeSoFar
            BY <2>0, <4>1, <4>4, <6>1 DEF FrameIsWhole
          <6>3. /\ slots[i].block.number = slots[1].block.number + (i - 1)
                /\ slots[i].whole
                /\ block_length = Length(slots[i].block.number)
            BY <6>1, <6>2 DEF WholeSoFar
          <6>4. slots'[i] = slots[i] /\ slots'[1] = slots[1]
            BY <4>1, <6>1
          <6>5. block_length' = block_length
            BY <4>1, <6>1 DEF CopiedLength
          <6> QED
            BY <6>3, <6>4, <6>5
        <5> QED
          BY <5>1, <5>2
      <4> QED
        BY <2>0, <4>1, <4>8, <4>10 DEF WholeSoFar, Length
    <3> QED
      BY <2>0, <2>1, <3>1, <3>2, <3>3, <3>4, UseCases
  <2>2. CASE UNCHANGED <<expected_block_index, block_length, scan_block, slots>>
    BY <2>0, <2>2 DEF FrameIsWhole, SoundSoFar, WholeSoFar, Length
  <2> QED
    BY <1>3, <2>1, <2>2, PollCases DEF readerVars
<1> QED
  BY <1>1, <1>2, <1>3

(******************************************************************************)
(* The last blocks of a sequence.                                             *)
(******************************************************************************)
LEMMA LastFacts ==
  ASSUME NEW blocks \in Seq(Block), NEW count \in Nat, count <= Len(blocks)
  PROVE  /\ Last(blocks, count) \in Seq(Block) /\ Len(Last(blocks, count)) = count
         /\ \A i \in 1..count : Last(blocks, count)[i] = blocks[Len(blocks) - count + i]
         /\ Last(blocks, count) = [i \in 1..count |-> blocks[Len(blocks) - count + i]]
<1> DEFINE low == Len(blocks) - count + 1
           high == Len(blocks)
<1>1. low \in Int /\ high \in Nat /\ low >= 1 /\ high - low + 1 = count
  OBVIOUS
<1>2. \A i \in 1..count : low + i - 1 = Len(blocks) - count + i
  OBVIOUS
<1>3. \A i \in low..high : blocks[i] \in Block
  BY ElementOfSeq
<1>4. Last(blocks, count) = SubSeq(blocks, low, high)
  BY DEF Last
<1>5. SubSeq(blocks, low, high) = [i \in 1..(high - low + 1) |-> blocks[i + low - 1]]
  BY <1>1
<1>6. Last(blocks, count) = [i \in 1..count |-> blocks[Len(blocks) - count + i]]
  <2>1. \A i \in 1..count : i + low - 1 = Len(blocks) - count + i
    OBVIOUS
  <2> QED
    BY <1>1, <1>4, <1>5, <2>1
<1>7. Last(blocks, count) \in Seq(Block) /\ Len(Last(blocks, count)) = count
  BY <1>1, <1>3, <1>4, SubSeqProperties
<1> QED
  BY <1>6, <1>7

(******************************************************************************)
(* The slots of the frame under way are the last blocks polled.               *)
(******************************************************************************)
LEMMA LastAreSlots ==
  ASSUME TypeOK, Assembly, ProgramRuns
  PROVE  /\ Len(Last(polled, expected_block_index)) = expected_block_index
         /\ \A i \in 1..expected_block_index :
              Last(polled, expected_block_index)[i] = slots[i].block
<1>1. polled \in Seq(Block) /\ expected_block_index \in Nat /\ expected_block_index <= Len(polled)
  BY ScanAssumption DEF TypeOK, Assembly
<1> QED
  BY <1>1, LastFacts DEF Assembly

(******************************************************************************)
(* The program ends only at a block that follows a loss or a block 0 that     *)
(* lacks samples (device.cpp:216-230).                                        *)
(******************************************************************************)
LEMMA TerminatedStep ==
  ASSUME TypeOK, StreamOrigin, Assembly, FrameIsWhole, TerminatedUnsound, [Next]_vars
  PROVE  TerminatedUnsound'
<1> USE ScanAssumption
<1>1. CASE Read
  BY <1>1, ReadFacts DEF TerminatedUnsound
<1>2. CASE ~Read /\ ~PollForScanBlock
  BY <1>2, ReaderUntouched DEF TerminatedUnsound, readerVars
<1>3. CASE PollForScanBlock
  <2>0. ProgramRuns /\ reader \in {"evaluating", "expired"} /\ expected_block_index < BlockCount
    BY <1>3 DEF PollForScanBlock, ProgramRuns, Assembly
  <2>1. ASSUME NEW block \in Block, Took(block), Use(block), reader' = "terminated",
               IsSound(Last(polled', expected_block_index' + 1))
        PROVE  FALSE
    <3> DEFINE index == expected_block_index
               last == Last(polled', index + 1)
    <3>1. /\ call = "frame" /\ Index(block) = index /\ index' = index
          /\ ~IsWhole(CopiedLength(Decode(block)), Decode(block))
      BY <2>0, <2>1, UseCases DEF BlockReturned, BlockDropped, BlockCopied, CopyFailed
    <3>2. /\ polled' \in Seq(Block) /\ Len(polled') = Len(polled) + 1
          /\ \A i \in 1..Len(polled) : polled'[i] = polled[i]
          /\ polled'[Len(polled) + 1] = block
      BY <2>0, <2>1, UseCases
    <3>3. index \in Nat /\ Len(polled) \in Nat /\ index <= Len(polled)
      BY DEF TypeOK, Assembly
    <3>4. Len(last) = index + 1 /\ \A i \in 1..index + 1 : last[i] = polled'[Len(polled) - index + i]
      <4>1. index + 1 \in Nat /\ index + 1 <= Len(polled')
        BY <3>2, <3>3
      <4>2. \A i \in 1..index + 1 : Len(polled') - (index + 1) + i = Len(polled) - index + i
        BY <3>2, <3>3
      <4>3. /\ Len(last) = index + 1
            /\ \A i \in 1..index + 1 : last[i] = polled'[Len(polled') - (index + 1) + i]
        BY <3>2, <4>1, LastFacts
      <4> QED
        BY <4>2, <4>3
    <3>5. IsSound(last)
      BY <2>1, <3>1
    <3> HIDE DEF last
    <3>6. last[index + 1] = block
      <4>1. index + 1 \in 1..index + 1 /\ Len(polled) - index + (index + 1) = Len(polled) + 1
        BY <3>3
      <4> QED
        BY <3>2, <3>4, <4>1
    <3>7. \A i \in 1..index : last[i] = slots[i].block
      <4> SUFFICES ASSUME NEW i \in 1..index
                   PROVE  last[i] = slots[i].block
        OBVIOUS
      <4>1. i \in 1..index + 1 /\ Len(polled) - index + i \in 1..Len(polled)
        BY <3>3
      <4>2. slots[i].block = polled[Len(polled) - index + i]
        BY <2>0 DEF Assembly
      <4> QED
        BY <3>2, <3>4, <4>1, <4>2
    <3>8. \A i \in 1..index : last[i + 1].number = last[i].number + 1
      BY <3>3, <3>4, <3>5 DEF IsSound, NoGap
    <3>9. index = 0 => block.has = Kinds
      BY <3>5, <3>6 DEF IsSound
    <3>10. ASSUME index > 0
           PROVE  SoundSoFar /\ block.number = slots[index].block.number + 1
      <4>1. 1 \in 1..index /\ index \in 1..index
        BY <3>3, <3>10
      <4>2. block.number = slots[index].block.number + 1
        BY <3>6, <3>7, <3>8, <4>1
      <4>3. slots[1].block.has = Kinds
        BY <3>5, <3>7, <4>1 DEF IsSound
      <4>4. ASSUME NEW i \in 1..index - 1
            PROVE  slots[i + 1].block.number = slots[i].block.number + 1
        <5>1. i \in 1..index /\ i + 1 \in 1..index
          BY <3>3
        <5> QED
          BY <3>7, <3>8, <5>1
      <4> QED
        BY <4>2, <4>3, <4>4 DEF SoundSoFar
    <3>11. Produced(block.number)
      BY <2>1, TookProduced
    <3> QED
      BY <2>0, <3>1, <3>9, <3>10, <3>11, NextIsWhole
  <2>2. CASE reader' # "terminated"
    BY <2>2 DEF TerminatedUnsound
  <2> QED
    BY <1>3, <2>0, <2>1, <2>2, PollCases DEF TerminatedUnsound
<1> QED
  BY <1>1, <1>2, <1>3

--------------------------------------------------------------------------------
(******************************************************************************)
(* A gap costs a bounded number of blocks: the frame under way is given up at *)
(* the first block out of place, and the next first block of a frame is taken *)
(* for one (device.cpp:209-212).                                              *)
(******************************************************************************)
LEMMA RecoveryStep ==
  ASSUME TypeOK, Assembly, Recovery, [Next]_vars
  PROVE  Recovery'
<1> USE ScanAssumption
<1>0. polled \in Seq(Block) /\ Len(polled) \in Nat /\ expected_block_index \in Nat
  BY DEF TypeOK
<1>1. CASE Read
  <2>1. Len(polled') = 0
    BY <1>1, ReadFacts
  <2> QED
    BY <2>1 DEF Recovery
<1>2. CASE ~Read /\ ~PollForScanBlock
  <2>1. UNCHANGED readerVars /\ (Reads' => Reads)
    BY <1>2, ReaderUntouched DEF Reads, TypeOK
  <2> QED
    BY <2>1 DEF Recovery, Run, Index, readerVars
<1>3. CASE PollForScanBlock
  <2>0. reader # "idle" /\ Reads /\ ProgramRuns
    BY <1>3 DEF PollForScanBlock, Reads, ProgramRuns
  <2>1. ASSUME NEW block \in Block, Took(block), Use(block)
        PROVE  Recovery'
    <3>0. /\ Len(polled') = Len(polled) + 1
          /\ \A i \in 1..Len(polled) : polled'[i] = polled[i]
          /\ polled'[Len(polled) + 1] = block
      BY <2>0, <2>1, UseCases
    <3> SUFFICES ASSUME Reads', NEW k \in 1..Len(polled'), Run(k)'
                 PROVE  /\ k > Index(polled'[Len(polled')]) + 1
                             => expected_block_index' = Index(polled'[Len(polled')]) + 1
                        /\ k <= BlockCount + Index(polled'[Len(polled')]) + 1
      BY DEF Recovery, Index
    <3> SUFFICES /\ k > Index(block) + 1 => expected_block_index' = Index(block) + 1
                 /\ k <= BlockCount + Index(block) + 1
      BY <3>0
    <3>a. /\ k \in 1..Len(polled) + 1
          /\ \A i \in Len(polled) + 1 - k + 1..Len(polled) + 1 - 1 :
               polled'[i + 1].number = polled'[i].number + 1
      BY <3>0 DEF Run
    <3>1. Index(block) \in 0..BlockCount - 1
      BY DivMod DEF Index, Block
    <3>2. expected_block_index' = IF Index(block) = expected_block_index
                                    THEN expected_block_index + 1 ELSE 0
      BY <2>0, <2>1, UseCases
         DEF BlockReturned, BlockDropped, BlockCopied, CopyFailed, Reads
    <3>3. CASE k = 1
      BY <3>a, <3>1, <3>3
    <3>4. CASE k > 1
      <4> DEFINE last == polled[Len(polled)]
      <4>1. Len(polled) \in 1..Len(polled) /\ k - 1 \in 1..Len(polled)
        BY <1>0, <3>a, <3>4
      <4>2. last \in Block /\ last.number \in Nat
        BY <1>0, <4>1, BlockNumber
      <4>3. block.number = last.number + 1
        <5>1. Len(polled) \in Len(polled) + 1 - k + 1..Len(polled) + 1 - 1
          BY <1>0, <3>a, <3>4
        <5>2. polled'[Len(polled) + 1].number = polled'[Len(polled)].number + 1
          BY <3>a, <5>1
        <5> QED
          BY <3>0, <4>1, <5>2
      <4>4. Run(k - 1)
        <5> SUFFICES ASSUME NEW i \in Len(polled) - (k - 1) + 1..Len(polled) - 1
                     PROVE  polled[i + 1].number = polled[i].number + 1
          BY DEF Run
        <5>1. /\ i \in Len(polled) + 1 - k + 1..Len(polled) + 1 - 1
              /\ i \in 1..Len(polled) /\ i + 1 \in 1..Len(polled)
          BY <1>0, <3>a, <4>1
        <5> QED
          BY <3>0, <3>a, <5>1
      <4>5. /\ k - 1 > Index(last) + 1 => expected_block_index = Index(last) + 1
            /\ k - 1 <= BlockCount + Index(last) + 1
        BY <2>0, <4>1, <4>4 DEF Recovery
      <4>6. Index(block) = IF Index(last) = BlockCount - 1 THEN 0 ELSE Index(last) + 1
        BY <4>2, <4>3, NextIndex DEF Index
      <4>7. Index(last) \in 0..BlockCount - 1
        BY <4>2, DivMod DEF Index
      <4>8. expected_block_index < BlockCount
        BY <2>0 DEF Assembly
      <4>9. expected_block_index > 0 => Index(last) = expected_block_index - 1
        <5> SUFFICES ASSUME expected_block_index > 0
                     PROVE  Index(last) = expected_block_index - 1
          OBVIOUS
        <5>1. /\ expected_block_index \in 1..expected_block_index
              /\ Len(polled) - expected_block_index + expected_block_index = Len(polled)
          BY <1>0
        <5>2. /\ slots[expected_block_index].block
                   = polled[Len(polled) - expected_block_index + expected_block_index]
              /\ Index(slots[expected_block_index].block) = expected_block_index - 1
          BY <2>0, <5>1 DEF Assembly
        <5> QED
          BY <5>1, <5>2
      <4> HIDE DEF last
      <4> DEFINE p == Index(last)
                 x == Index(block)
      <4> HIDE DEF p, x
      <4>10. CASE p = BlockCount - 1
        <5>1. expected_block_index = 0 /\ x = 0 /\ k - 1 <= BlockCount
          BY <1>0, <3>a, <4>5, <4>6, <4>7, <4>8, <4>9, <4>10 DEF p, x
        <5> QED
          BY <1>0, <3>a, <3>2, <5>1 DEF x
      <4>11. CASE p # BlockCount - 1
        <5>1. x = p + 1 /\ p \in Nat
          BY <4>6, <4>7, <4>11 DEF p, x
        <5>2. k > x + 1 => expected_block_index = x
          BY <3>a, <4>5, <5>1 DEF p
        <5>3. k <= BlockCount + x + 1
          BY <3>a, <4>5, <5>1 DEF p
        <5> QED
          BY <3>a, <3>2, <5>2, <5>3 DEF x
      <4> QED
        BY <4>10, <4>11
    <3> QED
      BY <1>0, <3>a, <3>3, <3>4
  <2>2. CASE UNCHANGED <<expected_block_index, polled>>
    BY <2>0, <2>2 DEF Recovery, Run, Index
  <2> QED
    BY <1>3, <2>1, <2>2, PollCases DEF readerVars
<1> QED
  BY <1>1, <1>2, <1>3

--------------------------------------------------------------------------------
(******************************************************************************)
(* The inductive invariant holds in the beginning.                            *)
(******************************************************************************)
LEMMA InitInductive ==
  ASSUME Init
  PROVE  Inductive
<1> USE ScanAssumption DEF Init
<1>1. TypeOK
  BY EmptySeq DEF TypeOK, Never, NoSamples
<1>2. QueuesHoldNewest /\ NoLostWakeup
  BY DEF QueuesHoldNewest, NoLostWakeup
<1>3. StreamOrigin
  BY DEF StreamOrigin
<1>4. StreamOrder
  BY DEF StreamOrder, Increasing
<1>5. Assembly
  BY DEF Assembly, FrameReturned
<1>6. Samples
  BY DEF Samples, Past, NoSamples, SamplesOwnOrRepeated, Newest
<1>7. NoneYet /\ FrameIsWhole /\ TerminatedUnsound /\ Recovery
  BY DEF NoneYet, FrameIsWhole, TerminatedUnsound, Recovery
<1> QED
  BY <1>1, <1>2, <1>3, <1>4, <1>5, <1>6, <1>7 DEF Inductive

(******************************************************************************)
(* Every step keeps it.                                                       *)
(******************************************************************************)
LEMMA StepInductive ==
  ASSUME Inductive, [Next]_vars
  PROVE  Inductive'
BY TypeStep, QueuesStep, WakeupStep, OriginStep, OrderStep, AssemblyStep, SamplesStep, NoneYetStep,
   FrameIsWholeStep, TerminatedStep, RecoveryStep DEF Inductive

(******************************************************************************)
(* So it always holds.                                                        *)
(******************************************************************************)
LEMMA AlwaysInductive == Spec => []Inductive
BY InitInductive, StepInductive, PTL DEF Spec

(******************************************************************************)
(* The state of the stream and its reader is well formed, and the queues hold *)
(* the newest blocks, for every capacity (session.cpp:55-57, 137-189).        *)
(******************************************************************************)
THEOREM StreamInvariant == Spec => []StreamInv
<1>1. Inductive => StreamInv
  BY DEF Inductive, StreamInv
<1> QED
  BY <1>1, AlwaysInductive, PTL

(******************************************************************************)
(* A reader of scan blocks never sleeps on a block (session.cpp:140-142, 178, *)
(* 188).                                                                      *)
(******************************************************************************)
THEOREM NoWakeupIsLost == Spec => []NoLostWakeup
<1>1. Inductive => NoLostWakeup
  BY DEF Inductive
<1> QED
  BY <1>1, AlwaysInductive, PTL

(******************************************************************************)
(* On the primary connection the blocks a call polls are in the order the     *)
(* device produced them, and of this connection (session.cpp:55-57, 174-178,  *)
(* device.cpp:203-237).                                                       *)
(******************************************************************************)
THEOREM FramesAreInOrder == Spec => []FrameInOrder
<1>1. Inductive => FrameInOrder
  <2> SUFFICES ASSUME Inductive, source = "primary"
               PROVE  /\ \A i \in 1..Len(polled) - 1 : polled[i].number < polled[i + 1].number
                      /\ reader # "idle" => \A i \in 1..Len(polled) : polled[i].number >= first
    BY DEF FrameInOrder
  <2>1. Len(polled) \in Nat
    BY DEF Inductive, TypeOK
  <2>2. \A i \in 1..Len(polled) - 1 : i \in 1..Len(polled) /\ i + 1 \in 1..Len(polled) /\ i < i + 1
    BY <2>1
  <2> QED
    BY <2>2 DEF Inductive, StreamOrder, Increasing
<1> QED
  BY <1>1, AlwaysInductive, PTL

(******************************************************************************)
(* A frame is made of the last BlockCount blocks polled, each in its place    *)
(* (device.cpp:203-237).                                                      *)
(******************************************************************************)
THEOREM FramesAreConsecutive == Spec => []FrameIsConsecutive
<1>1. Inductive => FrameIsConsecutive
  <2> SUFFICES ASSUME Inductive, FrameReturned
               PROVE  /\ Len(slots) = BlockCount
                      /\ [i \in 1..BlockCount |-> slots[i].block] = Last(polled, BlockCount)
                      /\ \A i \in 1..BlockCount : Index(slots[i].block) = i - 1
    BY DEF FrameIsConsecutive
  <2>1. polled \in Seq(Block) /\ BlockCount \in Nat /\ BlockCount <= Len(polled)
    BY ScanAssumption DEF Inductive, TypeOK, Assembly
  <2>2. /\ Len(slots) = BlockCount
        /\ \A i \in 1..BlockCount : /\ slots[i].block = polled[Len(polled) - BlockCount + i]
                                    /\ Index(slots[i].block) = i - 1
    BY DEF Inductive, Assembly, FrameReturned, ProgramRuns
  <2>3. Last(polled, BlockCount) = [i \in 1..BlockCount |-> polled[Len(polled) - BlockCount + i]]
    BY <2>1, LastFacts
  <2> QED
    BY <2>2, <2>3
<1> QED
  BY <1>1, AlwaysInductive, PTL

(******************************************************************************)
(* readScanFrame never polls two frames' worth of blocks without a gap and    *)
(* goes on (device.cpp:209-212).                                              *)
(******************************************************************************)
THEOREM ReaderRecovers == Spec => []RecoversWithinTwoFrames
<1>1. Inductive => RecoversWithinTwoFrames
  <2> SUFFICES ASSUME Inductive, Reads, Len(polled) >= 2 * BlockCount,
                      NoGap(Last(polled, 2 * BlockCount))
               PROVE  FALSE
    BY DEF RecoversWithinTwoFrames
  <2> DEFINE count == 2 * BlockCount
             start == Len(polled) - count
             last == polled[Len(polled)]
  <2>1. /\ polled \in Seq(Block) /\ Len(polled) \in Nat /\ count \in Nat \ {0, 1}
        /\ count <= Len(polled) /\ start \in Nat
    BY ScanAssumption DEF Inductive, TypeOK
  <2>2. /\ Len(Last(polled, count)) = count
        /\ \A i \in 1..count : Last(polled, count)[i] = polled[start + i]
    BY <2>1, LastFacts
  <2>3. Run(count)
    <3> SUFFICES ASSUME NEW i \in Len(polled) - count + 1..Len(polled) - 1
                 PROVE  polled[i + 1].number = polled[i].number + 1
      BY DEF Run
    <3> DEFINE j == i - start
    <3>0. i \in Int /\ i >= start + 1 /\ i <= start + count - 1
      BY <2>1
    <3> HIDE DEF start, count
    <3>1. /\ j \in 1..count - 1 /\ j \in 1..count /\ j + 1 \in 1..count
          /\ start + j = i /\ start + (j + 1) = i + 1
      BY <2>1, <3>0
    <3> HIDE DEF j
    <3>2. Last(polled, count)[j + 1].number = Last(polled, count)[j].number + 1
      BY <2>2, <3>1 DEF NoGap, count
    <3>3. Last(polled, count)[j] = polled[i] /\ Last(polled, count)[j + 1] = polled[i + 1]
      BY <2>2, <3>1
    <3> QED
      BY <3>2, <3>3
  <2>4. /\ count > Index(last) + 1 => expected_block_index = Index(last) + 1
        /\ count <= BlockCount + Index(last) + 1
    <3>1. count \in 1..Len(polled)
      BY <2>1
    <3> QED
      BY <2>3, <3>1 DEF Inductive, Recovery
  <2>5. expected_block_index < BlockCount
    BY DEF Inductive, Assembly, Reads
  <2>6. Index(last) \in 0..BlockCount - 1
    <3>1. Len(polled) \in 1..Len(polled)
      BY <2>1
    <3>2. last.number \in Nat
      BY <2>1, <3>1, BlockNumber
    <3> QED
      BY <3>2, DivMod, ScanAssumption DEF Index
  <2> HIDE DEF last
  <2> QED
    BY <2>4, <2>5, <2>6, ScanAssumption
<1> QED
  BY <1>1, AlwaysInductive, PTL

(******************************************************************************)
(* A slot shows, of each kind, its own samples or the last ones before it; a  *)
(* frame that began with both kinds and lost no block has the length of every *)
(* one of its blocks; and the program ends or readScanFrame throws for no     *)
(* other reason (device.cpp:200-237, 254-279).                                *)
(******************************************************************************)
THEOREM SamplesOfFrames == Spec => []FrameSamples
<1>1. Inductive => SamplesOwnOrRepeated
  <2>1. CASE Inductive /\ source = "primary"
    BY <2>1 DEF Inductive, Samples
  <2>2. CASE Inductive /\ source = "oob"
    BY <2>2 DEF Inductive, Samples, SamplesOwnOrRepeated
  <2> QED
    BY <2>1, <2>2 DEF Inductive, TypeOK
<1>2. Inductive => SoundFrameIsWhole
  <2> SUFFICES ASSUME Inductive, ProgramRuns, call = "frame", expected_block_index > 0,
                      IsSound(Last(polled, expected_block_index))
               PROVE  \A i \in 1..expected_block_index :
                        slots[i].whole /\ block_length = Length(slots[i].block.number)
    BY DEF SoundFrameIsWhole
  <2> DEFINE last == Last(polled, expected_block_index)
  <2>1. /\ Len(last) = expected_block_index /\ expected_block_index \in Nat
        /\ \A i \in 1..expected_block_index : last[i] = slots[i].block
    BY LastAreSlots, ScanAssumption DEF Inductive, TypeOK
  <2>2. IsSound(last)
    OBVIOUS
  <2> HIDE DEF last
  <2>3. 1 \in 1..expected_block_index
    BY <2>1
  <2>4. slots[1].block.has = Kinds
    BY <2>1, <2>2, <2>3 DEF IsSound
  <2>5. ASSUME NEW i \in 1..expected_block_index - 1
        PROVE  slots[i + 1].block.number = slots[i].block.number + 1
    <3>1. i \in 1..expected_block_index /\ i + 1 \in 1..expected_block_index
      BY <2>1
    <3>2. last[i + 1].number = last[i].number + 1
      BY <2>1, <2>2 DEF IsSound, NoGap
    <3> QED
      BY <2>1, <3>1, <3>2
  <2>6. WholeSoFar
    BY <2>4, <2>5 DEF Inductive, FrameIsWhole, SoundSoFar
  <2> QED
    BY <2>6 DEF WholeSoFar
<1>3. Inductive => FailuresExplained
  <2>1. "ranges" \in Kinds
    BY DEF Kinds
  <2> QED
    BY <2>1 DEF Inductive, TerminatedUnsound, NoneYet, FailuresExplained
<1>4. Inductive => FrameSamples
  BY <1>1, <1>2, <1>3 DEF FrameSamples
<1> QED
  BY <1>4, AlwaysInductive, PTL
================================================================================
