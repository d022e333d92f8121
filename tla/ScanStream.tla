------------------------------ MODULE ScanStream -------------------------------
(******************************************************************************)
(* The path of the scan blocks: the device's stream, the two bounded queues   *)
(* that Session::onMessageReceived and onOobPacketReceived fill on the worker *)
(* thread (src/src/session.cpp), pollForScanBlock, and the frames that        *)
(* Device::readScanFrame puts together on the application's thread            *)
(* (src/src/device.cpp).                                                      *)
(*                                                                            *)
(* Blocks are numbered from 0 in the order the device produces them; block n  *)
(* carries the index n % BlockCount, its place in its frame.  The device uses *)
(* the primary connection, which is reliable and ordered, or out-of-band      *)
(* packets, which may be lost or overtake each other.  scan_block_queue_mutex_*)
(* has no variable: every section it guards is one step.                      *)
(*                                                                            *)
(* Of the samples of a block the model keeps which block they come from and   *)
(* how many there are.  Copying more of them than there are, or a number of   *)
(* them that was never set, ends the program or copies anything.              *)
(*                                                                            *)
(* Definitions named X_... are mutated forms of X, which follows them: each   *)
(* is a plausible mistake in the code that one of the properties rules out.   *)
(* The specification does not use them.                                       *)
(******************************************************************************)
EXTENDS Integers, Sequences

CONSTANTS
  BlockCount,                  \* blocks of a frame, 8 in the code
  SCAN_BLOCK_BUFFERING_COUNT,  \* capacity of each queue, 32 in the code
  Sources,                     \* the streams a device may use: "primary", "oob"
  BlockLengths,                \* samples a block may have: the scan resolutions
  MaxBlock,                    \* bound: blocks the device produces
  Lacking                      \* bound: numbers of the blocks that may lack samples

ASSUME ScanAssumption ==
  /\ BlockCount \in Nat \ {0}
  /\ SCAN_BLOCK_BUFFERING_COUNT \in Nat \ {0}
  /\ Sources \subseteq {"primary", "oob"} /\ Sources # {}
  /\ BlockLengths \subseteq Nat \ {0} /\ BlockLengths # {}
  /\ MaxBlock \in Nat
  /\ Lacking \subseteq Nat

VARIABLES
  source,                     \* the stream the device uses
  next,                       \* number of the block it produces next
  first,                      \* number of the first block of this connection
  lengths,                    \* samples of a block, before and after a change
  resized,                    \* number of the first block after the change
  in_flight,                  \* out-of-band packets on their way
  scan_block_queue_primary_,
  scan_block_queue_oob_,
  reader,                     \* where the application's thread is
  call,                       \* the operation it is in
  expected_block_index,       \* readScanFrame: index of the block to come
  block_length,               \* readScanFrame: samples it copies of each block
  scan_block,                 \* for each kind, number of the block whose samples it holds
  slots,                      \* the blocks copied to the frame, in order
  polled,                     \* history: the blocks this call has polled
  returned                    \* what the last call returned

deviceVars == <<source, next, first, lengths, resized, in_flight>>
queues == <<scan_block_queue_primary_, scan_block_queue_oob_>>
readerVars == <<call, expected_block_index, block_length, scan_block, slots, polled, returned>>
vars == <<deviceVars, queues, reader, readerVars>>

Kinds == {"ranges", "intensities"}
NoSamples == -1        \* in scan_block before the first samples: not initialised
Uninitialised == -1    \* block_length before the first ranges

Block == [number : Nat, has : SUBSET Kinds]    \* has: the samples that are not null
Slot == [block : Block, samples : [Kinds -> Nat \cup {NoSamples}], whole : BOOLEAN]

Never == MaxBlock + BlockCount    \* a number no block has

Index(block) == block.number % BlockCount
Length(number) == lengths[IF number >= resized THEN 2 ELSE 1]
Size(number) == IF number = NoSamples THEN 0 ELSE Length(number)

--------------------------------------------------------------------------------
Init ==
  /\ source \in Sources
  /\ next = 0 /\ first = 0 /\ resized = Never
  /\ \E length \in BlockLengths : lengths = <<length, length>>
  /\ in_flight = {}
  /\ scan_block_queue_primary_ = <<>>
  /\ scan_block_queue_oob_ = <<>>
  /\ reader = "idle"
  /\ call = "frame"
  /\ expected_block_index = 0
  /\ block_length = 0
  /\ scan_block = [kind \in Kinds |-> NoSamples]
  /\ slots = <<>>
  /\ polled = <<>>
  /\ returned = "nothing"

(******************************************************************************)
(* A full queue loses its oldest block.                                       *)
(******************************************************************************)
Full_Never(queue) == FALSE

Full(queue) == Len(queue) = SCAN_BLOCK_BUFFERING_COUNT

Push(queue, block) == Append(IF Full(queue) THEN Tail(queue) ELSE queue, block)

NotifyOne_Forgotten == reader' = reader

NotifyOne == reader' = IF reader = "waiting" THEN "evaluating" ELSE reader

(******************************************************************************)
(* The notification branch of onMessageReceived.  The layer of a block, its   *)
(* ranges or its intensities may be null.                                     *)
(******************************************************************************)
ProgramRuns == reader # "terminated"

OnMessageReceived ==
  /\ ProgramRuns
  /\ source = "primary"
  /\ next < MaxBlock
  /\ \E has \in SUBSET Kinds :
       /\ next \notin Lacking => has = Kinds
       /\ scan_block_queue_primary_' =
            Push(scan_block_queue_primary_, [number |-> next, has |-> has])
  /\ next' = next + 1
  /\ NotifyOne
  /\ UNCHANGED <<source, first, lengths, resized, in_flight, scan_block_queue_oob_, readerVars>>

OnOobPacketReceived ==
  \E n \in in_flight :
    /\ ProgramRuns
    /\ in_flight' = in_flight \ {n}
    /\ scan_block_queue_oob_' = Push(scan_block_queue_oob_, [number |-> n, has |-> Kinds])
    /\ NotifyOne
    /\ UNCHANGED <<source, next, first, lengths, resized, scan_block_queue_primary_, readerVars>>

--------------------------------------------------------------------------------
(******************************************************************************)
(* The device.  Stopping and starting the stream begins a new frame; once,    *)
(* the scan resolution is changed in between, and with it the block length.   *)
(******************************************************************************)
SendPacket ==
  /\ source = "oob"
  /\ next < MaxBlock
  /\ next' = next + 1
  /\ in_flight' = in_flight \cup {next}
  /\ UNCHANGED <<source, first, lengths, resized, queues, reader, readerVars>>

LosePacket ==
  \E n \in in_flight :
    /\ in_flight' = in_flight \ {n}
    /\ UNCHANGED <<source, next, first, lengths, resized, queues, reader, readerVars>>

NextFrame == ((next + BlockCount - 1) \div BlockCount) * BlockCount

RestartStreaming ==
  /\ next' = NextFrame
  /\ \/ UNCHANGED <<lengths, resized>>
     \/ /\ resized = Never /\ resized' = NextFrame
        /\ \E length \in BlockLengths \ {lengths[1]} : lengths' = [lengths EXCEPT ![2] = length]
  /\ UNCHANGED <<source, first, in_flight, queues, reader, readerVars>>

(******************************************************************************)
(* Session::close, which waits for the worker to end before it clears the     *)
(* queues, and open.  Like the other calls that take no lock, not while       *)
(* another thread reads.  Packets still on their way reach the new socket,    *)
(* which is bound to the same port.                                           *)
(******************************************************************************)
Cleared_Kept(queue) == queue

Cleared(queue) == <<>>

Reopen ==
  /\ reader = "idle"
  /\ scan_block_queue_primary_' = Cleared(scan_block_queue_primary_)
  /\ scan_block_queue_oob_' = Cleared(scan_block_queue_oob_)
  /\ next' = NextFrame
  /\ first' = NextFrame
  /\ UNCHANGED <<source, lengths, resized, in_flight, reader, readerVars>>

--------------------------------------------------------------------------------
(******************************************************************************)
(* Entering readScanFrame or readScanBlock.                                   *)
(******************************************************************************)
Read ==
  /\ reader = "idle"
  /\ call' \in {"frame", "block"}
  /\ expected_block_index' = 0
  /\ block_length' = 0
  /\ scan_block' = [kind \in Kinds |-> NoSamples]
  /\ slots' = <<>>
  /\ polled' = <<>>
  /\ returned' = "nothing"
  /\ reader' = "evaluating"
  /\ UNCHANGED <<deviceVars, queues>>

(******************************************************************************)
(* The deadline of wait_for passes, or it wakes up without reason.            *)
(******************************************************************************)
Expire ==
  /\ reader \in {"evaluating", "waiting"}
  /\ reader' = "expired"
  /\ UNCHANGED <<deviceVars, queues, readerVars>>

SpuriousWake ==
  /\ reader = "waiting"
  /\ reader' = "evaluating"
  /\ UNCHANGED <<deviceVars, queues, readerVars>>

Return(error) == reader' = "idle" /\ returned' = error

(******************************************************************************)
(* readScanBlock decodes the samples that are not null: of the others         *)
(* scan_block keeps those it had, each kind by itself.                        *)
(******************************************************************************)
Decode_Fresh(block) ==
  [kind \in Kinds |-> IF kind \in block.has THEN block.number ELSE NoSamples]

Decode(block) ==
  [kind \in Kinds |-> IF kind \in block.has THEN block.number ELSE scan_block[kind]]

(******************************************************************************)
(* The number of samples readScanFrame copies of each block of a frame: that  *)
(* of the ranges scan_block held at the first block.  There are as many to be *)
(* copied unless scan_block holds fewer ranges, fewer intensities, or none.   *)
(******************************************************************************)
CopiedLength(samples) ==
  IF expected_block_index # 0 THEN block_length
  ELSE IF samples["ranges"] = NoSamples THEN Uninitialised
  ELSE Length(samples["ranges"])

IsWhole(length, samples) ==
  length # Uninitialised /\ \A kind \in Kinds : length <= Size(samples[kind])

(******************************************************************************)
(* The body of readScanFrame's loop: a block with another index than the one  *)
(* expected is dropped and the frame begun anew; one with that index is       *)
(* copied, and the last one completes the frame.  To resize the frame by a    *)
(* length that was never set may throw.                                       *)
(******************************************************************************)
AfterMismatch_Kept == expected_block_index

AfterMismatch == 0

FrameIsComplete_OffByOne(block_index) == block_index > BlockCount

FrameIsComplete(block_index) == block_index >= BlockCount

Copy(block, samples, length) ==
  /\ expected_block_index' = expected_block_index + 1
  /\ slots' = Append(SubSeq(slots, 1, expected_block_index),
                     [block |-> block, samples |-> samples, whole |-> IsWhole(length, samples)])
  /\ IF FrameIsComplete(expected_block_index + 1)
       THEN Return("no_error")
       ELSE reader' = "evaluating" /\ UNCHANGED returned

Assemble(block) ==
  LET samples == Decode(block)
      length == CopiedLength(samples)
  IN  \/ /\ Index(block) # expected_block_index
         /\ expected_block_index' = AfterMismatch
         /\ reader' = "evaluating"
         /\ UNCHANGED <<block_length, slots, returned>>
      \/ /\ Index(block) = expected_block_index
         /\ block_length' = length
         /\ \/ Copy(block, samples, length)
            \/ /\ ~IsWhole(length, samples)
               /\ reader' = "terminated"
               /\ UNCHANGED <<expected_block_index, slots, returned>>
            \/ /\ expected_block_index = 0 /\ length = Uninitialised
               /\ Return("exception")
               /\ UNCHANGED <<expected_block_index, slots>>

(******************************************************************************)
(* A block was taken from a queue: what the caller does with it.              *)
(******************************************************************************)
Use(block) ==
  /\ polled' = Append(polled, block)
  /\ scan_block' = Decode(block)
  /\ IF call = "frame"
       THEN Assemble(block)
       ELSE Return("no_error") /\ UNCHANGED <<expected_block_index, block_length, slots>>

HasBlock == Len(scan_block_queue_primary_) > 0 \/ Len(scan_block_queue_oob_) > 0

(******************************************************************************)
(* pollForScanBlock: the predicate of wait_for is evaluated; the primary      *)
(* queue is served first; past the deadline the call ends without a block.    *)
(******************************************************************************)
GivesUp_Never == FALSE

GivesUp == reader = "expired"

PollForScanBlock ==
  /\ reader \in {"evaluating", "expired"}
  /\ \/ /\ Len(scan_block_queue_primary_) > 0
        /\ scan_block_queue_primary_' = Tail(scan_block_queue_primary_)
        /\ UNCHANGED scan_block_queue_oob_
        /\ Use(Head(scan_block_queue_primary_))
     \/ /\ Len(scan_block_queue_primary_) = 0
        /\ Len(scan_block_queue_oob_) > 0
        /\ scan_block_queue_oob_' = Tail(scan_block_queue_oob_)
        /\ UNCHANGED scan_block_queue_primary_
        /\ Use(Head(scan_block_queue_oob_))
     \/ /\ ~HasBlock /\ GivesUp
        /\ Return("timed_out")
        /\ UNCHANGED <<queues, expected_block_index, block_length, scan_block, slots, polled>>
     \/ /\ ~HasBlock /\ ~GivesUp
        /\ reader' = "waiting"
        /\ UNCHANGED <<queues, readerVars>>
  /\ UNCHANGED <<deviceVars, call>>

--------------------------------------------------------------------------------
Next ==
  \/ OnMessageReceived \/ OnOobPacketReceived
  \/ SendPacket \/ LosePacket \/ RestartStreaming \/ Reopen
  \/ Read \/ Expire \/ SpuriousWake \/ PollForScanBlock

(******************************************************************************)
(* A thread inside pollForScanBlock keeps running and its deadline comes.     *)
(******************************************************************************)
Fairness == WF_vars(Expire) /\ WF_vars(PollForScanBlock)

Spec == Init /\ [][Next]_vars /\ Fairness

--------------------------------------------------------------------------------
TypeOK ==
  /\ source \in {"primary", "oob"}
  /\ next \in Nat /\ first \in Nat /\ resized \in Nat
  /\ lengths \in BlockLengths \X BlockLengths
  /\ in_flight \in SUBSET Nat
  /\ scan_block_queue_primary_ \in Seq(Block)
  /\ scan_block_queue_oob_ \in Seq(Block)
  /\ reader \in {"idle", "evaluating", "waiting", "expired", "terminated"}
  /\ call \in {"frame", "block"}
  /\ expected_block_index \in 0..BlockCount
  /\ block_length \in Nat \cup {Uninitialised}
  /\ scan_block \in [Kinds -> Nat \cup {NoSamples}]
  /\ slots \in Seq(Slot)
  /\ polled \in Seq(Block)
  /\ returned \in {"nothing", "no_error", "timed_out", "exception"}

FrameReturned == call = "frame" /\ returned = "no_error"

Last(sequence, count) == SubSeq(sequence, Len(sequence) - count + 1, Len(sequence))

(******************************************************************************)
(* The frame that readScanFrame returns is made of the last BlockCount blocks *)
(* it polled, none skipped in between, and slot i holds the block with index  *)
(* i.  So a frame mixes two revolutions only if the blocks between them, a    *)
(* multiple of BlockCount, never reached the queue or were pushed out of it   *)
(* (device.cpp:203-237).                                                      *)
(******************************************************************************)
FrameIsConsecutive ==
  FrameReturned =>
    /\ Len(slots) = BlockCount
    /\ [i \in 1..BlockCount |-> slots[i].block] = Last(polled, BlockCount)
    /\ \A i \in 1..BlockCount : Index(slots[i].block) = i - 1

(******************************************************************************)
(* On the primary connection no frame goes back in time, across restarts of   *)
(* the stream, full queues and reopened sessions: its blocks are in the order *)
(* the device produced them, and all of them belong to this connection        *)
(* (session.cpp:55-57, 174-178, device.cpp:203-237).                          *)
(******************************************************************************)
FrameInOrder ==
  source = "primary" =>
    /\ \A i \in 1..Len(polled) - 1 : polled[i].number < polled[i + 1].number
    /\ reader # "idle" => \A i \in 1..Len(polled) : polled[i].number >= first

(******************************************************************************)
(* A loss costs readScanFrame a bounded number of blocks: it never polls two  *)
(* frames' worth of blocks without a gap and goes on (device.cpp:209-212).    *)
(******************************************************************************)
NoGap(blocks) ==
  \A i \in 1..Len(blocks) - 1 : blocks[i + 1].number = blocks[i].number + 1

Reads == reader \in {"evaluating", "waiting", "expired"}

RecoversWithinTwoFrames ==
  Reads /\ Len(polled) >= 2 * BlockCount => ~NoGap(Last(polled, 2 * BlockCount))

(******************************************************************************)
(* A slot holds, of each kind, the samples of its own block or, if those are  *)
(* null, the last samples of that kind the call has polled: uninitialised     *)
(* samples only as long as it has polled none of that kind (device.cpp:200,   *)
(* 225-230, 254-279).                                                         *)
(******************************************************************************)
SamplesOwnOrRepeated ==
  \A i \in 1..Len(slots), kind \in Kinds :
    LET slot == slots[i]
    IN  IF kind \in slot.block.has
          THEN slot.samples[kind] = slot.block.number
          ELSE /\ slot.samples[kind] < slot.block.number
               /\ \A j \in 1..Len(polled) :
                    polled[j].number < slot.block.number /\ kind \in polled[j].has
                      => slot.samples[kind] >= polled[j].number

(******************************************************************************)
(* readScanFrame copies as many samples of every block as block 0 has,        *)
(* without looking at the length of the others, and never past the end of any *)
(* when block 0 had both ranges and intensities and no block was lost since:  *)
(* then the frame has the length of every one of its blocks, whatever the     *)
(* others lack and also around a change of the resolution (device.cpp:217,    *)
(* 225-230).                                                                  *)
(******************************************************************************)
IsSound(blocks) == blocks[1].has = Kinds /\ NoGap(blocks)

SoundFrameIsWhole ==
  /\ ProgramRuns /\ call = "frame"
  /\ expected_block_index > 0 /\ IsSound(Last(polled, expected_block_index))
  => \A i \in 1..expected_block_index :
       slots[i].whole /\ block_length = Length(slots[i].block.number)

(******************************************************************************)
(* The program ends while it copies, or readScanFrame throws, for no other    *)
(* reason: there was such a loss, block 0 lacked samples, or there were no    *)
(* ranges at all (device.cpp:216-230).                                        *)
(******************************************************************************)
FailuresExplained ==
  /\ reader = "terminated" => ~IsSound(Last(polled, expected_block_index + 1))
  /\ returned = "exception" => \A i \in 1..Len(polled) : "ranges" \notin polled[i].has

(******************************************************************************)
(* What the samples of a frame are: the three statements above together, over *)
(* null samples and a change of the resolution (device.cpp:200-237, 254-279). *)
(******************************************************************************)
FrameSamples == SamplesOwnOrRepeated /\ SoundFrameIsWhole /\ FailuresExplained

(******************************************************************************)
(* No lost wakeup: a reader sleeps only while both queues are empty           *)
(* (session.cpp:140-142, 178, 188).                                           *)
(******************************************************************************)
NoLostWakeup == reader = "waiting" => ~HasBlock

(******************************************************************************)
(* The queues never hold more than their capacity.  The primary one holds the *)
(* newest blocks the device has produced, up to the last one, without a gap   *)
(* other than a restart of the stream, and none of an earlier connection: a   *)
(* full queue loses its oldest block and no other (session.cpp:55-57,         *)
(* 175-177, 185-187).                                                         *)
(******************************************************************************)
QueuesHoldNewest ==
  LET primary == scan_block_queue_primary_
      Follows(number, block) == number = block.number + 1 \/ number % BlockCount = 0
  IN  /\ Len(primary) <= SCAN_BLOCK_BUFFERING_COUNT
      /\ Len(scan_block_queue_oob_) <= SCAN_BLOCK_BUFFERING_COUNT
      /\ \A i \in 1..Len(primary) :
           /\ primary[i].number \in first..next - 1
           /\ Follows(IF i = Len(primary) THEN next ELSE primary[i + 1].number, primary[i])

(******************************************************************************)
(* The state of the stream and its reader is well formed, and the queues hold *)
(* what they should, full, cleared or restarted (session.cpp:55-57, 137-189). *)
(******************************************************************************)
StreamInv == TypeOK /\ QueuesHoldNewest

(******************************************************************************)
(* Each wait for a block ends, with a block or past the deadline.  Here the   *)
(* device falls silent after MaxBlock blocks, so that readScanFrame returns;  *)
(* on a stream that goes on without a whole frame it need not                 *)
(* (session.cpp:139-155, device.cpp:204-207).  Or the program has ended.      *)
(******************************************************************************)
PollReturns == reader # "idle" ~> reader \in {"idle", "terminated"}
================================================================================
