# A TLA+ model of ldcp_sdk

ldcp_sdk is a C++ library to control laser scanners over LDCP, a JSON-RPC
protocol on TCP, with scan data either on the same connection or in UDP
("out-of-band", OOB) packets. The repository has no documentation and no tests of
its own: the source under `src/src` and `src/include/ldcp` is the reference.
This directory holds TLA+ modules that model it, TLC configurations that check
them on small instances, and proofs that the safety properties hold on all of them.
`PROJECT.json` maps the definitions to source lines and lists the runs, the
mutants, the hazards and the theorems.

## Inventory

| Component | State | Operations | Works with |
|---|---|---|---|
| `Session` (session.cpp), commands | `id_`, `response_queue_`, `command_mutex_`, the condition variable, `transport_` | `open`, `close`, two overloads of `executeCommand`, answer branch of `onMessageReceived` | called by application threads; calls `Transport`; called back on the worker thread |
| `Session`, scan blocks | `scan_block_queue_primary_`, `scan_block_queue_oob_` | `pollForScanBlock`, notification branch of `onMessageReceived`, `onOobPacketReceived` | filled by the worker, emptied by `Device::readScanBlock` |
| `NetworkTransport` (transport.cpp) | two sockets, `io_service_`, `worker_thread_`, `outgoing_message_queue_`, three buffers | `connect`, `disconnect`, `transmitMessage`, `enableOob`, the completion handlers | application thread and worker thread; Asio |
| message format (transport.cpp) | none | `parseIncomingMessage`, `encapsulateOutgoingMessage`, `verifyOobPacket` | `Utility` |
| `Device`, `Bootloader` (device.cpp, bootloader.cpp) | the local or static strings that requests refer to | queries, settings, firmware commands, `readScanFrame` | `Session` |
| `Device::open`, `DeviceBase` (device.cpp, device_base.cpp) | `session_` | constructors, move, destructor, open with OOB negotiation, close | `Session`, `NetworkTransport` |
| `DeviceManager` (device_manager.cpp) | `device_entries_`, `notifiers_`, `event_mutex_`, `data_mutex_` | add notifier, start, stop, attach and detach events | called by notifiers on their threads; calls the application |
| device notifiers (device_notifier.cpp) | a thread; Avahi or DNS-SD objects | `init`, `start`, `stop`, service callbacks | `DeviceManager` |
| `Utility` (utility.h) | none | CRC-16, Base64 | message format, scan blocks, firmware |
| `Location`, `DeviceInfo`, error codes | values | none | everything |

What is hard here is the concurrency of application threads and worker threads
(condition variables with deadlines, handlers that capture a stack frame, buffers
shared by consecutive writes), answers that come late, calls that time out and are
executed afterwards, lossy scan data reassembled from bounded queues, a parser that
reads on behind its line after a damaged message, lists changed by the callbacks of
a loop over them, and shutdown: every `close`, `disconnect` and `stopMonitoring`
joins a thread. `PROJECT.json` lists these hazards with their lines and the
properties that cover them.

Properties that make each component correct:

* session: a call returns its own answer or an error, an answer received in time
  is not lost, a call returns; all of it as one abstract service;
* message format: no damaged payload is delivered, an intact message is lost only
  when a wrong count or a lost delimiter before it misled the parser, the parser
  makes progress; CRC-16 and Base64 are what
  they are defined to be, and samples survive them;
* opening a device: a failed open leaves nothing open, sockets and connections have
  one owner;
* transport: messages are whole, once and in order; no handler uses a dead stack
  frame or calls back after `disconnect`; `connect` and `disconnect` return;
* scan data: a frame is made of consecutive polled blocks in their places, a loss
  costs a bounded number of blocks, queues keep the newest blocks;
* commands: what was acknowledged is what the device has, and a verification is
  about the image it has, as long as no other call wrote the string they share;
* discovery: the callback mirrors the list and the list mirrors the network;
  `stopMonitoring` returns and silences the callbacks; the Windows notifier reports
  each resolved service once and its two lists agree.

## Modules

| Module | Models | Extends or instantiates |
|---|---|---|
| `CommandService` | abstract: what `executeCommand` promises | - |
| `Session` | `executeCommand`, `onMessageReceived` (answers), `open`, `close` | instantiates `CommandService` |
| `SessionProofs`, `ScanStreamProofs`, `FramingProofs`, `DiscoveryProofs`, `WindowsNotifierProofs` | theorems about the module they name | that module, TLAPS; the last three `ListProofs` |
| `TransportProofs` | theorems about `Transport` and, in its second half, `Codec` | both, `ListProofs` |
| `DeviceProofs` | theorems about `DeviceOpen` and `Commands` | both, TLAPS |
| `Lists`, `ListProofs` | how many elements of a list are in a set; facts about it, about pieces of sequences and about functions defined by recursion | - |
| `FifoChannel` | abstract: what `transmitMessage` promises | - |
| `Transport` | one `NetworkTransport`, its two threads and the network | instantiates `FifoChannel` |
| `Framing` | `parseIncomingMessage` and `encapsulateOutgoingMessage` over a damaged stream | - |
| `Codec` | CRC-16, Base64, `verifyOobPacket`, the decoding of samples | - |
| `ScanStream` | scan block queues, `pollForScanBlock`, `readScanFrame` | - |
| `Commands` | the requests of `Device` and `Bootloader`, end to end | - |
| `DeviceOpen` | `DeviceBase`, `Device::open`, the OOB sockets of several devices | - |
| `Discovery` | `DeviceManager` and its Linux notifiers | extends `Lists` |
| `WindowsNotifier` | `NetworkDeviceNotifierWindows` | extends `Lists` |
| `MCCommands`, `MCWindowsNotifier` | a symmetry set, constants for TLC | the module they name |

Variables and actions have the names of the code's members and functions where
there are such. Definitions called `X_Something` before a definition `X` are
mutated forms of `X`, plausible mistakes in the code; the specifications do not use
them, and each of them violates a property when put in the place of `X`.

**Session.** One action per critical section. `response_queue_mutex_` has no
variable, since each section it guards is one step. The two-argument overload is
`Lock`, `SendRequest` (take an id, hand over the request, first evaluation of the
wait predicate), then any of `SpuriousWake`, `Expire`, `Recheck` until it returns.
The one-way overload changes `id_` without the queue's mutex and is two steps after
`Lock`. `RemoveStale` is `std::remove_if` as it is used, without erase, moved-from
elements included. The transport is the set of ids it was given; the peer answers
any of them at any time, any number of times. `open` and `close` take no lock and
are modelled between calls: overlapping them with a command is a data race on
`transport_`, which the application has to avoid. The model stops at `MaxId` and
does not cover the overflow of the `int` `id_` after 2^31 commands.
`CommandService` has neither queue nor condition variable: a call in progress, the
last answer accepted for it, and what it returned. Under the mapping, a call is
pending while its thread waits, and its answer is the one in the queue with its id.

**Transport.** The life of one transport, since `Session::open` makes a new one
each time. The application's thread is `caller`, the worker is `worker`, each
asynchronous operation has a state in `op`, posted lambdas are `posted` and
`closing`. A handler is one step of the worker. Messages are numbers; the buffers
hold the messages encoded into them, so that encoding a second message into
buffers in use shows. Whether a message parses, or a packet verifies, is a free
choice. The write, connect and read errors come from `link`. A peer reset makes
`shutdown()` throw in the lambda of `disconnect()`, which ends the process: this
is the state `terminated`.

**ScanStream.** Blocks are numbers, with the index `number % BlockCount`, and have
ranges, intensities, both or none (`has`): the code tests each for null by itself, and
a null layer has neither. Which blocks may lack some is the bound `Lacking`.
`scan_block` tells for each kind whose samples the reader's `ScanBlock` holds,
`block_length` how many `readScanFrame` copies of each block: the length of the
ranges held at block 0, or `Uninitialised`. `slots` is the frame; a slot is `whole`
unless more samples were copied than there were. Copying more than there are, or a
number never set, may end the program (`terminated`) or copy anything, and to resize
the frame by a number never set may throw (`exception`): the model takes each of
these outcomes. `polled` is a history variable. The resolution may change once, with
a restart of the stream: blocks from number `resized` on have the second of `lengths`.
The primary connection is reliable; packets may be lost or reordered and survive a
reopening of the session. A device uses one of the two streams for good (`source`), so
that both queues never hold blocks at once and the order in which `pollForScanBlock`
serves them makes no difference. Duplicated packets are left out, sample values are in
`Codec`.

**Framing.** The stream is a sequence of tokens: a count with its colon, the
checksum header, a comma, the opening, text and closing of a JSON object, the
delimiter, or junk (the opening is the brace with the first member and its comma, the
text the other members, so that an object that lost its text does not parse); each counts as one character and names its message. The parser
is translated branch by branch with what it leaves in the buffer, including that
`>>` skips `\r\n` into the next line and that `ignore()` with a difference below
zero ignores nothing. The device sends framed or bare messages; damage removes,
garbles or replaces one token of a message. All is sent before any arrives: the
parser sees nothing of what has not arrived, so this loses no behaviour. `exposed`
is a history variable: the messages, other than the one a line begins in, that are
in the line or that the parser took tokens of behind it. What `ignore()` takes beyond
the line is not counted, so that it has no excuse for a loss.

**Codec.** A machine that appends a byte to `data`; the invariants are statements
about the functions of `data`. The reference for the checksum is division by the
CCITT polynomial bit by bit, the reference for Base64 its inverse, and for packets
and layers the samples that were put in. The shifts, masks and exclusive ors of the
code are arithmetic on powers of two, and its loops recursive functions of the number
of iterations, so that the same definitions can be proved about. `CodecAssumption`
keeps a packet within `oob_packet_buffer_`.

**DeviceOpen.** For each device the objects made for it, `DeviceBase` first and
`Device` moved from it or made directly. Each command of `Device::open` is a step
that is answered or fails; connections are lost and settings change in between.
`sockets` has the ports of the OOB sockets of each device; what is received through it is in `Transport`
and `ScanStream`.

**Commands.** Several threads make calls, one at a time inside `executeCommand`
(`holder` is the one that has `command_mutex_`). The firmware methods encode their
argument into a static string before they take the mutex (`Encode`, `EndEncode`); the
string is shared by all threads and all `Bootloader` objects (`EncodeElsewhere` is
that of another device), and `encoded` says whose text it holds: a thread's, then the
request's that the thread makes of it, or nobody's once two have written it at a time.
So the string a request refers to may be overwritten before the mutex is taken, and
while the request waits. That two threads in one string may crash the program is
not modelled; what is read is any value, or `Garbage`. `intact` is a history variable:
the argument of the last request was the caller's when it was serialized. A request goes through `documents`
(not yet serialized), `writing`, `inbox` to the device and its answer through
`outbox` back. A document holds its argument, or refers to a local or static
string; `Contents` is what serializing it yields. The device is external: it
executes requests in order or refuses them. A single setting stands for all.
`setting` may become `Garbage` when a timed-out request is serialized late. The
device tells images apart by their last block. Commands without an argument whose
result no other command changes are one kind, with an action for each of them that
the source has apart from the long list of queries.

**Discovery.** Each notifier has a thread that runs Avahi's loop, and network
events of its own. `event_mutex_` is a variable because the callback runs under
it; `data_mutex_` sections are single steps. `known` is the list an application
can keep from its callback alone. `init()` may fail at each of its three Avahi
objects and be called again. The SDK comes with a single network notifier;
`addDeviceNotifier` accepts more, and two are modelled. That Avahi's loop can be run
again after it was told to quit is an assumption.

**WindowsNotifier.** The thread's loop is `Select` and, for each element of the
list, `Iterate`, which runs the callbacks with one result or two. Requests are
numbers, newest first in `pending_requests_`, as `push_front` puts them; `remove()`
takes one element out, since no request is in the list twice (`NotifierInv`); `iter` and
`ready` are the loop's iterator and its copy of the socket set. The handlers of
`DeviceManager` it calls are in `Discovery`; here they are counted in `attached`.

## Runs

| Run | Bounds | Shows |
|---|---|---|
| `session` | 2 threads, ids 0..3, 6 kinds of answer | the inductive invariant `SessionInv` (its parts: every answer belongs to its call, no wakeup is lost, ids and mutex are consistent), `RemoveStaleIsNoOp`, refinement of `CommandService`, `CommandReturns` |
| `transport` | 3 messages out, 2 in | `TransportInv` (a connected transport is receiving, the buffers hold the message being written), `NoDanglingFrame`, `NoCallbackAfterReturn`, refinement of `FifoChannel`, `CallsReturn` |
| `transport_reading_peer` | 2 out, 1 in | `MessageReachesPeer` |
| `framing` | 3 messages, 2 of them damaged, counts up to 4 | `DeliveredIntactInOrder`, `LossIsExplained`, `ParserMakesProgress` |
| `codec` | all sequences of up to 6 of the bytes 0, 90, 255 | `CrcIsPolynomialRemainder`, `Base64RoundTrip`, `DamagedPacketRejected`, `SamplesSurvive` |
| `scan_primary` | frames of 3 blocks, queue of 4, 9 blocks, of which numbers 0, 1, 3 and 6 may lack samples, 2 lengths | `StreamInv` (the queue holds the newest blocks), `FrameInOrder`, `FrameSamples`, `RecoversWithinTwoFrames` |
| `scan_oob` | either source, frames of 3 blocks, queues of 2, 6 blocks | with loss and reordering: `FrameIsConsecutive`, `NoLostWakeup`, `PollReturns` |
| `commands` | 2 threads, 2 values, 3 requests | `CommandsInv` (requests and answers keep the order of the calls), `AcknowledgedWriteIsStored`, `AcknowledgedSetIsInEffect`, `GetReturnsCurrentValue`, `VerdictIsAboutImage` |
| `commands_lifetime` | 2 threads, 2 values, 3 requests | expected violation, see Finding |
| `device_open` | 2 devices, 2 ports | `OpenInv` (a connection has one owner, a socket belongs to an open connection), `FailedOpenIsClosed` |
| `discovery` | 2 notifiers, 2 devices, 4 changes | `DiscoveryInv` (an added notifier works with live objects), `CallbackMirrorsList`, `ListMatchesNetwork`, `NoCallbackWhenStopped`, `StopReturns` |
| `windows_notifier` | 3 services on 2 hosts, 5 requests | `NotifierInv` (the list of requests and the set of sockets agree), `ResolvedOnceReportedOnce`, `StoppedOrOvertaken`, `StopReturns` |

Why the bounds are enough: one id more than the number of threads lets a late
answer meet a call after the next one; three messages put one in the buffers, one
in the queue and one among the posted lambdas; the scan queues are smaller than
the stream, so that they overflow in the middle of a frame. Nine blocks, with a queue
that loses some, are what `RecoversWithinTwoFrames` needs: a frame that is cut short by
a loss, whose next block 0 is dropped, and five more blocks without a gap, of which the
last completes a frame; a frame does get as far as `2 * BlockCount - 1` blocks without
a gap. The blocks that may lack samples are at the first two places of the
first frame and at the first of the others. Three requests of two threads are a write
that timed out, one of another thread that is acknowledged, and a verification; each
may be overtaken in its string by the next; four changes let a device appear on both networks,
leave one and come back. In the code a frame has 8 blocks and a queue 32. After a
damaged message two more are needed: the one its wrong count swallows, which may be
damaged as well, and the one that shows that the parser is back; the bound on
counts leaves values that end within the line, within the next one and, with a bare
object for the next one, beyond it. Six bytes are two Base64 groups and every length of the last one; 0 and
255 are the carries, 90 has both halves of a byte different. Two devices and two
ports let sockets share a port or not, and show that closing one device leaves the
sockets of another alone. Two services on one host and one on another
let an answer take another request's record; five requests are a browse, two
resolutions and two addresses.

Deadlock is checked except where the system may stop: a transport whose life is
over, `Commands`, where the ids run out, `Framing` and `Codec`, where the input
ends, and `WindowsNotifier`, where the process may terminate.

### Fairness

Only threads inside a call of the library are fair: a thread that can take its
next step does so, and deadlines pass (`std::condition_variable::wait_for`
promises both). Handlers that are ready are run by Asio, whose queue is FIFO.
Nothing is assumed of the peer, the network, or the fairness of `command_mutex_`.
`MessageReachesPeer` adds a peer that reads, as TCP promises nothing otherwise.
For `StopReturns` of `Discovery` the application's callback returns, and a thread
that waits for a free `event_mutex_` gets it. For `StopReturns` of
`WindowsNotifier` the thread runs, its callbacks return, and `select()` returns
after its millisecond, so that the flag is seen; no result is assumed to come.

### Finding

`ReferencesOutliveDocuments` (run `commands_lifetime`): `setScanResolution` and
`setAngularFov` pass a `StringRef` to a local string, `writeData` and `verifyHash`
to a static one. If the call times out before the worker has serialized the
request, the memory is gone or rewritten when it is read. RapidJSON's
documentation of `StringRef` (`document.h:230-232`) demands the contrary. The static
strings are moreover shared by all threads and `Bootloader` objects and written before
`command_mutex_` is taken, so that another call overwrites the text of one that waits
for the mutex, or for its answer. The shortest trace is one call that times out before the worker serializes its
request; behind a message that a slow peer has not read yet, this is what every
call does. The `commands` run shows what survives: settings that were acknowledged
are in effect even so, and so are firmware blocks and verdicts of calls whose text
nobody overwrote.

### What the passing properties also tell

* `CallsReturn` names the one case in which `disconnect()` does not return:
  after a reset by the peer the process terminates.
* `ListMatchesNetwork` excepts devices whose removal overtook their resolver: the
  list then keeps an entry of a device that is gone until the same name is removed
  again.
* `AcknowledgedWriteIsStored` and `VerdictIsAboutImage` except calls whose static
  string was overwritten before their request was serialized (`returned.intact`). Without
  that, TLC finds two threads in `writeData`: both encode, the first takes the mutex, its
  request is serialized with the text of the second, and the device acknowledges it. The
  first caller is told that its block is stored, and the other's is. Exactly one
  block is stored even then, and the exception never applies to a program that
  makes its firmware calls, for all devices, on one thread.
* `FrameSamples` shows that null ranges or intensities repeat the last ones of their
  kind that the call has polled, beside new ones of the other kind, or leave
  uninitialised ones if there were none. If block 0 has no ranges and none came before,
  the length of the frame is not initialised either: `readScanFrame` throws, copies
  out of bounds, or goes on. If block 0 has ranges and no intensities came before, it
  copies out of bounds.
* A frame is known to be whole, and of one length, when block 0 had both kinds and no
  block was lost since. Copying goes wrong only otherwise, and the code does go wrong there:
  after a loss together with a change of the resolution a later block may be
  shorter than block 0, and is read past its end.
* `RecoversWithinTwoFrames` bounds the blocks `readScanFrame` takes without a gap. It is
  no deadline: on a stream that loses a block in every frame it polls for ever.
* `FrameIsConsecutive` does not say that a frame is of one revolution: losing a
  multiple of the block count is not noticed (`frame_index` in the packet header
  is not read).
* `DeliveredIntactInOrder` names the one way around the checksum: a line with a
  wrong count swallows the head of the next frame, and the rest of that frame is
  parsed as a bare object.
* `LossIsExplained` rests on a conversion: `length - bytes_consumed` wraps, and is
  harmless because `ignore()` takes a signed number.
* `LossIsExplained` says why a message was lost and does not bound how many are. Whether
  the parser is back at the start of a message depends on where the reads end: when
  one ends right behind the headers of the next message, what follows is parsed in the
  middle of that message, and its payload may be taken for a header in turn. TLC finds
  one wrong count that costs both of two intact messages behind it (the bounds of
  `framing` with `MaxDamage` 1).
* `DiscoveryInv` names the one case of a double free in `init()`: the poll
  object cannot be made after an attempt that failed later.
* `StoppedOrOvertaken` names the one case in which the Windows notifier's `stop()`
  leaves the thread running: it was called before the thread set `active_flag_`.
  The next `start()` then terminates the process.
* `Device::open` reports success without OOB reception when `isOobEnabled` fails,
  and with a socket that is never read when the connection is lost before
  `enableOob`.

## Proofs

Every invariant and every action property of the passing runs is proved for all
values of the constants, and so are both refinements.
The assumptions are the `ASSUME` of each module: sentinels differ from the values
they stand beside, bounds are natural numbers, a frame and a queue have at least
one block, `Notifiers` is finite, a byte is below 256, a packet fits its buffer, and
`MESSAGE_LENGTH_MAX` is at least the length of a payload. Every proof has the same shape: an inductive
invariant (`Inductive`, or `SessionInv`), a lemma that `Init` establishes it, lemmas
that the actions keep its parts, and theorems that follow from it. TLC checked each
inductive invariant on a small instance before it was proved, except the one of
`Framing`, which quantifies over all forms of a message.

**Session** (`SessionProofs`). `ReplyBelongsToCall` alone is not inductive. That a
queued answer with the current id belongs to the waiting call needs: the id of the
waiting call is the last one (`IdInv`), because one call at a time is inside
(`LockInv`); and the queue has at most one answer, with an id already used
(`QueueInv`). From the last part follows also that `remove_if` returns the queue
unchanged (`RemoveStaleShort`), which is what makes the wait predicate free of side
effects, and that `++id_` is fresh. The action properties `FreshRequestId` and
`AnswerReachesCommand` follow from the invariant and a case analysis of the step.
`SessionImplementsService`: taking the mutex enters the abstract call, the increment
asks or tells, an answer to the last request is accepted, the return finishes, and
everything else stutters; only the holder of the mutex can be waiting
(`OnlyHolderWaits`).

**Transport** (`TransportProofs`). `ConnectedIsReceiving` and `BuffersHoldFront` need
`ConnectInv` (`connect_result`, `result` and the operation of `async_connect` follow
`connect()`), `ReadInv` (a read ends only when the connection does) and `WriteInv`
(the buffers hold the front of the queue also after a failed write). The inner scope
of `connect()` is alive when the handler uses it (`ConnectFrameIsAlive`) because `result`
is no longer `no_error` once that scope was left, and the handler looks at `result`
first. `ReturnedIsQuiet` rests on the joins: a worker that has exited leaves no handler. For `TransportImplementsChannel`, what is pending in the
channel is the queue without a front already written, then the posted lambdas; the lemmas
about sequences say that moving a message from one to the other, encoding it and
popping it leave that alone.

**Codec** (`TransportProofs`). `CrcCorrect`, `DamageRejected`, `Base64Correct` and
`SamplesCorrect` are about data of every length, made of any bytes. A bit of a word is a
proposition, `Bit(x, weight)`; `XorWordIsXor` says that the exclusive or of words is the
one of their bits, so that a byte's step of the checksum and eight shifts of the
register are compared as formulas (`CrcStepIsEightShifts`), not case by case. What a
loop does for every length is an induction over the data: each recursive function
exists and is the only one (`RecursionExists`, `RecursionUnique`), and a statement about
all of its states holds because there is no least place where it fails (`LeastNat`).
`CrcStep` is injective in the checksum and in the byte, hence a packet with one byte
changed has another checksum (`ChecksumTellsOneByte`), unless the byte is in the checksum
field, which then differs itself, or in the signature. Base64 is proved
a group at a time: the decoder comes back to an empty `value` after four characters with
the group's bytes behind the earlier ones (`WholeGroupDecoded`), and the last group is
what `DecodeTail` writes (`PartGroupDecoded`).

**Framing** (`FramingProofs`). `FramingInv` looks at the stream, which is the buffer
followed by the network. Its tokens are in the order of their messages (`InOrder`); each
message sent is whole in it, or gone, or what is left of it is at the front of the
stream and it was exposed (`Placed`); a message that was not exposed is whole and
undelivered, or gone, and then was delivered if it was intact and was not if its payload
was damaged (`Fate`); and every exposed message has an earlier one with a wrong
count or a lost delimiter (`Explained`). Two facts about the parser carry the proof. It
takes at least a token, from the front of the buffer, and with a message what the message
was read from (`HandlerTakes`). And on a line that begins with a whole message it ends
within that line, unless the message has a wrong count or no delimiter, and returns the
message if it is intact and none if its payload is damaged; this follows the fields of
a frame one by one, for a frame as sent and one damaged at each of its places.
`IntactInOrder`, `LossExplained` and `Progress` follow from `FramingInv` at once.

**DeviceOpen** (`DeviceProofs`). `OpenHasOneOwner` and `SocketBelongsToOpenDevice`
are inductive with `NegotiationInv`: an `open()` in progress has a connection and no
socket yet, and no two objects hold one session, open or not.

**ScanStream** (`ScanStreamProofs`). The invariant follows the blocks: each one was
produced and is in its own queue (`StreamOrigin`); on the primary connection all that
a call has seen is older than all that is queued (`StreamOrder`); the first
`expected_block_index` slots are the blocks polled last (`Assembly`); `scan_block` has, of
each kind, the samples of the last block that had any (`Samples`), and no ranges only if
there were none (`NoneYet`). A frame without loss so far whose block 0 had both kinds is
whole and of the length of its blocks (`FrameIsWhole`), since the resolution changes at a
frame's border and every slot has some samples of its own frame; so a program that ended
while copying had no such frame (`TerminatedUnsound`). `RecoversWithinTwoFrames` is not inductive: it does not say when a run without
gap began. `Recovery` does: if the last k blocks follow each other and a frame's border
is among them, the reader is in step.

**Commands** (`DeviceProofs`). `OrderInv` puts all messages in the order of their
ids, from the answers over the socket and the writes to the documents; so when the
answer of the current call is there, everything earlier was executed. `CurrentInv`
says that until then the request carries the caller's argument if it was `intact` when
it was serialized, and that the answer is about what the request carries. After a return
without error nothing is on its way (`ReturnedInv`), and after an acknowledged set call
no other one (`AcknowledgedInv`).

**Discovery** (`DiscoveryProofs`). `MutexInv` makes `CallbackMirrorsList` inductive: the
holder of `event_mutex_` is the one whose callback runs, and also a removal being
reported is the one difference between the list and what the application knows.
`PointersInv` and `ThreadsInv` say which notifiers have objects and threads.
`ListFollowsNetwork` needs a witness the state does not have: for each notifier the
services its browser has seen (`NetworkInv`). The queued events lead from there to what
is present (`Path`), and the notifiers that have an entry (`Listers`) are those that
have seen the service, have no resolver for it and are not about to report it, or are
about to report its removal. Each step is shown to keep the number of entries with a
name equal to the number of listers; a removal finds no entry only if the service is
unsettled.

**WindowsNotifier** (`WindowsNotifierProofs`). `InOrder` is the invariant of a state
inside the loop, kept by each callback and so by any number of results: the list has
the elements of the socket set, each once (`ListsAgree`), a service was resolved as
often as it was reported or has a record, and each host has at least as many pending
address requests as records (`Counted`). The iterator is an element of the list, or at
its end (`LoopInv`). `ControlInv` relates `active_flag_`, the thread and the `std::thread`
object; a thread that is not joined is one that `stop()` overtook.

**Lists** (`ListProofs`): what appending, prepending and removing an element does to the
number of elements in a set, that `Min` of a set of places is the least one, and the
facts about recursion named under Codec.

Proving led to some changes of the modules: `CASE` expressions whose guards overlap
have no determined value and became conditionals (`ParseStream`, `UseHeader`, `Answer`,
`CallbackReturns`), the sockets of `DeviceOpen` are a list per device, `remove()` of
the Windows notifier takes out one element, the loops of `Codec` and `Framing` are
recursive functions, and `exposed` is what the line held and the parser took
rather than what a line with a wrong count could reach.

Only model-checked: all liveness (`CommandReturns`, `CallsReturn`, `MessageReachesPeer`,
`PollReturns`, the two `StopReturns`), which needs fairness and `ENABLED`.
`ReferencesOutliveDocuments` is violated, see Finding.

## Not modelled

Some inputs the code does not check for are left out because the device does not send
them: Base64 characters of 128 and above (they index the decoder's table with a signed
`char`, utility.h:92, 96), packets whose `block_length` does not agree with their size
(device.cpp:295-308), and bare messages damaged so that they still parse, which nothing could
tell from intact ones. Winsock's `FD_SETSIZE` of 64 sockets is left out of
`WindowsNotifier`.

`Location`, `DeviceInfo` and the error codes are values without behaviour. The
contents of requests beyond their argument, the text of TXT records and the
addresses are data no property tells apart. Whether a device accepts the second
`"method"` member that the commands for the resolution and the field of view add
to a request is the device's affair, and whether Avahi's loop runs again after
`avahi_simple_poll_quit` is Avahi's. `reuse_address` lets two devices of one process
bind the same OOB port; which of the sockets then gets a packet is the operating
system's choice, and `oobPacketHandler` drops what does not come from its device, so
that the other one may starve: the ports are a matter of configuration. The Windows handlers for a service that
disappears change nothing in the notifier and are not repeated from `Discovery`.
Misuse by the application that the library does not guard against (a command on a
closed session, `open` on an open one, `close` during a command, `setTimeout` during
a wait) is outside the model.

## Plan

The modelling is done, and so are the proofs of all safety properties. What is left
is liveness: the safety part of each property (a measure that no step increases) could
be proved, the rest stays with TLC.
