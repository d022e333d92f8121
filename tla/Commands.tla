-------------------------------- MODULE Commands -------------------------------
(******************************************************************************)
(* The commands of Device and Bootloader (src/src/device.cpp, bootloader.cpp) *)
(* as the device sees them: how the argument of a call travels from the       *)
(* caller's memory through the request document, the worker's queue and the   *)
(* connection to the device, and the answer back.                             *)
(*                                                                            *)
(* A call builds a document, hands it to Session::executeCommand and waits.   *)
(* The worker turns the document into bytes only when no earlier message is   *)
(* being written, which may be long after the call has timed out.  Until then *)
(* a string in the document is a copy, or a reference to the caller's memory: *)
(* to a local variable of the call, or to a static variable that the next     *)
(* call of the same method overwrites.                                        *)
(*                                                                            *)
(* Several threads may make calls.  command_mutex_ lets one of them at a time *)
(* through executeCommand, but the static strings of the firmware methods are *)
(* written before the mutex is taken, and they are shared by all threads and  *)
(* by all Bootloader objects, those of other devices included.  Writing a     *)
(* static string that another thread reads is left at what the reader may     *)
(* get; that the program may crash is not modelled.                           *)
(*                                                                            *)
(* The device handles the requests of a connection in the order it receives   *)
(* them.                                                                      *)
(*                                                                            *)
(* Definitions named X_... are mutated forms of X, which follows them: each   *)
(* is a plausible mistake in the code that one of the properties rules out.   *)
(* The specification does not use them.                                       *)
(******************************************************************************)
EXTENDS Integers, Sequences, FiniteSets

CONSTANTS
  Threads,     \* threads that make calls
  NoThread,    \* the null value of holder
  Values,      \* arguments of the calls
  Unsupported, \* an argument outside the enumeration a setter accepts
  Garbage,     \* what memory that was freed or is being overwritten may hold
  MaxId        \* bound: the last id_ a run reaches

ASSUME CommandsAssumption ==
  /\ Garbage \notin Values /\ Unsupported \notin Values
  /\ Values # {}
  /\ NoThread \notin Threads
  /\ Threads \cap Int = {}
  /\ MaxId \in Nat

VARIABLES
  id_,         \* id of the last request
  preparing,   \* per thread: the firmware call it makes and has no mutex for, or NoText
  holder,      \* the thread that holds command_mutex_, or NoThread
  call,        \* the call in progress, the holder's, or NoCall
  returned,    \* what the last call returned
  encoded,     \* the static strings of writeData and verifyHash: whose text each
               \* holds, that of a thread, then of the request with an id, or of Nobody
  documents,   \* outgoing_message_queue_: requests not yet turned into bytes
  writing,     \* the request being written, a sequence of at most one
  inbox,       \* requests on their way to the device
  outbox,      \* answers on their way back
  setting,     \* the device: the value of a setting
  image,       \* the device: the firmware blocks it stored, newest last
  intact,      \* history: nothing overwrote the argument of the last request
               \* before it was turned into bytes
  during,      \* history: the values setting had during the last call
  acknowledged \* history: value of the last set call if it returned no_error

deviceVars == <<setting, image>>
callVars == <<id_, preparing, holder, call, returned, encoded, acknowledged>>
vars == <<callVars, documents, writing, inbox, outbox, deviceVars, intact, during>>

--------------------------------------------------------------------------------
(******************************************************************************)
(* The operations.  "get" reads the setting that "set" and "setRef" change,   *)
(* "write" is writeData, "verify" verifyHash.  "command" stands for the calls *)
(* that pass no argument and read nothing another call sets: the queries of   *)
(* the device's identity and state, whose value is left out, and the plain    *)
(* commands.                                                                  *)
(******************************************************************************)
Kinds == {"get", "set", "setRef", "write", "verify", "command"}
IsSet(kind) == kind \in {"set", "setRef"}
FirmwareKinds == {"write", "verify"}
IsFirmware(kind) == kind \in FirmwareKinds

Nobody == -1
NoText == [kind |-> "none", done |-> FALSE]
NoValue == [none |-> TRUE]
NoCall == [id |-> -1, kind |-> "none", value |-> NoValue]

(******************************************************************************)
(* Where a document keeps the argument.  Most setters copy it; those of the   *)
(* resolution and the field of view keep a StringRef to a local string, and   *)
(* the firmware ones to a static string.                                      *)
(******************************************************************************)
StoredIn(kind) ==
  CASE kind = "setRef"  -> "local"
    [] IsFirmware(kind) -> "static"
    [] OTHER            -> "document"

Text == [kind : FirmwareKinds, done : BOOLEAN]
Request == [id : Nat, kind : Kinds, value : Values \cup {Garbage, NoValue}]

Init ==
  /\ id_ = -1
  /\ preparing = [thread \in Threads |-> NoText]
  /\ holder = NoThread
  /\ call = NoCall
  /\ returned = [call |-> NoCall, error |-> "none", value |-> NoValue, intact |-> TRUE]
  /\ encoded = [kind \in FirmwareKinds |-> Nobody]
  /\ documents = <<>> /\ writing = <<>> /\ inbox = <<>> /\ outbox = <<>>
  /\ setting \in Values
  /\ image = <<>>
  /\ intact = TRUE
  /\ during = {}
  /\ acknowledged = NoValue

--------------------------------------------------------------------------------
(******************************************************************************)
(* writeData and verifyHash first encode into a static string of their own,   *)
(* before they wait for the mutex.  The text is the thread's own unless       *)
(* another thread is writing the string or begins to before the request is    *)
(* made; what is encoded is named there.  No more texts are begun than there  *)
(* are calls left under the bound MaxId.                                      *)
(******************************************************************************)
IsFree(thread) == preparing[thread] = NoText /\ holder # thread

IsEncoding(thread, kind) == preparing[thread] = [kind |-> kind, done |-> FALSE]

Encode ==
  \E thread \in Threads, kind \in FirmwareKinds :
    /\ IsFree(thread)
    /\ Cardinality({t \in Threads : preparing[t] # NoText}) < MaxId - id_
    /\ preparing' = [preparing EXCEPT ![thread] = [kind |-> kind, done |-> FALSE]]
    /\ encoded' = [encoded EXCEPT ![kind] =
                     IF \E other \in Threads : IsEncoding(other, kind) THEN Nobody ELSE thread]
    /\ UNCHANGED <<id_, holder, call, returned, acknowledged>>
    /\ UNCHANGED <<documents, writing, inbox, outbox, deviceVars, intact, during>>

EndEncode ==
  \E thread \in Threads, kind \in FirmwareKinds :
    /\ IsEncoding(thread, kind)
    /\ preparing' = [preparing EXCEPT ![thread] = [kind |-> kind, done |-> TRUE]]
    /\ UNCHANGED <<id_, holder, call, returned, encoded, acknowledged>>
    /\ UNCHANGED <<documents, writing, inbox, outbox, deviceVars, intact, during>>

(******************************************************************************)
(* The Bootloader object of another device encodes, or goes on encoding.      *)
(******************************************************************************)
EncodeElsewhere ==
  \E kind \in FirmwareKinds :
    /\ encoded' = [encoded EXCEPT ![kind] = Nobody]
    /\ UNCHANGED <<id_, preparing, holder, call, returned, acknowledged>>
    /\ UNCHANGED <<documents, writing, inbox, outbox, deviceVars, intact, during>>

--------------------------------------------------------------------------------
(******************************************************************************)
(* A call: the thread takes the mutex, executeCommand gives the document the  *)
(* next id and hands it to the transport, and waits.  The document of a       *)
(* firmware method refers to the static string, whatever that holds by now.   *)
(******************************************************************************)
Call(thread, kind, value) ==
  LET request == [id |-> id_ + 1, kind |-> kind, value |-> value]
  IN  /\ holder = NoThread
      /\ IF IsFirmware(kind)
           THEN /\ preparing[thread] = [kind |-> kind, done |-> TRUE]
                /\ encoded' = IF encoded[kind] = thread
                                THEN [encoded EXCEPT ![kind] = id_ + 1] ELSE encoded
           ELSE preparing[thread] = NoText /\ UNCHANGED encoded
      /\ id_ < MaxId
      /\ id_' = id_ + 1
      /\ preparing' = [preparing EXCEPT ![thread] = NoText]
      /\ holder' = thread
      /\ call' = request
      /\ documents' = Append(documents, request)
      /\ intact' = TRUE
      /\ during' = {setting}
      /\ acknowledged' = IF IsSet(kind) THEN NoValue ELSE acknowledged
      /\ UNCHANGED <<returned, writing, inbox, outbox, deviceVars>>

GetSetting == \E thread \in Threads : Call(thread, "get", NoValue)
SetSetting == \E thread \in Threads, v \in Values : Call(thread, "set", v)
WriteData == \E thread \in Threads, v \in Values : Call(thread, "write", v)
VerifyHash == \E thread \in Threads, v \in Values : Call(thread, "verify", v)
PlainCommand == \E thread \in Threads : Call(thread, "command", NoValue)
BeginUpdate == \E thread \in Threads : Call(thread, "command", NoValue)
EndUpdate == \E thread \in Threads : Call(thread, "command", NoValue)
CommitUpdate == \E thread \in Threads : Call(thread, "command", NoValue)
PersistSettings == \E thread \in Threads : Call(thread, "command", NoValue)
QueryOperationMode == \E thread \in Threads : Call(thread, "command", NoValue)

(******************************************************************************)
(* setScanResolution and setAngularFov send nothing for an unknown argument.  *)
(******************************************************************************)
IsSupported(v) == v \in Values

SetScanResolution ==
  \E thread \in Threads, v \in Values \cup {Unsupported} :
    IF IsSupported(v)
      THEN Call(thread, "setRef", v)
      ELSE /\ IsFree(thread)
           /\ returned' = [call |-> NoCall, error |-> "not_supported", value |-> NoValue,
                           intact |-> TRUE]
           /\ UNCHANGED <<id_, preparing, holder, call, encoded, acknowledged>>
           /\ UNCHANGED <<documents, writing, inbox, outbox, deviceVars, intact, during>>

Return(error, value) ==
  /\ call' = NoCall
  /\ holder' = NoThread
  /\ returned' = [call |-> call, error |-> error, value |-> value, intact |-> intact]
  /\ acknowledged' =
       IF IsSet(call.kind) /\ error = "no_error" THEN call.value ELSE acknowledged
  /\ UNCHANGED <<id_, preparing, encoded, documents, writing, inbox, deviceVars, intact, during>>

TimeOut ==
  /\ call # NoCall
  /\ Return("timed_out", NoValue)
  /\ UNCHANGED outbox

(******************************************************************************)
(* onMessageReceived and the end of the wait: only the answer to the last     *)
(* request ends a call.                                                       *)
(******************************************************************************)
AnswersCall_AnyId(answer) == TRUE

AnswersCall(answer) == answer.id = id_

(******************************************************************************)
(* The getters hand the value of the answer to the caller; those of the       *)
(* resolution and the field of view report an unknown one as device_error.    *)
(******************************************************************************)
Results(answer) ==
  {[error |-> answer.error, value |-> answer.value]} \cup
  (IF answer.value = Garbage THEN {[error |-> "device_error", value |-> NoValue]} ELSE {})

Receive ==
  /\ outbox # <<>>
  /\ outbox' = Tail(outbox)
  /\ IF call # NoCall /\ AnswersCall(Head(outbox))
       THEN \E result \in Results(Head(outbox)) : Return(result.error, result.value)
       ELSE UNCHANGED <<callVars, documents, writing, inbox, deviceVars, intact, during>>

--------------------------------------------------------------------------------
(******************************************************************************)
(* What the bytes of a document say: a reference to memory that is gone, or   *)
(* that another call has written to, reads as anything.                       *)
(******************************************************************************)
ReferenceIsValid(document) ==
  CASE StoredIn(document.kind) = "document" -> TRUE
    [] StoredIn(document.kind) = "local"    -> call = document
    [] StoredIn(document.kind) = "static"   -> encoded[document.kind] = document.id

Contents(document) ==
  IF ReferenceIsValid(document) THEN {document.value} ELSE Values \cup {Garbage}

(******************************************************************************)
(* encapsulateOutgoingMessage: the next document is turned into bytes once    *)
(* the previous message is written.                                           *)
(******************************************************************************)
FirstDocument_Newest == Len(documents)

FirstDocument == 1

Serialize ==
  LET document == documents[FirstDocument]
  IN  /\ documents # <<>>
      /\ writing = <<>>
      /\ \E value \in Contents(document) :
           writing' = <<[document EXCEPT !.value = value]>>
      /\ documents' = SubSeq(documents, 1, FirstDocument - 1)
                        \o SubSeq(documents, FirstDocument + 1, Len(documents))
      /\ intact' = IF document.id = id_ THEN ReferenceIsValid(document) ELSE intact
      /\ UNCHANGED <<callVars, inbox, outbox, deviceVars, during>>

WriteCompletes ==
  /\ writing # <<>>
  /\ inbox' = inbox \o writing
  /\ writing' = <<>>
  /\ UNCHANGED <<callVars, documents, outbox, deviceVars, intact, during>>

(******************************************************************************)
(* The device executes a request, or refuses it, and answers.  verifyHash     *)
(* compares its argument with the hash of what is stored; two images are told *)
(* apart by the block stored last.                                            *)
(******************************************************************************)
HashMatches(expected) == image # <<>> /\ image[Len(image)].value = expected

Answer(request, error) ==
  [id |-> request.id, error |-> error,
   value |-> IF error # "no_error" THEN NoValue
             ELSE CASE request.kind = "get"    -> setting
                    [] request.kind = "verify" -> HashMatches(request.value)
                    [] OTHER                   -> NoValue]

Execute ==
  LET request == Head(inbox)
  IN  /\ inbox # <<>>
      /\ inbox' = Tail(inbox)
      /\ \/ /\ outbox' = Append(outbox, Answer(request, "no_error"))
            /\ setting' = IF IsSet(request.kind) THEN request.value ELSE setting
            /\ image' = IF request.kind = "write" THEN Append(image, request) ELSE image
         \/ /\ outbox' = Append(outbox, Answer(request, "device_error"))
            /\ UNCHANGED deviceVars
      /\ during' = during \cup {setting'}
      /\ UNCHANGED <<callVars, documents, writing, intact>>

--------------------------------------------------------------------------------
Next ==
  \/ GetSetting \/ SetSetting \/ SetScanResolution
  \/ BeginUpdate \/ WriteData \/ EndUpdate \/ VerifyHash \/ CommitUpdate
  \/ PlainCommand \/ PersistSettings \/ QueryOperationMode
  \/ Encode \/ EndEncode \/ EncodeElsewhere
  \/ TimeOut \/ Receive
  \/ Serialize \/ WriteCompletes \/ Execute

Spec == Init /\ [][Next]_vars

--------------------------------------------------------------------------------
TypeOK ==
  /\ id_ \in -1..MaxId
  /\ call \in Request \cup {NoCall}
  /\ preparing \in [Threads -> Text \cup {NoText}]
  /\ holder \in Threads \cup {NoThread} /\ (holder = NoThread <=> call = NoCall)
  /\ encoded \in [FirmwareKinds -> Threads \cup -1..MaxId]
  /\ documents \in Seq(Request) /\ writing \in Seq(Request) /\ inbox \in Seq(Request)
  /\ setting \in Values \cup {Garbage}
  /\ image \in Seq(Request)
  /\ intact \in BOOLEAN
  /\ during \subseteq Values \cup {Garbage}
  /\ acknowledged \in Values \cup {NoValue}

(******************************************************************************)
(* Requests and answers stay in the order of the calls, from the queue of     *)
(* documents to the device and back, and there is one of each at most, also   *)
(* when calls give up and others are made meanwhile (session.cpp:84-92,       *)
(* transport.cpp:137-154, 208-219).                                           *)
(******************************************************************************)
CommandsInv ==
  /\ TypeOK
  /\ LET all == outbox \o inbox \o writing \o documents
     IN  /\ \A i \in 1..Len(all) - 1 : all[i].id < all[i + 1].id
         /\ \A i \in DOMAIN all : all[i].id <= id_

(******************************************************************************)
(* A writeData that returned no_error stored one block, exactly once, though  *)
(* earlier calls may have timed out and still be in the queue; and that block *)
(* is its own content, unless another firmware call overwrote the static      *)
(* string between its encoding and its serialization, before the mutex was    *)
(* taken or while the request waited in the queue (bootloader.cpp:26-43,      *)
(* session.cpp:84-131).                                                       *)
(******************************************************************************)
AcknowledgedWriteIsStored ==
  returned.call.kind = "write" /\ returned.error = "no_error" =>
    \E i \in DOMAIN image :
      /\ image[i].id = returned.call.id
      /\ returned.intact => image[i] = returned.call
      /\ \A j \in DOMAIN image : image[j].id = returned.call.id => j = i

(******************************************************************************)
(* What verifyHash reports holds of the image the device has when it returns, *)
(* and of the caller's own hash unless another call overwrote its text:       *)
(* neither a late answer to an earlier verification nor a write that is still *)
(* queued makes a firmware look right that is not, or the reverse             *)
(* (bootloader.cpp:53-72, session.cpp:84-131).                                *)
(******************************************************************************)
VerdictIsAboutImage ==
  /\ call = NoCall
  /\ returned.call.kind = "verify" /\ returned.error = "no_error" /\ returned.intact
  => returned.value = HashMatches(returned.call.value)

(******************************************************************************)
(* A set call that returned no_error is in effect until the next set call     *)
(* begins: no set call that timed out before is executed after it             *)
(* (device.cpp:555-803, session.cpp:84-131, transport.cpp:140-154).           *)
(******************************************************************************)
AcknowledgedSetIsInEffect == acknowledged # NoValue => setting = acknowledged

(******************************************************************************)
(* A get call returns a value the setting had during that call, never the     *)
(* late answer to an earlier one (device.cpp:315-553, session.cpp:84-131).    *)
(******************************************************************************)
GetReturnsCurrentValue ==
  call = NoCall /\ returned.call.kind = "get" /\ returned.error = "no_error" =>
    returned.value \in during

(******************************************************************************)
(* Every request carries the argument of its call: the memory a StringRef     *)
(* refers to lives, unchanged, as long as the document that refers to it, as  *)
(* RapidJSON demands of the users of StringRef (device.cpp:769, 797,          *)
(* bootloader.cpp:37, 64).                                                    *)
(******************************************************************************)
ReferencesOutliveDocuments ==
  \A i \in DOMAIN documents : ReferenceIsValid(documents[i])
================================================================================
