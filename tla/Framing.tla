-------------------------------- MODULE Framing --------------------------------
(******************************************************************************)
(* The message format of NetworkTransport (src/src/transport.cpp): what       *)
(* parseIncomingMessage makes of the bytes that async_read_until leaves in    *)
(* incoming_message_buffer_.                                                  *)
(*                                                                            *)
(* The buffer is a sequence of tokens, each of them characters that the       *)
(* parser consumes together and counted as one character:                     *)
(*   count     digits and a colon, the length of the field that follows       *)
(*   checksum  the header checksum=0x....; its value is the payload it is of  *)
(*   comma     the comma after a field                                        *)
(*   open      a JSON object's brace and first member, with the comma after it*)
(*   text      its other members; there is a '=' in them (Base64)             *)
(*   close     its closing brace                                              *)
(*   eol       the delimiter \r\n                                             *)
(*   junk      anything else                                                  *)
(* The CRC-16 is taken to tell all payloads apart; Codec is about that.  Each *)
(* token names the message it belongs to.                                     *)
(*                                                                            *)
(* The device sends messages framed as encapsulateOutgoingMessage frames them,*)
(* or bare objects; a message may be damaged in one token.  TCP delivers the  *)
(* tokens in order, in pieces of any size.                                    *)
(*                                                                            *)
(* Definitions named X_... are mutated forms of X, which follows them: each   *)
(* is a plausible mistake in the code that one of the properties rules out.   *)
(* The specification does not use them.                                       *)
(******************************************************************************)
EXTENDS Integers, SequencesExt

CONSTANTS
  MESSAGE_LENGTH_MAX,  \* 65535 in the code
  MaxMessages,         \* bound: messages the device sends
  MaxDamage            \* bound: damaged ones among them

ASSUME FramingAssumption ==
  /\ MESSAGE_LENGTH_MAX \in Nat /\ MESSAGE_LENGTH_MAX >= 3
  /\ MaxMessages \in Nat /\ MaxDamage \in Nat

VARIABLES
  sent,       \* the messages sent so far, as sequences of tokens
  damage,     \* for each of them, what was damaged: "none" or a kind of token
  network,    \* tokens on their way
  incoming_message_buffer_,
  delivered,  \* numbers of the messages handed to the session, in order
  exposed     \* messages that the parser took tokens of in a line of another one

vars == <<sent, damage, network, incoming_message_buffer_, delivered, exposed>>

Nothing == -1                    \* no message
NoChecksum == <<<<"none", 0>>>>   \* the checksum of no payload

Token(message, type, value) == [message |-> message, type |-> type, value |-> value]
Payload(m) == <<Token(m, "open", m), Token(m, "text", m), Token(m, "close", m)>>
Values(tokens) == [i \in DOMAIN tokens |-> <<tokens[i].type, tokens[i].value>>]
From(tokens, p) == SubSeq(tokens, p, Len(tokens))

--------------------------------------------------------------------------------
(******************************************************************************)
(* encapsulateOutgoingMessage.                                                *)
(******************************************************************************)
EncapsulateOutgoingMessage(m) ==
  <<Token(m, "count", 1), Token(m, "checksum", Values(Payload(m))), Token(m, "comma", 0),
    Token(m, "count", 0), Token(m, "comma", 0),
    Token(m, "count", Len(Payload(m)))>> \o Payload(m) \o
  <<Token(m, "comma", 0), Token(m, "eol", 0)>>

Bare(m) == Append(Payload(m), Token(m, "eol", 0))

(******************************************************************************)
(* A message with one token lost, garbled, or with another count; the text of *)
(* a framed one may also be another one that is just as well formed.          *)
(******************************************************************************)
Damaged(message, p) ==
  {RemoveAt(message, p), ReplaceAt(message, p, [message[p] EXCEPT !.type = "junk"])} \cup
  (IF message[p].type = "count"
     THEN {ReplaceAt(message, p, [message[p] EXCEPT !.value = n]) :
             n \in (0..MESSAGE_LENGTH_MAX + 1) \ {message[p].value}}
     ELSE {}) \cup
  (IF message[p].type = "text" /\ Head(message).type = "count"
     THEN {ReplaceAt(message, p, [message[p] EXCEPT !.value = 0])}
     ELSE {})

Send(message, kind) ==
  /\ sent' = Append(sent, message)
  /\ damage' = Append(damage, kind)
  /\ network' = network \o message
  /\ UNCHANGED <<incoming_message_buffer_, delivered, exposed>>

Forms == {EncapsulateOutgoingMessage(Len(sent) + 1), Bare(Len(sent) + 1)}

SendIntact ==
  /\ Len(sent) < MaxMessages
  /\ \E message \in Forms : Send(message, "none")

SendDamaged ==
  /\ Len(sent) < MaxMessages
  /\ Len(SelectSeq(damage, LAMBDA kind : kind # "none")) < MaxDamage
  /\ \E message \in Forms : \E p \in DOMAIN message : \E damaged \in Damaged(message, p) :
       Send(damaged, message[p].type)

--------------------------------------------------------------------------------
(******************************************************************************)
(* Extraction from the stream with >> skips white space, the delimiters of    *)
(* this and of later lines included.                                          *)
(******************************************************************************)
SkipSpace(tokens) ==
  From(tokens, SelectInSeq(Append(tokens, Token(0, "end", 0)), LAMBDA token : token.type # "eol"))

StartsWith(tokens, type) == tokens # <<>> /\ Head(tokens).type = type

(******************************************************************************)
(* rapidjson::Document::ParseStream, which stops after the object or at the   *)
(* first character that does not fit: without the text that is the closing    *)
(* brace, since a member is missing after the comma.                          *)
(******************************************************************************)
ParseStream(tokens) ==
  LET first == SkipSpace(tokens)
      second == SkipSpace(From(first, 2))
      third == SkipSpace(From(second, 2))
  IN  IF ~StartsWith(first, "open") THEN [message |-> Nothing, rest |-> first]
      ELSE IF ~StartsWith(second, "text") THEN [message |-> Nothing, rest |-> second]
      ELSE IF ~StartsWith(third, "close") THEN [message |-> Nothing, rest |-> third]
      ELSE [message |-> Head(second).message, rest |-> Tail(third)]

(******************************************************************************)
(* The loop over the fields of a message.  It ends with the payload, or with  *)
(* an exception, which the catch clause drops; rest is what is then left of   *)
(* the buffer.                                                                *)
(******************************************************************************)
Throw(p, rest) == [p EXCEPT !.rest = rest, !.done = TRUE]

\* A header is key=value; only the checksum is used.
UseHeader(p, text, rest) ==
  IF StartsWith(text, "checksum")
    THEN [p EXCEPT !.rest = rest, !.expected_checksum = Head(text).value]
  ELSE IF \E i \in DOMAIN text : text[i].type \in {"checksum", "text"}
    THEN [p EXCEPT !.rest = rest]
  ELSE Throw(p, rest)

ParseHeader(p, character_count, tokens) ==
  LET after == SkipSpace(From(tokens, character_count + 1))
  IN  IF Len(tokens) < character_count \/ after = <<>> THEN Throw(p, <<>>)
      ELSE IF ~StartsWith(after, "comma") THEN Throw(p, Tail(after))
      ELSE IF character_count = 0 THEN [p EXCEPT !.rest = Tail(after), !.end_of_headers = TRUE]
      ELSE UseHeader(p, SubSeq(tokens, 1, character_count), Tail(after))

ChecksumMatches_Ignored(p, character_count, tokens) == TRUE

ChecksumMatches(p, character_count, tokens) ==
  Values(SubSeq(tokens, 1, character_count)) = p.expected_checksum

ParsePayload(p, character_count, tokens) ==
  IF /\ Len(tokens) > character_count
     /\ ChecksumMatches(p, character_count, tokens)
     /\ tokens[character_count + 1].type = "comma"
     /\ character_count > 0
    THEN LET document == ParseStream(tokens)
         IN  [Throw(p, document.rest) EXCEPT !.message = document.message]
    ELSE Throw(p, tokens)

ParseField(p) ==
  LET tokens == SkipSpace(p.rest)
  IN  IF ~StartsWith(tokens, "count") THEN Throw(p, tokens)
      ELSE IF Head(tokens).value > MESSAGE_LENGTH_MAX THEN Throw(p, Tail(tokens))
      ELSE IF p.end_of_headers THEN ParsePayload(p, Head(tokens).value, Tail(tokens))
      ELSE ParseHeader(p, Head(tokens).value, Tail(tokens))

ParseNext(p) == IF p.done THEN p ELSE ParseField(p)

\* A field takes at least the token of its count, or is the last one.
ParseStates(start) ==
  LET state[i \in 0..Len(start.rest) + 1] ==
        IF i = 0 THEN start ELSE ParseNext(state[i - 1])
  IN  state

ParseFields(start) == ParseStates(start)[Len(start.rest) + 1]

(******************************************************************************)
(* istream.ignore(length - bytes_consumed): the difference is unsigned, but   *)
(* its parameter is signed, so that nothing is ignored when the parser went   *)
(* beyond the delimiter.                                                      *)
(******************************************************************************)
Ignore_Unsigned(rest, count) == IF count >= 0 THEN From(rest, count + 1) ELSE <<>>

Ignore_NotAtAll(rest, count) == rest

Ignore(rest, count) == IF count >= 0 THEN From(rest, count + 1) ELSE rest

BytesConsumed(buffer, rest) == Len(buffer) - Len(rest)

Start(buffer) ==
  [rest |-> buffer, expected_checksum |-> NoChecksum, end_of_headers |-> FALSE,
   message |-> Nothing, done |-> FALSE]

ParseMessage(buffer) ==
  IF StartsWith(buffer, "open") THEN ParseStream(buffer) ELSE ParseFields(Start(buffer))

ParseIncomingMessage(length) ==
  LET buffer == incoming_message_buffer_
      parsed == ParseMessage(buffer)
  IN  [message |-> parsed.message,
       rest |-> Ignore(parsed.rest, length - BytesConsumed(buffer, parsed.rest))]

--------------------------------------------------------------------------------
(******************************************************************************)
(* async_read_until: its handler runs with the length of the first line; the  *)
(* socket is read, in pieces of any size, only while there is no whole line.  *)
(* What is sent later only arrives later, so all is sent before any arrives.  *)
(******************************************************************************)
LineLength == SelectInSeq(incoming_message_buffer_, LAMBDA token : token.type = "eol")

Arrive ==
  /\ Len(sent) = MaxMessages
  /\ LineLength = 0
  /\ \E n \in 1..Len(network) :
       /\ incoming_message_buffer_' = incoming_message_buffer_ \o SubSeq(network, 1, n)
       /\ network' = From(network, n + 1)
  /\ UNCHANGED <<sent, damage, delivered, exposed>>

(******************************************************************************)
(* The messages, other than the one the line begins in, that are in the line  *)
(* or that the parser took tokens of behind it: they are what the line may    *)
(* have cost.  What ignore() takes beyond the line is not among them.         *)
(******************************************************************************)
Larger(q, length) == IF q < length THEN length ELSE q

Touched(buffer, length) ==
  LET consumed == BytesConsumed(buffer, ParseMessage(buffer).rest)
  IN  {buffer[i].message : i \in 1..Larger(consumed, length)} \ {Head(buffer).message}

IncomingMessageHandler ==
  LET parsed == ParseIncomingMessage(LineLength)
      buffer == incoming_message_buffer_
  IN  /\ LineLength > 0
      /\ incoming_message_buffer_' = parsed.rest
      /\ delivered' = IF parsed.message = Nothing THEN delivered ELSE Append(delivered, parsed.message)
      /\ exposed' = exposed \cup Touched(buffer, LineLength)
      /\ UNCHANGED <<sent, damage, network>>

--------------------------------------------------------------------------------
Init ==
  /\ sent = <<>> /\ damage = <<>>
  /\ network = <<>> /\ incoming_message_buffer_ = <<>>
  /\ delivered = <<>> /\ exposed = {}

Next == SendIntact \/ SendDamaged \/ Arrive \/ IncomingMessageHandler

Spec == Init /\ [][Next]_vars

--------------------------------------------------------------------------------
Passed(m) ==
  /\ m \in DOMAIN sent
  /\ \A i \in DOMAIN network : network[i].message > m
  /\ \A i \in DOMAIN incoming_message_buffer_ : incoming_message_buffer_[i].message > m

Delivered(m) == \E i \in DOMAIN delivered : delivered[i] = m

(******************************************************************************)
(* No message is handed to the session twice or out of order, wherever the    *)
(* parser finds itself in the stream; nor is one whose payload was damaged,   *)
(* unless the parser lost the head of its frame, with the checksum in it, to  *)
(* a line before it, and takes what is left for a bare object                 *)
(* (transport.cpp:252, 280-282).                                              *)
(******************************************************************************)
DeliveredIntactInOrder ==
  /\ \A i \in 1..Len(delivered) - 1 : delivered[i] < delivered[i + 1]
  /\ \A i \in DOMAIN delivered :
       damage[delivered[i]] \in {"open", "text", "close"} => delivered[i] \in exposed

(******************************************************************************)
(* An intact message is lost only to a line of another message, and then one  *)
(* before it has a wrong count or lost its delimiter, which made the parser   *)
(* read on behind the line it was given.  Any other damage costs the damaged  *)
(* message alone, and what ignore() takes costs no message at all, however    *)
(* much was buffered behind the line (transport.cpp:266, 270-274, 314-317).   *)
(******************************************************************************)
LeadsAstray(m) == damage[m] \in {"count", "eol"}

LossIsExplained ==
  \A m \in DOMAIN sent :
    /\ damage[m] = "none"
    /\ Passed(m)
    /\ m \in exposed => \A k \in 1..m - 1 : ~LeadsAstray(k)
    => Delivered(m)

(******************************************************************************)
(* The handler always takes something out of the buffer: the read it starts   *)
(* next does not complete with the same line again (transport.cpp:314-317).   *)
(******************************************************************************)
ParserMakesProgress ==
  LineLength > 0 =>
    Len(ParseIncomingMessage(LineLength).rest) < Len(incoming_message_buffer_)
================================================================================
