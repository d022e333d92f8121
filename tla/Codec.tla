--------------------------------- MODULE Codec ---------------------------------
(******************************************************************************)
(* The conversions of ldcp_sdk: the CRC-16 and the Base64 text of             *)
(* src/include/ldcp/utility.h, the check of an out-of-band packet             *)
(* (NetworkTransport::verifyOobPacket), and the samples readScanBlock takes   *)
(* out of a notification or of a packet (src/src/device.cpp).                 *)
(*                                                                            *)
(* The state is the data that is converted: a step adds a byte, so that every *)
(* sequence over Bytes up to MaxLength is reached.  Bytes and characters are  *)
(* numbers, sequences start at 1.  The shifts and masks of the code are       *)
(* quotients and remainders by powers of two; words are little-endian.        *)
(*                                                                            *)
(* Definitions named X_... are mutated forms of X, which follows them: each   *)
(* is a plausible mistake in the code that one of the properties rules out.   *)
(* The specification does not use them.                                       *)
(******************************************************************************)
EXTENDS Integers, Sequences

CONSTANTS
  Bytes,      \* the bytes data is made of
  MaxLength   \* bound: length of data

OOB_PACKET_LENGTH_MAX == 65535    \* length of oob_packet_buffer_
HeaderLength == 16                \* of an out-of-band packet: sizeof(OobPacketHeader)

ASSUME CodecAssumption ==
  /\ Bytes \subseteq 0..255
  /\ MaxLength \in Nat /\ HeaderLength + MaxLength <= OOB_PACKET_LENGTH_MAX

VARIABLE data

CodecInit == data = <<>>

CodecNext ==
  /\ Len(data) < MaxLength
  /\ \E byte \in Bytes : data' = Append(data, byte)

CodecSpec == CodecInit /\ [][CodecNext]_data

Zeros(count) == [i \in 1..count |-> 0]

Ceiling(a, b) == (a + b - 1) \div b

(******************************************************************************)
(* The exclusive or of two words, a hexadecimal digit at a time: TLC          *)
(* evaluates the table once.                                                  *)
(******************************************************************************)
XorDigits ==
  [a \in 0..15 |-> [b \in 0..15 |->
     LET XorBit(weight) == ((a \div weight + b \div weight) % 2) * weight
     IN  XorBit(1) + XorBit(2) + XorBit(4) + XorBit(8)]]

XorWord(a, b) ==
  LET Digit(weight) == XorDigits[(a \div weight) % 16][(b \div weight) % 16] * weight
  IN  Digit(1) + Digit(16) + Digit(256) + Digit(4096)

--------------------------------------------------------------------------------
(******************************************************************************)
(* CalculateCRC16: the body of its loop, with checksum a uint16_t and value a *)
(* uint8_t.                                                                   *)
(******************************************************************************)
CrcStep_NotFolded(checksum, byte) ==
  LET value == XorWord(checksum \div 256, byte)
  IN  XorWord(XorWord((checksum * 256) % 65536, (value * 4096) % 65536), XorWord(value * 32, value))

CrcStep(checksum, byte) ==
  LET folded == XorWord(checksum \div 256, byte)
      value == XorWord(folded, folded \div 16)
  IN  XorWord(XorWord((checksum * 256) % 65536, (value * 4096) % 65536), XorWord(value * 32, value))

Checksums(bytes) ==
  LET checksum[i \in 0..Len(bytes)] ==
        IF i = 0 THEN 65535 ELSE CrcStep(checksum[i - 1], bytes[i])
  IN  checksum

CalculateCRC16(bytes) == Checksums(bytes)[Len(bytes)]

--------------------------------------------------------------------------------
PadChar == 61     \* '='

(******************************************************************************)
(* basis_64, and the table lut that inverts it: 64 stands for any other       *)
(* character.                                                                 *)
(******************************************************************************)
Basis64 ==
  [i \in 0..63 |-> CASE i < 26 -> 65 + i
                     [] i \in 26..51 -> 71 + i
                     [] i \in 52..61 -> i - 4
                     [] i = 62 -> 43
                     [] i = 63 -> 47]

Lut ==
  [c \in 0..255 |-> CASE c \in 65..90 -> c - 65
                      [] c \in 97..122 -> c - 71
                      [] c \in 48..57 -> c + 4
                      [] c = 43 -> 62
                      [] c = 47 -> 63
                      [] OTHER -> 64]

(******************************************************************************)
(* Base64Encode: four characters for a group of three bytes, and padding for  *)
(* the last group if it is shorter.                                           *)
(******************************************************************************)
EncodeGroup(group) ==
  LET b == group \o Zeros(3 - Len(group))
      sextets == <<b[1] \div 4, (b[1] % 4) * 16 + b[2] \div 16,
                   (b[2] % 16) * 4 + b[3] \div 64, b[3] % 64>>
  IN  [k \in 1..4 |-> IF k <= Len(group) + 1 THEN Basis64[sextets[k]] ELSE PadChar]

Group(src, g) == SubSeq(src, 3 * g - 2, IF 3 * g < Len(src) THEN 3 * g ELSE Len(src))

Base64Encode(src) ==
  [k \in 1..4 * Ceiling(Len(src), 3) |-> EncodeGroup(Group(src, Ceiling(k, 4)))[1 + ((k - 1) % 4)]]

CalculateBase64EncodedLength(src_len) == ((src_len + 2) \div 3) * 4

(******************************************************************************)
(* CalculateBase64DecodedLength scans back from the last character to the     *)
(* first one that is not padding.  Position 0 is the byte before the text,    *)
(* which the scan reads if nothing but padding precedes it.                   *)
(******************************************************************************)
PaddingScanEnd(src) ==
  IF \E p \in 1..Len(src) : src[p] # PadChar
    THEN CHOOSE p \in 1..Len(src) :
           src[p] # PadChar /\ \A q \in p + 1..Len(src) : src[q] = PadChar
    ELSE 0

CalculateBase64DecodedLength(src) == (Len(src) * 3) \div 4 - (Len(src) - PaddingScanEnd(src))

(******************************************************************************)
(* Base64Decode: the loop, which the first padding character ends, and the    *)
(* bytes of an incomplete last group.                                         *)
(******************************************************************************)
\* The texts have characters below 128 only, for which lut has entries: the code
\* indexes it with a char, which is signed (utility.h:92).
\* The bitwise or of a multiple of 64 and of an entry of the table, at most 64.
OrLow(high, entry) == IF entry = 64 /\ (high \div 64) % 2 = 1 THEN high ELSE high + entry

DecodeChar(state, c) ==
  IF state.ended \/ c = PadChar THEN [state EXCEPT !.ended = TRUE]
  ELSE LET value == OrLow(state.value * 64, Lut[c])
       IN  IF state.count < 3
             THEN [state EXCEPT !.value = value, !.count = @ + 1]
             ELSE [state EXCEPT !.value = 0, !.count = 0,
                                !.dest = @ \o <<(value \div 65536) % 256,
                                                (value \div 256) % 256, value % 256>>]

DecodeTail_OneByte(state) ==
  IF state.count >= 2 THEN <<(state.value \div 16) % 256>> ELSE <<>>

DecodeTail(state) ==
  CASE state.count = 3 -> <<(state.value \div 1024) % 256, (state.value \div 4) % 256>>
    [] state.count = 2 -> <<(state.value \div 16) % 256>>
    [] OTHER           -> <<>>

DecodeStates(src) ==
  LET state[i \in 0..Len(src)] ==
        IF i = 0 THEN [value |-> 0, count |-> 0, ended |-> FALSE, dest |-> <<>>]
                 ELSE DecodeChar(state[i - 1], src[i])
  IN  state

Base64Decode(src) ==
  LET state == DecodeStates(src)[Len(src)]
  IN  state.dest \o DecodeTail(state)

--------------------------------------------------------------------------------
(******************************************************************************)
(* OobPacketHeader: the signature is in its first two bytes, block_length in  *)
(* bytes 7 and 8, the checksum in bytes 13 and 14, intensity_width in bit 0   *)
(* of byte 15.                                                                *)
(******************************************************************************)
Word(bytes, p) == bytes[p] + 256 * bytes[p + 1]

SetWord(bytes, p, word) == [bytes EXCEPT ![p] = word % 256, ![p + 1] = word \div 256]

(******************************************************************************)
(* verifyOobPacket: the verdict, and what it leaves in the buffer the session *)
(* is handed afterwards.                                                      *)
(******************************************************************************)
Restored_Zeroed(packet, checksum) == SetWord(packet, 13, 0)

Restored(packet, checksum) == SetWord(packet, 13, checksum)

VerifyOobPacket(packet) ==
  IF Len(packet) < HeaderLength \/ Word(packet, 1) # 65535
    THEN [valid |-> FALSE, buffer |-> packet]
    ELSE LET saved_checksum == Word(packet, 13)
             zeroed == SetWord(packet, 13, 0)
         IN  [valid |-> CalculateCRC16(zeroed) = saved_checksum,
              buffer |-> Restored(zeroed, saved_checksum)]

(******************************************************************************)
(* readScanBlock: the samples of a layer of a notification, and those of an   *)
(* out-of-band packet, in which all the ranges precede the intensities.       *)
(******************************************************************************)
Words(bytes, count) == [i \in 1..count |-> Word(bytes, 2 * i - 1)]

ReadLayer_Bytes(ranges, intensities) ==
  [ranges |-> Words(Base64Decode(ranges), CalculateBase64DecodedLength(ranges) \div 2),
   intensities |-> Words(Base64Decode(intensities), CalculateBase64DecodedLength(intensities) \div 2)]

ReadLayer(ranges, intensities) ==
  [ranges |-> Words(Base64Decode(ranges), CalculateBase64DecodedLength(ranges) \div 2),
   intensities |-> SubSeq(Base64Decode(intensities), 1, CalculateBase64DecodedLength(intensities))]

ReadPacket(packet) ==
  LET block_length == Word(packet, 7)
      payload == SubSeq(packet, HeaderLength + 1, Len(packet))
      rest == SubSeq(payload, 2 * block_length + 1, Len(payload))
  IN  [ranges |-> Words(payload, block_length),
       intensities |-> IF packet[15] % 2 = 0 THEN SubSeq(rest, 1, block_length)
                                             ELSE Words(rest, block_length)]

--------------------------------------------------------------------------------
(******************************************************************************)
(* The definition of the checksum: the remainder of the message, shifted bit  *)
(* by bit into a register that starts with all ones, by x^16 + x^12 + x^5 + 1.*)
(******************************************************************************)
ShiftBit(register, bit) ==
  LET shifted == (register * 2) % 65536
  IN  IF (register \div 32768 + bit) % 2 = 1 THEN XorWord(shifted, 4129) ELSE shifted

Weight == <<128, 64, 32, 16, 8, 4, 2, 1>>

\* The k-th bit of a message, whose bytes start with their most significant bit.
MessageBit(bytes, k) == (bytes[Ceiling(k, 8)] \div Weight[1 + ((k - 1) % 8)]) % 2

Registers(bytes) ==
  LET register[k \in 0..8 * Len(bytes)] ==
        IF k = 0 THEN 65535 ELSE ShiftBit(register[k - 1], MessageBit(bytes, k))
  IN  register

(******************************************************************************)
(* CalculateCRC16, which takes a byte at a time, computes that remainder      *)
(* (utility.h:13-22).                                                         *)
(******************************************************************************)
CrcIsPolynomialRemainder ==
  CalculateCRC16(data) = Registers(data)[8 * Len(data)]

(******************************************************************************)
(* What the encoder writes fits the string that writeData and verifyHash      *)
(* resize for it exactly, and the decoder gets the data back.  On the text of *)
(* any data but the empty one the scan for padding stays inside the text, and *)
(* the length computed from it, which sizes the decode buffer, is the number  *)
(* of bytes the decoder writes (utility.h:24-115, bootloader.cpp:29-30,       *)
(* 56-57, device.cpp:260-263, 271-274).                                       *)
(******************************************************************************)
Base64RoundTrip ==
  LET text == Base64Encode(data)
  IN  /\ Len(text) = CalculateBase64EncodedLength(Len(data))
      /\ Base64Decode(text) = data
      /\ data # <<>> =>
           /\ PaddingScanEnd(text) > 0
           /\ CalculateBase64DecodedLength(text) = Len(data)

(******************************************************************************)
(* A device's packet with the given intensity width and data as its payload,  *)
(* which holds as many whole samples as fit.                                  *)
(******************************************************************************)
SampleSize(width) == 3 + width

Packet(width) ==
  LET count == Len(data) \div SampleSize(width)
      unsealed == <<255, 255, 7, 0, 2, 8, count % 256, count \div 256,
                    1, 2, 3, 4, 0, 0, width, 1>>
                    \o SubSeq(data, 1, count * SampleSize(width))
  IN  SetWord(unsealed, 13, CalculateCRC16(unsealed))

(******************************************************************************)
(* A packet as the device sealed it passes the check; with a byte of it       *)
(* changed it does not; either way the buffer has what was received, checksum *)
(* field included (transport.cpp:347-359).                                    *)
(******************************************************************************)
DamagedPacketRejected ==
  LET packet == Packet(0)
  IN  /\ VerifyOobPacket(packet) = [valid |-> TRUE, buffer |-> packet]
      /\ \A p \in DOMAIN packet, error \in Bytes \ {0} :
           LET damaged == [packet EXCEPT ![p] = XorWord(@, error)]
           IN  VerifyOobPacket(damaged) = [valid |-> FALSE, buffer |-> damaged]

(******************************************************************************)
(* A block that a device sends has the same samples whichever way it comes:   *)
(* as Base64 text in a notification, or in a packet with intensities of 8 or  *)
(* of 16 bits (device.cpp:257-279, 286-308).                                  *)
(******************************************************************************)
Unpaired(words) ==
  [i \in 1..2 * Len(words) |-> LET word == words[Ceiling(i, 2)]
                               IN  IF i % 2 = 1 THEN word % 256 ELSE word \div 256]

SamplesSurvive ==
  LET samples == ReadPacket(Packet(0))
      wide == ReadPacket(Packet(1))
      split == 2 * Len(samples.ranges)
      text == [ranges |-> Base64Encode(SubSeq(data, 1, split)),
               intensities |-> Base64Encode(SubSeq(data, split + 1, split + split \div 2))]
  IN  /\ split > 0 => ReadLayer(text.ranges, text.intensities) = samples
      /\ Unpaired(samples.ranges) \o samples.intensities
           = SubSeq(data, 1, 3 * (Len(data) \div 3))
      /\ Unpaired(wide.ranges \o wide.intensities) = SubSeq(data, 1, 4 * (Len(data) \div 4))
================================================================================
