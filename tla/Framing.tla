------------------------------ MODULE Framing ------------------------------
(***************************************************************************)
(* Packets as bytes: the header's flags, byte order and two widths of the  *)
(* length, and compression, as FStreamer writes them.  A byte is a number  *)
(* below ByteBase; the code's is 2^8.  zstd is external: here a run of one *)
(* byte compresses to its length, in two bytes, and the byte; nothing else *)
(* compresses.                                                             *)
(***************************************************************************)
EXTENDS Integers, Sequences, SequencesExt

CONSTANTS ByteBase,       \* 2^8
          CompressMin,    \* COMPRESS_MIN_THRESHOLD
          MaxDecompressed \* MAX_DECOMPRESSED_SIZE

\* A byte holds the two flags and at least one bit of type.
ASSUME FramingAssumption ==
    /\ ByteBase \in Nat /\ ByteBase >= 8 /\ ByteBase % 4 = 0
    /\ CompressMin \in Nat /\ MaxDecompressed \in Nat

Byte == 0 .. ByteBase - 1

\* Mutated form of GetType: a flag is taken for a bit of the type.
GetTypeAndFlag(n) == n \div 2

\* GROK_GET_FLAGS, GROK_IS_SHORT, GROK_IS_COMPRESSED, GROK_GET_TYPE
GetFlags(n) == n % 4
IsShort(n) == GetFlags(n) \div 2 = 1
IsCompressed(n) == GetFlags(n) % 2 = 1
GetType(n) == n \div 4

\* GROK_STORE_FLAGS, stored to one byte.
StoreFlags(flags, type) == (type * 4 + flags) % ByteBase

\* What a shift by n bytes multiplies by, up to the 40 bits of an item's state.
Shift[n \in 0 .. 5] == IF n = 0 THEN 1 ELSE ByteBase * Shift[n - 1]

\* int_to_bytes, for an integer of size bytes, LITTLE.
IntToBytes(n, size) == [i \in 1 .. size |-> (n \div Shift[i - 1]) % ByteBase]

\* bytes_to_int, LITTLE: from the last byte down.
BytesToInt(bytes) ==
    FoldRight(LAMBDA byte, value : value * ByteBase + byte, bytes, 0)

\* Mutated form of FitsShort: off by one.
FitsShortLate(length) == length <= ByteBase

\* A length that one byte holds.
FitsShort(length) == length <= ByteBase - 1

\* A header of the 8-bit and of the 32-bit form.
ShortHeader(type, length, compressed) ==
    <<StoreFlags((IF compressed THEN 1 ELSE 0) + 2, type), length % ByteBase>>
LongHeader(type, length, compressed) ==
    <<StoreFlags(IF compressed THEN 1 ELSE 0, type)>> \o IntToBytes(length, 4)

\* FStreamer::send_header
Header(type, length, compressed) ==
    IF FitsShort(length) THEN ShortHeader(type, length, compressed)
                         ELSE LongHeader(type, length, compressed)

\* ZSTD_compress: the frame, or what it was given when there is no gain.
Compress(payload) ==
    IF \E b \in Byte : \A i \in DOMAIN payload : payload[i] = b
    THEN IntToBytes(Len(payload), 2) \o <<payload[1]>>
    ELSE payload

\* FStreamer::send
Encode(type, payload) ==
    IF payload # <<>> /\ Len(payload) >= CompressMin /\ Len(Compress(payload)) < Len(payload)
    THEN Header(type, Len(Compress(payload)), TRUE) \o Compress(payload)
    ELSE Header(type, Len(payload), FALSE) \o payload

\* ZSTD_getFrameContentSize, 0 when it is unknown.
FrameSize(frame) == IF Len(frame) < 2 THEN 0 ELSE BytesToInt(SubSeq(frame, 1, 2))

\* ZSTD_decompress: whether it succeeds, and the result.
Decompresses(frame) == Len(frame) = 3
Decompress(frame) == [i \in 1 .. FrameSize(frame) |-> frame[3]]
=============================================================================
