---------------------------- MODULE PacketStream ----------------------------
(***************************************************************************)
(* Packets on one connection: a peer writes them to a stream of bytes,     *)
(* which is cut anywhere on its way, and FreeGrok::on_received reads each  *)
(* in up to three rounds (type, header, payload).  A round is a ReadItem,  *)
(* and all that the next round knows of it is the item's u64.  A packet    *)
(* that cannot be decompressed is answered with an error and must not take *)
(* the stream out of step.  The bytes on the wire are a FIFO by            *)
(* WriteQueueProofs!QueueIsFifo.                                           *)
(***************************************************************************)
EXTENDS Framing

CONSTANTS Types,      \* the types of packet sent
          Payloads,   \* their payloads
          BadFrames,  \* payloads sent as compressed that are not
          MaxSent     \* bound: packets sent in all

ASSUME StreamAssumption ==
    /\ Types \subseteq 0 .. GetType(ByteBase - 1)
    /\ Payloads \subseteq Seq(Byte) /\ BadFrames \subseteq Seq(Byte) \ {<<>>}
    /\ MaxSent \in Nat

\* A length fits its header and what compresses may be decompressed again; the
\* bad frames are bad.
ASSUME PayloadsFit ==
    /\ \A p \in Payloads :
          /\ Len(p) < Shift[4]
          /\ p # <<>> /\ Compress(p) # p => Len(p) < Shift[2] /\ Len(p) <= MaxDecompressed
    /\ \A f \in BadFrames :
          Len(f) < Shift[4] /\ ~(FrameSize(f) \in 1 .. MaxDecompressed /\ Decompresses(f))

VARIABLES wire,     \* bytes sent and not yet received
          readq,    \* the read queue: a sequence of ReadItems
          broken,   \* a recv of this connection has failed
          sent,     \* history: the packets sent, as they are to be understood
          decoded   \* history: the packets processed or refused

streamVars == <<wire, readq, broken, sent, decoded>>

\* Loop::recv, in the ReadItem that it queues.
ReadItem(length, state, u64) ==
    [length |-> length, state |-> state, u64 |-> u64, buffer |-> <<>>]

\* FreeGrok::go_new_message
NewMessage == ReadItem(2, "TYPE_GOT", 0)

Init == /\ wire = <<>> /\ readq = <<NewMessage>> /\ broken = FALSE
        /\ sent = <<>> /\ decoded = <<>>

----------------------------------------------------------------------------
(* The rounds of on_received: the items each queues, and what it makes of   *)
(* the packet.                                                              *)
Message(type, payload) == [type |-> type, payload |-> payload]
Refusal(code) == [error |-> code]

Awaits(item) == [next |-> <<item>>, done |-> <<>>]
Processed(type, payload) ==
    [next |-> <<NewMessage>>, done |-> <<Message(type, payload)>>]

\* Mutated form of Refused: an error is answered, and the next packet is not
\* asked for.
RefusedOnly(code) == [next |-> <<>>, done |-> <<Refusal(code)>>]

Refused(code) == [next |-> <<NewMessage>>, done |-> <<Refusal(code)>>]

\* The state of a packet whose payload is awaited, in 40 bits.
Merged(data, length) == data * Shift[4] + length

\* Mutated form of TypeGot: an empty payload is awaited like any other.
TypeGotNoEmpty(buffer) ==
    IF IsShort(buffer[1])
    THEN Awaits(ReadItem(buffer[2], "BUFFER_GOT", Merged(buffer[1], buffer[2])))
    ELSE Awaits(ReadItem(3, "HEADER_GOT", buffer[1] * ByteBase + buffer[2]))

\* case TYPE_GOT
TypeGot(buffer) ==
    IF IsShort(buffer[1])
    THEN IF buffer[2] = 0
         THEN Processed(GetType(buffer[1]), <<>>)
         ELSE Awaits(ReadItem(buffer[2], "BUFFER_GOT", Merged(buffer[1], buffer[2])))
    ELSE Awaits(ReadItem(3, "HEADER_GOT", buffer[1] * ByteBase + buffer[2]))

\* Mutated form of HeaderLength: the byte kept from the first round goes last.
HeaderLengthLast(buffer, chunk) == BytesToInt(buffer \o <<chunk>>)

\* The 32-bit length, of whose bytes the first came with the type.
HeaderLength(buffer, chunk) == BytesToInt(<<chunk>> \o buffer)

\* case HEADER_GOT
HeaderGot(buffer, u64) ==
    LET meta == u64 % Shift[2]
        data == meta \div ByteBase
        length == HeaderLength(buffer, meta % ByteBase)
    IN IF length = 0
       THEN Processed(GetType(data), <<>>)
       ELSE Awaits(ReadItem(length, "BUFFER_GOT", Merged(data, length)))

\* case BUFFER_GOT
BufferGot(buffer, u64) ==
    LET data == (u64 \div Shift[4]) % ByteBase
    IN CASE ~IsCompressed(data) ->
                Processed(GetType(data), SubSeq(buffer, 1, u64 % Shift[4]))
         [] IsCompressed(data) /\ FrameSize(buffer) = 0 ->
                Refused("DECOMPRESSION_ERROR")
         [] IsCompressed(data) /\ FrameSize(buffer) > MaxDecompressed ->
                Refused("TOO_LONG_BUFFER")
         [] OTHER -> IF Decompresses(buffer)
                     THEN Processed(GetType(data), Decompress(buffer))
                     ELSE Refused("DECOMPRESSION_ERROR")

\* FreeGrok::on_received, of an item that is complete.
OnReceived(item) ==
    CASE item.state = "TYPE_GOT"   -> TypeGot(item.buffer)
      [] item.state = "HEADER_GOT" -> HeaderGot(item.buffer, item.u64)
      [] item.state = "BUFFER_GOT" -> BufferGot(item.buffer, item.u64)

----------------------------------------------------------------------------
(* Loop::perform_read_queue, when recv returns the next k bytes.            *)
Read(k) ==
    /\ ~broken /\ readq # <<>>
    /\ k <= Len(wire) /\ k <= readq[1].length - Len(readq[1].buffer)
    /\ LET item == [readq[1] EXCEPT !.buffer = @ \o SubSeq(wire, 1, k)]
           got == OnReceived(item)
       IN IF Len(item.buffer) < item.length
          THEN readq' = <<item>> \o Tail(readq) /\ UNCHANGED decoded
          ELSE /\ readq' = Tail(readq) \o got.next
               /\ decoded' = decoded \o got.done
    /\ wire' = SubSeq(wire, k + 1, Len(wire))
    /\ UNCHANGED <<broken, sent>>

(* Loop::perform_read_queue, when recv fails: the queues are cleared.       *)
ReadFails ==
    /\ ~broken /\ readq # <<>>
    /\ broken' = TRUE /\ readq' = <<>>
    /\ UNCHANGED <<wire, sent, decoded>>

\* A peer puts a packet on the wire, to be understood as packet.
Put(bytes, packet) ==
    /\ Len(sent) < MaxSent
    /\ wire' = wire \o bytes /\ sent' = Append(sent, packet)
    /\ UNCHANGED <<readq, broken, decoded>>

(* A peer that sends with FStreamer::send.                                  *)
Send(type, payload) == Put(Encode(type, payload), Message(type, payload))

(* A peer that takes the other forms the protocol has: a long header for a  *)
(* short payload, compression whatever the length.                          *)
SendOtherwise(type, payload) ==
    LET zipped == Compress(payload) # payload
    IN \/ Put(LongHeader(type, Len(payload), FALSE) \o payload, Message(type, payload))
       \/ /\ payload # <<>> /\ zipped
          /\ Put(LongHeader(type, Len(Compress(payload)), TRUE) \o Compress(payload),
                 Message(type, payload))

\* What is wrong with a frame.
Fault(frame) == IF FrameSize(frame) > MaxDecompressed
                THEN "TOO_LONG_BUFFER" ELSE "DECOMPRESSION_ERROR"

(* A peer whose payload was spoilt before it was sent.                      *)
SendBad(type, frame) == Put(Header(type, Len(frame), TRUE) \o frame, Refusal(Fault(frame)))

ServerReads == \E k \in 1 .. Len(wire) : Read(k)

Next == \/ ServerReads
        \/ ReadFails
        \/ \E type \in Types, payload \in Payloads :
              Send(type, payload) \/ SendOtherwise(type, payload)
        \/ \E type \in Types, frame \in BadFrames : SendBad(type, frame)

Spec == Init /\ [][Next]_streamVars

\* Loop::run calls perform_read_queue as long as bytes are there.
FairSpec == Spec /\ WF_streamVars(ServerReads)

----------------------------------------------------------------------------
(* Types of the stream: an item is never queued complete, for which         *)
(* perform_read_queue would call recv for no bytes and take its answer for  *)
(* a failure; u64 keeps its 40 bits.                                        *)
TypeOK ==
    /\ wire \in Seq(Byte) /\ broken \in BOOLEAN
    /\ \A i \in DOMAIN readq :
          /\ readq[i].state \in {"TYPE_GOT", "HEADER_GOT", "BUFFER_GOT"}
          /\ readq[i].buffer \in Seq(Byte)
          /\ Len(readq[i].buffer) < readq[i].length
          /\ readq[i].u64 \in 0 .. Shift[5] - 1

(* While a connection lives exactly one round of one packet is awaited:     *)
(* with none the next EPOLLIN throws EmptyQueue, with two the second takes  *)
(* the bytes of the first one's packet.                                     *)
OneRound == ~broken => Len(readq) = 1

\* Between two packets.
AtRest == wire = <<>> /\ readq = <<NewMessage>>

(* The rounds and the stream stay in step: when all bytes are read and no   *)
(* packet is begun, every packet sent has been processed or refused, also   *)
(* after one that was refused; and only then.                               *)
InStep == ~broken => (AtRest <=> Len(decoded) = Len(sent))

\* The packets a peer sends, as they are to be understood.
Packets == {Message(t, p) : t \in Types, p \in Payloads}
           \cup {Refusal(Fault(f)) : f \in BadFrames}

Channel == INSTANCE PacketChannel WITH Packet <- Packets

(* The framing implements a channel of packets: each is processed as it was *)
(* sent, with its type and its payload, in order.                           *)
ChannelSpec == Channel!Spec

(* Every packet sent is processed in the end, or the connection fails.      *)
AllDecoded == \A n \in 1 .. MaxSent : Len(sent) >= n ~> broken \/ Len(decoded) >= n
=============================================================================
