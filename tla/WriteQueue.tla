----------------------------- MODULE WriteQueue -----------------------------
(***************************************************************************)
(* The write queue of one registered connection, in bytes: Loop::send      *)
(* merges what it is given into the item at the front, of which            *)
(* perform_write_queue may have sent a part already; EPOLLOUT is watched   *)
(* only while something waits; a failing send drops the queue and leaves   *)
(* the connection to its hang-up.  GrokServer takes this queue for a FIFO  *)
(* of whole messages.                                                      *)
(***************************************************************************)
EXTENDS Integers, Sequences

CONSTANTS Byte,      \* what the queue carries
          MaxGiven   \* bound: bytes given to send in all

ASSUME WriteQueueAssumption == MaxGiven \in Nat

VARIABLES items,     \* the deque of WriteItems
          armed,     \* epoll watches EPOLLOUT
          broken,    \* a send of this connection has failed
          given,     \* history: all bytes given to Loop::send, in order
          out        \* history: all bytes the socket has taken, in order

queueVars == <<items, armed, broken, given, out>>

QueueInit == /\ items = <<>> /\ armed = FALSE /\ broken = FALSE
             /\ given = <<>> /\ out = <<>>

\* Mutated form of Merged: the part already sent is dropped from the buffer,
\* but not from the count.
MergedUnsent(item, bytes) ==
    [buffer |-> SubSeq(item.buffer, item.sent + 1, Len(item.buffer)) \o bytes,
     sent |-> item.sent]

\* A WriteItem: its buffer, and how many bytes of it are sent.
WriteItem == [buffer : Seq(Byte), sent : Nat]

\* WriteItem::merge_buffers
Merged(item, bytes) == [buffer |-> item.buffer \o bytes, sent |-> item.sent]

\* Loop::send, never called for no bytes.
Give(bytes) ==
    /\ bytes # <<>> /\ Len(given) + Len(bytes) <= MaxGiven
    /\ IF items = <<>>
       THEN items' = <<[buffer |-> bytes, sent |-> 0]>> /\ armed' = TRUE
       ELSE items' = [items EXCEPT ![1] = Merged(@, bytes)] /\ UNCHANGED armed
    /\ given' = given \o bytes
    /\ UNCHANGED <<broken, out>>

\* Mutated form of Rest: an item that is half sent is dropped.
RestDropped(n) == Tail(items)

\* Mutated form of Rest: an item is done only beyond its end.
RestLate(n) == IF items[1].sent + n > Len(items[1].buffer)
               THEN Tail(items)
               ELSE [items EXCEPT ![1].sent = @ + n]

\* What is left in the deque when the socket has taken n bytes more.
Rest(n) == IF items[1].sent + n >= Len(items[1].buffer)
           THEN Tail(items)
           ELSE [items EXCEPT ![1].sent = @ + n]

\* Loop::perform_write_queue, when the socket takes n bytes of the front item.
Take(n) ==
    /\ armed /\ ~broken /\ items # <<>>
    /\ n \in 1 .. Len(items[1].buffer) - items[1].sent
    /\ out' = out \o SubSeq(items[1].buffer, items[1].sent + 1, items[1].sent + n)
    /\ items' = Rest(n)
    /\ armed' = (Rest(n) # <<>>)
    /\ UNCHANGED <<broken, given>>

\* Loop::perform_write_queue, when the send fails: a connection that failed
\* once fails for ever.
TakeFails ==
    /\ armed /\ items # <<>>
    /\ broken' = TRUE /\ items' = <<>> /\ armed' = FALSE
    /\ UNCHANGED <<given, out>>

Next == \/ \E k \in 1 .. MaxGiven : \E bytes \in [1 .. k -> Byte] : Give(bytes)
        \/ \E n \in 1 .. MaxGiven : Take(n)
        \/ TakeFails

Spec == QueueInit /\ [][Next]_queueVars

----------------------------------------------------------------------------
(* Types of the queue: an item is never sent further than its end, where    *)
(* the code's unsigned length - sent would wrap.                            *)
TypeOK == /\ items \in Seq(WriteItem)
          /\ \A i \in DOMAIN items : items[i].sent <= Len(items[i].buffer)
          /\ armed \in BOOLEAN /\ broken \in BOOLEAN
          /\ given \in Seq(Byte) /\ out \in Seq(Byte)

\* The bytes that wait.
Unsent == IF items = <<>> THEN <<>>
          ELSE SubSeq(items[1].buffer, items[1].sent + 1, Len(items[1].buffer))

(* The queue is a FIFO: however sends are merged and writes cut short, what *)
(* the socket took, followed by what waits, is what was given, until a send *)
(* fails.                                                                   *)
Fifo == ~broken => out \o Unsent = given

(* perform_write_queue finds something to send whenever EPOLLOUT makes      *)
(* Loop::run call it, and is called as long as something waits: there is    *)
(* one item at most, never sent to its end, and EPOLLOUT is watched exactly *)
(* while there is one.                                                      *)
Waiting == /\ Len(items) <= 1
           /\ \A i \in DOMAIN items : items[i].sent < Len(items[i].buffer)
           /\ armed <=> items # <<>>
=============================================================================
