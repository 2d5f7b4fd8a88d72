-------------------------- MODULE WriteQueueProofs --------------------------
(***************************************************************************)
(* The write queue is a FIFO, for every set of bytes and every bound.      *)
(***************************************************************************)
EXTENDS WriteQueue, SequenceTheorems, TLAPS

\* Fifo is not inductive alone: where a merge puts the new bytes depends on
\* the item at the front being the only one, and not sent beyond its end.
QueueInv == TypeOK /\ Waiting /\ Fifo

(* Sequences of one element. *)
LEMMA Single ==
    ASSUME NEW S, NEW e \in S
    PROVE  /\ <<e>> \in Seq(S) /\ Len(<<e>>) = 1 /\ <<e>>[1] = e
           /\ DOMAIN <<e>> = {1} /\ <<e>> # <<>>
OBVIOUS

(* A sequence of one element is its first. *)
LEMMA SingleIs ==
    ASSUME NEW S, NEW s \in Seq(S), Len(s) = 1
    PROVE  s[1] \in S /\ s = <<s[1]>>
<1>1. s[1] \in S
  BY ElementOfSeq
<1>2. <<s[1]>> \in Seq(S) /\ Len(<<s[1]>>) = 1 /\ <<s[1]>>[1] = s[1]
  BY <1>1, Single
<1> QED  BY <1>1, <1>2, SeqEqual

(* Replacing the element of a sequence of one. *)
LEMMA SingleExcept ==
    ASSUME NEW S, NEW d \in S, NEW e \in S
    PROVE  [<<d>> EXCEPT ![1] = e] = <<e>>
<1>1. <<d>> \in Seq(S) /\ 1 \in 1 .. Len(<<d>>) /\ Len(<<d>>) = 1
  BY Single
<1>2. /\ [<<d>> EXCEPT ![1] = e] \in Seq(S)
      /\ Len([<<d>> EXCEPT ![1] = e]) = 1
      /\ [<<d>> EXCEPT ![1] = e][1] = e
  BY <1>1, ExceptSeq
<1> QED  BY <1>2, SingleIs

(* What a merge makes of an item. *)
LEMMA MergedItem ==
    ASSUME NEW i \in WriteItem, NEW bytes \in Seq(Byte)
    PROVE  /\ Merged(i, bytes) = [buffer |-> i.buffer \o bytes, sent |-> i.sent]
           /\ Merged(i, bytes) \in WriteItem
<1>1. i.buffer \in Seq(Byte) /\ i.sent \in Nat
  BY DEF WriteItem
<1>2. i.buffer \o bytes \in Seq(Byte)
  BY <1>1, ConcatProperties
<1>3. Merged(i, bytes) = [buffer |-> i.buffer \o bytes, sent |-> i.sent]
  BY DEF Merged
<1> QED  BY <1>1, <1>2, <1>3 DEF WriteItem

(* What waits in a queue of one item, and in an empty one. *)
LEMMA UnsentOfItem ==
    ASSUME NEW i \in WriteItem, items = <<i>>
    PROVE  Unsent = SubSeq(i.buffer, i.sent + 1, Len(i.buffer))
BY DEF Unsent, WriteItem

(* A queue that is not empty is one item, sent short of its end. *)
LEMMA OneItem ==
    ASSUME TypeOK, Waiting, items # <<>>
    PROVE  /\ items[1] \in WriteItem /\ items = <<items[1]>>
           /\ items[1].sent \in 0 .. Len(items[1].buffer) - 1
<1>0. items \in Seq(WriteItem) /\ Len(items) <= 1
  BY DEF TypeOK, Waiting
<1>1. Len(items) = 1
  <2>1. Len(items) \in Nat \ {0}
    BY <1>0, EmptySeq
  <2> QED  BY <2>1, <1>0
<1>2. items[1] \in WriteItem
  BY <1>0, <1>1, SingleIs
<1>3. items = <<items[1]>>
  BY <1>0, <1>1, SingleIs
<1>4. Len(items[1].buffer) \in Nat /\ items[1].sent \in Nat
  BY <1>2 DEF WriteItem
<1>5. items[1].sent < Len(items[1].buffer)
  <2>1. 1 \in DOMAIN items
    BY <1>2, <1>3, Single
  <2> QED  BY <2>1 DEF Waiting
<1> QED  BY <1>2, <1>3, <1>4, <1>5

(* Merging leaves what was sent, and appends to what was not. *)
LEMMA MergedUnsentBytes ==
    ASSUME NEW b \in Seq(Byte), NEW new \in Seq(Byte),
           NEW s \in 0 .. Len(b) - 1
    PROVE  SubSeq(b \o new, s + 1, Len(b \o new))
           = SubSeq(b, s + 1, Len(b)) \o new
<1> DEFINE bn == b \o new
<1>1. bn \in Seq(Byte) /\ Len(bn) = Len(b) + Len(new)
  BY ConcatProperties
<1>2. Len(b) \in Nat /\ Len(new) \in Nat
  BY LenProperties
<1>3. SubSeq(bn, s + 1, Len(b)) = SubSeq(b, s + 1, Len(b))
  BY <1>2, SubSeqOfConcat1
<1>4. SubSeq(bn, Len(b) + 1, Len(bn)) = new
  <2>1. CASE new = <<>>
    BY <2>1, <1>1, <1>2, SubSeqEmpty
  <2>2. CASE new # <<>>
    <3>1. Len(new) >= 1
      BY <2>2, EmptySeq
    <3>2. SubSeq(bn, Len(b) + 1, Len(bn)) = SubSeq(new, 1, Len(new))
      BY <3>1, <1>1, <1>2, SubSeqOfConcat2
    <3> QED  BY <3>2, SubSeqFull
  <2> QED  BY <2>1, <2>2
<1>5. SubSeq(bn, s + 1, Len(b)) \o SubSeq(bn, Len(b) + 1, Len(bn))
      = SubSeq(bn, s + 1, Len(bn))
  <2>1. s + 1 \in 1 .. Len(bn) + 1 /\ Len(b) \in (s + 1) - 1 .. Len(bn)
        /\ Len(bn) \in Len(b) .. Len(bn)
    BY <1>1, <1>2
  <2> QED  BY <1>1, <2>1, ConcatAdjacentSubSeq
<1> QED  BY <1>3, <1>4, <1>5

(* The initial states are good. *)
LEMMA QueueInitGood == QueueInit => QueueInv
<1> SUFFICES ASSUME QueueInit PROVE QueueInv
  OBVIOUS
<1>1. TypeOK
  <2>1. items \in Seq(WriteItem) /\ given \in Seq(Byte) /\ out \in Seq(Byte)
        /\ DOMAIN items = {}
    BY EmptySeq DEF QueueInit
  <2> QED  BY <2>1 DEF QueueInit, TypeOK
<1>2. Waiting
  BY DEF QueueInit, Waiting
<1>3. Fifo
  BY ConcatEmptySeq, EmptySeq DEF QueueInit, Fifo, Unsent
<1> QED  BY <1>1, <1>2, <1>3 DEF QueueInv

(* Loop::send preserves the invariant. *)
LEMMA GiveGood ==
    ASSUME QueueInv, NEW bytes \in Seq(Byte), Give(bytes)
    PROVE  QueueInv'
<1> USE DEF QueueInv
<1>1. /\ bytes # <<>> /\ Len(bytes) \in Nat \ {0}
      /\ given' = given \o bytes /\ given \in Seq(Byte) /\ given' \in Seq(Byte)
      /\ broken' = broken /\ out' = out /\ out \in Seq(Byte)
  BY EmptySeq, ConcatProperties DEF Give, TypeOK
<1>2. CASE items = <<>>
  <2> DEFINE i == [buffer |-> bytes, sent |-> 0]
  <2>1. items' = <<i>> /\ armed' = TRUE /\ i \in WriteItem
    BY <1>2 DEF Give, WriteItem
  <2>2. TypeOK'
    BY <2>1, <1>1, Single DEF TypeOK
  <2>3. Waiting'
    BY <2>1, <1>1, Single DEF Waiting
  <2>4. Unsent = <<>> /\ Unsent' = bytes
    BY <1>2, <2>1, <1>1, SubSeqFull DEF Unsent
  <2>5. Fifo'
    BY <2>4, <1>1, ConcatEmptySeq DEF Fifo
  <2> QED  BY <2>2, <2>3, <2>5
<1>3. CASE items # <<>>
  <2> DEFINE i == items[1]
             j == [buffer |-> i.buffer \o bytes, sent |-> i.sent]
  <2>1. i \in WriteItem /\ items = <<i>> /\ i.sent \in 0 .. Len(i.buffer) - 1
    BY <1>3, OneItem
  <2>2. /\ i.buffer \in Seq(Byte) /\ j.buffer \in Seq(Byte)
        /\ Len(i.buffer) \in Nat
        /\ Len(j.buffer) = Len(i.buffer) + Len(bytes)
    BY <2>1, <1>1, ConcatProperties, LenProperties DEF WriteItem
  <2>3. Merged(i, bytes) = j /\ j \in WriteItem
    BY <2>1, MergedItem
  <2>4. items' = [items EXCEPT ![1] = Merged(@, bytes)] /\ armed' = armed
    BY <1>3 DEF Give
  <2>5. j.sent \in Nat /\ j.sent < Len(j.buffer)
    BY <2>1, <2>2, <1>1
  <2> HIDE DEF j, i
  <2>6. items' = <<j>>
    <3>1. [items EXCEPT ![1] = Merged(@, bytes)] = [<<i>> EXCEPT ![1] = j]
      BY <2>1, <2>3 DEF i
    <3> QED  BY <3>1, <2>1, <2>3, <2>4, SingleExcept
  <2>7. TypeOK'
    <3>1. items' \in Seq(WriteItem) /\ DOMAIN items' = {1} /\ items'[1] = j
      BY <2>3, <2>6, Single
    <3>2. j.sent <= Len(j.buffer)
      BY <2>5, <2>2, <1>1
    <3> QED  BY <3>1, <3>2, <2>4, <1>1 DEF TypeOK
  <2>8. Waiting'
    <3>1. Len(items') = 1 /\ DOMAIN items' = {1} /\ items'[1] = j /\ items' # <<>>
      BY <2>3, <2>6, Single
    <3>2. armed'
      BY <2>4, <1>3 DEF Waiting
    <3> QED  BY <3>1, <3>2, <2>5 DEF Waiting
  <2>9. Unsent' = Unsent \o bytes /\ Unsent \in Seq(Byte)
    <3>1. Unsent = SubSeq(i.buffer, i.sent + 1, Len(i.buffer))
      BY <2>1, UnsentOfItem
    <3>2. Unsent' = SubSeq(i.buffer \o bytes, i.sent + 1, Len(i.buffer \o bytes))
      BY <2>6, <2>3, Single DEF Unsent, j
    <3>3. Unsent \in Seq(Byte)
      BY <3>1, <2>1, <2>2
    <3> QED  BY <3>1, <3>2, <3>3, <2>1, <2>2, MergedUnsentBytes
  <2>10. Fifo'
    <3>1. (out \o Unsent) \o bytes = out \o (Unsent \o bytes)
      BY <2>9, <1>1, ConcatAssociative, SMTT(30)
    <3> QED  BY <3>1, <2>9, <1>1 DEF Fifo
  <2> QED  BY <2>7, <2>8, <2>10
<1> QED  BY <1>2, <1>3

(* perform_write_queue preserves it when the socket takes n bytes. *)
LEMMA TakeGood ==
    ASSUME QueueInv, NEW n \in Nat, Take(n)
    PROVE  QueueInv'
<1> USE DEF QueueInv
<1> DEFINE i == items[1]
           took == SubSeq(i.buffer, i.sent + 1, i.sent + n)
           left == SubSeq(i.buffer, i.sent + n + 1, Len(i.buffer))
           j == [buffer |-> i.buffer, sent |-> i.sent + n]
<1>1. i \in WriteItem /\ items = <<i>> /\ i.sent \in 0 .. Len(i.buffer) - 1
  BY OneItem DEF Take
<1>2. /\ i.buffer \in Seq(Byte) /\ Len(i.buffer) \in Nat
      /\ n \in 1 .. Len(i.buffer) - i.sent /\ ~broken
      /\ out' = out \o took /\ broken' = broken /\ given' = given
      /\ items' = Rest(n) /\ armed' = (Rest(n) # <<>>)
  BY <1>1, LenProperties DEF Take, WriteItem
<1> HIDE DEF i
<1>0. /\ i.sent \in Nat /\ i.sent + n \in Nat /\ n >= 1
      /\ i.sent + n <= Len(i.buffer) /\ i.sent + n >= i.sent + 1
      /\ items[1] = i
  <2>1. items[1] = i
    BY DEF i
  <2>2. i.sent \in Nat /\ n >= 1 /\ n <= Len(i.buffer) - i.sent
    BY <1>1, <1>2
  <2>3. Len(i.buffer) \in Nat
    BY <1>2
  <2> QED  BY <2>1, <2>2, <2>3
<1>3. took \in Seq(Byte) /\ left \in Seq(Byte)
  <2>1. \A k \in 1 .. Len(i.buffer) : i.buffer[k] \in Byte
    BY <1>2, ElementOfSeq
  <2>2. \A k \in i.sent + 1 .. i.sent + n : i.buffer[k] \in Byte
    BY <2>1, <1>0, <1>2, SMTT(30)
  <2>3. \A k \in i.sent + n + 1 .. Len(i.buffer) : i.buffer[k] \in Byte
    BY <2>1, <1>0, <1>2
  <2>4. took \in Seq(Byte)
    BY <2>2, <1>0, <1>2, SubSeqProperties
  <2>5. left \in Seq(Byte)
    <3>1. i.sent + n + 1 \in Int /\ Len(i.buffer) \in Int
      BY <1>0, <1>2
    <3> QED  BY <3>1, <2>3, SubSeqProperties
  <2> QED  BY <2>4, <2>5
<1>4. took \o left = SubSeq(i.buffer, i.sent + 1, Len(i.buffer))
  <2> DEFINE l == Len(i.buffer)
             s == i.sent
  <2>0. l \in Nat /\ s \in Nat /\ s + n <= l
    BY <1>0, <1>2
  <2> HIDE DEF l, s
  <2>1. s + 1 \in 1 .. l + 1 /\ s + n \in (s + 1) - 1 .. l /\ l \in s + n .. l
    BY <2>0
  <2> USE DEF l, s
  <2> QED  BY <1>2, <2>1, ConcatAdjacentSubSeq
<1> HIDE DEF took, left
<1>5. Unsent = took \o left
  BY <1>1, <1>4, UnsentOfItem DEF took, left
<1>6. given = (out \o took) \o left
  <2>1. given = out \o (took \o left) /\ out \in Seq(Byte)
    BY <1>2, <1>5 DEF Fifo, TypeOK
  <2> QED  BY <2>1, <1>3, ConcatAssociative, SMTT(30)
<1>7. out' \in Seq(Byte) /\ given' \in Seq(Byte)
  BY <1>2, <1>3, ConcatProperties DEF TypeOK
<1>8. CASE i.sent + n = Len(i.buffer)
  <2>0. Tail(<<i>>) = <<>>
    BY <1>1, Single, HeadTailProperties, EmptySeq
  <2>1. items' = <<>> /\ armed' = FALSE
    BY <2>0, <1>0, <1>1, <1>2, <1>8 DEF Rest
  <2>2. left = <<>>
    BY <1>0, <1>2, <1>8, SubSeqEmpty DEF left
  <2>3. Fifo'
    BY <2>1, <2>2, <1>2, <1>6 DEF Fifo, Unsent
  <2>4. TypeOK' /\ Waiting'
    <3>1. items' \in Seq(WriteItem) /\ DOMAIN items' = {} /\ Len(items') = 0
      BY <2>1, EmptySeq
    <3> QED  BY <3>1, <2>1, <1>2, <1>7 DEF TypeOK, Waiting
  <2> QED  BY <2>3, <2>4
<1>9. CASE i.sent + n < Len(i.buffer)
  <2>1. Rest(n) = [items EXCEPT ![1].sent = @ + n]
    BY <1>0, <1>2, <1>9 DEF Rest
  <2>3. j \in WriteItem
    BY <1>0, <1>2 DEF WriteItem
  <2>2. Rest(n) = <<j>>
    <3>1. [i EXCEPT !.sent = @ + n] = j
      BY <1>1 DEF WriteItem
    <3>2. [items EXCEPT ![1].sent = @ + n]
          = [items EXCEPT ![1] = [i EXCEPT !.sent = @ + n]]
      BY <1>0
    <3>3. [items EXCEPT ![1].sent = @ + n] = [<<i>> EXCEPT ![1] = j]
      BY <3>1, <3>2, <1>1
    <3> QED  BY <3>3, <2>1, <2>3, <1>1, SingleExcept
  <2>4. items' = <<j>> /\ armed' = TRUE
    BY <2>2, <2>3, <1>2, Single
  <2>5. Unsent' = left
    BY <2>4, <2>3, Single DEF Unsent, left
  <2>6. Fifo'
    BY <2>5, <1>2, <1>6 DEF Fifo
  <2>7. TypeOK'
    <3>1. items' \in Seq(WriteItem) /\ DOMAIN items' = {1} /\ items'[1] = j
      BY <2>3, <2>4, Single
    <3>2. j.sent <= Len(j.buffer)
      BY <1>9, <1>0, <1>2
    <3> QED  BY <3>1, <3>2, <2>4, <1>2, <1>7 DEF TypeOK
  <2>8. Waiting'
    <3>1. Len(items') = 1 /\ DOMAIN items' = {1} /\ items'[1] = j /\ items' # <<>>
      BY <2>3, <2>4, Single
    <3> QED  BY <3>1, <2>4, <1>9 DEF Waiting
  <2> QED  BY <2>6, <2>7, <2>8
<1> QED  BY <1>0, <1>2, <1>8, <1>9

(* Every step preserves the invariant. *)
LEMMA QueueStepGood == QueueInv /\ [Next]_queueVars => QueueInv'
<1> SUFFICES ASSUME QueueInv, [Next]_queueVars PROVE QueueInv'
  OBVIOUS
<1>1. ASSUME NEW k \in 1 .. MaxGiven, NEW bytes \in [1 .. k -> Byte], Give(bytes)
      PROVE  QueueInv'
  <2>1. k \in Nat
    BY WriteQueueAssumption
  <2>2. bytes \in Seq(Byte)
    BY <2>1, SeqDef
  <2> QED  BY <1>1, <2>2, GiveGood
<1>2. ASSUME NEW n \in 1 .. MaxGiven, Take(n)
      PROVE  QueueInv'
  BY <1>2, TakeGood, WriteQueueAssumption
<1>3. CASE TakeFails
  <2>1. items' = <<>> /\ armed' = FALSE /\ broken' = TRUE
        /\ given' = given /\ out' = out
        /\ given \in Seq(Byte) /\ out \in Seq(Byte)
    BY <1>3 DEF TakeFails, QueueInv, TypeOK
  <2>2. items' \in Seq(WriteItem) /\ DOMAIN items' = {} /\ Len(items') = 0
    BY <2>1, EmptySeq
  <2>3. TypeOK'
    BY <2>1, <2>2 DEF TypeOK
  <2>4. Waiting'
    BY <2>1, <2>2 DEF Waiting
  <2>5. Fifo'
    BY <2>1 DEF Fifo
  <2> QED  BY <2>3, <2>4, <2>5 DEF QueueInv
<1>4. CASE UNCHANGED queueVars
  BY <1>4 DEF queueVars, QueueInv, TypeOK, Waiting, Fifo, Unsent
<1> QED  BY <1>1, <1>2, <1>3, <1>4 DEF Next

(* QueueInv holds in every reachable state. *)
LEMMA QueueInvariant == Spec => []QueueInv
BY QueueInitGood, QueueStepGood, PTL DEF Spec

(* The queue is a FIFO: Loop::send's merging into a half-sent item and      *)
(* perform_write_queue's short writes neither lose nor reorder a byte, for  *)
(* every set of bytes and every length of the stream.                       *)
THEOREM QueueIsFifo == Spec => []Fifo
<1>1. QueueInv => Fifo
  BY DEF QueueInv
<1> QED  BY <1>1, QueueInvariant, PTL

(* EPOLLOUT is watched exactly while something waits, and then the item at  *)
(* the front has an unsent byte: perform_write_queue never raises           *)
(* EmptyQueue on a connection whose queue nobody removed.                   *)
THEOREM QueueWatched == Spec => []Waiting
<1>1. QueueInv => Waiting
  BY DEF QueueInv
<1> QED  BY <1>1, QueueInvariant, PTL

(* Every reachable state is typed: an item is a sequence of bytes of which  *)
(* what is sent never passes the length, however sends merge and sockets    *)
(* take.                                                                    *)
THEOREM TypeCorrect == Spec => []TypeOK
<1>1. QueueInv => TypeOK
  BY DEF QueueInv
<1> QED  BY <1>1, QueueInvariant, PTL
=============================================================================
