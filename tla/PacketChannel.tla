--------------------------- MODULE PacketChannel ---------------------------
(***************************************************************************)
(* What the framing promises of one connection: every packet sent is       *)
(* processed, or refused for what it is, once and in order, whatever was   *)
(* sent before it.                                                         *)
(***************************************************************************)
EXTENDS Integers, Sequences

CONSTANT Packet          \* the packets a peer may send, as they are understood

VARIABLES sent, decoded  \* the packets sent, and those processed, in order

channelVars == <<sent, decoded>>

Init == sent = <<>> /\ decoded = <<>>

Send == /\ \E p \in Packet : sent' = Append(sent, p)
        /\ UNCHANGED decoded

Process == /\ Len(decoded) < Len(sent)
           /\ decoded' = Append(decoded, sent[Len(decoded) + 1])
           /\ UNCHANGED sent

Spec == Init /\ [][Send \/ Process]_channelVars
=============================================================================
