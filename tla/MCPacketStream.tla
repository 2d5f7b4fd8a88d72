--------------------------- MODULE MCPacketStream ---------------------------
(***************************************************************************)
(* PacketStream on bytes of three bits.                                    *)
(***************************************************************************)
EXTENDS PacketStream

\* Lengths at the boundaries: none, compressible or not, one byte of length
\* or more.
Lengths == {1, 3, 4, 7, 8, 9}

Run(n) == [i \in 1 .. n |-> 5]
Ramp(n) == [i \in 1 .. n |-> i % 8]

MCPayloads == {<<>>} \cup {Run(n) : n \in Lengths \ {7, 8}} \cup {Ramp(n) : n \in {7, 8, 9}}

\* A frame of unknown size, one cut short, and one of 21 bytes.
MCBadFrames == {<<0>>, <<3, 0>>, <<5, 2, 1>>}
=============================================================================
