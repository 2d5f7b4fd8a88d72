---------------------------- MODULE MCGrokServer ----------------------------
(* GrokServer for TLC: tunnels and visitors are model values, and           *)
(* interchangeable; descriptors are numbers, as the lowest free one is      *)
(* taken.                                                                   *)
EXTENDS GrokServer

Symmetry == Permutations(Tunnels) \cup Permutations(Visitors)
=============================================================================
