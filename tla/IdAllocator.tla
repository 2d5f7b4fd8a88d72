---------------------------- MODULE IdAllocator ----------------------------
(***************************************************************************)
(* What the server promises about client identifiers, whatever pool and    *)
(* tables it keeps: an identifier is handed out only while it names        *)
(* nobody, to one connection at a time, names that connection until it is  *)
(* let go, and never changes hands otherwise.  IdLifecycle and GrokServer  *)
(* implement this specification.                                           *)
(***************************************************************************)
EXTENDS Naturals

VARIABLE named     \* the pairs <<identifier, connection it names>>

AInit == named = {}

\* One identifier that names nobody is given to one connection.
Acquire == \E new \in named' : /\ \A old \in named : old[1] # new[1]
                               /\ named' = named \cup {new}

\* One connection, or all those of a proxy that shuts down, let go.
Release == named' \subseteq named

ANext == Acquire \/ Release

ASpec == AInit /\ [][ANext]_named
=============================================================================
