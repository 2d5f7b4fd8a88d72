---------------------------- MODULE IdLifecycle ----------------------------
(***************************************************************************)
(* The pool together with its callers, reduced to what they owe it: a      *)
(* connection gives back the identifier it holds, once, and more are never *)
(* held than there are.  They go one at a time (GrokProxy::unlink_client)  *)
(* or with their proxy (GrokProxy::shutdown, in the order an unordered_map *)
(* yields them).  GrokServer implements this, and this the allocator.      *)
(***************************************************************************)
EXTENDS IdPool, FiniteSets, SequencesExt

CONSTANT Holders   \* what may hold an identifier

VARIABLE held      \* connection -> its identifier, as in sock_to_id

vars == <<last, ids, held>>

Init == PoolInit /\ held = [c \in {} |-> 0]

\* GrokProxy::link_client
Link(c) == /\ c \notin DOMAIN held /\ IdAvailable
           /\ held' = [x \in DOMAIN held \cup {c} |-> IF x = c THEN NextId ELSE held[x]]
           /\ GetId

\* The connections of order let go, in that order.
LetGo(order) == /\ held' = [x \in DOMAIN held \ ToSet(order) |-> held[x]]
                /\ RemoveIds([i \in DOMAIN order |-> held[order[i]]])

\* GrokProxy::unlink_client
Unlink(c) == c \in DOMAIN held /\ LetGo(<<c>>)

\* GrokProxy::shutdown, for the proxy that has the connections S
ShutDown(S) == \E order \in SetToSeqs(S) : LetGo(order)

Next == \/ \E c \in Holders : Link(c) \/ Unlink(c)
        \/ \E S \in SUBSET DOMAIN held : ShutDown(S)

Spec == Init /\ [][Next]_vars

----------------------------------------------------------------------------
Used == {held[c] : c \in DOMAIN held}

(* Types of the pool and of the identifiers in use. *)
TypeOK == /\ last \in 0 .. IdSpace - 1
          /\ ids \in Seq(0 .. IdSpace - 1)
          /\ DOMAIN held \subseteq Holders
          /\ Used \subseteq 0 .. IdSpace - 1

(* The counter never runs past what was handed out: every identifier below *)
(* it either waits in the pool, once, or is held, by one connection, never *)
(* both, and none at or above it is either.  It is what makes last++ safe  *)
(* at the width of the type, and what a double remove_id would break.      *)
Partitioned == /\ Used \cap ToSet(ids) = {}
               /\ Used \cup ToSet(ids) = 0 .. last - 1
               /\ \A i, j \in DOMAIN ids : ids[i] = ids[j] => i = j
               /\ \A c, d \in DOMAIN held : held[c] = held[d] => c = d

\* The pairs of an identifier and the connection it names.
Named == {<<held[c], c>> : c \in DOMAIN held}

(* The pool and its callers implement the abstract allocator: no           *)
(* connection is ever given an identifier another one still holds.         *)
Allocator == INSTANCE IdAllocator WITH named <- Named
AllocatorSpec == Allocator!ASpec
=============================================================================
