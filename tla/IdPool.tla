------------------------------- MODULE IdPool -------------------------------
(***************************************************************************)
(* IdPool<c_id_t> (grokserver/id_pool.hpp): the pool the connection        *)
(* identifiers of all proxies come from.  An identifier returned is reused *)
(* first in, first out; the counter moves only when none is waiting.       *)
(***************************************************************************)
EXTENDS Integers, Sequences

CONSTANT IdSpace   \* the identifiers are 0 .. IdSpace-1 (2^32 for c_id_t)

ASSUME IdSpaceAssumption == IdSpace \in Nat \ {0}

VARIABLES last,    \* the next identifier never handed out
          ids      \* the identifiers given back, oldest first

PoolInit == last = 0 /\ ids = <<>>

\* The identifier get_id() returns.
NextId == IF ids = <<>> THEN last ELSE Head(ids)

\* The counter stays below the width of its type.
IdAvailable == ids # <<>> \/ last + 1 < IdSpace

\* Mutated form of GetId: pop_front is forgotten.
GetIdKeepsHead == IF ids = <<>> THEN last' = (last + 1) % IdSpace /\ UNCHANGED ids
                                ELSE UNCHANGED <<last, ids>>

\* get_id(): last++ wraps at the width of the type.
GetId == IF ids = <<>> THEN last' = (last + 1) % IdSpace /\ UNCHANGED ids
                       ELSE ids' = Tail(ids) /\ UNCHANGED last

\* Mutated form of RemoveIds: the first of several is not given back.
RemoveIdsButOne(returned) == ids' = ids \o SubSeq(returned, 2, Len(returned)) /\ UNCHANGED last

\* remove_id(), called for each element of returned in turn.
RemoveIds(returned) == ids' = ids \o returned /\ UNCHANGED last
=============================================================================
