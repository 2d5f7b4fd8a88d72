------------------------- MODULE IdLifecycleProofs -------------------------
(***************************************************************************)
(* Theorems about IdLifecycle, for every width of identifiers and every    *)
(* set of holders: no identifier is lost, doubled or shared, and the pool  *)
(* with callers that keep to it implements the allocator of IdAllocator.   *)
(* What implements IdLifecycle, as GrokServer does in its runs without     *)
(* failing accepts, inherits them.                                         *)
(***************************************************************************)
EXTENDS IdLifecycle, FiniteSetTheorems, TLAPS

Ids == 0 .. IdSpace - 1

\* The inductive invariant: a shutdown enumerates a finite set.
IInv == TypeOK /\ Partitioned /\ IsFiniteSet(DOMAIN held)

----------------------------------------------------------------------------
(* One identifier taken.                                                   *)

\* link_client adds one entry, that of the identifier get_id returns.
LEMMA LinkAdds ==
    ASSUME NEW c, Link(c)
    PROVE  /\ c \notin DOMAIN held /\ DOMAIN held' = DOMAIN held \cup {c}
           /\ \A x \in DOMAIN held : held'[x] = held[x]
           /\ held'[c] = NextId
           /\ Used' = Used \cup {NextId}
<1>1. c \notin DOMAIN held /\ held' = [x \in DOMAIN held \cup {c} |-> IF x = c THEN NextId ELSE held[x]]
  BY DEF Link
<1> QED  BY <1>1 DEF Used

\* get_id from an empty list: the counter's value, below which all are used.
LEMMA TakeNew ==
    ASSUME IInv, NEW c \in Holders, Link(c), ids = <<>>
    PROVE  IInv'
<1> USE IdSpaceAssumption
<1>1. NextId = last /\ last \in Ids /\ last + 1 < IdSpace
  BY DEF IInv, TypeOK, Link, NextId, IdAvailable, Ids
<1>2. last' = last + 1 /\ ids' = <<>>
  BY <1>1 DEF Link, GetId, Ids
<1>3. /\ DOMAIN held' = DOMAIN held \cup {c} /\ c \notin DOMAIN held
      /\ \A x \in DOMAIN held : held'[x] = held[x]
      /\ held'[c] = last
      /\ Used' = Used \cup {last}
  BY <1>1, LinkAdds
<1>4. ToSet(ids) = {} /\ ToSet(ids)' = {}
  BY <1>2 DEF ToSet
<1>5. Used = 0 .. last - 1
  BY <1>4 DEF IInv, Partitioned
<1>6. last \notin Used /\ \A x \in DOMAIN held : held[x] # last
  BY <1>1, <1>5 DEF Used, Ids
<1>7. Used' = 0 .. last' - 1
  BY <1>1, <1>2, <1>3, <1>5 DEF Ids
<1>8. TypeOK'
  <2>1. last' \in 0 .. IdSpace - 1 /\ ids' \in Seq(0 .. IdSpace - 1)
    BY <1>1, <1>2 DEF Ids
  <2>2. Used' \subseteq 0 .. IdSpace - 1
    BY <1>1, <1>2, <1>7 DEF Ids
  <2> QED  BY <1>3, <2>1, <2>2 DEF IInv, TypeOK
<1>9. Partitioned'
  <2>1. \A x, y \in DOMAIN held' : held'[x] = held'[y] => x = y
    BY <1>3, <1>6 DEF IInv, Partitioned
  <2>2. \A i, j \in DOMAIN ids' : ids'[i] = ids'[j] => i = j
    BY <1>2
  <2> QED  BY <1>4, <1>7, <2>1, <2>2 DEF Partitioned
<1>10. IsFiniteSet(DOMAIN held')
  BY <1>3, FS_AddElement DEF IInv
<1> QED  BY <1>8, <1>9, <1>10 DEF IInv

\* What pop_front leaves of a list without repetitions.
LEMMA TailOfDistinct ==
    ASSUME NEW S, NEW s \in Seq(S), s # <<>>, \A i, j \in DOMAIN s : s[i] = s[j] => i = j
    PROVE  /\ Tail(s) \in Seq(S) /\ Head(s) \in S
           /\ ToSet(s) = ToSet(Tail(s)) \cup {Head(s)}
           /\ Head(s) \notin ToSet(Tail(s))
           /\ \A i, j \in DOMAIN Tail(s) : Tail(s)[i] = Tail(s)[j] => i = j
<1>1. /\ Len(s) \in Nat \ {0} /\ DOMAIN s = 1 .. Len(s) /\ Head(s) = s[1]
      /\ Tail(s) \in Seq(S) /\ Len(Tail(s)) = Len(s) - 1 /\ DOMAIN Tail(s) = 1 .. Len(s) - 1
      /\ \A i \in 1 .. Len(s) - 1 : Tail(s)[i] = s[i + 1]
  OBVIOUS
<1>2. Head(s) \in S
  BY <1>1
<1>3. \A i, j \in DOMAIN Tail(s) : Tail(s)[i] = Tail(s)[j] => i = j
  BY <1>1
<1>4. Head(s) \notin ToSet(Tail(s))
  BY <1>1 DEF ToSet
<1>5. ToSet(s) = ToSet(Tail(s)) \cup {Head(s)}
  <2>1. \A i \in DOMAIN s : i = 1 \/ (i - 1 \in DOMAIN Tail(s) /\ s[i] = Tail(s)[i - 1])
    BY <1>1
  <2>2. ToSet(s) \subseteq ToSet(Tail(s)) \cup {Head(s)}
    <3>1. SUFFICES ASSUME NEW i \in DOMAIN s PROVE s[i] \in ToSet(Tail(s)) \cup {Head(s)}
      BY DEF ToSet
    <3>2. CASE i = 1
      BY <1>1, <3>2
    <3>3. CASE i - 1 \in DOMAIN Tail(s) /\ s[i] = Tail(s)[i - 1]
      BY <3>3 DEF ToSet
    <3> QED  BY <2>1, <3>2, <3>3
  <2>3. ToSet(Tail(s)) \cup {Head(s)} \subseteq ToSet(s)
    <3>1. \A i \in DOMAIN Tail(s) : i + 1 \in DOMAIN s
      BY <1>1
    <3> QED  BY <1>1, <3>1 DEF ToSet
  <2> QED  BY <2>2, <2>3
<1> QED  BY <1>1, <1>2, <1>3, <1>4, <1>5

\* get_id from the list: its head moves from the free to the used.
LEMMA TakeOld ==
    ASSUME IInv, NEW c \in Holders, Link(c), ids # <<>>
    PROVE  IInv'
<1>1. NextId = Head(ids) /\ ids' = Tail(ids) /\ last' = last
  BY DEF Link, GetId, NextId
<1>2. /\ ids \in Seq(0 .. IdSpace - 1)
      /\ \A i, j \in DOMAIN ids : ids[i] = ids[j] => i = j
  BY DEF IInv, TypeOK, Partitioned
<1>3. /\ Tail(ids) \in Seq(0 .. IdSpace - 1) /\ Head(ids) \in 0 .. IdSpace - 1
      /\ ToSet(ids) = ToSet(Tail(ids)) \cup {Head(ids)}
      /\ Head(ids) \notin ToSet(Tail(ids))
      /\ \A i, j \in DOMAIN Tail(ids) : Tail(ids)[i] = Tail(ids)[j] => i = j
  BY <1>2, TailOfDistinct, ZenonT(60)
<1>4. /\ DOMAIN held' = DOMAIN held \cup {c} /\ c \notin DOMAIN held
      /\ \A x \in DOMAIN held : held'[x] = held[x]
      /\ held'[c] = Head(ids)
      /\ Used' = Used \cup {Head(ids)}
  BY <1>1, LinkAdds
<1>5. \A x \in DOMAIN held : held[x] # Head(ids)
  BY <1>3 DEF IInv, Partitioned, Used
<1>6. ToSet(ids)' = ToSet(Tail(ids))
  BY <1>1
<1>7. TypeOK'
  BY <1>1, <1>3, <1>4 DEF IInv, TypeOK
<1>8. Partitioned'
  <2>1. \A x, y \in DOMAIN held' : held'[x] = held'[y] => x = y
    BY <1>4, <1>5 DEF IInv, Partitioned
  <2>2. Used' \cap ToSet(ids)' = {} /\ Used' \cup ToSet(ids)' = 0 .. last' - 1
    BY <1>1, <1>3, <1>4, <1>6 DEF IInv, Partitioned
  <2>3. \A i, j \in DOMAIN ids' : ids'[i] = ids'[j] => i = j
    BY <1>1, <1>3
  <2> QED  BY <2>1, <2>2, <2>3 DEF Partitioned
<1>9. IsFiniteSet(DOMAIN held')
  BY <1>4, FS_AddElement DEF IInv
<1> QED  BY <1>7, <1>8, <1>9 DEF IInv

----------------------------------------------------------------------------
(* Identifiers given back.                                                 *)

\* A list without repetitions stays one when others are appended to it.
LEMMA ConcatOfDistinct ==
    ASSUME NEW S, NEW s \in Seq(S), NEW t \in Seq(S),
           \A i, j \in DOMAIN s : s[i] = s[j] => i = j,
           \A i, j \in DOMAIN t : t[i] = t[j] => i = j,
           ToSet(t) \cap ToSet(s) = {}
    PROVE  /\ s \o t \in Seq(S) /\ ToSet(s \o t) = ToSet(s) \cup ToSet(t)
           /\ \A i, j \in DOMAIN (s \o t) : (s \o t)[i] = (s \o t)[j] => i = j
<1> DEFINE m == Len(s)
           n == Len(t)
<1>1. /\ m \in Nat /\ n \in Nat /\ DOMAIN s = 1 .. m /\ DOMAIN t = 1 .. n
      /\ s \o t \in Seq(S) /\ DOMAIN (s \o t) = 1 .. m + n
      /\ \A i \in 1 .. m : (s \o t)[i] = s[i]
      /\ \A i \in m + 1 .. m + n : (s \o t)[i] = t[i - m]
  OBVIOUS
<1> HIDE DEF m, n
<1>2. \A i \in 1 .. m + n :
         \/ i \in 1 .. m /\ (s \o t)[i] = s[i]
         \/ i - m \in 1 .. n /\ (s \o t)[i] = t[i - m]
  BY <1>1
<1>3. \A i \in 1 .. m, j \in 1 .. n : s[i] # t[j]
  <2>1. \A i \in 1 .. m : s[i] \in ToSet(s)
    BY <1>1 DEF ToSet
  <2>2. \A j \in 1 .. n : t[j] \in ToSet(t)
    BY <1>1 DEF ToSet
  <2> QED  BY <2>1, <2>2
<1>4. \A i, j \in 1 .. m + n : (s \o t)[i] = (s \o t)[j] => i = j
  <2>1. SUFFICES ASSUME NEW i \in 1 .. m + n, NEW j \in 1 .. m + n, (s \o t)[i] = (s \o t)[j]
                 PROVE  i = j
    OBVIOUS
  <2>2. CASE i \in 1 .. m /\ j \in 1 .. m
    BY <1>1, <2>1, <2>2
  <2>3. CASE i - m \in 1 .. n /\ j - m \in 1 .. n
    <3>1. (s \o t)[i] = t[i - m] /\ (s \o t)[j] = t[j - m]
      BY <1>1, <2>3
    <3>2. i - m = j - m
      BY <1>1, <2>1, <2>3, <3>1
    <3> QED  BY <1>1, <3>2
  <2> QED  BY <1>1, <1>2, <1>3, <2>1, <2>2, <2>3
<1>5. ToSet(s \o t) \subseteq ToSet(s) \cup ToSet(t)
  BY <1>1, <1>2 DEF ToSet
<1>6. ToSet(s) \cup ToSet(t) \subseteq ToSet(s \o t)
  <2>1. \A i \in 1 .. n : m + i \in 1 .. m + n /\ (s \o t)[m + i] = t[i]
    BY <1>1
  <2>2. \A i \in 1 .. m : i \in 1 .. m + n
    BY <1>1
  <2>3. ToSet(s) \subseteq ToSet(s \o t)
    BY <1>1, <2>2 DEF ToSet
  <2>4. ToSet(t) \subseteq ToSet(s \o t)
    BY <1>1, <2>1 DEF ToSet
  <2> QED  BY <2>3, <2>4
<1> QED  BY <1>1, <1>4, <1>5, <1>6

\* Connections that let go, each once: what they hold moves to the free.
LEMMA LetGoKeeps ==
    ASSUME IInv, NEW n \in Nat, NEW order \in [1 .. n -> DOMAIN held],
           \A i, j \in 1 .. n : order[i] = order[j] => i = j,
           LetGo(order)
    PROVE  IInv'
<1> DEFINE back == [i \in DOMAIN order |-> held[order[i]]]
           S == 0 .. IdSpace - 1
<1>1. DOMAIN order = 1 .. n /\ \A i \in 1 .. n : order[i] \in DOMAIN held
  OBVIOUS
<1>2. /\ held' = [x \in DOMAIN held \ ToSet(order) |-> held[x]]
      /\ ids' = ids \o back /\ last' = last
  BY DEF LetGo, RemoveIds
<1>3. /\ DOMAIN held' = DOMAIN held \ ToSet(order)
      /\ \A x \in DOMAIN held' : held'[x] = held[x]
  BY <1>2
<1>4. back \in Seq(S) /\ Len(back) = n /\ DOMAIN back = 1 .. n
  <2>1. \A x \in DOMAIN held : held[x] \in S
    BY DEF IInv, TypeOK, Used
  <2>2. back \in [1 .. n -> S]
    BY <1>1, <2>1
  <2> QED  BY <2>2
<1>5. ids \in Seq(S) /\ \A i, j \in DOMAIN ids : ids[i] = ids[j] => i = j
  BY DEF IInv, TypeOK, Partitioned
<1>6. \A i, j \in 1 .. n : back[i] = back[j] => i = j
  BY <1>1 DEF IInv, Partitioned
<1>7. ToSet(back) \subseteq Used /\ ToSet(back) \cap ToSet(ids) = {}
  BY <1>1 DEF ToSet, Used, IInv, Partitioned
<1>8. Used' = Used \ ToSet(back)
  <2>1. \A x \in DOMAIN held : x \in ToSet(order) <=> held[x] \in ToSet(back)
    BY <1>1 DEF ToSet, IInv, Partitioned
  <2> QED  BY <1>3, <2>1 DEF Used
<1>9. ids' \in Seq(S) /\ ToSet(ids') = ToSet(ids) \cup ToSet(back)
      /\ \A i, j \in DOMAIN ids' : ids'[i] = ids'[j] => i = j
  <2> HIDE DEF back, S
  <2>1. \A i, j \in DOMAIN back : back[i] = back[j] => i = j
    BY <1>4, <1>6
  <2>2. /\ ids \o back \in Seq(S) /\ ToSet(ids \o back) = ToSet(ids) \cup ToSet(back)
        /\ \A i, j \in DOMAIN (ids \o back) : (ids \o back)[i] = (ids \o back)[j] => i = j
    <3>1. ids \in Seq(S) /\ back \in Seq(S) /\ ToSet(back) \cap ToSet(ids) = {}
      BY <1>4, <1>5, <1>7
    <3>2. \A i, j \in DOMAIN ids : ids[i] = ids[j] => i = j
      BY <1>5
    <3> QED  BY <2>1, <3>1, <3>2, ConcatOfDistinct, Zenon
  <2>3. ids' = ids \o back
    BY <1>2
  <2> QED  BY <2>2, <2>3, Zenon
<1>10. TypeOK'
  BY <1>2, <1>3, <1>8, <1>9 DEF IInv, TypeOK
<1>11. Partitioned'
  <2>1. Used' \cap ToSet(ids)' = {} /\ Used' \cup ToSet(ids)' = 0 .. last' - 1
    BY <1>2, <1>7, <1>8, <1>9 DEF IInv, Partitioned
  <2>2. \A x, y \in DOMAIN held' : held'[x] = held'[y] => x = y
    BY <1>3 DEF IInv, Partitioned
  <2> QED  BY <1>9, <2>1, <2>2 DEF Partitioned
<1>12. IsFiniteSet(DOMAIN held')
  BY <1>3, FS_Subset DEF IInv
<1> QED  BY <1>10, <1>11, <1>12 DEF IInv

\* GrokProxy::unlink_client: one connection lets go.
LEMMA UnlinkKeeps ==
    ASSUME IInv, NEW c \in Holders, Unlink(c)
    PROVE  IInv'
<1>1. LetGo(<<c>>) /\ c \in DOMAIN held
  BY DEF Unlink
<1>2. <<c>> \in [1 .. 1 -> DOMAIN held] /\ \A i, j \in 1 .. 1 : <<c>>[i] = <<c>>[j] => i = j
  BY <1>1
<1> QED  BY <1>1, <1>2, LetGoKeeps

\* GrokProxy::shutdown: those of one proxy let go, in any order.
LEMMA ShutDownKeeps ==
    ASSUME IInv, NEW S \in SUBSET DOMAIN held, ShutDown(S)
    PROVE  IInv'
<1>1. PICK order \in SetToSeqs(S) : LetGo(order)
  BY DEF ShutDown
<1> DEFINE n == Cardinality(S)
<1>2. n \in Nat
  BY FS_Subset, FS_CardinalityType DEF IInv
<1>3. order \in [1 .. n -> S] /\ \A i, j \in 1 .. n : i # j => order[i] # order[j]
  BY <1>1 DEF SetToSeqs
<1> HIDE DEF n
<1>4. order \in [1 .. n -> DOMAIN held] /\ \A i, j \in 1 .. n : order[i] = order[j] => i = j
  BY <1>3
<1> QED  BY <1>1, <1>2, <1>4, LetGoKeeps

----------------------------------------------------------------------------
(* The theorems.                                                           *)

\* The pool starts with nothing handed out.
LEMMA InitInv == Init => IInv
<1> SUFFICES ASSUME Init PROVE IInv
  OBVIOUS
<1>1. last = 0 /\ ids = <<>> /\ DOMAIN held = {}
  BY DEF Init, PoolInit
<1>2. Used = {} /\ ToSet(ids) = {} /\ DOMAIN ids = {}
  BY <1>1 DEF Used, ToSet
<1>3. TypeOK
  BY <1>1, <1>2, IdSpaceAssumption DEF TypeOK
<1>4. Partitioned
  BY <1>1, <1>2 DEF Partitioned
<1> QED  BY <1>1, <1>3, <1>4, FS_EmptySet DEF IInv

\* Every step keeps the invariant.
LEMMA NextKeepsInv == IInv /\ [Next]_vars => IInv'
<1> SUFFICES ASSUME IInv, [Next]_vars PROVE IInv'
  OBVIOUS
<1>1. CASE UNCHANGED vars
  BY <1>1 DEF vars, IInv, TypeOK, Partitioned, Used, ToSet
<1>2. CASE \E c \in Holders : Link(c)
  BY <1>2, TakeNew, TakeOld
<1>3. CASE \E c \in Holders : Unlink(c)
  BY <1>3, UnlinkKeeps
<1>4. CASE \E S \in SUBSET DOMAIN held : ShutDown(S)
  BY <1>4, ShutDownKeeps
<1> QED  BY <1>1, <1>2, <1>3, <1>4 DEF Next

\* The inductive invariant holds in every reachable state.
LEMMA Invariance == Spec => []IInv
BY InitInv, NextKeepsInv, PTL DEF Spec

(* The counter never leaves the width of its type, and the list and the    *)
(* connections hold identifiers only.                                      *)
THEOREM TypeCorrect == Spec => []TypeOK
BY Invariance, PTL DEF IInv

(* Every identifier handed out is held by one connection or waits in the   *)
(* pool once, never both, and no other is: get_id never hands out one that *)
(* is in use.                                                              *)
THEOREM NeverLostNorShared == Spec => []Partitioned
BY Invariance, PTL DEF IInv

\* The allocator's view: link_client names one connection.
LEMMA LinkAcquires ==
    ASSUME IInv, NEW c \in Holders, Link(c)
    PROVE  Allocator!Acquire
<1> DEFINE new == <<NextId, c>>
<1>1. Named' = Named \cup {new}
  <2>1. /\ DOMAIN held' = DOMAIN held \cup {c} /\ held'[c] = NextId
        /\ \A x \in DOMAIN held : held'[x] = held[x]
    BY LinkAdds
  <2>2. Named' \subseteq Named \cup {new}
    BY <2>1 DEF Named
  <2>3. Named \cup {new} \subseteq Named'
    BY <2>1 DEF Named
  <2> QED  BY <2>2, <2>3
<1>2. NextId \notin Used
  <2>1. CASE ids = <<>>
    <3>1. NextId = last /\ Used \subseteq 0 .. last - 1 /\ last \in Nat
      BY <2>1 DEF NextId, IInv, Partitioned, TypeOK
    <3> QED  BY <3>1
  <2>2. CASE ids # <<>>
    <3>1. ids \in Seq(0 .. IdSpace - 1) /\ \A i, j \in DOMAIN ids : ids[i] = ids[j] => i = j
      BY DEF IInv, TypeOK, Partitioned
    <3>2. Head(ids) \in ToSet(ids)
      BY <2>2, <3>1, TailOfDistinct
    <3> QED  BY <2>2, <3>2 DEF NextId, IInv, Partitioned
  <2> QED  BY <2>1, <2>2
<1>3. \A old \in Named : old[1] # new[1]
  BY <1>2 DEF Used, Named
<1> QED  BY <1>1, <1>3 DEF Allocator!Acquire

\* And letting go only takes names away.
LEMMA LetGoReleases ==
    ASSUME NEW order, LetGo(order)
    PROVE  Allocator!Release
BY DEF LetGo, Allocator!Release, Named

(* The pool and its callers implement the abstract allocator.              *)
THEOREM ImplementsAllocator == Spec => AllocatorSpec
<1>1. Init => Allocator!AInit
  BY DEF Init, Allocator!AInit, Named
<1>2. IInv /\ [Next]_vars => [Allocator!ANext]_Named
  <2> SUFFICES ASSUME IInv, [Next]_vars
               PROVE  Allocator!ANext \/ UNCHANGED Named
    OBVIOUS
  <2>1. CASE UNCHANGED vars
    BY <2>1 DEF vars, Named
  <2>2. CASE \E c \in Holders : Link(c)
    BY <2>2, LinkAcquires DEF Allocator!ANext
  <2>3. CASE \E c \in Holders : Unlink(c)
    BY <2>3, LetGoReleases DEF Unlink, Allocator!ANext
  <2>4. CASE \E S \in SUBSET DOMAIN held : ShutDown(S)
    BY <2>4, LetGoReleases DEF ShutDown, Allocator!ANext
  <2> QED  BY <2>1, <2>2, <2>3, <2>4 DEF Next
<1> QED  BY <1>1, <1>2, Invariance, PTL DEF Spec, AllocatorSpec, Allocator!ASpec
=============================================================================
