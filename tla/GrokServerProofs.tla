-------------------------- MODULE GrokServerProofs --------------------------
(***************************************************************************)
(* Theorems about GrokServer.  Its state keeps its types, identifiers are  *)
(* exclusive, and the server implements the allocator of IdAllocator.  The *)
(* users, the proxies, the loop's tables and the descriptors agree,        *)
(* however connections come, hang up, are asked to disconnect or fail to   *)
(* be accepted, and a descriptor that is closed leaves nothing behind.     *)
(* From that, about the pool: no identifier is lost, and the server        *)
(* implements the life cycle of IdLifecycle, as long as no failed accept   *)
(* overwrites the entry of an earlier one.                                 *)
(*                                                                         *)
(* All hold for every finite set of descriptors, all tunnels and visitors, *)
(* every width of identifiers and every bound on what peers send.          *)
(***************************************************************************)
EXTENDS GrokServer, FiniteSetTheorems, TLAPS

----------------------------------------------------------------------------
(* Partial functions.                                                      *)

\* A total function on a subset of A is a partial function of A (how unordered_map
\* entries are typed).
LEMMA MapsIntro ==
    ASSUME NEW A, NEW B, NEW D \in SUBSET A, NEW g \in [D -> B]
    PROVE  g \in Maps(A, B)
BY DEF Maps

\* What it means to be a partial function from A to B.
LEMMA MapsElim ==
    ASSUME NEW A, NEW B, NEW g \in Maps(A, B)
    PROVE  /\ DOMAIN g \subseteq A
           /\ g = [x \in DOMAIN g |-> g[x]]
           /\ \A x \in DOMAIN g : g[x] \in B
<1>1. PICK D \in SUBSET A : g \in [D -> B]
  BY DEF Maps
<1> QED  BY <1>1

\* Inserting an entry (map[x] = v) keeps a map of its type.
LEMMA PutType ==
    ASSUME NEW A, NEW B, NEW g \in Maps(A, B), NEW x \in A, NEW v \in B
    PROVE  Put(g, x, v) \in Maps(A, B)
<1>1. Put(g, x, v) \in [DOMAIN g \cup {x} -> B]
  BY MapsElim DEF Put
<1> QED  BY <1>1, MapsElim, MapsIntro

\* Erasing an entry (map.erase(x)) keeps a map of its type.
LEMMA WithoutType ==
    ASSUME NEW A, NEW B, NEW g \in Maps(A, B), NEW x
    PROVE  Without(g, x) \in Maps(A, B)
<1>1. Without(g, x) \in [DOMAIN g \ {x} -> B]
  BY MapsElim DEF Without
<1> QED  BY <1>1, MapsElim, MapsIntro

\* The map of a new or dead proxy is a map of every type.
LEMMA EmptyType == ASSUME NEW A, NEW B PROVE Empty \in Maps(A, B)
<1>1. Empty \in [{} -> B]
  BY DEF Empty
<1> QED  BY <1>1, MapsIntro

----------------------------------------------------------------------------
(* What the loop's calls leave behind is typed.                            *)

\* Loop::send leaves typed write queues, also for the -1 of a failed accept.
LEMMA QueuedType ==
    ASSUME QueueTypes, NEW f, NEW frame \in Outgoing
    PROVE  Queued(f, frame) \in [Fds -> Seq(Outgoing)]
<1>1. writeq \in [Fds -> Seq(Outgoing)]
  BY DEF QueueTypes
<1>2. \A g \in Fds : Append(writeq[g], frame) \in Seq(Outgoing)
  BY <1>1
<1> QED  BY <1>1, <1>2 DEF Queued

\* Loop::send leaves typed interests in epoll.
LEMMA WatchedType ==
    ASSUME QueueTypes, NEW f
    PROVE  Watched(f) \in [Fds -> SUBSET {"IN", "OUT"}]
BY DEF QueueTypes, Watched

\* Both together: Loop::send keeps the types of what it changes.
LEMMA SendTypes ==
    ASSUME QueueTypes, NEW f, NEW frame \in Outgoing, Send(f, frame)
    PROVE  /\ writeq' \in [Fds -> Seq(Outgoing)]
           /\ interest' \in [Fds -> SUBSET {"IN", "OUT"}]
BY QueuedType, WatchedType DEF Send

\* Whatever way an event of the batch ends, the batch stays typed.
LEMMA EventTypes ==
    ASSUME BatchTypes, NEW f \in Fds, NextEvent(f) \/ DropBatch \/ OutDone(f), UNCHANGED status
    PROVE  BatchTypes'
BY DEF BatchTypes, NextEvent, DropBatch, OutDone, NoEvents

\* An exception out of Loop::run changes only the status.
LEMMA ThrowTypes ==
    ASSUME TypeOK, UNCHANGED serverVars,
           NEW what \in {"EmptyQueue::READ", "EmptyQueue::WRITE", "out_of_range",
                         "SysError", "undefined"},
           Throw(what)
    PROVE  TypeOK'
BY DEF TypeOK, Throw, NetTypes, TableTypes, QueueTypes, BatchTypes, SessionTypes, MapTypes,
       PoolTypes, netVars, tableVars, queueVars, batchVars, serverVars, proxyVars, poolVars

\* Loop::force_disconnect of any set of descriptors keeps the sockets and queues typed.
LEMMA CloseAllTypes ==
    ASSUME NetTypes, TableTypes, NEW S,
           NEW r \in [Conns -> Seq(Incoming)],
           NEW q \in [Fds -> Seq({"READ", "CAPTURE"})],
           NEW w \in [Fds -> Seq(Outgoing)],
           NEW i \in [Fds -> SUBSET {"IN", "OUT"}],
           CloseAll(S, r, q, w, i)
    PROVE  NetTypes' /\ QueueTypes' /\ linked' \in [Fds \cup {BadFd} -> Fds \cup {None}]
<1>1. NetTypes'
  BY DEF NetTypes, CloseAll
<1>2. QueueTypes'
  BY DEF QueueTypes, CloseAll
<1>3. linked' \in [Fds \cup {BadFd} -> Fds \cup {None}]
  BY DEF TableTypes, CloseAll
<1> QED  BY <1>1, <1>2, <1>3

\* IdPool::get_id returns an identifier of the type.
LEMMA NextIdType == ASSUME PoolTypes PROVE NextId \in Ids
BY DEF PoolTypes, NextId

\* IdPool::get_id keeps the pool typed: last++ wraps at the width of the type.
LEMMA GetIdTypes == ASSUME PoolTypes, GetId PROVE PoolTypes'
<1>1. CASE ids = <<>>
  BY <1>1, IdSpaceAssumption DEF PoolTypes, GetId, Ids
<1>2. CASE ids # <<>>
  BY <1>2 DEF PoolTypes, GetId
<1> QED  BY <1>1, <1>2

\* IdPool::remove_id, repeated, keeps the pool typed.
LEMMA RemoveIdsTypes ==
    ASSUME PoolTypes, NEW returned \in Seq(Ids), RemoveIds(returned)
    PROVE  PoolTypes'
BY DEF PoolTypes, RemoveIds

\* GrokProxy::link_client keeps the two maps and the pool typed.
LEMMA LinkClientTypes ==
    ASSUME MapTypes, PoolTypes, NEW p \in Fds, NEW f \in Fds \cup {BadFd}, LinkClient(p, f)
    PROVE  MapTypes' /\ PoolTypes'
<1>1. PoolTypes'
  BY GetIdTypes DEF LinkClient
<1>2. /\ Put(sock_to_id[p], f, NextId) \in Maps(Fds \cup {BadFd}, Ids)
      /\ Put(id_to_sock[p], NextId, f) \in Maps(Ids, Fds \cup {BadFd})
  BY PutType, NextIdType DEF MapTypes
<1>3. MapTypes'
  BY <1>2 DEF MapTypes, LinkClient
<1> QED  BY <1>1, <1>3

\* The packet process_message gets is one a peer sent, and what is left is typed.
LEMMA HeadType ==
    ASSUME TypeOK, NEW f \in Fds, NEW m, Request(f, m)
    PROVE  /\ m \in Incoming
           /\ Consumed(f) \in [Conns -> Seq(Incoming)]
           /\ NewMessage(f) \in [Fds -> Seq({"READ", "CAPTURE"})]
<1>1. sock[f] \in Conns /\ rx[sock[f]] \in Seq(Incoming) /\ rx[sock[f]] # <<>>
  BY DEF TypeOK, NetTypes, Request
<1>2. m \in Incoming /\ Tail(rx[sock[f]]) \in Seq(Incoming)
  BY <1>1 DEF Request
<1>3. Consumed(f) \in [Conns -> Seq(Incoming)]
  BY <1>1, <1>2 DEF TypeOK, NetTypes, Consumed
<1>4. readq[f] \in Seq({"READ", "CAPTURE"}) /\ readq[f] # <<>>
  BY DEF TypeOK, QueueTypes, Request
<1>5. Append(Tail(readq[f]), "READ") \in Seq({"READ", "CAPTURE"})
  BY <1>4
<1>6. NewMessage(f) \in [Fds -> Seq({"READ", "CAPTURE"})]
  BY <1>5 DEF TypeOK, QueueTypes, NewMessage
<1> QED  BY <1>2, <1>3, <1>6

----------------------------------------------------------------------------
(* Every action keeps the types: connections.                              *)

\* The accepting half of Loop::run keeps types.
LEMMA AcceptTypes ==
    ASSUME TypeOK, NEW l \in Fds, NEW c \in Conns, NEW f \in Fds,
           NEW item \in {"READ", "CAPTURE"}, NEW register \in BOOLEAN,
           Accepted(l, c, f, item, register)
    PROVE  NetTypes' /\ TableTypes' /\ readq' \in [Fds -> Seq({"READ", "CAPTURE"})]
<1>1. NetTypes'
  BY DEF TypeOK, NetTypes, Accepted
<1>2. TableTypes'
  BY DEF TypeOK, TableTypes, Accepted
<1>3. readq' \in [Fds -> Seq({"READ", "CAPTURE"})]
  <2>1. readq[f] \in Seq({"READ", "CAPTURE"})
    BY DEF TypeOK, QueueTypes
  <2>2. Append(readq[f], item) \in Seq({"READ", "CAPTURE"})
    BY <2>1
  <2> QED  BY <2>2 DEF TypeOK, QueueTypes, Accepted
<1> QED  BY <1>1, <1>2, <1>3

\* The accepting half of Loop::run keeps types when accept returns -1.
LEMMA AcceptFailedTypes ==
    ASSUME TypeOK, NEW l \in Fds, NEW register \in BOOLEAN, AcceptFailed(l, register)
    PROVE  NetTypes' /\ TableTypes' /\ readq' \in [Fds -> Seq({"READ", "CAPTURE"})]
<1>1. NetTypes' /\ readq' \in [Fds -> Seq({"READ", "CAPTURE"})]
  BY DEF TypeOK, NetTypes, QueueTypes, AcceptFailed, netVars
<1>2. TableTypes'
  BY DEF TypeOK, TableTypes, AcceptFailed
<1> QED  BY <1>1, <1>2

\* What leaves the observers alone keeps their types.
LEMMA ServerVarsTypes ==
    ASSUME TypeOK, UNCHANGED serverVars
    PROVE  SessionTypes' /\ MapTypes' /\ PoolTypes'
BY DEF TypeOK, SessionTypes, MapTypes, PoolTypes, serverVars, proxyVars, poolVars

\* FreeGrok::on_connect keeps types.
LEMMA AcceptTunnelKeepsTypes == ASSUME TypeOK, AcceptTunnel PROVE TypeOK'
<1>1. PICK c \in Tunnels, f \in Fds :
        /\ Accepted(Main, c, f, "READ", TRUE)
        /\ interest' = [interest EXCEPT ![f] = {"IN"}]
  BY DEF AcceptTunnel
<1>2. NetTypes' /\ TableTypes' /\ readq' \in [Fds -> Seq({"READ", "CAPTURE"})]
  BY <1>1, AcceptTypes, LoopAssumption, ServerAssumption
<1>3. QueueTypes'
  BY <1>1, <1>2 DEF TypeOK, QueueTypes, AcceptTunnel
<1>4. BatchTypes'
  BY EventTypes, LoopAssumption DEF TypeOK, AcceptTunnel
<1>5. SessionTypes' /\ MapTypes' /\ PoolTypes'
  BY ServerVarsTypes DEF AcceptTunnel
<1> QED  BY <1>2, <1>3, <1>4, <1>5 DEF TypeOK

\* FreeGrok::on_connect keeps types when accept fails.
LEMMA AcceptTunnelFailsKeepsTypes == ASSUME TypeOK, AcceptTunnelFails PROVE TypeOK'
<1>1. NetTypes' /\ TableTypes' /\ readq' \in [Fds -> Seq({"READ", "CAPTURE"})]
  BY AcceptFailedTypes, LoopAssumption DEF AcceptTunnelFails
<1>2. QueueTypes'
  BY <1>1 DEF TypeOK, QueueTypes, AcceptTunnelFails
<1>3. BatchTypes'
  BY EventTypes, LoopAssumption DEF TypeOK, AcceptTunnelFails
<1>4. SessionTypes' /\ MapTypes' /\ PoolTypes'
  BY ServerVarsTypes DEF AcceptTunnelFails
<1> QED  BY <1>1, <1>2, <1>3, <1>4 DEF TypeOK

\* GrokProxy::on_connect keeps types, registering or not.
LEMMA AcceptVisitorKeepsTypes ==
    ASSUME TypeOK, NEW p \in Fds, NEW register \in BOOLEAN, AcceptVisitor(p, register)
    PROVE  TypeOK'
<1>1. PICK c \in Visitors, f \in Fds :
        /\ Accepted(p, c, f, "CAPTURE", register)
        /\ LinkClient(p, f)
        /\ writeq' = Queued(initiator[p], Packet("CONNECTED", NextId, c))
        /\ interest' = IF register THEN [Watched(initiator[p]) EXCEPT ![f] = {"IN"}]
                                   ELSE Watched(initiator[p])
  BY DEF AcceptVisitor
<1>2. NetTypes' /\ TableTypes' /\ readq' \in [Fds -> Seq({"READ", "CAPTURE"})]
  BY <1>1, AcceptTypes, ServerAssumption
<1>3. Packet("CONNECTED", NextId, c) \in Outgoing
  BY NextIdType, ServerAssumption DEF TypeOK, Packet, Outgoing, Whom
<1>4. QueueTypes'
  <2>1. writeq' \in [Fds -> Seq(Outgoing)]
    BY <1>1, <1>3, QueuedType DEF TypeOK
  <2>2. Watched(initiator[p]) \in [Fds -> SUBSET {"IN", "OUT"}]
    BY WatchedType DEF TypeOK
  <2>3. interest' \in [Fds -> SUBSET {"IN", "OUT"}]
    BY <1>1, <2>2
  <2> QED  BY <1>2, <2>1, <2>3 DEF QueueTypes
<1>5. BatchTypes'
  BY EventTypes DEF TypeOK, AcceptVisitor
<1>6. MapTypes' /\ PoolTypes'
  BY <1>1, LinkClientTypes DEF TypeOK
<1>7. SessionTypes'
  BY DEF TypeOK, SessionTypes, AcceptVisitor
<1> QED  BY <1>2, <1>4, <1>5, <1>6, <1>7 DEF TypeOK

\* GrokProxy::on_connect keeps types when accept fails.
LEMMA AcceptVisitorFailsKeepsTypes ==
    ASSUME TypeOK, NEW p \in Fds, NEW register \in BOOLEAN, AcceptVisitorFails(p, register)
    PROVE  TypeOK'
<1>1. NetTypes' /\ TableTypes' /\ readq' \in [Fds -> Seq({"READ", "CAPTURE"})]
  BY AcceptFailedTypes DEF AcceptVisitorFails
<1>2. Packet("CONNECTED", NextId, BadFd) \in Outgoing
  BY NextIdType DEF TypeOK, Packet, Outgoing, Whom
<1>3. QueueTypes'
  BY <1>1, <1>2, SendTypes DEF TypeOK, QueueTypes, AcceptVisitorFails
<1>4. BatchTypes'
  BY EventTypes DEF TypeOK, AcceptVisitorFails
<1>5. MapTypes' /\ PoolTypes'
  BY LinkClientTypes DEF TypeOK, AcceptVisitorFails
<1>6. SessionTypes'
  BY DEF TypeOK, SessionTypes, AcceptVisitorFails
<1> QED  BY <1>1, <1>3, <1>4, <1>5, <1>6 DEF TypeOK

----------------------------------------------------------------------------
(* Hangups.                                                                *)

\* The identifiers GrokProxy::shutdown returns, in the order it meets them.
Returned(p, order) == [i \in DOMAIN order |-> sock_to_id[p][order[i]]]

\* GrokProxy::shutdown meets each entry of sock_to_id once, in some order, and so
\* returns a finite sequence of identifiers.
LEMMA OrderIsSequence ==
    ASSUME MapTypes, NEW p \in Fds, NEW order \in SetToSeqs(DOMAIN sock_to_id[p])
    PROVE  \E n \in Nat :
             /\ order \in [1 .. n -> DOMAIN sock_to_id[p]]
             /\ Returned(p, order) \in [1 .. n -> Ids]
             /\ \A i, j \in 1 .. n : order[i] = order[j] => i = j
<1> DEFINE S == DOMAIN sock_to_id[p]
<1>1. /\ S \subseteq Fds \cup {BadFd}
      /\ \A f \in S : sock_to_id[p][f] \in Ids
  BY MapsElim DEF MapTypes
<1>2. IsFiniteSet(S)
  <2>1. IsFiniteSet(Fds \cup {BadFd})
    BY ServerAssumption, FS_AddElement
  <2> QED  BY <1>1, <2>1, FS_Subset
<1>3. Cardinality(S) \in Nat
  BY <1>2, FS_CardinalityType
<1>4. /\ order \in [1 .. Cardinality(S) -> S]
      /\ \A i, j \in 1 .. Cardinality(S) : order[i] = order[j] => i = j
  BY DEF SetToSeqs
<1>5. Returned(p, order) \in [1 .. Cardinality(S) -> Ids]
  BY <1>1, <1>4 DEF Returned
<1> QED  BY <1>3, <1>4, <1>5

\* What GrokProxy::shutdown returns is a sequence of identifiers.
LEMMA ReturnedType ==
    ASSUME MapTypes, NEW p \in Fds, NEW order \in SetToSeqs(DOMAIN sock_to_id[p])
    PROVE  Returned(p, order) \in Seq(Ids)
<1>1. PICK n \in Nat : Returned(p, order) \in [1 .. n -> Ids]
  BY OrderIsSequence
<1> QED  BY <1>1

\* FreeGrok::on_disconnect of a tunnel with a proxy keeps types.
LEMMA TunnelHangUpKeepsTypes ==
    ASSUME TypeOK, NEW f \in Fds, TunnelHangUp(f)
    PROVE  TypeOK'
<1> DEFINE p == users[f].server
<1>1. p \in Fds
  BY DEF TypeOK, SessionTypes, TunnelHangUp
<1>2. NetTypes' /\ QueueTypes' /\ linked' \in [Fds \cup {BadFd} -> Fds \cup {None}]
  <2>1. CloseAll({f, p} \cup clients[p], rx, readq, writeq, interest)
    BY DEF TunnelHangUp
  <2> QED  BY <2>1, CloseAllTypes DEF TypeOK, NetTypes, QueueTypes
<1>3. TableTypes'
  <2>1. observers' \in SUBSET Fds
    BY DEF TypeOK, TableTypes, TunnelHangUp
  <2>2. clients' = [clients EXCEPT ![p] = {}, ![Main] = @ \ {f}]
    BY DEF TunnelHangUp
  <2>3. clients' \in [Fds -> SUBSET (Fds \cup {BadFd})]
    BY <1>1, <2>2, LoopAssumption DEF TypeOK, TableTypes
  <2> QED  BY <1>2, <2>1, <2>3 DEF TableTypes
<1>4. BatchTypes'
  BY EventTypes DEF TypeOK, TunnelHangUp
<1>5. SessionTypes'
  BY DEF TypeOK, SessionTypes, TunnelHangUp, NoUser
<1>6. MapTypes'
  <2>1. /\ sock_to_id' = [sock_to_id EXCEPT ![p] = Empty]
        /\ id_to_sock' = [id_to_sock EXCEPT ![p] = Empty]
    BY DEF TunnelHangUp
  <2> QED  BY <2>1, EmptyType DEF TypeOK, MapTypes
<1>7. PoolTypes'
  <2>1. PICK order \in SetToSeqs(DOMAIN sock_to_id[p]) : RemoveIds(Returned(p, order))
    BY DEF TunnelHangUp, Returned
  <2> QED  BY <1>1, <2>1, ReturnedType, RemoveIdsTypes DEF TypeOK
<1> QED  BY <1>2, <1>3, <1>4, <1>5, <1>6, <1>7 DEF TypeOK

\* FreeGrok::on_disconnect of a tunnel without one keeps types.
LEMMA IdleTunnelHangUpKeepsTypes ==
    ASSUME TypeOK, NEW f \in Fds, IdleTunnelHangUp(f)
    PROVE  TypeOK'
<1>1. NetTypes' /\ QueueTypes' /\ linked' \in [Fds \cup {BadFd} -> Fds \cup {None}]
  BY CloseAllTypes DEF TypeOK, NetTypes, QueueTypes, IdleTunnelHangUp
<1>2. TableTypes'
  BY <1>1, LoopAssumption DEF TypeOK, TableTypes, IdleTunnelHangUp
<1>3. BatchTypes'
  BY EventTypes DEF TypeOK, IdleTunnelHangUp
<1>4. SessionTypes' /\ MapTypes' /\ PoolTypes'
  BY ServerVarsTypes DEF IdleTunnelHangUp
<1> QED  BY <1>1, <1>2, <1>3, <1>4 DEF TypeOK

\* GrokProxy::on_disconnect keeps types.
LEMMA VisitorHangUpKeepsTypes ==
    ASSUME TypeOK, NEW f \in Fds, VisitorHangUp(f)
    PROVE  TypeOK'
<1> DEFINE p == linked[f]
           id == sock_to_id[p][f]
           t == initiator[p]
<1>1. /\ p \in Fds /\ f \in DOMAIN sock_to_id[p]
      /\ RemoveIds(<<id>>)
      /\ sock_to_id' = [sock_to_id EXCEPT ![p] = Without(@, f)]
      /\ id_to_sock' = [id_to_sock EXCEPT ![p] = Without(@, id)]
      /\ CloseAll({f}, rx, readq, Queued(t, Packet("DISCONNECT", id, None)), Watched(t))
      /\ clients' = [clients EXCEPT ![p] = @ \ {f}]
  BY DEF TypeOK, TableTypes, VisitorHangUp, Proxies
<1>2. id \in Ids
  BY <1>1, MapsElim DEF TypeOK, MapTypes
<1>3. Packet("DISCONNECT", id, None) \in Outgoing
  BY <1>2 DEF Packet, Outgoing, Whom
<1>4. /\ Queued(t, Packet("DISCONNECT", id, None)) \in [Fds -> Seq(Outgoing)]
      /\ Watched(t) \in [Fds -> SUBSET {"IN", "OUT"}]
  BY <1>3, QueuedType, WatchedType DEF TypeOK
<1>5. NetTypes' /\ QueueTypes' /\ linked' \in [Fds \cup {BadFd} -> Fds \cup {None}]
  BY <1>1, <1>4, CloseAllTypes DEF TypeOK, NetTypes, QueueTypes
<1>6. TableTypes'
  BY <1>1, <1>5 DEF TypeOK, TableTypes, VisitorHangUp
<1>7. BatchTypes'
  BY EventTypes DEF TypeOK, VisitorHangUp
<1>8. SessionTypes'
  BY DEF TypeOK, SessionTypes, VisitorHangUp
<1>9. MapTypes'
  BY <1>1, WithoutType DEF TypeOK, MapTypes
<1>10. PoolTypes'
  <2>1. <<id>> \in Seq(Ids)
    BY <1>2
  <2> QED  BY <1>1, <2>1, RemoveIdsTypes DEF TypeOK
<1> QED  BY <1>5, <1>6, <1>7, <1>8, <1>9, <1>10 DEF TypeOK

\* GrokProxy::on_disconnect keeps types when sock_to_id.at throws.
LEMMA UnknownHangUpKeepsTypes ==
    ASSUME TypeOK, NEW f \in Fds, UnknownHangUp(f)
    PROVE  TypeOK'
<1>1. UNCHANGED serverVars
  BY DEF UnknownHangUp
<1> QED  BY <1>1, ThrowTypes DEF UnknownHangUp

----------------------------------------------------------------------------
(* Requests.                                                               *)

\* A request of process_message that only sends a frame keeps types.
LEMMA AnswerKeepsTypes ==
    ASSUME TypeOK, NEW f \in Fds, NEW m, Request(f, m), NEW frame \in Outgoing, Answer(f, frame)
    PROVE  TypeOK'
<1>1. NetTypes'
  BY HeadType DEF TypeOK, NetTypes, Answer
<1>2. TableTypes'
  BY DEF TypeOK, TableTypes, Answer, tableVars
<1>3. QueueTypes'
  BY HeadType, SendTypes DEF TypeOK, QueueTypes, Answer
<1>4. BatchTypes'
  BY EventTypes DEF TypeOK, Answer
<1>5. SessionTypes' /\ MapTypes' /\ PoolTypes'
  BY ServerVarsTypes DEF Answer
<1> QED  BY <1>1, <1>2, <1>3, <1>4, <1>5 DEF TypeOK

\* There is at least one identifier.
LEMMA ZeroIsAnId == 0 \in Ids
BY IdSpaceAssumption DEF Ids

\* process_message keeps types when it answers GROK_ERROR.
LEMMA RefuseKeepsTypes ==
    ASSUME TypeOK, NEW f \in Fds, NEW m, Refuse(f, m)
    PROVE  TypeOK'
<1>1. PICK error \in Errors : Answer(f, Packet(error, 0, None))
  BY DEF Refuse
<1>2. Packet(error, 0, None) \in Outgoing
  BY ZeroIsAnId DEF Packet, Outgoing, Whom
<1> QED  BY <1>1, <1>2, AnswerKeepsTypes DEF Refuse

\* GROK_PING keeps types.
LEMMA HandlePingKeepsTypes ==
    ASSUME TypeOK, NEW f \in Fds, NEW m, HandlePing(f, m)
    PROVE  TypeOK'
<1>1. Packet("PING", 0, None) \in Outgoing
  BY ZeroIsAnId DEF Packet, Outgoing, Whom
<1> QED  BY <1>1, AnswerKeepsTypes DEF HandlePing

\* GROK_AUTH keeps types.
LEMMA HandleAuthKeepsTypes ==
    ASSUME TypeOK, NEW f \in Fds, NEW m, HandleAuth(f, m)
    PROVE  TypeOK'
<1>1. NetTypes'
  BY HeadType DEF TypeOK, NetTypes, HandleAuth
<1>2. TableTypes'
  BY DEF TypeOK, TableTypes, HandleAuth, tableVars
<1>3. QueueTypes'
  BY HeadType DEF TypeOK, QueueTypes, HandleAuth
<1>4. BatchTypes'
  BY EventTypes DEF TypeOK, HandleAuth
<1>5. SessionTypes'
  BY DEF TypeOK, SessionTypes, HandleAuth, proxyVars
<1>6. MapTypes' /\ PoolTypes'
  BY DEF TypeOK, MapTypes, PoolTypes, HandleAuth, proxyVars, poolVars
<1> QED  BY <1>1, <1>2, <1>3, <1>4, <1>5, <1>6 DEF TypeOK

\* GROK_CREATE_SERVER keeps types.
LEMMA HandleCreateKeepsTypes ==
    ASSUME TypeOK, NEW f \in Fds, NEW m, NEW p \in Fds, HandleCreate(f, m, p)
    PROVE  TypeOK'
<1>1. NetTypes'
  BY HeadType DEF TypeOK, NetTypes, HandleCreate
<1>2. TableTypes'
  BY DEF TypeOK, TableTypes, HandleCreate
<1>3. QueueTypes'
  <2>1. Packet("CREATE_SERVER", 0, None) \in Outgoing
    BY ZeroIsAnId DEF Packet, Outgoing, Whom
  <2>2. writeq' \in [Fds -> Seq(Outgoing)]
    BY <2>1, QueuedType DEF TypeOK, HandleCreate
  <2>3. interest' = [Watched(f) EXCEPT ![p] = {"IN"}]
    BY DEF HandleCreate
  <2>4. interest' \in [Fds -> SUBSET {"IN", "OUT"}]
    BY <2>3, WatchedType DEF TypeOK
  <2>5. readq' \in [Fds -> Seq({"READ", "CAPTURE"})]
    BY HeadType DEF HandleCreate
  <2> QED  BY <2>2, <2>4, <2>5 DEF QueueTypes
<1>4. BatchTypes'
  BY EventTypes DEF TypeOK, HandleCreate
<1>5. SessionTypes'
  BY DEF TypeOK, SessionTypes, HandleCreate
<1>6. MapTypes'
  BY EmptyType DEF TypeOK, MapTypes, HandleCreate
<1>7. PoolTypes'
  BY DEF TypeOK, PoolTypes, HandleCreate, poolVars
<1> QED  BY <1>1, <1>2, <1>3, <1>4, <1>5, <1>6, <1>7 DEF TypeOK

\* GROK_CREATE_SERVER keeps types when post_init throws.
LEMMA CreateThrowsKeepsTypes ==
    ASSUME TypeOK, NEW f \in Fds, NEW m, CreateThrows(f, m)
    PROVE  TypeOK'
<1>1. UNCHANGED serverVars
  BY DEF CreateThrows
<1> QED  BY <1>1, ThrowTypes DEF CreateThrows

\* GROK_PACKET keeps types.
LEMMA HandlePacketKeepsTypes ==
    ASSUME TypeOK, NEW f \in Fds, NEW m, HandlePacket(f, m)
    PROVE  TypeOK'
<1> DEFINE g == id_to_sock[users[f].server][m.arg]
<1>1. Request(f, m)
  BY DEF HandlePacket
<1>2. Packet("DATA", 0, m.who) \in Outgoing
  BY <1>1, HeadType, ZeroIsAnId DEF Incoming, Packet, Outgoing
<1>3. NetTypes'
  BY <1>1, HeadType DEF TypeOK, NetTypes, HandlePacket
<1>4. TableTypes'
  BY DEF TypeOK, TableTypes, HandlePacket, tableVars
<1>5. QueueTypes'
  <2>1. readq' \in [Fds -> Seq({"READ", "CAPTURE"})]
    BY <1>1, HeadType DEF HandlePacket
  <2>2. CASE g = BadFd
    BY <2>1, <2>2 DEF TypeOK, QueueTypes, HandlePacket
  <2>3. CASE g # BadFd
    BY <1>2, <2>1, <2>3, SendTypes DEF TypeOK, QueueTypes, HandlePacket
  <2> QED  BY <2>2, <2>3
<1>6. BatchTypes'
  BY EventTypes DEF TypeOK, HandlePacket
<1>7. SessionTypes' /\ MapTypes' /\ PoolTypes'
  BY ServerVarsTypes DEF HandlePacket
<1> QED  BY <1>3, <1>4, <1>5, <1>6, <1>7 DEF TypeOK

\* GROK_DISCONNECT keeps types.
LEMMA HandleDisconnectKeepsTypes ==
    ASSUME TypeOK, NEW f \in Fds, NEW m, HandleDisconnect(f, m)
    PROVE  TypeOK'
<1> DEFINE p == users[f].server
           g == id_to_sock[p][m.arg]
           closed == {x \in {g} : linked[x] # None}
<1>1. /\ Request(f, m) /\ HasServer(f) /\ HasClient(f, m.arg)
      /\ RemoveIds(<<m.arg>>)
      /\ sock_to_id' = [sock_to_id EXCEPT ![p] = Without(@, g)]
      /\ id_to_sock' = [id_to_sock EXCEPT ![p] = Without(@, m.arg)]
      /\ clients' = [q \in Fds |-> IF q = linked[g] THEN clients[q] \ {g} ELSE clients[q]]
      /\ CloseAll(closed, Consumed(f), NewMessage(f), writeq, interest)
  BY DEF HandleDisconnect
<1>2. NetTypes' /\ QueueTypes' /\ linked' \in [Fds \cup {BadFd} -> Fds \cup {None}]
  BY <1>1, HeadType, CloseAllTypes DEF TypeOK, QueueTypes
<1>3. TableTypes'
  BY <1>1, <1>2, ZenonT(60) DEF TypeOK, TableTypes, HandleDisconnect
<1>4. BatchTypes'
  BY EventTypes DEF TypeOK, HandleDisconnect
<1>5. SessionTypes'
  BY DEF TypeOK, SessionTypes, HandleDisconnect
<1>6. MapTypes'
  BY <1>1, WithoutType DEF TypeOK, MapTypes
<1>7. PoolTypes'
  <2>1. m.arg \in Ids
    BY <1>1, HeadType DEF Incoming
  <2>2. <<m.arg>> \in Seq(Ids)
    BY <2>1
  <2> QED  BY <1>1, <2>2, RemoveIdsTypes DEF TypeOK
<1> QED  BY <1>2, <1>3, <1>4, <1>5, <1>6, <1>7 DEF TypeOK

----------------------------------------------------------------------------
(* Data, the loop's own steps and the peers.                               *)

\* GrokProxy::on_received keeps types.
LEMMA VisitorDataKeepsTypes ==
    ASSUME TypeOK, NEW f \in Fds, VisitorData(f)
    PROVE  TypeOK'
<1> DEFINE c == sock[f]
           p == linked[f]
<1>1. p \in Fds /\ c \in Conns
  BY DEF TypeOK, TableTypes, VisitorData, Capture, Proxies
<1>2. /\ rx' \in [Conns -> Seq(Incoming)] /\ writeq' \in [Fds -> Seq(Outgoing)]
      /\ interest' \in [Fds -> SUBSET {"IN", "OUT"}]
  <2>1. CASE f \in DOMAIN sock_to_id[p]
    <3>1. sock_to_id[p][f] \in Ids
      BY <1>1, <2>1, MapsElim DEF TypeOK, MapTypes
    <3>2. Packet("PACKET", sock_to_id[p][f], c) \in Outgoing
      BY <1>1, <3>1 DEF Packet, Outgoing, Whom
    <3>3. /\ Send(initiator[p], Packet("PACKET", sock_to_id[p][f], c))
          /\ rx' = IF rx[c] = <<>> THEN rx ELSE [rx EXCEPT ![c] = Tail(@)]
      BY <2>1 DEF VisitorData
    <3>4. rx[c] \in Seq(Incoming) /\ rx \in [Conns -> Seq(Incoming)]
      BY <1>1 DEF TypeOK, NetTypes
    <3>5. rx[c] # <<>> => Tail(rx[c]) \in Seq(Incoming)
      BY <3>4
    <3>6. rx' \in [Conns -> Seq(Incoming)]
      BY <3>3, <3>4, <3>5
    <3> QED  BY <3>2, <3>3, <3>6, SendTypes DEF TypeOK
  <2>2. CASE f \notin DOMAIN sock_to_id[p]
    BY <2>2 DEF TypeOK, NetTypes, QueueTypes, VisitorData
  <2> QED  BY <2>1, <2>2
<1>3. NetTypes'
  BY <1>2 DEF TypeOK, NetTypes, VisitorData
<1>4. TableTypes'
  BY DEF TypeOK, TableTypes, VisitorData, tableVars
<1>5. QueueTypes'
  BY <1>2 DEF TypeOK, QueueTypes, VisitorData
<1>6. BatchTypes'
  BY EventTypes DEF TypeOK, VisitorData
<1>7. SessionTypes' /\ MapTypes' /\ PoolTypes'
  BY ServerVarsTypes DEF VisitorData
<1> QED  BY <1>3, <1>4, <1>5, <1>6, <1>7 DEF TypeOK

\* GrokProxy::on_received keeps types when recv fails.
LEMMA VisitorDataFailsKeepsTypes ==
    ASSUME TypeOK, NEW f \in Fds, VisitorDataFails(f)
    PROVE  TypeOK'
<1>1. UNCHANGED serverVars
  BY DEF VisitorDataFails
<1> QED  BY <1>1, ThrowTypes DEF VisitorDataFails

\* Loop::perform_write_queue keeps types, however much send takes.
LEMMA WriteKeepsTypes ==
    ASSUME TypeOK, NEW f \in Fds, NEW n \in Nat, Write(f, n), UNCHANGED serverVars
    PROVE  TypeOK'
<1>1. SubSeq(writeq[f], n + 1, Len(writeq[f])) \in Seq(Outgoing)
  <2>1. writeq[f] \in Seq(Outgoing)
    BY DEF TypeOK, QueueTypes
  <2> QED  BY <2>1
<1>2. QueueTypes'
  BY <1>1 DEF TypeOK, QueueTypes, Write
<1>3. BatchTypes'
  BY EventTypes DEF TypeOK, Write
<1>4. NetTypes' /\ TableTypes'
  BY DEF TypeOK, NetTypes, TableTypes, Write, netVars, tableVars
<1>5. SessionTypes' /\ MapTypes' /\ PoolTypes'
  BY ServerVarsTypes
<1> QED  BY <1>2, <1>3, <1>4, <1>5 DEF TypeOK

\* The steps of Loop::run that call no observer keep types.
LEMMA LoopStepKeepsTypes ==
    ASSUME TypeOK, NEW f \in Fds, LoopStep(f)
    PROVE  TypeOK'
<1>1. UNCHANGED serverVars
  BY DEF LoopStep
<1>2. SessionTypes' /\ MapTypes' /\ PoolTypes'
  BY <1>1, ServerVarsTypes
<1>3. CASE ThrowOnEvent(f)
  BY <1>1, <1>3, ThrowTypes DEF ThrowOnEvent
<1>4. CASE StaleHangup(f)
  <2>1. NetTypes' /\ TableTypes' /\ QueueTypes'
    BY <1>4 DEF TypeOK, NetTypes, TableTypes, QueueTypes, StaleHangup, netVars, tableVars, queueVars
  <2>2. BatchTypes'
    BY <1>4, EventTypes DEF TypeOK, StaleHangup
  <2> QED  BY <1>2, <2>1, <2>2 DEF TypeOK
<1>5. CASE WriteFails(f)
  <2>1. NetTypes' /\ TableTypes'
    BY <1>5 DEF TypeOK, NetTypes, TableTypes, WriteFails, netVars, tableVars
  <2>2. QueueTypes'
    BY <1>5 DEF TypeOK, QueueTypes, WriteFails
  <2>3. BatchTypes'
    BY <1>5, EventTypes DEF TypeOK, WriteFails
  <2> QED  BY <1>2, <2>1, <2>2, <2>3 DEF TypeOK
<1>6. CASE ReadFails(f)
  <2>1. NetTypes' /\ TableTypes'
    BY <1>6 DEF TypeOK, NetTypes, TableTypes, ReadFails, netVars, tableVars
  <2>2. QueueTypes'
    BY <1>6 DEF TypeOK, QueueTypes, ReadFails
  <2>3. BatchTypes'
    BY <1>6, EventTypes DEF TypeOK, ReadFails
  <2> QED  BY <1>2, <2>1, <2>2, <2>3 DEF TypeOK
<1>7. CASE ReadPart(f)
  <2>1. NetTypes' /\ TableTypes' /\ QueueTypes'
    BY <1>7 DEF TypeOK, NetTypes, TableTypes, QueueTypes, ReadPart, netVars, tableVars, queueVars
  <2>2. BatchTypes'
    BY <1>7, EventTypes DEF TypeOK, ReadPart
  <2> QED  BY <1>2, <2>1, <2>2 DEF TypeOK
<1> QED  BY <1>3, <1>4, <1>5, <1>6, <1>7 DEF LoopStep

\* Selector::wait keeps types.
LEMMA EpollWaitKeepsTypes ==
    ASSUME TypeOK, EpollWait, UNCHANGED serverVars
    PROVE  TypeOK'
<1>1. NetTypes' /\ TableTypes' /\ QueueTypes'
  BY DEF TypeOK, NetTypes, TableTypes, QueueTypes, EpollWait, netVars, tableVars, queueVars
<1>2. \A f \in Fds : \A W : Reported(f, W) \subseteq {"IN", "OUT", "HUP"}
  BY DEF Reported
<1>3. PICK W : pending' = [f \in Fds |-> Reported(f, W)]
  BY DEF EpollWait
<1>4. BatchTypes'
  BY <1>2, <1>3 DEF TypeOK, BatchTypes, EpollWait
<1>5. SessionTypes' /\ MapTypes' /\ PoolTypes'
  BY ServerVarsTypes
<1> QED  BY <1>1, <1>4, <1>5 DEF TypeOK

\* What peers do keeps types.
LEMMA PeersKeepTypes == ASSUME TypeOK, Peers PROVE TypeOK'
<1>1. UNCHANGED serverVars
  BY DEF Peers, TunnelConnects, VisitorConnects, HangsUp, ResetsConnection, VisitorSends,
         TunnelAsks, TunnelNames
<1>2. SessionTypes' /\ MapTypes' /\ PoolTypes'
  BY <1>1, ServerVarsTypes
<1>3. CASE UNCHANGED <<tableVars, queueVars, batchVars, status>> /\ NetTypes'
  BY <1>2, <1>3 DEF TypeOK, TableTypes, QueueTypes, BatchTypes, tableVars, queueVars, batchVars
<1>4. CASE \E c \in Conns, l \in Fds : PeerConnects(c, l)
  <2>1. NetTypes'
    BY <1>4 DEF TypeOK, NetTypes, PeerConnects
  <2> QED  BY <1>3, <1>4, <2>1 DEF PeerConnects
<1>5. CASE \E c \in Conns : PeerCloses(c) \/ PeerResets(c)
  <2>1. NetTypes'
    BY <1>5 DEF TypeOK, NetTypes, PeerCloses, PeerResets
  <2> QED  BY <1>3, <1>5, <2>1 DEF PeerCloses, PeerResets
<1>6. CASE \E c \in Conns, data \in Incoming : PeerSends(c, data)
  <2>1. PICK c \in Conns, data \in Incoming : PeerSends(c, data)
    BY <1>6
  <2>2. rx[c] \in Seq(Incoming)
    BY DEF TypeOK, NetTypes
  <2>3. Append(rx[c], data) \in Seq(Incoming)
    BY <2>2
  <2>4. NetTypes'
    BY <2>1, <2>3 DEF TypeOK, NetTypes, PeerSends
  <2> QED  BY <1>3, <2>1, <2>4 DEF PeerSends
<1>7. ASSUME NEW t \in Tunnels PROVE TunnelConnects(t) => TypeOK'
  BY <1>4, LoopAssumption, ServerAssumption DEF TunnelConnects
<1>8. ASSUME NEW v \in Visitors PROVE VisitorConnects(v) => TypeOK'
  BY <1>4, ServerAssumption DEF VisitorConnects, Proxies, TypeOK, TableTypes
<1>9. ASSUME NEW c \in Conns PROVE HangsUp(c) \/ ResetsConnection(c) => TypeOK'
  BY <1>5 DEF HangsUp, ResetsConnection
<1>10. ASSUME NEW v \in Visitors PROVE VisitorSends(v) => TypeOK'
  <2>1. Packet("DATA", 0, None) \in Incoming
    BY ZeroIsAnId DEF Packet, Incoming, MessageKinds, Whom
  <2> QED  BY <1>6, <2>1, ServerAssumption DEF VisitorSends
<1>11. ASSUME NEW t \in Tunnels, NEW kind \in Kinds PROVE TunnelAsks(t, kind) => TypeOK'
  <2>1. Packet(kind, 0, None) \in Incoming
    BY ZeroIsAnId, ServerAssumption DEF Packet, Incoming, Whom
  <2> QED  BY <1>6, <2>1, ServerAssumption DEF TunnelAsks
<1>12. ASSUME NEW t \in Tunnels, NEW kind \in Kinds, NEW id \in Ids,
              NEW who \in Visitors \cup {BadFd}
       PROVE  TunnelNames(t, kind, id, who) => TypeOK'
  <2>1. Packet(kind, id, who) \in Incoming
    BY ServerAssumption DEF Packet, Incoming, Whom
  <2> QED  BY <1>6, <2>1, ServerAssumption DEF TunnelNames
<1> QED  BY <1>7, <1>8, <1>9, <1>10, <1>11, <1>12 DEF Peers

----------------------------------------------------------------------------
(* Type correctness.                                                       *)

\* main sets up a typed state.
LEMMA InitTypes == Init => TypeOK
<1> SUFFICES ASSUME Init PROVE TypeOK
  OBVIOUS
<1> USE LoopAssumption, ServerAssumption
<1>1. NetTypes
  BY DEF Init, LoopInit, NetTypes
<1>2. TableTypes
  BY DEF Init, LoopInit, TableTypes
<1>3. QueueTypes
  BY DEF Init, LoopInit, QueueTypes
<1>4. BatchTypes
  BY DEF Init, LoopInit, BatchTypes, NoEvents
<1>5. SessionTypes
  BY DEF Init, SessionTypes, NoUser
<1>6. MapTypes
  BY EmptyType DEF Init, MapTypes
<1>7. PoolTypes
  BY ZeroIsAnId DEF Init, PoolInit, PoolTypes
<1> QED  BY <1>1, <1>2, <1>3, <1>4, <1>5, <1>6, <1>7 DEF TypeOK

\* Every step of Loop::run keeps types.
LEMMA ServerKeepsTypes == ASSUME TypeOK, Server PROVE TypeOK'
<1>1. CASE EpollWait /\ UNCHANGED <<serverVars, view>>
  BY <1>1, EpollWaitKeepsTypes
<1>2. CASE AcceptTunnel \/ AcceptTunnelFails
  BY <1>2, AcceptTunnelKeepsTypes, AcceptTunnelFailsKeepsTypes
<1>3. CASE \E p \in Fds, register \in BOOLEAN :
              AcceptVisitor(p, register) \/ AcceptVisitorFails(p, register)
  BY <1>3, AcceptVisitorKeepsTypes, AcceptVisitorFailsKeepsTypes
<1>4. CASE \E f \in Fds : \/ TunnelHangUp(f) \/ IdleTunnelHangUp(f)
                          \/ VisitorHangUp(f) \/ UnknownHangUp(f)
  BY <1>4, TunnelHangUpKeepsTypes, IdleTunnelHangUpKeepsTypes, VisitorHangUpKeepsTypes,
     UnknownHangUpKeepsTypes
<1>5. CASE \E t \in Tunnels, f \in Fds :
              sock[f] = t /\ rx[t] # <<>> /\ Handle(f, Head(rx[t]))
  BY <1>5, RefuseKeepsTypes, HandlePingKeepsTypes, HandleAuthKeepsTypes, HandleCreateKeepsTypes,
     CreateThrowsKeepsTypes, HandlePacketKeepsTypes, HandleDisconnectKeepsTypes DEF Handle
<1>6. CASE \E f \in Fds : VisitorData(f) \/ VisitorDataFails(f) \/ LoopStep(f)
  BY <1>6, VisitorDataKeepsTypes, VisitorDataFailsKeepsTypes, LoopStepKeepsTypes
<1>7. CASE \E f \in Fds : \E n \in 0 .. Len(writeq[f]) : Deliver(f, n)
  <2>1. PICK f \in Fds : \E n \in 0 .. Len(writeq[f]) : Deliver(f, n)
    BY <1>7
  <2>2. PICK n \in 0 .. Len(writeq[f]) : Deliver(f, n)
    BY <2>1
  <2>3. n \in Nat
    BY DEF TypeOK, QueueTypes
  <2> QED  BY <2>2, <2>3, WriteKeepsTypes DEF Deliver
<1> QED  BY <1>1, <1>2, <1>3, <1>4, <1>5, <1>6, <1>7 DEF Server

\* Type correctness is inductive by itself.
LEMMA NextKeepsTypes == TypeOK /\ [Next]_vars => TypeOK'
<1> SUFFICES ASSUME TypeOK, [Next]_vars PROVE TypeOK'
  OBVIOUS
<1>1. CASE Next
  BY <1>1, PeersKeepTypes, ServerKeepsTypes DEF Next
<1>2. CASE UNCHANGED vars
  <2>1. NetTypes' /\ TableTypes' /\ QueueTypes' /\ BatchTypes'
    BY <1>2 DEF TypeOK, NetTypes, TableTypes, QueueTypes, BatchTypes, vars, loopVars, netVars,
                tableVars, queueVars, batchVars
  <2> QED  BY <1>2, <2>1, ServerVarsTypes DEF TypeOK, vars
<1> QED  BY <1>1, <1>2

(* The loop's tables and queues, the sessions, the two maps of every proxy *)
(* and the pool keep their types in every reachable state of the server:   *)
(* every call of the loop and of its observers, failures included.         *)
THEOREM TypeCorrect == Spec => []TypeOK
BY InitTypes, NextKeepsTypes, PTL DEF Spec

----------------------------------------------------------------------------
(* What steps do to the tables and the pool.                               *)

\* GrokProxy::unlink_client, for the identifier id of the proxy p.
Unlinked(p, id) ==
    /\ id \in DOMAIN id_to_sock[p]
    /\ RemoveIds(<<id>>)
    /\ sock_to_id' = [sock_to_id EXCEPT ![p] = Without(@, id_to_sock[p][id])]
    /\ id_to_sock' = [id_to_sock EXCEPT ![p] = Without(@, id)]

\* The tables of the proxy p are emptied.
Cleared(p) == /\ sock_to_id' = [sock_to_id EXCEPT ![p] = Empty]
              /\ id_to_sock' = [id_to_sock EXCEPT ![p] = Empty]

\* GrokProxy::shutdown
ShutDown(p) == /\ \E order \in SetToSeqs(DOMAIN sock_to_id[p]) : RemoveIds(Returned(p, order))
               /\ Cleared(p)

IdStep ==
    \/ UNCHANGED <<sock_to_id, id_to_sock, poolVars>>
    \/ \E p \in Fds, f \in Fds \cup {BadFd} : LinkClient(p, f)
    \/ \E p \in Fds, id \in Ids : Unlinked(p, id)
    \/ \E p \in Fds : ShutDown(p)
    \/ \E p \in Fds : Cleared(p) /\ UNCHANGED poolVars

\* A hangup gives back the identifier of one connection, those of one proxy, or none.
LEMMA HangUpIsIdStep ==
    ASSUME TypeOK, IdsExclusive, NEW f \in Fds,
           TunnelHangUp(f) \/ IdleTunnelHangUp(f) \/ VisitorHangUp(f) \/ UnknownHangUp(f)
    PROVE  IdStep
<1>1. CASE TunnelHangUp(f)
  <2>1. users[f].server \in Fds
    BY <1>1 DEF TypeOK, SessionTypes, TunnelHangUp
  <2>2. ShutDown(users[f].server)
    BY <1>1 DEF TunnelHangUp, ShutDown, Cleared, Returned
  <2> QED  BY <2>1, <2>2 DEF IdStep
<1>2. CASE VisitorHangUp(f)
  <2> DEFINE p == linked[f]
             id == sock_to_id[p][f]
  <2>1. p \in Fds /\ f \in DOMAIN sock_to_id[p]
    BY <1>2 DEF TypeOK, TableTypes, VisitorHangUp, Proxies
  <2>2. id \in Ids
    BY <2>1, MapsElim DEF TypeOK, MapTypes
  <2>3. id \in DOMAIN id_to_sock[p] /\ id_to_sock[p][id] = f
    BY <2>1 DEF IdsExclusive, MapsInverse
  <2>4. Unlinked(p, id)
    BY <1>2, <2>3 DEF VisitorHangUp, Unlinked
  <2> QED  BY <2>1, <2>2, <2>4 DEF IdStep
<1>3. CASE IdleTunnelHangUp(f) \/ UnknownHangUp(f)
  BY <1>3 DEF IdStep, IdleTunnelHangUp, UnknownHangUp, serverVars, proxyVars
<1> QED  BY <1>1, <1>2, <1>3

\* A request gives back one identifier, starts empty tables, or leaves the tables alone.
LEMMA HandleIsIdStep ==
    ASSUME TypeOK, NEW f \in Fds, NEW m, Handle(f, m)
    PROVE  IdStep
<1>1. CASE \E p \in Fds : HandleCreate(f, m, p)
  BY <1>1 DEF HandleCreate, Cleared, IdStep
<1>2. CASE HandleDisconnect(f, m)
  <2>1. users[f].server \in Fds /\ m.arg \in Ids
    BY <1>2, HeadType DEF TypeOK, SessionTypes, HandleDisconnect, HasServer, Incoming
  <2>2. Unlinked(users[f].server, m.arg)
    BY <1>2 DEF HandleDisconnect, HasClient, Unlinked
  <2> QED  BY <2>1, <2>2 DEF IdStep
<1>3. CASE Refuse(f, m) \/ HandlePing(f, m) \/ HandlePacket(f, m)
  BY <1>3 DEF Refuse, HandlePing, HandlePacket, Answer, IdStep, serverVars, proxyVars
<1>4. CASE HandleAuth(f, m) \/ CreateThrows(f, m)
  BY <1>4 DEF HandleAuth, CreateThrows, IdStep, serverVars, proxyVars
<1> QED  BY <1>1, <1>2, <1>3, <1>4 DEF Handle

\* Nothing in the program touches the tables and the pool in any other way.
LEMMA NextIsIdStep ==
    ASSUME TypeOK, IdsExclusive, [Next]_vars
    PROVE  IdStep
<1>1. CASE Peers
  BY <1>1 DEF Peers, TunnelConnects, VisitorConnects, HangsUp, ResetsConnection, VisitorSends,
              TunnelAsks, TunnelNames, IdStep, serverVars, proxyVars
<1>2. CASE \E p \in Fds, register \in BOOLEAN :
              AcceptVisitor(p, register) \/ AcceptVisitorFails(p, register)
  BY <1>2 DEF AcceptVisitor, AcceptVisitorFails, IdStep
<1>3. CASE \E f \in Fds : \/ TunnelHangUp(f) \/ IdleTunnelHangUp(f)
                          \/ VisitorHangUp(f) \/ UnknownHangUp(f)
  BY <1>3, HangUpIsIdStep
<1>4. CASE \E t \in Tunnels, f \in Fds :
              sock[f] = t /\ rx[t] # <<>> /\ Handle(f, Head(rx[t]))
  BY <1>4, HandleIsIdStep
<1>5. CASE UNCHANGED serverVars
  BY <1>5 DEF IdStep, serverVars, proxyVars
<1>6. CASE \/ AcceptTunnel \/ AcceptTunnelFails
           \/ \E f \in Fds : VisitorData(f) \/ VisitorDataFails(f) \/ LoopStep(f)
           \/ \E f \in Fds : \E n \in 0 .. Len(writeq[f]) : Deliver(f, n)
  BY <1>5, <1>6 DEF AcceptTunnel, AcceptTunnelFails, VisitorData, VisitorDataFails, LoopStep, Deliver
<1> QED  BY <1>1, <1>2, <1>3, <1>4, <1>5, <1>6 DEF Next, Server, vars

----------------------------------------------------------------------------
(* Identifiers are exclusive.                                              *)

\* The pool holds numbers.
LEMMA PoolIsNatural ==
    ASSUME TypeOK
    PROVE  last \in Nat /\ ids \in Seq(Ids) /\ Ids \subseteq Nat /\ \A i \in DOMAIN ids : ids[i] \in Nat
<1>1. last \in Ids /\ ids \in Seq(Ids)
  BY DEF TypeOK, PoolTypes
<1>2. Ids \subseteq Nat
  BY IdSpaceAssumption DEF Ids
<1>3. \A i \in DOMAIN ids : ids[i] \in Ids
  BY <1>1
<1> QED  BY <1>1, <1>2, <1>3

\* The identifiers in id_to_sock are numbers.
LEMMA HeldIsNatural == ASSUME TypeOK, NEW p \in Fds PROVE DOMAIN id_to_sock[p] \subseteq Nat
<1>1. id_to_sock[p] \in Maps(Ids, Fds \cup {BadFd})
  BY DEF TypeOK, MapTypes
<1>2. DOMAIN id_to_sock[p] \subseteq Ids
  BY <1>1, MapsElim
<1> QED  BY <1>2, PoolIsNatural

\* What get_id returns names no connection of any proxy.
LEMMA NextIdIsFree ==
    ASSUME TypeOK, IdsExclusive
    PROVE  \A p \in Fds : NextId \notin DOMAIN id_to_sock[p]
<1> SUFFICES ASSUME NEW p \in Fds, NextId \in DOMAIN id_to_sock[p] PROVE FALSE
  OBVIOUS
<1>1. NextId < last /\ \A i \in DOMAIN ids : ids[i] # NextId
  BY DEF IdsExclusive, HeldNotFree
<1>2. CASE ids = <<>>
  BY <1>1, <1>2 DEF NextId, TypeOK, PoolTypes, Ids
<1>3. CASE ids # <<>>
  <2>1. 1 \in DOMAIN ids /\ ids[1] = NextId
    BY <1>3 DEF NextId, TypeOK, PoolTypes
  <2> QED  BY <1>1, <2>1
<1> QED  BY <1>2, <1>3

\* GrokProxy::link_client keeps identifiers exclusive, also when a failed accept
\* overwrites the entry of an earlier one.
LEMMA LinkKeepsExclusive ==
    ASSUME TypeOK, IdsExclusive, NEW p \in Fds, NEW f \in Fds \cup {BadFd}, LinkClient(p, f)
    PROVE  IdsExclusive'
<1> DEFINE id == NextId
<1>1. /\ sock_to_id' = [sock_to_id EXCEPT ![p] = Put(@, f, id)]
      /\ id_to_sock' = [id_to_sock EXCEPT ![p] = Put(@, id, f)]
      /\ sock_to_id' \in [Fds -> Maps(Fds \cup {BadFd}, Ids)]
      /\ id_to_sock' \in [Fds -> Maps(Ids, Fds \cup {BadFd})]
  BY LinkClientTypes DEF LinkClient, TypeOK, MapTypes
<1>2. /\ DOMAIN id_to_sock'[p] = DOMAIN id_to_sock[p] \cup {id}
      /\ DOMAIN sock_to_id'[p] = DOMAIN sock_to_id[p] \cup {f}
      /\ \A q \in Fds \ {p} : /\ id_to_sock'[q] = id_to_sock[q]
                              /\ sock_to_id'[q] = sock_to_id[q]
  BY <1>1 DEF Put, TypeOK, MapTypes
<1>3. \A q \in Fds : id \notin DOMAIN id_to_sock[q]
  BY NextIdIsFree
<1>4. TablesDisjoint'
  BY <1>2, <1>3 DEF IdsExclusive, TablesDisjoint
<1>5. MapsInverse'
  <2> SUFFICES ASSUME NEW q \in Fds, NEW g \in DOMAIN sock_to_id'[q]
               PROVE  /\ sock_to_id'[q][g] \in DOMAIN id_to_sock'[q]
                      /\ id_to_sock'[q][sock_to_id'[q][g]] = g
    BY DEF MapsInverse
  <2>1. CASE q # p
    BY <1>2, <2>1 DEF IdsExclusive, MapsInverse
  <2>2. CASE q = p /\ g = f
    BY <1>1, <2>2 DEF Put, TypeOK, MapTypes
  <2>3. CASE q = p /\ g # f
    <3>1. g \in DOMAIN sock_to_id[p]
      BY <1>2, <2>3
    <3>2. sock_to_id[p][g] \in DOMAIN id_to_sock[p] /\ id_to_sock[p][sock_to_id[p][g]] = g
      BY <3>1 DEF IdsExclusive, MapsInverse
    <3>3. sock_to_id'[p][g] = sock_to_id[p][g]
      BY <1>1, <2>3, <3>1 DEF Put, TypeOK, MapTypes
    <3>4. sock_to_id[p][g] # id
      BY <1>3, <3>2
    <3> QED  BY <1>1, <1>2, <2>3, <3>2, <3>3, <3>4 DEF Put, TypeOK, MapTypes
  <2> QED  BY <2>1, <2>2, <2>3
<1>6. HeldNotFree' /\ FreeOnce'
  <2>1. \A q \in Fds : \A x \in DOMAIN id_to_sock'[q] :
           x = id \/ (x \in Nat /\ x < last /\ \A i \in DOMAIN ids : ids[i] # x)
    BY <1>2, HeldIsNatural DEF IdsExclusive, HeldNotFree
  <2>2. last \in Nat /\ ids \in Seq(Ids)
    BY PoolIsNatural
  <2>3. CASE ids = <<>>
    <3>1. ids' = <<>> /\ last' = last + 1 /\ id = last
      BY <2>2, <2>3, IdSpaceAssumption DEF LinkClient, GetId, IdAvailable, NextId
    <3> QED  BY <2>1, <2>2, <3>1 DEF HeldNotFree, FreeOnce
  <2>4. CASE ids # <<>>
    <3>1. ids' = Tail(ids) /\ last' = last /\ id = ids[1] /\ 1 \in DOMAIN ids
      BY <2>2, <2>4 DEF LinkClient, GetId, NextId
    <3>2. /\ id < last
          /\ \A i \in DOMAIN ids' : /\ i \in Nat /\ i + 1 \in DOMAIN ids
                                    /\ ids'[i] = ids[i + 1] /\ i + 1 # 1
      BY <2>2, <2>4, <3>1 DEF IdsExclusive, FreeOnce
    <3>3. FreeOnce'
      BY <3>1, <3>2 DEF IdsExclusive, FreeOnce
    <3>4. HeldNotFree'
      BY <2>1, <3>1, <3>2 DEF IdsExclusive, FreeOnce, HeldNotFree
    <3> QED  BY <3>3, <3>4
  <2> QED  BY <2>3, <2>4
<1> QED  BY <1>4, <1>5, <1>6 DEF IdsExclusive

\* GrokProxy::unlink_client keeps identifiers exclusive.
LEMMA UnlinkKeepsExclusive ==
    ASSUME TypeOK, IdsExclusive, NEW p \in Fds, NEW id \in Ids, Unlinked(p, id)
    PROVE  IdsExclusive'
<1> DEFINE g == id_to_sock[p][id]
<1>1. /\ DOMAIN id_to_sock'[p] = DOMAIN id_to_sock[p] \ {id}
      /\ DOMAIN sock_to_id'[p] = DOMAIN sock_to_id[p] \ {g}
      /\ \A x \in DOMAIN id_to_sock[p] \ {id} : id_to_sock'[p][x] = id_to_sock[p][x]
      /\ \A x \in DOMAIN sock_to_id[p] \ {g} : sock_to_id'[p][x] = sock_to_id[p][x]
      /\ \A q \in Fds \ {p} : /\ id_to_sock'[q] = id_to_sock[q]
                              /\ sock_to_id'[q] = sock_to_id[q]
  BY DEF Unlinked, Without, TypeOK, MapTypes
<1>2. id \in DOMAIN id_to_sock[p]
  BY DEF Unlinked
<1>3. TablesDisjoint'
  BY <1>1 DEF IdsExclusive, TablesDisjoint
<1>4. MapsInverse'
  BY <1>1 DEF IdsExclusive, MapsInverse
<1>5. last' = last /\ ids' = ids \o <<id>> /\ ids \in Seq(Ids)
  BY PoolIsNatural DEF Unlinked, RemoveIds
<1>6. /\ \A i \in DOMAIN ids' : \/ i \in DOMAIN ids /\ ids'[i] = ids[i]
                                \/ i = Len(ids) + 1 /\ ids'[i] = id
      /\ Len(ids) + 1 \notin DOMAIN ids
  BY <1>5
<1>7. id < last /\ \A i \in DOMAIN ids : ids[i] # id
  BY <1>2 DEF IdsExclusive, HeldNotFree
<1>8. FreeOnce'
  BY <1>5, <1>6, <1>7 DEF IdsExclusive, FreeOnce
<1>9. HeldNotFree'
  <2>1. \A q \in Fds : \A x \in DOMAIN id_to_sock'[q] : x \in DOMAIN id_to_sock[q] /\ x # id
    BY <1>1, <1>2 DEF IdsExclusive, TablesDisjoint
  <2> QED  BY <1>5, <1>6, <2>1 DEF IdsExclusive, HeldNotFree
<1> QED  BY <1>3, <1>4, <1>8, <1>9 DEF IdsExclusive

\* Emptying the tables of one proxy keeps all tables disjoint and the maps inverse.
LEMMA ClearedMaps ==
    ASSUME TypeOK, IdsExclusive, NEW p \in Fds, Cleared(p)
    PROVE  /\ TablesDisjoint' /\ MapsInverse'
           /\ DOMAIN id_to_sock'[p] = {}
           /\ \A q \in Fds \ {p} : id_to_sock'[q] = id_to_sock[q]
<1>1. /\ DOMAIN id_to_sock'[p] = {} /\ DOMAIN sock_to_id'[p] = {}
      /\ \A q \in Fds \ {p} : id_to_sock'[q] = id_to_sock[q] /\ sock_to_id'[q] = sock_to_id[q]
  BY DEF Cleared, Empty, TypeOK, MapTypes
<1> QED  BY <1>1 DEF IdsExclusive, TablesDisjoint, MapsInverse

\* GrokProxy::shutdown keeps identifiers exclusive: each it returns was held once,
\* whatever the order of the map.
LEMMA ShutDownKeepsExclusive ==
    ASSUME TypeOK, IdsExclusive, NEW p \in Fds, ShutDown(p)
    PROVE  IdsExclusive'
<1>1. PICK order \in SetToSeqs(DOMAIN sock_to_id[p]) : RemoveIds(Returned(p, order))
  BY DEF ShutDown
<1> DEFINE given == Returned(p, order)
<1>2. PICK n \in Nat :
        /\ order \in [1 .. n -> DOMAIN sock_to_id[p]]
        /\ given \in [1 .. n -> Ids]
        /\ \A i, j \in 1 .. n : order[i] = order[j] => i = j
  BY OrderIsSequence DEF TypeOK
<1>3. \A i \in 1 .. n : /\ given[i] \in DOMAIN id_to_sock[p] /\ id_to_sock[p][given[i]] = order[i]
  BY <1>2 DEF Returned, IdsExclusive, MapsInverse
<1>4. \A i, j \in 1 .. n : given[i] = given[j] => i = j
  BY <1>2, <1>3
<1>5. \A i \in 1 .. n : given[i] < last /\ \A k \in DOMAIN ids : ids[k] # given[i]
  BY <1>3 DEF IdsExclusive, HeldNotFree
<1>6. last' = last /\ ids' = ids \o given
  BY <1>1 DEF RemoveIds
<1>7. given \in Seq(Ids) /\ Len(given) = n /\ ids \in Seq(Ids) /\ DOMAIN given = 1 .. n
  BY <1>2 DEF TypeOK, PoolTypes
<1>8. \A i \in DOMAIN ids' :
        \/ i \in DOMAIN ids /\ ids'[i] = ids[i]
        \/ i \notin DOMAIN ids /\ i - Len(ids) \in 1 .. n /\ ids'[i] = given[i - Len(ids)]
  BY <1>6, <1>7
<1>9. DOMAIN ids' \subseteq Nat /\ Len(ids) \in Nat
  BY <1>6, <1>7
<1>10. TablesDisjoint' /\ MapsInverse'
  BY ClearedMaps DEF ShutDown
<1>11. FreeOnce'
  <2> SUFFICES ASSUME NEW i \in DOMAIN ids', NEW j \in DOMAIN ids'
               PROVE  ids'[i] < last /\ (ids'[i] = ids'[j] => i = j)
    BY <1>6 DEF FreeOnce
  <2>1. ids'[i] < last
    BY <1>5, <1>8 DEF IdsExclusive, FreeOnce
  <2>2. ASSUME ids'[i] = ids'[j] PROVE i = j
    <3>1. CASE i \in DOMAIN ids /\ j \in DOMAIN ids
      BY <1>8, <2>2, <3>1 DEF IdsExclusive, FreeOnce
    <3>2. CASE i \notin DOMAIN ids /\ j \notin DOMAIN ids
      <4>1. i - Len(ids) = j - Len(ids)
        BY <1>4, <1>8, <2>2, <3>2
      <4> QED  BY <1>9, <4>1
    <3>3. CASE (i \in DOMAIN ids) # (j \in DOMAIN ids)
      BY <1>5, <1>8, <2>2, <3>3
    <3> QED  BY <3>1, <3>2, <3>3
  <2> QED  BY <2>1, <2>2
<1>12. HeldNotFree'
  <2> SUFFICES ASSUME NEW q \in Fds, NEW id \in DOMAIN id_to_sock'[q]
               PROVE  id < last /\ \A i \in DOMAIN ids' : ids'[i] # id
    BY <1>6 DEF HeldNotFree
  <2>1. q # p /\ id \in DOMAIN id_to_sock[q]
    BY ClearedMaps DEF ShutDown
  <2>2. id \notin DOMAIN id_to_sock[p]
    BY <2>1 DEF IdsExclusive, TablesDisjoint
  <2> QED  BY <1>3, <1>8, <2>1, <2>2 DEF IdsExclusive, HeldNotFree
<1> QED  BY <1>10, <1>11, <1>12 DEF IdsExclusive

\* A new proxy keeps identifiers exclusive.
LEMMA CreateKeepsExclusive ==
    ASSUME TypeOK, IdsExclusive, NEW p \in Fds, Cleared(p), UNCHANGED poolVars
    PROVE  IdsExclusive'
<1>1. TablesDisjoint' /\ MapsInverse'
  BY ClearedMaps
<1>2. HeldNotFree'
  BY ClearedMaps DEF IdsExclusive, HeldNotFree, poolVars
<1>3. FreeOnce'
  BY DEF IdsExclusive, FreeOnce, poolVars
<1> QED  BY <1>1, <1>2, <1>3 DEF IdsExclusive

\* At the start no identifier is held.
LEMMA InitExclusive == Init => IdsExclusive
BY DEF Init, PoolInit, Empty, IdsExclusive, TablesDisjoint, MapsInverse, HeldNotFree, FreeOnce

\* IdsExclusive is inductive relative to the types.
LEMMA NextKeepsExclusive == TypeOK /\ IdsExclusive /\ [Next]_vars => IdsExclusive'
<1> SUFFICES ASSUME TypeOK, IdsExclusive, [Next]_vars PROVE IdsExclusive'
  OBVIOUS
<1>1. CASE UNCHANGED <<sock_to_id, id_to_sock, poolVars>>
  BY <1>1 DEF IdsExclusive, TablesDisjoint, MapsInverse, HeldNotFree, FreeOnce, poolVars
<1> QED  BY <1>1, NextIsIdStep, LinkKeepsExclusive, UnlinkKeepsExclusive, ShutDownKeepsExclusive,
            CreateKeepsExclusive DEF IdStep

(* No identifier names two connections or waits in the pool while it names *)
(* one: link_client, unlink_client and shutdown keep the pool and the      *)
(* tables of all proxies disjoint, for every number of descriptors,        *)
(* tunnels, visitors and identifiers.                                      *)
THEOREM IdentifiersExclusive == Spec => []IdsExclusive
BY TypeCorrect, InitExclusive, NextKeepsExclusive, PTL DEF Spec

----------------------------------------------------------------------------
(* The server implements the allocator of IdAllocator.                     *)

\* GrokProxy::link_client is the allocator handing out one identifier nobody holds.
LEMMA LinkAcquires ==
    ASSUME TypeOK, IdsExclusive, NEW p \in Fds, NEW f \in Fds \cup {BadFd}, LinkClient(p, f)
    PROVE  Allocator!Acquire
<1> DEFINE new == <<NextId, <<p, f>>>>
           T(q) == {<<id, <<q, id_to_sock[q][id]>>>> : id \in DOMAIN id_to_sock[q]}
<1>1. NextId \notin DOMAIN id_to_sock[p]
  BY NextIdIsFree
<1>2. T(p)' = T(p) \cup {new} /\ \A q \in Fds \ {p} : T(q)' = T(q)
  <2>1. id_to_sock'[p] = Put(id_to_sock[p], NextId, f)
    BY DEF LinkClient, TypeOK, MapTypes
  <2>2. T(p)' = T(p) \cup {new}
    BY <1>1, <2>1 DEF Put
  <2>3. \A q \in Fds \ {p} : id_to_sock'[q] = id_to_sock[q]
    BY DEF LinkClient, TypeOK, MapTypes
  <2> QED  BY <2>2, <2>3
<1>3. Named = UNION {T(q) : q \in Fds} /\ Named' = UNION {T(q)' : q \in Fds}
  BY DEF Named
<1>4. Named' = Named \cup {new}
  BY <1>2, <1>3
<1>5. \A old \in Named : old[1] # new[1]
  BY NextIdIsFree DEF Named
<1> QED  BY <1>4, <1>5 DEF Allocator!Acquire

\* A step that only erases entries is the allocator taking identifiers back.
LEMMA ShrinkReleases ==
    ASSUME \A q \in Fds : \A id \in DOMAIN id_to_sock'[q] :
               id \in DOMAIN id_to_sock[q] /\ id_to_sock'[q][id] = id_to_sock[q][id]
    PROVE  Allocator!Release
BY DEF Allocator!Release, Named

\* Every step of the server is a step of the allocator.
LEMMA NextIsAllocatorStep ==
    ASSUME TypeOK, IdsExclusive, [Next]_vars
    PROVE  Allocator!ANext
<1>1. CASE \E p \in Fds, f \in Fds \cup {BadFd} : LinkClient(p, f)
  BY <1>1, LinkAcquires DEF Allocator!ANext
<1>2. CASE UNCHANGED <<sock_to_id, id_to_sock, poolVars>>
  BY <1>2, ShrinkReleases DEF Allocator!ANext
<1>3. CASE \E p \in Fds, id \in Ids : Unlinked(p, id)
  <2>1. PICK p \in Fds, id \in Ids : Unlinked(p, id)
    BY <1>3
  <2>2. /\ id_to_sock'[p] = Without(id_to_sock[p], id)
        /\ \A q \in Fds \ {p} : id_to_sock'[q] = id_to_sock[q]
    BY <2>1 DEF Unlinked, TypeOK, MapTypes
  <2> QED  BY <2>2, ShrinkReleases DEF Allocator!ANext, Without
<1>4. CASE \E p \in Fds : Cleared(p)
  <2>1. PICK p \in Fds : Cleared(p)
    BY <1>4
  <2>2. /\ id_to_sock'[p] = Empty
        /\ \A q \in Fds \ {p} : id_to_sock'[q] = id_to_sock[q]
    BY <2>1 DEF Cleared, TypeOK, MapTypes
  <2> QED  BY <2>2, ShrinkReleases DEF Allocator!ANext, Empty
<1> QED  BY <1>1, <1>2, <1>3, <1>4, NextIsIdStep DEF IdStep, ShutDown

\* The server starts with no identifier held.
LEMMA InitIsAllocatorInit == Init => Allocator!AInit
BY DEF Init, Empty, Named, Allocator!AInit

(* The server with its pool and the tables of its proxies implements the   *)
(* abstract allocator: each connection gets an identifier nobody holds,    *)
(* and keeps it until it, or its proxy, lets go.                           *)
THEOREM ImplementsAllocator == Spec => AllocatorSpec
<1>1. TypeOK /\ IdsExclusive /\ [Next]_vars => [Allocator!ANext]_Named
  BY NextIsAllocatorStep
<1> QED  BY <1>1, TypeCorrect, IdentifiersExclusive, InitIsAllocatorInit, PTL
         DEF Spec, AllocatorSpec, Allocator!ASpec

----------------------------------------------------------------------------
(* Sessions: users, proxies, tables and descriptors.                       *)

\* What else the argument needs: the main listener stays, and what is no proxy
\* (any more) has no tunnel.
Rooted ==
    /\ Main \in observers /\ sock[Main] = Listener
    /\ \A p \in Fds \ Proxies : initiator[p] = None

\* The four hold together: each alone is not inductive.
Sessions == SessionOwned /\ MapsAgree /\ NoStaleDescriptor /\ Rooted

----------------------------------------------------------------------------
(* Consequences.                                                           *)

\* A connection in the table of a proxy is its identifier's, so that the proxy
\* exists and the connection is an open visitor.
LEMMA InTable ==
    ASSUME TypeOK, IdsExclusive, MapsAgree, NEW p \in Fds, NEW f \in Fds, f \in DOMAIN sock_to_id[p]
    PROVE  /\ p \in Proxies /\ linked[f] \in {p, None} /\ sock[f] \in Visitors
           /\ sock_to_id[p][f] \in DOMAIN id_to_sock[p]
           /\ id_to_sock[p][sock_to_id[p][f]] = f
<1> DEFINE id == sock_to_id[p][f]
<1>1. id \in DOMAIN id_to_sock[p] /\ id_to_sock[p][id] = f
  BY DEF IdsExclusive, MapsInverse
<1>2. \A i \in DOMAIN id_to_sock[p] :
         id_to_sock[p][i] # BadFd =>
            /\ p \in Proxies /\ linked[id_to_sock[p][i]] \in {p, None}
            /\ sock[id_to_sock[p][i]] \in Visitors
  BY DEF MapsAgree
<1>3. f # BadFd
  BY LoopAssumption
<1> HIDE DEF id
<1>4. /\ p \in Proxies /\ linked[f] \in {p, None} /\ sock[f] \in Visitors
  BY <1>1, <1>2, <1>3
<1> QED  BY <1>1, <1>4 DEF id

\* What a proxy serves is a visitor.
LEMMA ServedIsVisitor ==
    ASSUME TypeOK, IdsExclusive, MapsAgree, NEW f \in Fds, linked[f] \in Proxies
    PROVE  sock[f] \in Visitors
<1>1. linked[f] \in Fds
  BY DEF TypeOK, TableTypes, Proxies
<1>2. f \in DOMAIN sock_to_id[linked[f]]
  BY DEF MapsAgree
<1> QED  BY <1>1, <1>2, InTable

\* The tunnel of a proxy is open, and the main server's.
LEMMA ProxyOwner ==
    ASSUME TypeOK, SessionOwned, NEW p \in Proxies
    PROVE  /\ p \in Fds /\ initiator[p] \in Fds /\ users[initiator[p]].server = p
           /\ linked[initiator[p]] = Main /\ sock[initiator[p]] \in Tunnels /\ sock[p] = Listener
<1>1. p \in Fds /\ initiator[p] \in Fds /\ users[initiator[p]].server = p /\ sock[p] = Listener
  BY DEF SessionOwned, Proxies, TypeOK, TableTypes
<1>2. users[initiator[p]].server # None
  BY <1>1, LoopAssumption
<1> QED  BY <1>1, <1>2 DEF SessionOwned

\* The three kinds of what a descriptor may refer to are apart.
LEMMA KindsApart ==
    /\ Listener \notin Tunnels \cup Visitors /\ None \notin Tunnels \cup Visitors
    /\ Listener # None /\ Tunnels \cap Visitors = {} /\ None \notin Fds /\ BadFd \notin Fds
BY LoopAssumption, ServerAssumption

\* Loop::send changes the queue and the watch of one descriptor.
LEMMA SendElsewhere ==
    ASSUME NEW f, NEW frame, NEW g \in Fds, g # f, TypeOK
    PROVE  Queued(f, frame)[g] = writeq[g] /\ Watched(f)[g] = interest[g]
BY DEF Queued, Watched, TypeOK, QueueTypes

----------------------------------------------------------------------------
(* Steps that open or close nothing.                                       *)

\* Which users have which servers, whatever they may select.
SameServers == \A f \in Fds : users'[f].server = users[f].server

\* The queues of a closed descriptor are not touched.
ClosedUntouched ==
    \A f \in FreeFds : readq'[f] = readq[f] /\ writeq'[f] = writeq[f] /\ interest'[f] = interest[f]

(* A step that leaves the tables alone keeps the sessions. *)
LEMMA QuietKeeps ==
    ASSUME Sessions, SameServers, ClosedUntouched, UNCHANGED <<sock, tableVars, proxyVars>>
    PROVE  Sessions'
<1> USE DEF Sessions, SameServers, ClosedUntouched, tableVars, proxyVars, Proxies, FreeFds
<1>1. SessionOwned'
  BY DEF SessionOwned
<1>2. MapsAgree'
  BY DEF MapsAgree
<1>3. NoStaleDescriptor'
  BY DEF NoStaleDescriptor
<1>4. Rooted'
  BY DEF Rooted
<1> QED  BY <1>1, <1>2, <1>3, <1>4

\* No step but those of the tunnels' requests, arrivals and hangups opens, closes,
\* links or maps anything.
LEMMA QuietSteps ==
    ASSUME TypeOK, IdsExclusive, Sessions, NEW f \in Fds,
           \/ VisitorData(f) \/ VisitorDataFails(f) \/ LoopStep(f)
           \/ \E n \in 0 .. Len(writeq[f]) : Deliver(f, n)
    PROVE  Sessions'
<1>1. CASE VisitorData(f)
  <2>1. SameServers /\ UNCHANGED <<sock, tableVars, proxyVars>>
    BY <1>1 DEF VisitorData, serverVars, SameServers
  <2>2. linked[f] \in Proxies /\ initiator[linked[f]] \in Fds /\ sock[initiator[linked[f]]] # None
    BY <1>1, ProxyOwner, KindsApart DEF VisitorData, Capture, Sessions
  <2>3. ClosedUntouched
    BY <1>1, <2>2, SendElsewhere DEF VisitorData, ClosedUntouched, FreeFds, Send
  <2> QED  BY <2>1, <2>3, QuietKeeps
<1>2. CASE VisitorDataFails(f)
  <2>1. SameServers /\ ClosedUntouched /\ UNCHANGED <<sock, tableVars, proxyVars>>
    BY <1>2 DEF VisitorDataFails, Throw, SameServers, ClosedUntouched, serverVars, queueVars, netVars
  <2> QED  BY <2>1, QuietKeeps
<1>3. CASE LoopStep(f)
  <2>1. SameServers /\ UNCHANGED <<sock, tableVars, proxyVars>>
    BY <1>3 DEF LoopStep, StaleHangup, ThrowOnEvent, Throw, WriteFails, ReadFails, ReadPart, SameServers,
                serverVars, netVars
  <2>2. CASE UNCHANGED queueVars
    BY <2>1, <2>2, QuietKeeps DEF ClosedUntouched, queueVars
  <2>3. CASE WriteFails(f) \/ ReadFails(f)
    <3>1. sock[f] # None
      BY <2>3, KindsApart, ServerAssumption DEF WriteFails, ReadFails
    <3>2. ClosedUntouched
      BY <2>3, <3>1 DEF WriteFails, ReadFails, ClosedUntouched, FreeFds, TypeOK, QueueTypes
    <3> QED  BY <2>1, <3>2, QuietKeeps
  <2> QED  BY <1>3, <2>2, <2>3 DEF LoopStep, StaleHangup, ThrowOnEvent, Throw, ReadPart
<1>4. CASE \E n \in 0 .. Len(writeq[f]) : Deliver(f, n)
  <2>1. PICK n \in 0 .. Len(writeq[f]) : Deliver(f, n)
    BY <1>4
  <2>2. SameServers /\ UNCHANGED <<sock, tableVars, proxyVars>>
    BY <2>1 DEF Deliver, Write, SameServers, serverVars, netVars
  <2>3. sock[f] # None
    BY <2>1, KindsApart, ServerAssumption DEF Deliver, Write
  <2>4. ClosedUntouched
    BY <2>1, <2>3 DEF Deliver, Write, ClosedUntouched, FreeFds, TypeOK, QueueTypes
  <2> QED  BY <2>2, <2>4, QuietKeeps
<1> QED  BY <1>1, <1>2, <1>3, <1>4

\* Peers, and epoll_wait, change what is under the program only.
LEMMA OutsideKeeps ==
    ASSUME Sessions, Peers \/ (EpollWait /\ UNCHANGED <<serverVars, view>>)
    PROVE  Sessions'
<1>1. SameServers /\ ClosedUntouched /\ UNCHANGED <<sock, tableVars, proxyVars>>
  BY DEF Peers, TunnelConnects, VisitorConnects, HangsUp, ResetsConnection, VisitorSends, TunnelAsks,
         TunnelNames, PeerCloses, PeerResets, PeerConnects, PeerSends, EpollWait, SameServers,
         ClosedUntouched, serverVars, queueVars, netVars
<1> QED  BY <1>1, QuietKeeps

\* Requests that are answered, and no more.
LEMMA AnswerKeeps ==
    ASSUME TypeOK, IdsExclusive, Sessions, NEW f \in Fds, NEW m,
           \/ Refuse(f, m) \/ HandlePing(f, m) \/ HandleAuth(f, m) \/ CreateThrows(f, m)
           \/ HandlePacket(f, m)
    PROVE  Sessions'
<1>1. SameServers /\ UNCHANGED <<sock, tableVars, proxyVars>>
  BY DEF Refuse, HandlePing, HandleAuth, CreateThrows, HandlePacket, Answer, Throw, SameServers,
         serverVars, netVars, TypeOK, SessionTypes
<1>2. CASE CreateThrows(f, m)
  BY <1>1, <1>2, QuietKeeps DEF CreateThrows, Throw, ClosedUntouched, queueVars
<1>3. CASE ~CreateThrows(f, m)
  <2>1. sock[f] # None
    BY <1>3, KindsApart, ServerAssumption DEF Refuse, HandlePing, HandleAuth, HandlePacket, Request
  <2>2. \A g \in FreeFds : readq'[g] = readq[g]
    BY <1>3, <2>1 DEF Refuse, HandlePing, HandleAuth, HandlePacket, Answer, NewMessage, FreeFds,
                      TypeOK, QueueTypes
  <2>3. CASE Refuse(f, m) \/ HandlePing(f, m)
    <3>1. \E frame : Send(f, frame)
      BY <2>3 DEF Refuse, HandlePing, Answer
    <3>2. ClosedUntouched
      BY <2>1, <2>2, <3>1, SendElsewhere DEF Send, ClosedUntouched, FreeFds
    <3> QED  BY <1>1, <3>2, QuietKeeps
  <2>4. CASE HandleAuth(f, m)
    BY <1>1, <2>2, <2>4, QuietKeeps DEF HandleAuth, ClosedUntouched
  <2>5. CASE HandlePacket(f, m)
    <3> DEFINE p == users[f].server
               g == id_to_sock[p][m.arg]
    <3>1. p \in Fds /\ m.arg \in DOMAIN id_to_sock[p]
      BY <2>5 DEF HandlePacket, HasServer, HasClient, TypeOK, SessionTypes
    <3>2. g # BadFd => sock[g] \in Visitors
      BY <3>1 DEF Sessions, MapsAgree
    <3>3. IF g = BadFd THEN UNCHANGED <<writeq, interest>> ELSE \E frame : Send(g, frame)
      BY <2>5 DEF HandlePacket
    <3> HIDE DEF g
    <3>4. ClosedUntouched
      BY <2>2, <3>2, <3>3, SendElsewhere, KindsApart DEF Send, ClosedUntouched, FreeFds
    <3> QED  BY <1>1, <3>4, QuietKeeps
  <2> QED  BY <1>3, <2>3, <2>4, <2>5
<1> QED  BY <1>2, <1>3

----------------------------------------------------------------------------
(* Arrivals.                                                               *)

\* A free descriptor f becomes the connection c, linked to the listener l or not.
Opened(l, c, f, register) ==
    /\ f \in FreeFds /\ l \in observers
    /\ sock' = [sock EXCEPT ![f] = c]
    /\ observers' = observers
    /\ IF register THEN /\ clients' = [clients EXCEPT ![l] = @ \cup {f}]
                        /\ linked' = [linked EXCEPT ![f] = l]
                   ELSE UNCHANGED <<clients, linked>>

(* A free descriptor that is opened for a connection belongs to no session yet. *)
LEMMA OpenedKeepsOwned ==
    ASSUME TypeOK, Sessions, SameServers, initiator' = initiator,
           NEW l, NEW c \in Conns, NEW f, NEW register \in BOOLEAN, Opened(l, c, f, register)
    PROVE  SessionOwned' /\ Rooted'
<1> USE DEF Sessions, Proxies, FreeFds
<1>1. /\ f \in Fds /\ sock[f] = None /\ l \in Fds /\ l # f /\ linked[f] = None /\ f \notin observers
      /\ users[f].server = None /\ \A o \in Fds : f \notin clients[o]
  BY DEF Opened, NoStaleDescriptor, TypeOK, TableTypes
<1>2. /\ \A g \in Fds \ {f} : sock'[g] = sock[g] /\ linked'[g] = linked[g]
      /\ linked'[f] = IF register THEN l ELSE None
      /\ \A g \in Fds : clients'[g] = IF register /\ g = l THEN clients[g] \cup {f} ELSE clients[g]
  BY <1>1, ZenonT(60) DEF Opened, TypeOK, TableTypes, NetTypes
<1>3. Main # f /\ \A p \in Proxies : p # f
  BY <1>1 DEF Rooted
<1>4. Rooted'
  BY <1>2, <1>3, LoopAssumption DEF Opened, Rooted
<1>5. /\ \A p \in Proxies : sock'[p] = Listener
      /\ \A g \in Fds : users[g].server # None => linked'[g] = Main /\ sock'[g] \in Tunnels
  BY <1>1, <1>2, <1>3 DEF SessionOwned, TypeOK, TableTypes
<1>6. \A g, o \in Fds : g \in clients'[o] <=> linked'[g] = o
  <2> SUFFICES ASSUME NEW g \in Fds, NEW o \in Fds PROVE g \in clients'[o] <=> linked'[g] = o
    OBVIOUS
  <2>1. CASE g = f
    BY <1>1, <1>2, <2>1, LoopAssumption
  <2>2. CASE g # f
    <3>1. g \in clients[o] <=> linked[g] = o
      BY DEF SessionOwned
    <3> QED  BY <1>2, <2>2, <3>1
  <2> QED  BY <2>1, <2>2
<1>7. \A g \in Fds : linked'[g] # None => linked'[g] \in observers /\ g \notin observers
  BY <1>1, <1>2 DEF SessionOwned, Opened
<1>8. SessionOwned'
  BY <1>5, <1>6, <1>7 DEF SessionOwned, SameServers, Opened, TypeOK, TableTypes
<1> QED  BY <1>4, <1>8

\* FreeGrok::on_connect
LEMMA AcceptTunnelKeeps ==
    ASSUME TypeOK, IdsExclusive, Sessions, AcceptTunnel
    PROVE  Sessions'
<1> USE DEF Proxies, FreeFds
<1>1. PICK c \in Tunnels, f \in Fds :
        /\ Accepted(Main, c, f, "READ", TRUE)
        /\ interest' = [interest EXCEPT ![f] = {"IN"}]
  BY DEF AcceptTunnel
<1>2. SameServers /\ UNCHANGED <<observers, proxyVars, writeq, users>>
  BY <1>1 DEF AcceptTunnel, Accepted, SameServers, serverVars
<1>3. Opened(Main, c, f, TRUE) /\ readq' = [readq EXCEPT ![f] = Append(@, "READ")]
  BY <1>1, <1>2 DEF Accepted, NewFd, Opened, AcceptTunnel, Arrival
<1>4. /\ f \in Fds /\ sock[f] = None /\ c \in Conns /\ Main \in Fds
      /\ \A g \in Fds \ {f} : /\ sock'[g] = sock[g] /\ linked'[g] = linked[g]
                              /\ readq'[g] = readq[g] /\ interest'[g] = interest[g]
      /\ sock'[f] = c /\ linked'[f] = Main
      /\ \A o \in Fds : clients'[o] \subseteq clients[o] \cup {f}
  BY <1>1, <1>3, LoopAssumption, ServerAssumption
     DEF Opened, TypeOK, TableTypes, NetTypes, QueueTypes
<1>5. SessionOwned' /\ Rooted'
  BY <1>2, <1>3, <1>4, OpenedKeepsOwned DEF proxyVars
<1>6. MapsAgree'
  <2>1. \A p \in Fds : f \notin DOMAIN sock_to_id[p]
    BY <1>4 DEF Sessions, NoStaleDescriptor
  <2>2. \A p \in Fds : \A id \in DOMAIN id_to_sock[p] : id_to_sock[p][id] # f
    BY <1>4, KindsApart, LoopAssumption DEF Sessions, MapsAgree
  <2>3. \A p \in Fds : \A id \in DOMAIN id_to_sock[p] : id_to_sock[p][id] \in Fds \cup {BadFd}
    BY MapsElim DEF TypeOK, MapTypes
  <2>4. \A g \in Fds : linked'[g] \in Proxies' => g \in DOMAIN sock_to_id'[linked'[g]]
    BY <1>2, <1>4 DEF Sessions, MapsAgree, proxyVars
  <2>5. ASSUME NEW p \in Fds, NEW id \in DOMAIN id_to_sock[p], id_to_sock[p][id] # BadFd
        PROVE  LET g == id_to_sock[p][id] IN
               /\ p \in Proxies' /\ linked'[g] \in {p, None} /\ sock'[g] \in Visitors
               /\ g \in DOMAIN sock_to_id'[p] /\ sock_to_id'[p][g] = id
    BY <1>2, <1>4, <2>2, <2>3, <2>5 DEF Sessions, MapsAgree, proxyVars
  <2> QED  BY <1>2, <2>4, <2>5 DEF MapsAgree, proxyVars
<1>7. NoStaleDescriptor'
  BY <1>2, <1>4, KindsApart DEF Sessions, NoStaleDescriptor, proxyVars
<1> QED  BY <1>5, <1>6, <1>7 DEF Sessions

\* GrokProxy::on_connect: the new descriptor was in no table.
LEMMA AcceptVisitorKeeps ==
    ASSUME TypeOK, IdsExclusive, Sessions, NEW p \in Fds, NEW register \in BOOLEAN,
           AcceptVisitor(p, register)
    PROVE  Sessions'
<1> USE DEF FreeFds
<1>1. PICK c \in Visitors, f \in Fds :
        /\ Accepted(p, c, f, "CAPTURE", register)
        /\ LinkClient(p, f)
        /\ writeq' = Queued(initiator[p], Packet("CONNECTED", NextId, c))
        /\ interest' = IF register THEN [Watched(initiator[p]) EXCEPT ![f] = {"IN"}]
                                   ELSE Watched(initiator[p])
  BY DEF AcceptVisitor
<1> DEFINE t == initiator[p]
           id == NextId
<1>2. SameServers /\ UNCHANGED <<observers, users, initiator>> /\ p \in Proxies /\ p # Main
  BY <1>1 DEF AcceptVisitor, Accepted, Arrival, SameServers, Proxies
<1>3. Opened(p, c, f, register) /\ readq' = [readq EXCEPT ![f] = Append(@, "CAPTURE")]
  BY <1>1, <1>2 DEF Accepted, NewFd, Opened, Proxies
<1>4. /\ sock[f] = None /\ c \in Conns /\ t \in Fds /\ t # f /\ sock[t] # None
      /\ \A g \in Fds \ {f} : sock'[g] = sock[g] /\ linked'[g] = linked[g] /\ readq'[g] = readq[g]
      /\ sock'[f] = c /\ linked'[f] \in {p, None}
      /\ \A o \in Fds : clients'[o] \subseteq clients[o] \cup {f}
  <2>1. sock[f] = None /\ linked[f] = None
    BY <1>3 DEF Opened, Sessions, NoStaleDescriptor
  <2>2. t \in Fds /\ sock[t] # None
    BY <1>2, ProxyOwner, KindsApart DEF Sessions
  <2>3. c \in Conns
    BY ServerAssumption
  <2> QED  BY <1>3, <2>1, <2>2, <2>3 DEF Opened, TypeOK, TableTypes, NetTypes, QueueTypes
<1>5. \A g \in Fds \ {f, t} : writeq'[g] = writeq[g] /\ interest'[g] = interest[g]
  <2>1. Watched(t) \in [Fds -> SUBSET {"IN", "OUT"}]
    BY WatchedType DEF TypeOK
  <2> QED  BY <1>1, <2>1, SendElsewhere
<1>6. SessionOwned' /\ Rooted'
  BY <1>2, <1>3, <1>4, OpenedKeepsOwned
<1>7. /\ \A q \in Fds \ {p} : sock_to_id'[q] = sock_to_id[q] /\ id_to_sock'[q] = id_to_sock[q]
      /\ sock_to_id'[p] = Put(sock_to_id[p], f, id) /\ id_to_sock'[p] = Put(id_to_sock[p], id, f)
  BY <1>1 DEF LinkClient, TypeOK, MapTypes
<1>8. \A q \in Fds : f \notin DOMAIN sock_to_id[q] /\ id \notin DOMAIN id_to_sock[q]
  BY <1>4, NextIdIsFree DEF Sessions, NoStaleDescriptor
<1>9. \A q \in Fds : \A i \in DOMAIN id_to_sock[q] :
          id_to_sock[q][i] # f /\ id_to_sock[q][i] \in Fds \cup {BadFd}
  BY <1>4, KindsApart, LoopAssumption, MapsElim DEF Sessions, MapsAgree, TypeOK, MapTypes
<1>10. MapsAgree'
  <2>1. \A g \in Fds : linked'[g] \in Proxies' => g \in DOMAIN sock_to_id'[linked'[g]]
    <3> SUFFICES ASSUME NEW g \in Fds, linked'[g] \in Proxies'
                 PROVE  g \in DOMAIN sock_to_id'[linked'[g]]
      OBVIOUS
    <3>1. CASE g = f
      BY <1>2, <1>4, <1>7, <3>1, LoopAssumption DEF Put, Proxies, TypeOK, TableTypes
    <3>2. CASE g # f
      <4>1. linked[g] \in Proxies /\ linked[g] \in Fds /\ g \in DOMAIN sock_to_id[linked[g]]
        BY <1>2, <1>4, <3>2 DEF Sessions, MapsAgree, Proxies, TypeOK, TableTypes
      <4> QED  BY <1>4, <1>7, <3>2, <4>1 DEF Put
    <3> QED  BY <3>1, <3>2
  <2>2. ASSUME NEW q \in Fds, NEW i \in DOMAIN id_to_sock'[q], id_to_sock'[q][i] # BadFd
        PROVE  LET g == id_to_sock'[q][i] IN
               /\ q \in Proxies' /\ linked'[g] \in {q, None} /\ sock'[g] \in Visitors
               /\ g \in DOMAIN sock_to_id'[q] /\ sock_to_id'[q][g] = i
    <3>1. CASE q = p /\ i = id
      BY <1>2, <1>4, <1>7, <3>1 DEF Put, Proxies
    <3>2. CASE i \in DOMAIN id_to_sock[q]
      <4> DEFINE g == id_to_sock[q][i]
      <4>1. id_to_sock'[q][i] = g /\ g # f /\ g \in Fds
        BY <1>7, <1>8, <1>9, <2>2, <3>2 DEF Put
      <4>2. /\ q \in Proxies /\ linked[g] \in {q, None} /\ sock[g] \in Visitors
            /\ g \in DOMAIN sock_to_id[q] /\ sock_to_id[q][g] = i
        BY <2>2, <3>2, <4>1 DEF Sessions, MapsAgree
      <4>3. g \in DOMAIN sock_to_id'[q] /\ sock_to_id'[q][g] = i
        BY <1>7, <4>1, <4>2 DEF Put
      <4> QED  BY <1>2, <1>4, <4>1, <4>2, <4>3 DEF Proxies
    <3> QED  BY <1>7, <3>1, <3>2 DEF Put
  <2> QED  BY <2>1, <2>2 DEF MapsAgree
<1>11. NoStaleDescriptor'
  <2>1. \A g \in Fds : sock'[g] = None => g # f /\ g # t /\ sock[g] = None
    BY <1>4, KindsApart
  <2>2. \A g \in Fds, q \in Fds : g # f => (g \in DOMAIN sock_to_id'[q] <=> g \in DOMAIN sock_to_id[q])
    BY <1>7 DEF Put
  <2> QED  BY <1>2, <1>4, <1>5, <2>1, <2>2 DEF Sessions, NoStaleDescriptor
<1> QED  BY <1>6, <1>10, <1>11 DEF Sessions

\* on_connect of either observer when accept fails: -1 is no descriptor.
LEMMA AcceptFailsKeeps ==
    ASSUME TypeOK, IdsExclusive, Sessions,
           \/ AcceptTunnelFails
           \/ \E p \in Fds, register \in BOOLEAN : AcceptVisitorFails(p, register)
    PROVE  Sessions'
<1>1. /\ SameServers /\ UNCHANGED <<sock, observers, initiator, readq>>
      /\ \A f \in Fds : linked'[f] = linked[f]
      /\ \A f, o \in Fds : f \in clients'[o] <=> f \in clients[o]
  <2>1. PICK l \in Fds, register \in BOOLEAN : AcceptFailed(l, register)
    BY LoopAssumption DEF AcceptTunnelFails, AcceptVisitorFails
  <2>2. /\ UNCHANGED <<sock, observers, readq>>
        /\ clients' = clients \/ clients' = [clients EXCEPT ![l] = @ \cup {BadFd}]
        /\ linked' = linked \/ linked' = [linked EXCEPT ![BadFd] = l]
    BY <2>1 DEF AcceptFailed, netVars
  <2>3. UNCHANGED <<users, initiator>>
    BY DEF AcceptTunnelFails, AcceptVisitorFails, serverVars, proxyVars
  <2> QED  BY <2>2, <2>3, LoopAssumption DEF SameServers, TypeOK, TableTypes
<1>2. /\ \A q \in Fds, f \in Fds :
             /\ f \in DOMAIN sock_to_id'[q] <=> f \in DOMAIN sock_to_id[q]
             /\ f \in DOMAIN sock_to_id[q] => sock_to_id'[q][f] = sock_to_id[q][f]
      /\ \A q \in Fds : \A i \in DOMAIN id_to_sock'[q] :
             \/ id_to_sock'[q][i] = BadFd
             \/ i \in DOMAIN id_to_sock[q] /\ id_to_sock'[q][i] = id_to_sock[q][i]
  <2>1. CASE AcceptTunnelFails
    BY <2>1 DEF AcceptTunnelFails, serverVars, proxyVars
  <2>2. CASE \E p \in Fds, register \in BOOLEAN : AcceptVisitorFails(p, register)
    <3>1. PICK p \in Fds : LinkClient(p, BadFd)
      BY <2>2 DEF AcceptVisitorFails
    <3>2. /\ \A q \in Fds \ {p} : sock_to_id'[q] = sock_to_id[q] /\ id_to_sock'[q] = id_to_sock[q]
          /\ sock_to_id'[p] = Put(sock_to_id[p], BadFd, NextId)
          /\ id_to_sock'[p] = Put(id_to_sock[p], NextId, BadFd)
      BY <3>1 DEF LinkClient, TypeOK, MapTypes
    <3> QED  BY <3>2, LoopAssumption DEF Put
  <2> QED  BY <2>1, <2>2
<1>3. \A f \in FreeFds : writeq'[f] = writeq[f] /\ interest'[f] = interest[f]
  <2>1. CASE AcceptTunnelFails
    BY <2>1 DEF AcceptTunnelFails
  <2>2. CASE \E p \in Fds, register \in BOOLEAN : AcceptVisitorFails(p, register)
    <3>1. PICK p \in Proxies : \E frame : Send(initiator[p], frame)
      BY <2>2 DEF AcceptVisitorFails, Arrival, Proxies
    <3>2. sock[initiator[p]] # None
      BY ProxyOwner, KindsApart DEF Sessions
    <3> QED  BY <3>1, <3>2, SendElsewhere DEF Send, FreeFds
  <2> QED  BY <2>1, <2>2
<1>4. SessionOwned' /\ Rooted'
  BY <1>1 DEF Sessions, SessionOwned, Rooted, SameServers, Proxies
<1>5. MapsAgree'
  <2>1. \A g \in Fds : linked'[g] \in Proxies' => g \in DOMAIN sock_to_id'[linked'[g]]
    BY <1>1, <1>2 DEF Sessions, MapsAgree, Proxies, TypeOK, TableTypes
  <2>2. ASSUME NEW q \in Fds, NEW i \in DOMAIN id_to_sock'[q], id_to_sock'[q][i] # BadFd
        PROVE  LET g == id_to_sock'[q][i] IN
               /\ q \in Proxies' /\ linked'[g] \in {q, None} /\ sock'[g] \in Visitors
               /\ g \in DOMAIN sock_to_id'[q] /\ sock_to_id'[q][g] = i
    <3> DEFINE g == id_to_sock[q][i]
    <3>1. i \in DOMAIN id_to_sock[q] /\ id_to_sock'[q][i] = g
      BY <1>2, <2>2
    <3>2. /\ q \in Proxies /\ linked[g] \in {q, None} /\ sock[g] \in Visitors
          /\ g \in DOMAIN sock_to_id[q] /\ sock_to_id[q][g] = i
      BY <2>2, <3>1 DEF Sessions, MapsAgree
    <3>3. g \in Fds
      BY <2>2, <3>1, MapsElim DEF TypeOK, MapTypes
    <3> QED  BY <1>1, <1>2, <3>1, <3>2, <3>3 DEF Proxies
  <2> QED  BY <2>1, <2>2 DEF MapsAgree
<1>6. NoStaleDescriptor'
  BY <1>1, <1>2, <1>3 DEF Sessions, NoStaleDescriptor, SameServers, FreeFds
<1> QED  BY <1>4, <1>5, <1>6 DEF Sessions

----------------------------------------------------------------------------
(* Connections that end.                                                   *)

\* The queues a handler leaves before it closes anything are those of before
\* for what is already closed.
Untouched(q, w, i) == \A g \in FreeFds : q[g] = readq[g] /\ w[g] = writeq[g] /\ i[g] = interest[g]

\* Loop::force_disconnect, and a handler that closes a connection without server.
LEMMA CloseOne ==
    ASSUME TypeOK, Sessions, SameServers, UNCHANGED <<observers, initiator>>,
           NEW f \in Fds, linked[f] # None, users[f].server = None,
           NEW r, NEW q, NEW w, NEW i, CloseAll({f}, r, q, w, i), Untouched(q, w, i),
           clients' = [clients EXCEPT ![linked[f]] = @ \ {f}],
           \A p \in Fds : /\ DOMAIN sock_to_id'[p] \subseteq DOMAIN sock_to_id[p]
                         /\ f \notin DOMAIN sock_to_id'[p]
    PROVE  SessionOwned' /\ Rooted' /\ NoStaleDescriptor'
<1> USE DEF Sessions, Proxies
<1>1. /\ \A g \in Fds \ {f} : sock'[g] = sock[g] /\ linked'[g] = linked[g]
      /\ sock'[f] = None /\ linked'[f] = None
      /\ readq'[f] = <<>> /\ writeq'[f] = <<>> /\ interest'[f] = {}
      /\ \A g \in FreeFds \ {f} : /\ readq'[g] = readq[g] /\ writeq'[g] = writeq[g]
                                  /\ interest'[g] = interest[g]
  BY DEF CloseAll, Untouched, FreeFds
<1>2. linked[f] \in Fds /\ f \notin observers /\ \A p \in Fds : initiator[p] # f
  <2>1. linked[f] \in Fds /\ f \notin observers
    BY DEF SessionOwned, TypeOK, TableTypes
  <2>2. \A p \in Proxies : initiator[p] # f
    BY ProxyOwner, LoopAssumption
  <2>3. \A p \in Fds \ Proxies : initiator[p] # f
    BY LoopAssumption DEF Rooted
  <2> QED  BY <2>1, <2>2, <2>3
<1>3. \A g, o \in Fds : g \in clients'[o] <=> linked'[g] = o
  <2> SUFFICES ASSUME NEW g \in Fds, NEW o \in Fds PROVE g \in clients'[o] <=> linked'[g] = o
    OBVIOUS
  <2>1. g \in clients[o] <=> linked[g] = o
    BY DEF SessionOwned
  <2>2. clients'[o] = IF o = linked[f] THEN clients[o] \ {f} ELSE clients[o]
    BY <1>2 DEF TypeOK, TableTypes
  <2> QED  BY <1>1, <1>2, <2>1, <2>2, LoopAssumption
<1>4. /\ \A p \in Proxies : p \in Fds /\ p # f /\ sock'[p] = Listener
      /\ \A g \in Fds : users[g].server # None => linked'[g] = Main /\ sock'[g] \in Tunnels
      /\ \A g \in Fds : linked'[g] # None => linked'[g] \in observers /\ g \notin observers
  BY <1>1, <1>2 DEF SessionOwned, TypeOK, TableTypes
<1>5. SessionOwned'
  BY <1>3, <1>4 DEF SessionOwned, SameServers, TypeOK, TableTypes
<1>6. Rooted'
  BY <1>1, <1>2, LoopAssumption DEF Rooted
<1>7. \A g, o \in Fds : g \in clients'[o] => g # f /\ g \in clients[o]
  BY <1>1, <1>2, <1>3, LoopAssumption DEF SessionOwned
<1>8. NoStaleDescriptor'
  BY <1>1, <1>2, <1>7 DEF NoStaleDescriptor, SameServers, FreeFds
<1> QED  BY <1>5, <1>6, <1>8

\* The proxy p erases its connection f: every other keeps its entries.
StillMapped(p, f) ==
    /\ \A q \in Fds : DOMAIN sock_to_id'[q] =
          IF q = p THEN DOMAIN sock_to_id[p] \ {f} ELSE DOMAIN sock_to_id[q]
    /\ \A q \in Fds : \A i \in DOMAIN id_to_sock'[q] : id_to_sock'[q][i] # BadFd =>
          LET g == id_to_sock'[q][i] IN
          /\ g \in Fds /\ q \in Proxies /\ linked[g] \in {q, None} /\ sock[g] \in Visitors
          /\ g \in DOMAIN sock_to_id'[q] /\ sock_to_id'[q][g] = i
          /\ q = p => g # f

\* GrokProxy::unlink_client
LEMMA UnlinkedMaps ==
    ASSUME TypeOK, IdsExclusive, MapsAgree, NEW p \in Fds, NEW id \in Ids, Unlinked(p, id)
    PROVE  StillMapped(p, id_to_sock[p][id])
<1> DEFINE f == id_to_sock[p][id]
<1>1. /\ \A q \in Fds \ {p} : sock_to_id'[q] = sock_to_id[q] /\ id_to_sock'[q] = id_to_sock[q]
      /\ sock_to_id'[p] = Without(sock_to_id[p], f) /\ id_to_sock'[p] = Without(id_to_sock[p], id)
      /\ id \in DOMAIN id_to_sock[p]
  BY DEF Unlinked, TypeOK, MapTypes
<1>2. \A q \in Fds : DOMAIN sock_to_id'[q] =
                 IF q = p THEN DOMAIN sock_to_id[p] \ {f} ELSE DOMAIN sock_to_id[q]
  BY <1>1 DEF Without
<1>3. ASSUME NEW q \in Fds, NEW i \in DOMAIN id_to_sock'[q], id_to_sock'[q][i] # BadFd
      PROVE  LET g == id_to_sock'[q][i] IN
             /\ g \in Fds /\ q \in Proxies /\ linked[g] \in {q, None} /\ sock[g] \in Visitors
             /\ g \in DOMAIN sock_to_id'[q] /\ sock_to_id'[q][g] = i
             /\ q = p => g # f
  <2> DEFINE g == id_to_sock[q][i]
  <2>1. i \in DOMAIN id_to_sock[q] /\ id_to_sock'[q][i] = g /\ (q = p => i # id)
    BY <1>1 DEF Without
  <2>2. /\ q \in Proxies /\ linked[g] \in {q, None} /\ sock[g] \in Visitors
        /\ g \in DOMAIN sock_to_id[q] /\ sock_to_id[q][g] = i
    BY <1>3, <2>1 DEF MapsAgree
  <2>3. g \in Fds
    BY <1>3, <2>1, MapsElim DEF TypeOK, MapTypes
  <2>4. q = p => g # f
    <3> SUFFICES ASSUME q = p, g = f PROVE FALSE
      OBVIOUS
    <3>1. f # BadFd
      BY <1>3, <2>1
    <3>2. sock_to_id[p][f] = id
      BY <1>1, <3>1 DEF MapsAgree
    <3> QED  BY <2>1, <2>2, <3>2
  <2>5. g \in DOMAIN sock_to_id'[q] /\ sock_to_id'[q][g] = i
    BY <1>1, <2>2, <2>4 DEF Without
  <2> QED  BY <2>1, <2>2, <2>3, <2>4, <2>5
<1> QED  BY <1>2, <1>3 DEF StillMapped

\* FreeGrok::on_disconnect of a tunnel without proxy.
LEMMA IdleTunnelHangUpKeeps ==
    ASSUME TypeOK, IdsExclusive, Sessions, NEW f \in Fds, IdleTunnelHangUp(f)
    PROVE  Sessions'
<1>1. /\ SameServers /\ UNCHANGED <<observers, proxyVars>>
      /\ linked[f] = Main /\ users[f].server = None /\ Main \in Fds /\ Main # None
      /\ CloseAll({f}, rx, readq, writeq, interest)
      /\ clients' = [clients EXCEPT ![linked[f]] = @ \ {f}]
  BY LoopAssumption DEF IdleTunnelHangUp, SameServers, serverVars
<1>2. \A p \in Fds : f \notin DOMAIN sock_to_id[p]
  BY <1>1, InTable DEF Sessions, Proxies
<1>3. SessionOwned' /\ Rooted' /\ NoStaleDescriptor'
  BY <1>1, <1>2, CloseOne DEF Untouched, proxyVars
<1>4. \A g \in Fds \ {f} : sock'[g] = sock[g] /\ linked'[g] = linked[g]
  BY <1>1 DEF CloseAll
<1>5. linked'[f] = None
  BY <1>1 DEF CloseAll
<1>6. \A g \in Fds : linked'[g] \in Proxies' => g \in DOMAIN sock_to_id'[linked'[g]]
  BY <1>1, <1>4, <1>5, LoopAssumption, ZenonT(60) DEF Sessions, MapsAgree, Proxies, proxyVars, TypeOK, TableTypes
<1>7. ASSUME NEW q \in Fds, NEW i \in DOMAIN id_to_sock[q], id_to_sock[q][i] # BadFd
      PROVE  LET g == id_to_sock[q][i] IN
             /\ q \in Proxies' /\ linked'[g] \in {q, None} /\ sock'[g] \in Visitors
             /\ g \in DOMAIN sock_to_id'[q] /\ sock_to_id'[q][g] = i
  <2> DEFINE g == id_to_sock[q][i]
  <2>1. /\ q \in Proxies /\ linked[g] \in {q, None} /\ sock[g] \in Visitors
        /\ g \in DOMAIN sock_to_id[q] /\ sock_to_id[q][g] = i
    BY <1>7 DEF Sessions, MapsAgree
  <2>2. g \in Fds /\ g # f
    BY <1>2, <1>7, <2>1, MapsElim DEF TypeOK, MapTypes
  <2> QED  BY <1>1, <1>4, <2>1, <2>2 DEF Proxies, proxyVars
<1> QED  BY <1>1, <1>3, <1>6, <1>7 DEF Sessions, MapsAgree, proxyVars

\* One connection of a proxy is unlinked and closed.
LEMMA CloseVisitor ==
    ASSUME TypeOK, IdsExclusive, Sessions, SameServers, UNCHANGED <<observers, initiator>>,
           NEW p \in Fds, NEW id \in Ids, Unlinked(p, id),
           NEW f \in Fds, f = id_to_sock[p][id], linked[f] = p,
           NEW r, NEW q, NEW w, NEW i, CloseAll({f}, r, q, w, i), Untouched(q, w, i),
           clients' = [clients EXCEPT ![p] = @ \ {f}]
    PROVE  Sessions'
<1>0. StillMapped(p, f)
  BY UnlinkedMaps DEF Sessions
<1>1. /\ p \in Proxies /\ p # None /\ sock[f] \in Visitors
  BY LoopAssumption DEF Sessions, MapsAgree, Unlinked
<1>2. users[f].server = None
  BY <1>1, KindsApart DEF Sessions, SessionOwned
<1>3. \A o \in Fds : /\ DOMAIN sock_to_id'[o] \subseteq DOMAIN sock_to_id[o]
                     /\ f \notin DOMAIN sock_to_id'[o]
  <2> SUFFICES ASSUME NEW o \in Fds
               PROVE  /\ DOMAIN sock_to_id'[o] \subseteq DOMAIN sock_to_id[o]
                      /\ f \notin DOMAIN sock_to_id'[o]
    OBVIOUS
  <2>1. DOMAIN sock_to_id'[o] =
           IF o = p THEN DOMAIN sock_to_id[p] \ {f} ELSE DOMAIN sock_to_id[o]
    BY <1>0 DEF StillMapped
  <2>2. o # p => f \notin DOMAIN sock_to_id[o]
    BY <1>1, InTable DEF Sessions
  <2> QED  BY <2>1, <2>2
<1>4. SessionOwned' /\ Rooted' /\ NoStaleDescriptor'
  BY <1>1, <1>2, <1>3, CloseOne
<1>5. /\ \A g \in Fds \ {f} : sock'[g] = sock[g] /\ linked'[g] = linked[g]
      /\ linked'[f] = None
  BY DEF CloseAll
<1>6. \A g \in Fds : linked'[g] \in Proxies' => g \in DOMAIN sock_to_id'[linked'[g]]
  <2> SUFFICES ASSUME NEW g \in Fds, linked'[g] \in Proxies'
               PROVE  g \in DOMAIN sock_to_id'[linked'[g]]
    OBVIOUS
  <2>1. g # f /\ linked'[g] = linked[g] /\ linked[g] \in Proxies /\ linked[g] \in Fds
    BY <1>5, LoopAssumption DEF Proxies, TypeOK, TableTypes
  <2>2. g \in DOMAIN sock_to_id[linked[g]]
    BY <2>1 DEF Sessions, MapsAgree
  <2> QED  BY <1>5, <2>1, <2>2, <1>0 DEF StillMapped
<1>7. ASSUME NEW o \in Fds, NEW k \in DOMAIN id_to_sock'[o], id_to_sock'[o][k] # BadFd
      PROVE  LET g == id_to_sock'[o][k] IN
             /\ o \in Proxies' /\ linked'[g] \in {o, None} /\ sock'[g] \in Visitors
             /\ g \in DOMAIN sock_to_id'[o] /\ sock_to_id'[o][g] = k
  <2> DEFINE g == id_to_sock'[o][k]
  <2>1. /\ g \in Fds /\ o \in Proxies /\ linked[g] \in {o, None} /\ sock[g] \in Visitors
        /\ g \in DOMAIN sock_to_id'[o] /\ sock_to_id'[o][g] = k /\ (o = p => g # f)
    BY <1>0, <1>7 DEF StillMapped
  <2>2. g # f
    BY <1>3, <2>1
  <2> QED  BY <1>5, <2>1, <2>2 DEF Proxies
<1> QED  BY <1>4, <1>6, <1>7 DEF Sessions, MapsAgree

\* GrokProxy::on_disconnect
LEMMA VisitorHangUpKeeps ==
    ASSUME TypeOK, IdsExclusive, Sessions, NEW f \in Fds, VisitorHangUp(f)
    PROVE  Sessions'
<1> DEFINE p == linked[f]
           id == sock_to_id[p][f]
           t == initiator[p]
           w == Queued(t, Packet("DISCONNECT", id, None))
           i == Watched(t)
<1>1. /\ p \in Proxies /\ p \in Fds /\ f \in DOMAIN sock_to_id[p]
      /\ SameServers /\ UNCHANGED <<observers, initiator>>
      /\ clients' = [clients EXCEPT ![p] = @ \ {f}]
      /\ CloseAll({f}, rx, readq, w, i)
  BY DEF VisitorHangUp, SameServers, Proxies, TypeOK, TableTypes
<1>2. id \in DOMAIN id_to_sock[p] /\ id_to_sock[p][id] = f /\ id \in Ids
  <2>1. id \in DOMAIN id_to_sock[p] /\ id_to_sock[p][id] = f
    BY <1>1, InTable DEF Sessions
  <2>2. sock_to_id[p] \in Maps(Fds \cup {BadFd}, Ids)
    BY <1>1 DEF TypeOK, MapTypes
  <2>3. id \in Ids
    BY <1>1, <2>2, MapsElim
  <2> QED  BY <2>1, <2>3
<1>3. Unlinked(p, id)
  BY <1>2 DEF VisitorHangUp, Unlinked
<1>4. Untouched(readq, w, i)
  <2>1. t \in Fds /\ sock[t] # None
    BY <1>1, ProxyOwner, KindsApart DEF Sessions
  <2> QED  BY <2>1, SendElsewhere DEF Untouched, FreeFds
<1> HIDE DEF p, id, w, i
<1>5. linked[f] = p
  BY DEF p
<1> QED  BY <1>1, <1>2, <1>3, <1>4, <1>5, CloseVisitor

\* GROK_DISCONNECT: the connection is closed if the loop serves it, and unlinked
\* in any case.
LEMMA HandleDisconnectKeeps ==
    ASSUME TypeOK, IdsExclusive, Sessions, NEW f \in Fds, NEW m, HandleDisconnect(f, m)
    PROVE  Sessions'
<1> DEFINE p == users[f].server
           id == m.arg
           g == id_to_sock[p][id]
           closed == {x \in {g} : linked[x] # None}
<1>1. /\ p \in Fds /\ id \in DOMAIN id_to_sock[p] /\ id \in Ids /\ g \in Fds \cup {BadFd}
      /\ Unlinked(p, id)
  BY HeadType, MapsElim DEF HandleDisconnect, HasServer, HasClient, Unlinked, Incoming, TypeOK,
     SessionTypes, MapTypes
<1>2. /\ SameServers /\ UNCHANGED <<observers, initiator>>
      /\ clients' = [o \in Fds |-> IF o = linked[g] THEN clients[o] \ {g} ELSE clients[o]]
      /\ CloseAll(closed, Consumed(f), NewMessage(f), writeq, interest)
  BY DEF HandleDisconnect, SameServers
<1>3. Untouched(NewMessage(f), writeq, interest)
  <2>1. sock[f] # None
    BY KindsApart, ServerAssumption DEF HandleDisconnect, Request
  <2> QED  BY <2>1 DEF Untouched, NewMessage, FreeFds, TypeOK, QueueTypes
<1>4. g # BadFd => linked[g] \in {p, None}
  BY <1>1 DEF Sessions, MapsAgree
<1>5. StillMapped(p, g)
  BY <1>1, UnlinkedMaps DEF Sessions
<1> HIDE DEF p, id
<1>6. CASE g \in Fds /\ linked[g] = p
  <2>1. clients' = [clients EXCEPT ![p] = @ \ {g}]
    BY <1>2, <1>6 DEF TypeOK, TableTypes
  <2>2. closed = {g}
    BY <1>1, <1>6, LoopAssumption
  <2>3. CloseAll({g}, Consumed(f), NewMessage(f), writeq, interest)
    BY <1>2, <2>2
  <2>4. g = id_to_sock[p][id]
    OBVIOUS
  <2> HIDE DEF g
  <2> QED  BY <1>1, <1>2, <1>3, <1>6, <2>1, <2>3, <2>4, CloseVisitor
<1>7. CASE ~(g \in Fds /\ linked[g] = p)
  <2>1. \A x \in Fds : x \notin closed
    BY <1>1, <1>4, <1>7, LoopAssumption
  <2>2. \A x \in Fds : sock'[x] = sock[x] /\ linked'[x] = linked[x]
    BY <1>2, <2>1 DEF CloseAll
  <2>3. \A x \in FreeFds : readq'[x] = readq[x] /\ writeq'[x] = writeq[x] /\ interest'[x] = interest[x]
    BY <1>2, <1>3, <2>1 DEF CloseAll, Untouched, FreeFds
  <2>4. \A x, o \in Fds : x \in clients'[o] <=> x \in clients[o]
    <3>1. g \in Fds => \A o \in Fds : o # linked[g]
      BY <1>1, <1>4, <1>7, LoopAssumption
    <3> QED  BY <1>2, <3>1
  <2> HIDE DEF g, closed
  <2>5. SessionOwned' /\ Rooted'
    BY <1>2, <2>2, <2>4, LoopAssumption DEF Sessions, SessionOwned, Rooted, SameServers, Proxies,
       TypeOK, TableTypes
  <2>6. NoStaleDescriptor'
    <3>1. \A x \in Fds : sock'[x] = None => x \in FreeFds
      BY <2>2 DEF FreeFds
    <3>2. \A x, q \in Fds : x \in DOMAIN sock_to_id'[q] => x \in DOMAIN sock_to_id[q]
      BY <1>5 DEF StillMapped
    <3> QED  BY <1>2, <2>2, <2>3, <2>4, <3>1, <3>2
             DEF Sessions, NoStaleDescriptor, SameServers, FreeFds
  <2>7. \A x \in Fds : linked'[x] \in Proxies' => x \in DOMAIN sock_to_id'[linked'[x]]
    <3> SUFFICES ASSUME NEW x \in Fds, linked[x] \in Proxies
                 PROVE  x \in DOMAIN sock_to_id'[linked[x]]
      BY <1>2, <2>2 DEF Proxies
    <3>1. x \in DOMAIN sock_to_id[linked[x]] /\ linked[x] \in Fds
      BY DEF Sessions, MapsAgree, Proxies, TypeOK, TableTypes
    <3>2. linked[x] = p => x # g
      BY <1>7
    <3> QED  BY <1>5, <3>1, <3>2 DEF StillMapped
  <2>8. ASSUME NEW o \in Fds, NEW k \in DOMAIN id_to_sock'[o], id_to_sock'[o][k] # BadFd
        PROVE  LET x == id_to_sock'[o][k] IN
               /\ o \in Proxies' /\ linked'[x] \in {o, None} /\ sock'[x] \in Visitors
               /\ x \in DOMAIN sock_to_id'[o] /\ sock_to_id'[o][x] = k
    BY <1>2, <1>5, <2>2, <2>8 DEF StillMapped, Proxies
  <2> QED  BY <2>5, <2>6, <2>7, <2>8 DEF Sessions, MapsAgree
<1> QED  BY <1>6, <1>7

----------------------------------------------------------------------------
(* Proxies that come and go.                                               *)

\* GROK_CREATE_SERVER, for a tunnel that has none.
LEMMA HandleCreateKeeps ==
    ASSUME TypeOK, IdsExclusive, Sessions, NEW f \in Fds, sock[f] \in Tunnels,
           NEW m, NEW p \in Fds, HandleCreate(f, m, p)
    PROVE  Sessions'
<1>1. /\ linked[f] = Main /\ users[f].server = None /\ sock[p] = None /\ p # f /\ p # Main
      /\ p \notin observers /\ linked[p] = None /\ users[p].server = None
      /\ \A q \in Fds : p \notin clients[q] /\ initiator[q] # p /\ p \notin DOMAIN sock_to_id[q]
  BY KindsApart DEF HandleCreate, Request, HasServer, NewFd, FreeFds, Sessions, NoStaleDescriptor, Rooted
<1>2. /\ \A g \in Fds : users'[g].server = IF g = f THEN p ELSE users[g].server
      /\ \A q \in Fds : initiator'[q] = IF q = p THEN f ELSE initiator[q]
      /\ observers' = observers \cup {p}
      /\ \A q \in Fds : clients'[q] = IF q = p THEN {} ELSE clients[q]
      /\ \A g \in Fds : sock'[g] = IF g = p THEN Listener ELSE sock[g]
      /\ linked' = linked
      /\ \A q \in Fds : /\ sock_to_id'[q] = IF q = p THEN Empty ELSE sock_to_id[q]
                        /\ id_to_sock'[q] = IF q = p THEN Empty ELSE id_to_sock[q]
  BY DEF HandleCreate, TypeOK, SessionTypes, TableTypes, NetTypes, MapTypes
<1>3. \A g \in FreeFds \ {p} : readq'[g] = readq[g] /\ writeq'[g] = writeq[g] /\ interest'[g] = interest[g]
  <2>1. sock[f] # None
    BY KindsApart
  <2>2. Watched(f) \in [Fds -> SUBSET {"IN", "OUT"}]
    BY WatchedType DEF TypeOK
  <2>3. \A g \in Fds \ {f} : Queued(f, Packet("CREATE_SERVER", 0, None))[g] = writeq[g]
    BY SendElsewhere
  <2>4. \A g \in Fds \ {f} : Watched(f)[g] = interest[g]
    BY SendElsewhere
  <2>5. \A g \in Fds \ {f} : readq'[g] = readq[g]
    BY DEF HandleCreate, NewMessage, TypeOK, QueueTypes
  <2>6. /\ writeq' = Queued(f, Packet("CREATE_SERVER", 0, None))
        /\ interest' = [Watched(f) EXCEPT ![p] = {"IN"}]
    BY DEF HandleCreate
  <2> QED  BY <2>1, <2>2, <2>3, <2>4, <2>5, <2>6 DEF FreeFds
<1>4. /\ Proxies' = Proxies \cup {p} /\ p \notin Proxies
      /\ \A q \in Proxies : q # p /\ initiator[q] # f
  <2>1. \A q \in Proxies : users[initiator[q]].server = q /\ q # None
    BY ProxyOwner, LoopAssumption DEF Sessions
  <2> QED  BY <1>1, <1>2, <2>1 DEF Proxies
<1>5. SessionOwned'
  <2>1. \A q \in Proxies' : /\ initiator'[q] \in Fds /\ sock'[q] = Listener
                            /\ users'[initiator'[q]].server = q
    <3> SUFFICES ASSUME NEW q \in Proxies'
                 PROVE  /\ initiator'[q] \in Fds /\ sock'[q] = Listener
                        /\ users'[initiator'[q]].server = q
      OBVIOUS
    <3>1. CASE q = p
      BY <1>2, <3>1
    <3>2. CASE q \in Proxies
      BY <1>2, <1>4, <3>2, ProxyOwner DEF Sessions
    <3> QED  BY <1>4, <3>1, <3>2
  <2>2. ASSUME NEW g \in Fds, users'[g].server # None
        PROVE  /\ users'[g].server \in Proxies' /\ initiator'[users'[g].server] = g
               /\ linked'[g] = Main /\ sock'[g] \in Tunnels
    <3>1. CASE g = f
      BY <1>1, <1>2, <1>4, <3>1
    <3>2. CASE g # f
      <4>1. /\ users[g].server \in Proxies /\ initiator[users[g].server] = g
            /\ linked[g] = Main /\ sock[g] \in Tunnels
        BY <1>2, <2>2, <3>2 DEF Sessions, SessionOwned
      <4>2. users[g].server \in Fds /\ g # p
        BY <1>1, <4>1, ProxyOwner, LoopAssumption DEF Sessions
      <4> QED  BY <1>2, <1>4, <3>2, <4>1, <4>2
    <3> QED  BY <3>1, <3>2
  <2>3. \A g, o \in Fds : g \in clients'[o] <=> linked'[g] = o
    BY <1>1, <1>2, LoopAssumption DEF Sessions, SessionOwned
  <2>4. \A g \in Fds : linked'[g] # None => linked'[g] \in observers' /\ g \notin observers'
    BY <1>1, <1>2 DEF Sessions, SessionOwned
  <2> QED  BY <2>1, <2>2, <2>3, <2>4 DEF SessionOwned
<1>6. Rooted'
  BY <1>1, <1>2, <1>4, LoopAssumption DEF Sessions, Rooted
<1>7. NoStaleDescriptor'
  <2>1. \A g \in Fds : sock'[g] = None => g # p /\ g # f /\ sock[g] = None
    BY <1>2, KindsApart
  <2>2. DOMAIN Empty = {}
    BY DEF Empty
  <2> QED  BY <1>1, <1>2, <1>3, <2>1, <2>2 DEF Sessions, NoStaleDescriptor, FreeFds
<1>8. \A g \in Fds : linked'[g] \in Proxies' => g \in DOMAIN sock_to_id'[linked'[g]]
  <2> SUFFICES ASSUME NEW g \in Fds, linked[g] \in Proxies'
               PROVE  g \in DOMAIN sock_to_id'[linked[g]]
    BY <1>2
  <2>1. linked[g] # p /\ linked[g] \in Proxies
    BY <1>1, <1>4, LoopAssumption DEF Sessions, SessionOwned
  <2>2. linked[g] \in Fds /\ g \in DOMAIN sock_to_id[linked[g]]
    BY <2>1, ProxyOwner DEF Sessions, MapsAgree
  <2> QED  BY <1>2, <2>1, <2>2
<1>9. ASSUME NEW o \in Fds, NEW k \in DOMAIN id_to_sock'[o], id_to_sock'[o][k] # BadFd
      PROVE  LET x == id_to_sock'[o][k] IN
             /\ o \in Proxies' /\ linked'[x] \in {o, None} /\ sock'[x] \in Visitors
             /\ x \in DOMAIN sock_to_id'[o] /\ sock_to_id'[o][x] = k
  <2> DEFINE x == id_to_sock[o][k]
  <2>1. o # p /\ k \in DOMAIN id_to_sock[o] /\ id_to_sock'[o][k] = x
    BY <1>2 DEF Empty
  <2>2. /\ o \in Proxies /\ linked[x] \in {o, None} /\ sock[x] \in Visitors
        /\ x \in DOMAIN sock_to_id[o] /\ sock_to_id[o][x] = k
    BY <1>9, <2>1 DEF Sessions, MapsAgree
  <2>3. x \in Fds
    BY <1>9, <2>1, MapsElim DEF TypeOK, MapTypes
  <2>4. x # p
    BY <1>1, <2>2, KindsApart
  <2> QED  BY <1>2, <1>4, <2>1, <2>2, <2>3, <2>4
<1> QED  BY <1>5, <1>6, <1>7, <1>8, <1>9 DEF Sessions, MapsAgree

\* FreeGrok::on_disconnect of a tunnel with a proxy: the proxy, its listener and
\* all it serves go with it.
LEMMA TunnelHangUpKeeps ==
    ASSUME TypeOK, IdsExclusive, Sessions, NEW f \in Fds, TunnelHangUp(f)
    PROVE  Sessions'
<1> DEFINE p == users[f].server
           S == {f, p} \cup clients[p]
<1>1. /\ p \in Proxies /\ p \in Fds /\ p # Main /\ initiator[p] = f /\ linked[f] = Main
      /\ sock[f] \in Tunnels /\ sock[p] = Listener /\ f # p /\ f \notin observers
  <2>1. p # None
    BY DEF TunnelHangUp
  <2>2. p \in Proxies /\ initiator[p] = f /\ linked[f] = Main /\ sock[f] \in Tunnels
    BY <2>1 DEF Sessions, SessionOwned
  <2> QED  BY <2>2, ProxyOwner, KindsApart DEF Sessions, Proxies, TunnelHangUp
<1>2. /\ CloseAll(S, rx, readq, writeq, interest)
      /\ observers' = observers \ {p}
      /\ \A q \in Fds : clients'[q] = IF q = p THEN {} ELSE IF q = Main THEN clients[q] \ {f} ELSE clients[q]
      /\ \A g \in Fds : users'[g].server = IF g = f THEN None ELSE users[g].server
      /\ \A q \in Fds : initiator'[q] = IF q = p THEN None ELSE initiator[q]
      /\ \A q \in Fds : /\ sock_to_id'[q] = IF q = p THEN Empty ELSE sock_to_id[q]
                        /\ id_to_sock'[q] = IF q = p THEN Empty ELSE id_to_sock[q]
  BY <1>1 DEF TunnelHangUp, NoUser, TypeOK, SessionTypes, TableTypes, MapTypes
<1>3. Proxies' = Proxies \ {p}
  BY <1>1, <1>2 DEF Proxies
<1>4. \A g \in Fds : g \in S <=> g = f \/ g = p \/ linked[g] = p
  BY <1>1 DEF Sessions, SessionOwned
<1>5. \A g \in Fds : linked[g] = p => sock[g] \in Visitors
  BY <1>1, ServedIsVisitor DEF Sessions
<1> HIDE DEF p, S
<1>6. \A g \in Fds :
         /\ g \in S => /\ sock'[g] = None /\ linked'[g] = None
                      /\ readq'[g] = <<>> /\ writeq'[g] = <<>> /\ interest'[g] = {}
         /\ g \notin S => /\ sock'[g] = sock[g] /\ linked'[g] = linked[g]
                         /\ readq'[g] = readq[g] /\ writeq'[g] = writeq[g]
                         /\ interest'[g] = interest[g]
  BY <1>2 DEF CloseAll
<1>7. /\ \A q \in observers \ {p} : q \in Fds /\ q \notin S
      /\ p \in Fds /\ f \in S /\ p \in S /\ None \notin Fds
  BY <1>1, <1>4, LoopAssumption DEF Sessions, SessionOwned, TypeOK, TableTypes
<1>8. \A g \in Fds \ {f} : users[g].server # None =>
          /\ users[g].server \in Proxies /\ users[g].server # p
          /\ initiator[users[g].server] = g /\ linked[g] = Main /\ sock[g] \in Tunnels
          /\ users[g].server \in Fds /\ g \notin S
  <2> SUFFICES ASSUME NEW g \in Fds \ {f}, users[g].server # None
               PROVE  /\ users[g].server \in Proxies /\ users[g].server # p
                      /\ initiator[users[g].server] = g /\ linked[g] = Main /\ sock[g] \in Tunnels
                      /\ users[g].server \in Fds /\ g \notin S
    OBVIOUS
  <2>1. /\ users[g].server \in Proxies /\ initiator[users[g].server] = g
        /\ linked[g] = Main /\ sock[g] \in Tunnels
    BY DEF Sessions, SessionOwned
  <2>2. users[g].server # p
    BY <1>1, <2>1
  <2>3. g # p /\ linked[g] # p
    BY <1>1, <2>1, KindsApart
  <2> QED  BY <1>4, <2>1, <2>2, <2>3, ProxyOwner DEF Sessions
<1>9. SessionOwned'
  <2>1. ASSUME NEW q \in Proxies'
        PROVE  /\ initiator'[q] \in Fds /\ sock'[q] = Listener
               /\ users'[initiator'[q]].server = q
    <3>1. q \in Proxies /\ q # p /\ q \in Fds /\ q \notin S
      BY <1>3, <1>7 DEF Proxies
    <3>2. initiator[q] \in Fds /\ sock[q] = Listener /\ users[initiator[q]].server = q
      BY <3>1, ProxyOwner DEF Sessions
    <3>3. initiator[q] # f
      BY <3>1, <3>2 DEF p
    <3> QED  BY <1>2, <1>6, <3>1, <3>2, <3>3
  <2>2. ASSUME NEW g \in Fds, users'[g].server # None
        PROVE  /\ users'[g].server \in Proxies' /\ initiator'[users'[g].server] = g
               /\ linked'[g] = Main /\ sock'[g] \in Tunnels
    <3>1. g # f /\ users'[g].server = users[g].server
      BY <1>2, <2>2
    <3> QED  BY <1>2, <1>3, <1>6, <1>8, <2>2, <3>1
  <2>3. ASSUME NEW g \in Fds, NEW o \in Fds PROVE g \in clients'[o] <=> linked'[g] = o
    <3>1. g \in clients[o] <=> linked[g] = o
      BY DEF Sessions, SessionOwned
    <3>2. linked[p] = None /\ o # None
      BY <1>1, <1>7 DEF Sessions, SessionOwned, Proxies
    <3>3. CASE g \in S
      <4>1. linked[g] \in {p, None} \/ g = f
        BY <1>4, <3>2, <3>3
      <4>2. g \notin clients'[o]
        <5>1. CASE o = p
          BY <1>2, <5>1
        <5>2. CASE o # p /\ g = f
          BY <1>1, <1>2, <3>1, <5>2
        <5>3. CASE o # p /\ linked[g] \in {p, None}
          <6>1. g \notin clients[o]
            BY <3>1, <3>2, <5>3
          <6> QED  BY <1>2, <5>3, <6>1
        <5> QED  BY <4>1, <5>1, <5>2, <5>3
      <4> QED  BY <1>6, <3>2, <3>3, <4>2
    <3>4. CASE g \notin S
      <4>1. g # f /\ linked[g] # p /\ linked'[g] = linked[g]
        BY <1>4, <1>6, <3>4
      <4> QED  BY <1>2, <3>1, <4>1
    <3> QED  BY <3>3, <3>4
  <2>4. ASSUME NEW g \in Fds, linked'[g] # None
        PROVE  linked'[g] \in observers' /\ g \notin observers'
    <3>1. g \notin S /\ linked'[g] = linked[g] /\ linked[g] # p
      BY <1>4, <1>6, <2>4
    <3>2. linked[g] \in observers /\ g \notin observers
      BY <2>4, <3>1 DEF Sessions, SessionOwned
    <3> QED  BY <1>2, <3>1, <3>2
  <2> QED  BY <2>1, <2>2, <2>3, <2>4 DEF SessionOwned
<1>10. Rooted'
  BY <1>1, <1>2, <1>3, <1>6, <1>7 DEF Sessions, Rooted
<1>11. ASSUME NEW g \in Fds, NEW q \in Fds \ {p}, g \in DOMAIN sock_to_id[q] PROVE g \notin S
  <2>1. q \in Proxies /\ linked[g] \in {q, None} /\ sock[g] \in Visitors
    BY <1>11, InTable DEF Sessions
  <2> QED  BY <1>1, <1>4, <1>7, <2>1, KindsApart
<1>12. NoStaleDescriptor'
  <2>1. ASSUME NEW g \in Fds, g \in S
        PROVE  /\ readq'[g] = <<>> /\ writeq'[g] = <<>> /\ interest'[g] = {}
               /\ linked'[g] = None /\ g \notin observers' /\ users'[g].server = None
               /\ \A q \in Fds : /\ g \notin clients'[q] /\ initiator'[q] # g
                                 /\ g \notin DOMAIN sock_to_id'[q]
    <3>1. readq'[g] = <<>> /\ writeq'[g] = <<>> /\ interest'[g] = {} /\ linked'[g] = None
      BY <1>6, <2>1
    <3>2. g \notin observers'
      BY <1>2, <1>7, <2>1
    <3>3. users'[g].server = None
      BY <1>2, <1>8, <2>1
    <3>4. \A q \in Fds : g \notin clients'[q]
      BY <1>9, <3>1, LoopAssumption DEF SessionOwned
    <3>5. ASSUME NEW q \in Fds PROVE initiator'[q] # g
      <4>1. CASE q \in Proxies'
        BY <1>9, <3>3, <4>1, <1>7, ProxyOwner DEF SessionOwned, Proxies
      <4>2. CASE q \notin Proxies'
        BY <1>7, <1>10, <4>2 DEF Rooted
      <4> QED  BY <4>1, <4>2
    <3>6. \A q \in Fds : g \notin DOMAIN sock_to_id'[q]
      BY <1>2, <1>11, <2>1 DEF Empty
    <3> QED  BY <3>1, <3>2, <3>3, <3>4, <3>5, <3>6
  <2>2. ASSUME NEW g \in FreeFds, g \notin S
        PROVE  /\ readq'[g] = <<>> /\ writeq'[g] = <<>> /\ interest'[g] = {}
               /\ linked'[g] = None /\ g \notin observers' /\ users'[g].server = None
               /\ \A q \in Fds : /\ g \notin clients'[q] /\ initiator'[q] # g
                                 /\ g \notin DOMAIN sock_to_id'[q]
    <3>1. g \in Fds
      BY DEF FreeFds
    <3>2. DOMAIN Empty = {}
      BY DEF Empty
    <3>3. /\ readq[g] = <<>> /\ writeq[g] = <<>> /\ interest[g] = {}
          /\ linked[g] = None /\ g \notin observers /\ users[g].server = None
          /\ \A q \in Fds : /\ g \notin clients[q] /\ initiator[q] # g
                            /\ g \notin DOMAIN sock_to_id[q]
      BY DEF Sessions, NoStaleDescriptor
    <3>4. /\ readq'[g] = <<>> /\ writeq'[g] = <<>> /\ interest'[g] = {} /\ linked'[g] = None
          /\ g \notin observers' /\ users'[g].server = None
      BY <1>2, <1>6, <2>2, <3>1, <3>3
    <3>5. \A q \in Fds : /\ g \notin clients'[q] /\ initiator'[q] # g
                         /\ g \notin DOMAIN sock_to_id'[q]
      BY <1>2, <1>7, <3>1, <3>2, <3>3, ZenonT(60)
    <3> QED  BY <3>4, <3>5
  <2>3. \A g \in FreeFds' : g \in Fds /\ (g \in S \/ g \in FreeFds)
    BY <1>6 DEF FreeFds
  <2> QED  BY <2>1, <2>2, <2>3 DEF NoStaleDescriptor
<1>13. \A g \in Fds : linked'[g] \in Proxies' => g \in DOMAIN sock_to_id'[linked'[g]]
  <2> SUFFICES ASSUME NEW g \in Fds, linked'[g] \in Proxies'
               PROVE  g \in DOMAIN sock_to_id'[linked'[g]]
    OBVIOUS
  <2>1. linked'[g] \in Fds /\ linked'[g] = linked[g] /\ linked[g] \in Proxies /\ linked[g] # p
    <3>1. linked'[g] \in Fds /\ linked'[g] # p /\ linked'[g] \in Proxies /\ linked'[g] # None
      BY <1>3, <1>7 DEF Proxies
    <3> QED  BY <1>6, <3>1
  <2>2. g \in DOMAIN sock_to_id[linked[g]]
    BY <2>1 DEF Sessions, MapsAgree
  <2> QED  BY <1>2, <2>1, <2>2
<1>14. ASSUME NEW o \in Fds, NEW k \in DOMAIN id_to_sock'[o], id_to_sock'[o][k] # BadFd
       PROVE  LET x == id_to_sock'[o][k] IN
              /\ o \in Proxies' /\ linked'[x] \in {o, None} /\ sock'[x] \in Visitors
              /\ x \in DOMAIN sock_to_id'[o] /\ sock_to_id'[o][x] = k
  <2> DEFINE x == id_to_sock[o][k]
  <2>1. o # p /\ k \in DOMAIN id_to_sock[o] /\ id_to_sock'[o][k] = x
    BY <1>2 DEF Empty
  <2>2. /\ o \in Proxies /\ linked[x] \in {o, None} /\ sock[x] \in Visitors
        /\ x \in DOMAIN sock_to_id[o] /\ sock_to_id[o][x] = k
    BY <1>14, <2>1 DEF Sessions, MapsAgree
  <2>3. x \in Fds
    BY <1>14, <2>1, MapsElim DEF TypeOK, MapTypes
  <2>4. x \notin S
    BY <1>11, <2>1, <2>2, <2>3
  <2>5. o \in Proxies' /\ linked'[x] \in {o, None} /\ sock'[x] \in Visitors
    BY <1>3, <1>6, <2>1, <2>2, <2>3, <2>4
  <2>6. x \in DOMAIN sock_to_id'[o] /\ sock_to_id'[o][x] = k
    BY <1>2, <2>1, <2>2
  <2> QED  BY <2>1, <2>5, <2>6
<1> QED  BY <1>9, <1>10, <1>12, <1>13, <1>14 DEF Sessions, MapsAgree

----------------------------------------------------------------------------
(* The theorems.                                                           *)

\* main sets up the main listener and nothing else.
LEMMA InitSessions == Init => Sessions
<1> SUFFICES ASSUME Init PROVE Sessions
  OBVIOUS
<1> USE LoopAssumption DEF Init, LoopInit, Proxies
<1>1. SessionOwned
  BY DEF SessionOwned, NoUser
<1>2. MapsAgree
  BY DEF MapsAgree, Empty
<1>3. NoStaleDescriptor
  BY DEF NoStaleDescriptor, FreeFds, NoUser, Empty
<1>4. Rooted
  BY DEF Rooted
<1> QED  BY <1>1, <1>2, <1>3, <1>4 DEF Sessions

\* An exception leaves everything as it is.
LEMMA UnknownHangUpKeeps ==
    ASSUME Sessions, NEW f \in Fds, UnknownHangUp(f)
    PROVE  Sessions'
<1>1. SameServers /\ ClosedUntouched /\ UNCHANGED <<sock, tableVars, proxyVars>>
  BY DEF UnknownHangUp, Throw, SameServers, ClosedUntouched, serverVars, queueVars, netVars
<1> QED  BY <1>1, QuietKeeps

(* Every step keeps the sessions. *)
LEMMA NextKeepsSessions == TypeOK /\ IdsExclusive /\ Sessions /\ [Next]_vars => Sessions'
<1> SUFFICES ASSUME TypeOK, IdsExclusive, Sessions, [Next]_vars PROVE Sessions'
  OBVIOUS
<1>1. CASE Peers \/ (EpollWait /\ UNCHANGED <<serverVars, view>>)
  BY <1>1, OutsideKeeps
<1>2. CASE AcceptTunnel \/ AcceptTunnelFails
  BY <1>2, AcceptTunnelKeeps, AcceptFailsKeeps
<1>3. CASE \E p \in Fds, register \in BOOLEAN :
              AcceptVisitor(p, register) \/ AcceptVisitorFails(p, register)
  BY <1>3, AcceptVisitorKeeps, AcceptFailsKeeps
<1>4. CASE \E f \in Fds : \/ TunnelHangUp(f) \/ IdleTunnelHangUp(f)
                          \/ VisitorHangUp(f) \/ UnknownHangUp(f)
  BY <1>4, TunnelHangUpKeeps, IdleTunnelHangUpKeeps, VisitorHangUpKeeps, UnknownHangUpKeeps
<1>5. CASE \E t \in Tunnels, f \in Fds :
              sock[f] = t /\ rx[t] # <<>> /\ Handle(f, Head(rx[t]))
  <2>1. PICK f \in Fds : sock[f] \in Tunnels /\ \E m : Handle(f, m)
    BY <1>5
  <2>2. PICK m : Handle(f, m)
    BY <2>1
  <2>3. CASE \E p \in Fds : HandleCreate(f, m, p)
    BY <2>1, <2>3, HandleCreateKeeps
  <2>4. CASE ~\E p \in Fds : HandleCreate(f, m, p)
    BY <2>2, <2>4, AnswerKeeps, HandleDisconnectKeeps DEF Handle
  <2> QED  BY <2>3, <2>4
<1>6. CASE \E f \in Fds : \/ VisitorData(f) \/ VisitorDataFails(f) \/ LoopStep(f)
                          \/ \E n \in 0 .. Len(writeq[f]) : Deliver(f, n)
  BY <1>6, QuietSteps
<1>7. CASE UNCHANGED vars
  <2>1. SameServers /\ ClosedUntouched /\ UNCHANGED <<sock, tableVars, proxyVars>>
    BY <1>7 DEF vars, loopVars, netVars, queueVars, serverVars, SameServers, ClosedUntouched
  <2> QED  BY <2>1, QuietKeeps
<1> QED  BY <1>1, <1>2, <1>3, <1>4, <1>5, <1>6, <1>7 DEF Next, Server

(* The sessions hold in every reachable state. *)
LEMMA SessionsHold == Spec => []Sessions
BY TypeCorrect, IdentifiersExclusive, InitSessions, NextKeepsSessions, PTL DEF Spec

(* A proxy lives exactly as long as the open connection that asked for it,  *)
(* and the loop's links are the observers' clients: no GrokProxy pointer,   *)
(* in users, in the loop or in a link, outlives its object.                 *)
THEOREM SessionsOwned == Spec => []SessionOwned
<1>1. Sessions => SessionOwned
  BY DEF Sessions
<1> QED  BY <1>1, SessionsHold, PTL

(* The loop's tables and the proxies' agree: sock_to_id.at finds every      *)
(* visitor the loop has an event for, and an identifier names an open one.  *)
THEOREM TablesAgree == Spec => []MapsAgree
<1>1. Sessions => MapsAgree
  BY DEF Sessions
<1> QED  BY <1>1, SessionsHold, PTL

(* A closed descriptor leaves no session behind: no queue, link, proxy or   *)
(* map of a proxy knows it when the next connection gets its number, and    *)
(* users has no proxy for it.  The rights that users keeps of a connection  *)
(* that had no proxy are not meant: they do stay.                           *)
THEOREM NothingStale == Spec => []NoStaleDescriptor
<1>1. Sessions => NoStaleDescriptor
  BY DEF Sessions
<1> QED  BY <1>1, SessionsHold, PTL

----------------------------------------------------------------------------
(* No identifier is lost.                                                  *)

\* No accept fails for a proxy that has the -1 of an earlier failure in its
\* tables: the second would overwrite sock_to_id[-1], as the run failed_accept
\* shows.
NoOverwrite ==
    \A p \in Fds, register \in BOOLEAN :
        AcceptVisitorFails(p, register) => BadFd \notin DOMAIN sock_to_id[p]

\* The maps of a proxy are inverse this way round too, and only proxies have any.
IdsReturnable ==
    /\ \A p \in Fds : \A id \in DOMAIN id_to_sock[p] :
          /\ id_to_sock[p][id] \in DOMAIN sock_to_id[p]
          /\ sock_to_id[p][id_to_sock[p][id]] = id
    /\ \A p \in Fds \ Proxies : DOMAIN id_to_sock[p] = {}

\* What steps do to the tables, the pool and the proxies while nothing is overwritten.
TableStep ==
    \/ UNCHANGED <<sock_to_id, id_to_sock, poolVars, observers>>
    \/ \E p \in Proxies, f \in Fds \cup {BadFd} :
          f \notin DOMAIN sock_to_id[p] /\ LinkClient(p, f) /\ UNCHANGED observers
    \/ \E p \in Fds, id \in Ids : Unlinked(p, id) /\ UNCHANGED observers
    \/ \E p \in Fds : ShutDown(p) /\ observers' = observers \ {p}
    \/ \E p \in Fds \ Proxies : Cleared(p) /\ UNCHANGED poolVars /\ observers' = observers \cup {p}

\* on_connect links a descriptor that is in no table of its proxy.
LEMMA ArrivalIsTableStep ==
    ASSUME TypeOK, Sessions, NoOverwrite, NEW p \in Fds, NEW register \in BOOLEAN,
           AcceptVisitor(p, register) \/ AcceptVisitorFails(p, register)
    PROVE  TableStep
<1>1. p \in Proxies
  BY DEF AcceptVisitor, AcceptVisitorFails, Arrival, Proxies
<1>2. CASE AcceptVisitor(p, register)
  <2>1. PICK c \in Visitors, f \in Fds :
          Accepted(p, c, f, "CAPTURE", register) /\ LinkClient(p, f)
    BY <1>2 DEF AcceptVisitor
  <2>2. f \in FreeFds /\ UNCHANGED observers
    BY <2>1 DEF Accepted, NewFd
  <2>3. f \notin DOMAIN sock_to_id[p]
    BY <2>2 DEF Sessions, NoStaleDescriptor
  <2> QED  BY <1>1, <2>1, <2>2, <2>3 DEF TableStep
<1>3. CASE AcceptVisitorFails(p, register)
  <2>1. BadFd \notin DOMAIN sock_to_id[p]
    BY <1>3 DEF NoOverwrite
  <2>2. LinkClient(p, BadFd) /\ UNCHANGED observers
    BY <1>3 DEF AcceptVisitorFails, AcceptFailed
  <2> QED  BY <1>1, <2>1, <2>2 DEF TableStep
<1> QED  BY <1>2, <1>3

\* A hangup unlinks one connection, shuts one proxy down, or leaves the tables alone.
LEMMA HangUpIsTableStep ==
    ASSUME TypeOK, IdsExclusive, NEW f \in Fds,
           TunnelHangUp(f) \/ IdleTunnelHangUp(f) \/ VisitorHangUp(f) \/ UnknownHangUp(f)
    PROVE  TableStep
<1>1. CASE TunnelHangUp(f)
  <2>1. users[f].server \in Fds
    BY <1>1 DEF TypeOK, SessionTypes, TunnelHangUp
  <2>2. ShutDown(users[f].server) /\ observers' = observers \ {users[f].server}
    BY <1>1 DEF TunnelHangUp, ShutDown, Cleared, Returned
  <2> QED  BY <2>1, <2>2 DEF TableStep
<1>2. CASE VisitorHangUp(f)
  <2> DEFINE p == linked[f]
             id == sock_to_id[p][f]
  <2>1. p \in Fds /\ f \in DOMAIN sock_to_id[p]
    BY <1>2 DEF TypeOK, TableTypes, VisitorHangUp, Proxies
  <2>2. id \in Ids
    BY <2>1, MapsElim DEF TypeOK, MapTypes
  <2>3. id \in DOMAIN id_to_sock[p] /\ id_to_sock[p][id] = f
    BY <2>1 DEF IdsExclusive, MapsInverse
  <2>4. Unlinked(p, id) /\ UNCHANGED observers
    BY <1>2, <2>3 DEF VisitorHangUp, Unlinked
  <2> QED  BY <2>1, <2>2, <2>4 DEF TableStep
<1>3. CASE IdleTunnelHangUp(f) \/ UnknownHangUp(f)
  BY <1>3 DEF TableStep, IdleTunnelHangUp, UnknownHangUp, Throw, serverVars, proxyVars, tableVars
<1> QED  BY <1>1, <1>2, <1>3

\* A request unlinks one connection, creates one proxy, or leaves the tables alone.
LEMMA HandleIsTableStep ==
    ASSUME TypeOK, Sessions, NEW f \in Fds, NEW m, Handle(f, m)
    PROVE  TableStep
<1>1. CASE \E p \in Fds : HandleCreate(f, m, p)
  <2>1. PICK p \in Fds : HandleCreate(f, m, p)
    BY <1>1
  <2>2. p \notin Proxies
    BY <2>1 DEF HandleCreate, NewFd, Sessions, NoStaleDescriptor, Proxies
  <2> QED  BY <2>1, <2>2 DEF HandleCreate, Cleared, TableStep
<1>2. CASE HandleDisconnect(f, m)
  <2>1. users[f].server \in Fds /\ m.arg \in Ids
    BY <1>2, HeadType DEF TypeOK, SessionTypes, HandleDisconnect, HasServer, Incoming
  <2>2. Unlinked(users[f].server, m.arg) /\ UNCHANGED observers
    BY <1>2 DEF HandleDisconnect, HasClient, Unlinked
  <2> QED  BY <2>1, <2>2 DEF TableStep
<1>3. CASE Refuse(f, m) \/ HandlePing(f, m) \/ HandlePacket(f, m)
  BY <1>3 DEF Refuse, HandlePing, HandlePacket, Answer, TableStep, serverVars, proxyVars, tableVars
<1>4. CASE HandleAuth(f, m) \/ CreateThrows(f, m)
  BY <1>4 DEF HandleAuth, CreateThrows, Throw, TableStep, serverVars, proxyVars, tableVars
<1> QED  BY <1>1, <1>2, <1>3, <1>4 DEF Handle

\* Nothing in the program touches the tables, the pool and the proxies otherwise.
LEMMA NextIsTableStep ==
    ASSUME TypeOK, IdsExclusive, Sessions, [NoOverwrite]_vars, [Next]_vars
    PROVE  TableStep
<1>1. CASE UNCHANGED vars
  BY <1>1 DEF TableStep, vars, loopVars, serverVars, proxyVars, tableVars
<1>2. CASE Peers \/ (EpollWait /\ UNCHANGED <<serverVars, view>>)
  BY <1>2 DEF Peers, TunnelConnects, VisitorConnects, HangsUp, ResetsConnection, VisitorSends,
              TunnelAsks, TunnelNames, PeerCloses, PeerResets, PeerConnects, PeerSends, EpollWait,
              TableStep, serverVars, proxyVars, tableVars
<1>3. CASE ~UNCHANGED vars /\ \E p \in Fds, register \in BOOLEAN :
              AcceptVisitor(p, register) \/ AcceptVisitorFails(p, register)
  BY <1>3, ArrivalIsTableStep
<1>4. CASE \E f \in Fds : \/ TunnelHangUp(f) \/ IdleTunnelHangUp(f)
                          \/ VisitorHangUp(f) \/ UnknownHangUp(f)
  BY <1>4, HangUpIsTableStep
<1>5. CASE \E t \in Tunnels, f \in Fds :
              sock[f] = t /\ rx[t] # <<>> /\ Handle(f, Head(rx[t]))
  BY <1>5, HandleIsTableStep
<1>6. CASE AcceptTunnel \/ AcceptTunnelFails
  BY <1>6 DEF AcceptTunnel, AcceptTunnelFails, Accepted, AcceptFailed, TableStep, serverVars, proxyVars
<1>7. CASE \E f \in Fds : \/ VisitorData(f) \/ VisitorDataFails(f) \/ LoopStep(f)
                          \/ \E n \in 0 .. Len(writeq[f]) : Deliver(f, n)
  BY <1>7 DEF VisitorData, VisitorDataFails, LoopStep, StaleHangup, ThrowOnEvent, Throw, WriteFails,
              ReadFails, ReadPart, Deliver, Write, TableStep, serverVars, proxyVars, tableVars
<1> QED  BY <1>1, <1>2, <1>3, <1>4, <1>5, <1>6, <1>7 DEF Next, Server

\* GrokProxy::link_client of a connection in no table keeps identifiers returnable.
LEMMA LinkKeepsReturnable ==
    ASSUME TypeOK, IdsExclusive, IdsReturnable, NEW p \in Proxies, NEW f \in Fds \cup {BadFd},
           f \notin DOMAIN sock_to_id[p], LinkClient(p, f), UNCHANGED observers
    PROVE  IdsReturnable'
<1>0. p \in Fds
  BY DEF Proxies, TypeOK, TableTypes
<1>1. /\ sock_to_id'[p] = Put(sock_to_id[p], f, NextId)
      /\ id_to_sock'[p] = Put(id_to_sock[p], NextId, f)
      /\ \A q \in Fds \ {p} : sock_to_id'[q] = sock_to_id[q] /\ id_to_sock'[q] = id_to_sock[q]
  BY <1>0 DEF LinkClient, TypeOK, MapTypes
<1>2. NextId \notin DOMAIN id_to_sock[p]
  BY <1>0, NextIdIsFree
<1>3. ASSUME NEW q \in Fds, NEW id \in DOMAIN id_to_sock'[q]
      PROVE  /\ id_to_sock'[q][id] \in DOMAIN sock_to_id'[q]
             /\ sock_to_id'[q][id_to_sock'[q][id]] = id
  <2>1. CASE q = p /\ id = NextId
    BY <1>1, <2>1 DEF Put
  <2>2. CASE id \in DOMAIN id_to_sock[q]
    <3>1. id_to_sock[q][id] \in DOMAIN sock_to_id[q] /\ sock_to_id[q][id_to_sock[q][id]] = id
      BY <2>2 DEF IdsReturnable
    <3> QED  BY <1>1, <1>2, <2>2, <3>1 DEF Put
  <2> QED  BY <1>1, <2>1, <2>2 DEF Put
<1>4. \A q \in Fds \ Proxies' : DOMAIN id_to_sock'[q] = {}
  BY <1>1 DEF IdsReturnable, Proxies
<1> QED  BY <1>3, <1>4 DEF IdsReturnable

\* GrokProxy::unlink_client keeps identifiers returnable.
LEMMA UnlinkKeepsReturnable ==
    ASSUME TypeOK, IdsExclusive, IdsReturnable, NEW p \in Fds, NEW x \in Ids, Unlinked(p, x),
           UNCHANGED observers
    PROVE  IdsReturnable'
<1> DEFINE f == id_to_sock[p][x]
<1>1. /\ sock_to_id'[p] = Without(sock_to_id[p], f)
      /\ id_to_sock'[p] = Without(id_to_sock[p], x)
      /\ x \in DOMAIN id_to_sock[p]
      /\ \A q \in Fds \ {p} : sock_to_id'[q] = sock_to_id[q] /\ id_to_sock'[q] = id_to_sock[q]
  BY DEF Unlinked, TypeOK, MapTypes
<1>2. sock_to_id[p][f] = x
  BY <1>1 DEF IdsReturnable
<1> HIDE DEF f
<1>3. ASSUME NEW q \in Fds, NEW id \in DOMAIN id_to_sock'[q]
      PROVE  /\ id_to_sock'[q][id] \in DOMAIN sock_to_id'[q]
             /\ sock_to_id'[q][id_to_sock'[q][id]] = id
  <2>1. id \in DOMAIN id_to_sock[q] /\ id_to_sock'[q][id] = id_to_sock[q][id] /\ (q = p => id # x)
    BY <1>1 DEF Without
  <2>2. id_to_sock[q][id] \in DOMAIN sock_to_id[q] /\ sock_to_id[q][id_to_sock[q][id]] = id
    BY <2>1 DEF IdsReturnable
  <2>3. q = p => id_to_sock[q][id] # f
    BY <1>2, <2>1, <2>2
  <2> QED  BY <1>1, <2>1, <2>2, <2>3 DEF Without
<1>4. \A q \in Fds \ Proxies' : DOMAIN id_to_sock'[q] = {}
  BY <1>1 DEF IdsReturnable, Proxies, Without
<1> QED  BY <1>3, <1>4 DEF IdsReturnable

\* A proxy that goes, or comes, has empty maps.
LEMMA ClearKeepsReturnable ==
    ASSUME TypeOK, IdsReturnable, NEW p \in Fds, Cleared(p),
           observers' = observers \ {p} \/ observers' = observers \cup {p}
    PROVE  IdsReturnable'
<1>1. /\ sock_to_id'[p] = Empty /\ id_to_sock'[p] = Empty
      /\ \A q \in Fds \ {p} : sock_to_id'[q] = sock_to_id[q] /\ id_to_sock'[q] = id_to_sock[q]
  BY DEF Cleared, TypeOK, MapTypes
<1> QED  BY <1>1 DEF IdsReturnable, Proxies, Empty

\* Identifiers stay returnable.
LEMMA StepKeepsReturnable ==
    ASSUME TypeOK, IdsExclusive, IdsReturnable, TableStep
    PROVE  IdsReturnable'
<1>1. CASE UNCHANGED <<sock_to_id, id_to_sock, poolVars, observers>>
  BY <1>1 DEF IdsReturnable, Proxies
<1>2. CASE \E p \in Fds : ShutDown(p) /\ observers' = observers \ {p}
  BY <1>2, ClearKeepsReturnable DEF ShutDown
<1> QED  BY <1>1, <1>2, LinkKeepsReturnable, UnlinkKeepsReturnable, ClearKeepsReturnable DEF TableStep

----------------------------------------------------------------------------
(* What steps do to the pool.                                              *)

\* Each sequence of all connections of a proxy names each of them.
LEMMA OrderIsOnto ==
    ASSUME MapTypes, NEW p \in Fds, NEW order \in SetToSeqs(DOMAIN sock_to_id[p])
    PROVE  ToSet(order) = DOMAIN sock_to_id[p]
<1> DEFINE S == DOMAIN sock_to_id[p]
           D == 1 .. Cardinality(S)
<1>1. IsFiniteSet(S)
  <2>1. S \subseteq Fds \cup {BadFd}
    BY MapsElim DEF MapTypes
  <2>2. IsFiniteSet(Fds \cup {BadFd})
    BY ServerAssumption, FS_AddElement
  <2> QED  BY <2>1, <2>2, FS_Subset
<1>2. Cardinality(S) \in Nat
  BY <1>1, FS_CardinalityType
<1>3. order \in [D -> S] /\ \A i, j \in D : i # j => order[i] # order[j]
  BY DEF SetToSeqs
<1>4. Cardinality(D) = Cardinality(S)
  BY <1>2, FS_Interval
<1> HIDE DEF S, D
<1>5. order \in Injection(D, S)
  BY <1>3 DEF Injection, IsInjective
<1>6. order \in Surjection(D, S)
  BY <1>1, <1>4, <1>5, FS_Injection
<1> QED  BY <1>3, <1>6 DEF Surjection, ToSet, S

\* GrokProxy::shutdown returns what the proxy holds, all of it.
LEMMA ReturnedIsHeld ==
    ASSUME TypeOK, IdsExclusive, IdsReturnable, NEW p \in Fds,
           NEW order \in SetToSeqs(DOMAIN sock_to_id[p])
    PROVE  ToSet(Returned(p, order)) = DOMAIN id_to_sock[p]
<1>1. ToSet(order) = DOMAIN sock_to_id[p]
  BY OrderIsOnto DEF TypeOK
<1>2. ToSet(Returned(p, order)) = {sock_to_id[p][f] : f \in DOMAIN sock_to_id[p]}
  BY <1>1 DEF ToSet, Returned
<1>3. \A f \in DOMAIN sock_to_id[p] : sock_to_id[p][f] \in DOMAIN id_to_sock[p]
  BY DEF IdsExclusive, MapsInverse
<1>4. \A id \in DOMAIN id_to_sock[p] : \E f \in DOMAIN sock_to_id[p] : sock_to_id[p][f] = id
  BY DEF IdsReturnable
<1> QED  BY <1>2, <1>3, <1>4

\* remove_id, repeated, adds what it is given.
LEMMA RemoveIdsAdds ==
    ASSUME PoolTypes, NEW returned \in Seq(Ids), RemoveIds(returned)
    PROVE  last' = last /\ ToSet(ids') = ToSet(ids) \cup ToSet(returned)
<1>1. last' = last /\ ids' = ids \o returned /\ ids \in Seq(Ids)
  BY DEF RemoveIds, PoolTypes
<1>3. \A i \in DOMAIN ids : i \in DOMAIN ids' /\ ids'[i] = ids[i]
  BY <1>1
<1>4. \A i \in DOMAIN returned : i + Len(ids) \in DOMAIN ids' /\ ids'[i + Len(ids)] = returned[i]
  BY <1>1
<1>5. \A i \in DOMAIN ids' : \/ i \in DOMAIN ids /\ ids'[i] = ids[i]
                             \/ i - Len(ids) \in DOMAIN returned /\ ids'[i] = returned[i - Len(ids)]
  BY <1>1
<1>6. ToSet(ids) \cup ToSet(returned) \subseteq ToSet(ids')
  BY <1>3, <1>4 DEF ToSet
<1>7. ToSet(ids') \subseteq ToSet(ids) \cup ToSet(returned)
  BY <1>5 DEF ToSet
<1> QED  BY <1>1, <1>6, <1>7

\* get_id takes one identifier out of the pool, or the next there is.
LEMMA GetIdTakes ==
    ASSUME PoolTypes, IdAvailable, GetId
    PROVE  \/ last' = last + 1 /\ NextId = last /\ ToSet(ids) = {} /\ ToSet(ids') = {}
           \/ last' = last /\ ToSet(ids) = ToSet(ids') \cup {NextId}
<1>1. last \in Nat /\ ids \in Seq(Ids) /\ IdSpace \in Nat /\ last < IdSpace
  BY IdSpaceAssumption DEF PoolTypes, Ids
<1>2. CASE ids = <<>>
  BY <1>1, <1>2 DEF GetId, IdAvailable, NextId, ToSet
<1>3. CASE ids # <<>>
  <2>1. ids' = Tail(ids) /\ last' = last /\ NextId = ids[1]
    BY <1>1, <1>3 DEF GetId, NextId
  <2>2. \A i \in DOMAIN ids' : i + 1 \in DOMAIN ids /\ ids'[i] = ids[i + 1]
    BY <1>1, <1>3, <2>1
  <2>3. \A i \in DOMAIN ids : i # 1 => i - 1 \in DOMAIN ids' /\ ids'[i - 1] = ids[i]
    BY <1>1, <1>3, <2>1
  <2>4. 1 \in DOMAIN ids
    BY <1>1, <1>3
  <2> QED  BY <2>1, <2>2, <2>3, <2>4 DEF ToSet
<1> QED  BY <1>2, <1>3

\* No identifier is lost by link_client.
LEMMA LinkKeepsComplete ==
    ASSUME TypeOK, PoolComplete, NEW p \in Fds, NEW f, LinkClient(p, f)
    PROVE  PoolComplete'
<1>1. /\ id_to_sock'[p] = Put(id_to_sock[p], NextId, f)
      /\ \A q \in Fds \ {p} : id_to_sock'[q] = id_to_sock[q]
  BY DEF LinkClient, TypeOK, MapTypes
<1>2. Held' = Held \cup {NextId}
  <2>1. /\ DOMAIN id_to_sock'[p] = DOMAIN id_to_sock[p] \cup {NextId}
        /\ \A q \in Fds \ {p} : DOMAIN id_to_sock'[q] = DOMAIN id_to_sock[q]
    BY <1>1 DEF Put
  <2> QED  BY <2>1 DEF Held
<1>3. \/ last' = last + 1 /\ NextId = last /\ ToSet(ids) = {} /\ ToSet(ids') = {}
      \/ last' = last /\ ToSet(ids) = ToSet(ids') \cup {NextId}
  BY GetIdTakes DEF LinkClient, TypeOK
<1>4. last \in Nat
  BY PoolIsNatural
<1>5. CASE last' = last /\ ToSet(ids) = ToSet(ids') \cup {NextId}
  BY <1>2, <1>5 DEF PoolComplete
<1>6. CASE last' = last + 1 /\ NextId = last /\ ToSet(ids) = {} /\ ToSet(ids') = {}
  <2>1. 0 .. last = 0 .. last - 1 \cup {last}
    BY <1>4
  <2>2. last' - 1 = last
    BY <1>4, <1>6
  <2> QED  BY <1>2, <1>6, <2>1, <2>2 DEF PoolComplete
<1> QED  BY <1>3, <1>5, <1>6

\* No identifier is lost by a step that gives those back which it erases.
LEMMA ReturnKeepsComplete ==
    ASSUME TypeOK, PoolComplete, NEW returned \in Seq(Ids), RemoveIds(returned),
           Held' \subseteq Held, Held = Held' \cup ToSet(returned)
    PROVE  PoolComplete'
BY RemoveIdsAdds DEF PoolComplete, TypeOK

\* No identifier is lost while nothing is overwritten.
LEMMA StepKeepsComplete ==
    ASSUME TypeOK, IdsExclusive, IdsReturnable, PoolComplete, TableStep
    PROVE  PoolComplete'
<1>1. CASE UNCHANGED <<sock_to_id, id_to_sock, poolVars, observers>>
  BY <1>1 DEF PoolComplete, Held, poolVars
<1>2. CASE \E p \in Proxies, f \in Fds \cup {BadFd} : LinkClient(p, f)
  BY <1>2, LinkKeepsComplete DEF Proxies, TypeOK, TableTypes
<1>3. ASSUME NEW p \in Fds, NEW id \in Ids, Unlinked(p, id) PROVE PoolComplete'
  <2>1. /\ id_to_sock'[p] = Without(id_to_sock[p], id) /\ id \in DOMAIN id_to_sock[p]
        /\ \A q \in Fds \ {p} : id_to_sock'[q] = id_to_sock[q]
    BY <1>3 DEF Unlinked, TypeOK, MapTypes
  <2>2. /\ DOMAIN id_to_sock'[p] = DOMAIN id_to_sock[p] \ {id}
        /\ \A q \in Fds \ {p} : DOMAIN id_to_sock'[q] = DOMAIN id_to_sock[q]
    BY <2>1 DEF Without
  <2>3. Held' \subseteq Held /\ Held = Held' \cup {id}
    BY <2>1, <2>2 DEF Held
  <2>4. ToSet(<<id>>) = {id} /\ <<id>> \in Seq(Ids)
    BY DEF ToSet
  <2> QED  BY <1>3, <2>3, <2>4, ReturnKeepsComplete DEF Unlinked
<1>4. ASSUME NEW p \in Fds, ShutDown(p) PROVE PoolComplete'
  <2>1. PICK order \in SetToSeqs(DOMAIN sock_to_id[p]) : RemoveIds(Returned(p, order))
    BY <1>4 DEF ShutDown
  <2>2. /\ DOMAIN id_to_sock'[p] = {}
        /\ \A q \in Fds \ {p} : DOMAIN id_to_sock'[q] = DOMAIN id_to_sock[q]
    BY <1>4 DEF ShutDown, Cleared, Empty, TypeOK, MapTypes
  <2>3. Held' \subseteq Held /\ Held = Held' \cup DOMAIN id_to_sock[p]
    BY <2>2 DEF Held
  <2>4. Returned(p, order) \in Seq(Ids)
    BY ReturnedType DEF TypeOK
  <2> QED  BY <2>1, <2>3, <2>4, ReturnedIsHeld, ReturnKeepsComplete
<1>5. ASSUME NEW p \in Fds \ Proxies, Cleared(p), UNCHANGED poolVars PROVE PoolComplete'
  <2>1. \A q \in Fds : DOMAIN id_to_sock'[q] = DOMAIN id_to_sock[q]
    BY <1>5 DEF Cleared, Empty, IdsReturnable, TypeOK, MapTypes
  <2>2. Held' = Held
    BY <2>1 DEF Held
  <2> QED  BY <1>5, <2>2 DEF PoolComplete, poolVars
<1> QED  BY <1>1, <1>2, <1>3, <1>4, <1>5 DEF TableStep

\* At the start nothing is held and nothing was handed out.
LEMMA InitComplete == Init => IdsReturnable /\ PoolComplete
<1> SUFFICES ASSUME Init PROVE IdsReturnable /\ PoolComplete
  OBVIOUS
<1>1. DOMAIN Empty = {} /\ 0 .. 0 - 1 = {}
  BY DEF Empty
<1> QED  BY <1>1 DEF Init, PoolInit, IdsReturnable, PoolComplete, Held, ToSet

\* Both are inductive relative to the sessions.
LEMMA NextKeepsComplete ==
    TypeOK /\ IdsExclusive /\ Sessions /\ IdsReturnable /\ PoolComplete /\ [NoOverwrite]_vars /\ [Next]_vars
        => IdsReturnable' /\ PoolComplete'
BY NextIsTableStep, StepKeepsReturnable, StepKeepsComplete

(* No identifier is lost: each that was handed out names a connection or    *)
(* waits in the pool, through unlink_client and shutdown in any order, as   *)
(* long as no accept fails for a proxy that has the entry of an earlier     *)
(* failure.  The run failed_accept shows that the condition is needed.      *)
THEOREM NoIdLost == Spec /\ [][NoOverwrite]_vars => []PoolComplete
BY TypeCorrect, IdentifiersExclusive, SessionsHold, InitComplete, NextKeepsComplete, PTL DEF Spec

----------------------------------------------------------------------------
(* The server implements the life cycle of IdLifecycle.                    *)

\* The domain of what IdLifecycle calls held, and its values.
LEMMA HeldByApply ==
    /\ \A p \in Fds : \A f : <<p, f>> \in DOMAIN HeldBy <=> f \in DOMAIN sock_to_id[p]
    /\ \A p \in Fds : \A f : f \in DOMAIN sock_to_id[p] => HeldBy[<<p, f>>] = sock_to_id[p][f]
    /\ \A c \in DOMAIN HeldBy : \E p \in Fds : \E f \in DOMAIN sock_to_id[p] : c = <<p, f>>
<1>1. \A c : c \in DOMAIN HeldBy <=> \E p \in Fds : \E f \in DOMAIN sock_to_id[p] : c = <<p, f>>
  BY DEF HeldBy
<1>2. \A p \in Fds : \A f : f \in DOMAIN sock_to_id[p] => HeldBy[<<p, f>>] = sock_to_id[p][f]
  BY <1>1 DEF HeldBy
<1> QED  BY <1>1, <1>2

\* A step that changes the table of one proxy: what is held by its connections
\* changes, and by those of the others does not.
LEMMA HeldByAfter ==
    ASSUME NEW p \in Fds, \A q \in Fds \ {p} : sock_to_id'[q] = sock_to_id[q]
    PROVE  /\ \A q \in Fds \ {p} : \A f :
                 /\ <<q, f>> \in DOMAIN HeldBy' <=> <<q, f>> \in DOMAIN HeldBy
                 /\ <<q, f>> \in DOMAIN HeldBy => HeldBy'[<<q, f>>] = HeldBy[<<q, f>>]
           /\ \A f : /\ <<p, f>> \in DOMAIN HeldBy' <=> f \in DOMAIN sock_to_id'[p]
                     /\ f \in DOMAIN sock_to_id'[p] => HeldBy'[<<p, f>>] = sock_to_id'[p][f]
           /\ \A c \in DOMAIN HeldBy' : \E q \in Fds : \E f : c = <<q, f>>
<1>1. \A c : c \in DOMAIN HeldBy' <=> \E q \in Fds : \E f \in DOMAIN sock_to_id'[q] : c = <<q, f>>
  BY DEF HeldBy
<1>2. \A q \in Fds : \A f : f \in DOMAIN sock_to_id'[q] => HeldBy'[<<q, f>>] = sock_to_id'[q][f]
  BY <1>1 DEF HeldBy
<1> QED  BY <1>1, <1>2, HeldByApply

\* GrokProxy::link_client is a connection that takes an identifier.
LEMMA LinkLinks ==
    ASSUME TypeOK, NEW p \in Fds, NEW f \in Fds \cup {BadFd}, f \notin DOMAIN sock_to_id[p],
           LinkClient(p, f)
    PROVE  Lifecycle!Next
<1> DEFINE c == <<p, f>>
           D == DOMAIN HeldBy \cup {c}
<1>1. /\ sock_to_id'[p] = Put(sock_to_id[p], f, NextId)
      /\ \A q \in Fds \ {p} : sock_to_id'[q] = sock_to_id[q]
  BY DEF LinkClient, TypeOK, MapTypes
<1>2. /\ DOMAIN sock_to_id'[p] = DOMAIN sock_to_id[p] \cup {f}
      /\ \A g \in DOMAIN sock_to_id'[p] :
            sock_to_id'[p][g] = IF g = f THEN NextId ELSE sock_to_id[p][g]
  BY <1>1 DEF Put
<1>3. c \notin DOMAIN HeldBy
  BY HeldByApply
<1>4. ASSUME NEW x PROVE x \in DOMAIN HeldBy' <=> x \in D
  <2>1. CASE \E q \in Fds : \E g : x = <<q, g>>
    <3>1. PICK q, g : q \in Fds /\ x = <<q, g>>
      BY <2>1
    <3> QED  BY <1>1, <1>2, <3>1, HeldByAfter, HeldByApply
  <2>2. CASE ~\E q \in Fds : \E g : x = <<q, g>>
    BY <1>1, <2>2, HeldByAfter, HeldByApply
  <2> QED  BY <2>1, <2>2
<1>5. ASSUME NEW x \in D PROVE HeldBy'[x] = IF x = c THEN NextId ELSE HeldBy[x]
  <2>1. PICK q, g : q \in Fds /\ x = <<q, g>>
    BY HeldByApply
  <2>2. x \in DOMAIN HeldBy'
    BY <1>4
  <2> QED  BY <1>1, <1>2, <2>1, <2>2, HeldByAfter, HeldByApply
<1>6. HeldBy' = [x \in D |-> IF x = c THEN NextId ELSE HeldBy[x]]
  BY <1>4, <1>5 DEF HeldBy
<1>7. Lifecycle!Link(c)
  BY <1>3, <1>6 DEF Lifecycle!Link, LinkClient, Lifecycle!NextId, NextId, Lifecycle!GetId, GetId,
                    Lifecycle!IdAvailable, IdAvailable
<1> QED  BY <1>7 DEF Lifecycle!Next

\* Entries of one table that are erased, their identifiers given back, are
\* connections that let go.
LEMMA ErasedLetGo ==
    ASSUME TypeOK, NEW p \in Fds, NEW gone \in SUBSET DOMAIN sock_to_id[p],
           DOMAIN sock_to_id'[p] = DOMAIN sock_to_id[p] \ gone,
           \A g \in DOMAIN sock_to_id'[p] : sock_to_id'[p][g] = sock_to_id[p][g],
           \A q \in Fds \ {p} : sock_to_id'[q] = sock_to_id[q],
           NEW order, ToSet(order) = {p} \X gone,
           RemoveIds([i \in DOMAIN order |-> HeldBy[order[i]]])
    PROVE  Lifecycle!LetGo(order)
<1> DEFINE D == DOMAIN HeldBy \ ToSet(order)
<1>1. ASSUME NEW x PROVE x \in DOMAIN HeldBy' <=> x \in D
  <2>1. CASE \E q \in Fds : \E g : x = <<q, g>>
    <3>1. PICK q, g : q \in Fds /\ x = <<q, g>>
      BY <2>1
    <3>2. x \in ToSet(order) <=> q = p /\ g \in gone
      BY <3>1
    <3> QED  BY <3>1, <3>2, HeldByAfter, HeldByApply
  <2>2. CASE ~\E q \in Fds : \E g : x = <<q, g>>
    BY <2>2, HeldByAfter, HeldByApply
  <2> QED  BY <2>1, <2>2
<1>2. ASSUME NEW x \in D PROVE HeldBy'[x] = HeldBy[x]
  <2>1. PICK q, g : q \in Fds /\ x = <<q, g>>
    BY HeldByApply
  <2>2. x \in DOMAIN HeldBy'
    BY <1>1
  <2> QED  BY <2>1, <2>2, HeldByAfter, HeldByApply
<1>3. HeldBy' = [x \in D |-> HeldBy[x]]
  BY <1>1, <1>2 DEF HeldBy
<1> QED  BY <1>3 DEF Lifecycle!LetGo, Lifecycle!RemoveIds, RemoveIds, Lifecycle!ToSet, ToSet

\* GrokProxy::unlink_client is one connection that lets go.
LEMMA UnlinkLetsGo ==
    ASSUME TypeOK, IdsReturnable, NEW p \in Fds, NEW id \in Ids, Unlinked(p, id)
    PROVE  Lifecycle!Next
<1> DEFINE f == id_to_sock[p][id]
           c == <<p, f>>
<1>1. /\ sock_to_id'[p] = Without(sock_to_id[p], f)
      /\ \A q \in Fds \ {p} : sock_to_id'[q] = sock_to_id[q]
      /\ id \in DOMAIN id_to_sock[p] /\ RemoveIds(<<id>>)
  BY DEF Unlinked, TypeOK, MapTypes
<1>2. f \in DOMAIN sock_to_id[p] /\ sock_to_id[p][f] = id
  BY <1>1 DEF IdsReturnable
<1> HIDE DEF f
<1>3. c \in DOMAIN HeldBy /\ HeldBy[c] = id
  BY <1>2, HeldByApply
<1>4. ToSet(<<c>>) = {p} \X {f}
  BY DEF ToSet
<1>5. [i \in DOMAIN <<c>> |-> HeldBy[<<c>>[i]]] = <<id>>
  BY <1>3
<1>6. /\ {f} \in SUBSET DOMAIN sock_to_id[p]
      /\ DOMAIN sock_to_id'[p] = DOMAIN sock_to_id[p] \ {f}
      /\ \A g \in DOMAIN sock_to_id'[p] : sock_to_id'[p][g] = sock_to_id[p][g]
  BY <1>1, <1>2 DEF Without
<1> HIDE DEF c
<1>7. RemoveIds([i \in DOMAIN <<c>> |-> HeldBy[<<c>>[i]]])
  BY <1>1, <1>5
<1>8. Lifecycle!LetGo(<<c>>)
  BY <1>1, <1>4, <1>6, <1>7, ErasedLetGo
<1>9. c \in Fds \X (Fds \cup {BadFd})
  BY <1>2, MapsElim DEF c, TypeOK, MapTypes
<1> QED  BY <1>3, <1>8, <1>9 DEF Lifecycle!Next, Lifecycle!Unlink

\* GrokProxy::shutdown is the connections of the proxy that let go, in some order.
LEMMA ShutDownLetsGo ==
    ASSUME TypeOK, NEW p \in Fds, ShutDown(p)
    PROVE  Lifecycle!Next
<1>1. PICK order \in SetToSeqs(DOMAIN sock_to_id[p]) : RemoveIds(Returned(p, order))
  BY DEF ShutDown
<1> DEFINE S == DOMAIN sock_to_id[p]
           T == {p} \X S
           pairs == [i \in DOMAIN order |-> <<p, order[i]>>]
<1>2. /\ order \in [1 .. Cardinality(S) -> S]
      /\ \A i, j \in 1 .. Cardinality(S) : i # j => order[i] # order[j]
  BY DEF SetToSeqs
<1>3. ToSet(order) = S
  BY OrderIsOnto DEF TypeOK
<1>4. Cardinality(T) = Cardinality(S)
  <2>1. IsFiniteSet(S)
    <3>1. S \subseteq Fds \cup {BadFd}
      BY MapsElim DEF TypeOK, MapTypes
    <3>2. IsFiniteSet(Fds \cup {BadFd})
      BY ServerAssumption, FS_AddElement
    <3> QED  BY <3>1, <3>2, FS_Subset
  <2>2. Cardinality(S) \in Nat
    BY <2>1, FS_CardinalityType
  <2>3. IsFiniteSet({p}) /\ Cardinality({p}) = 1
    BY FS_Singleton
  <2>4. Cardinality(T) = Cardinality({p}) * Cardinality(S)
    BY <2>1, <2>3, FS_Product
  <2> HIDE DEF T
  <2> QED  BY <2>2, <2>3, <2>4
<1>5. pairs \in SetToSeqs(T)
  BY <1>2, <1>4 DEF SetToSeqs
<1>6. ToSet(pairs) = T
  BY <1>3 DEF ToSet
<1>7. \A i \in DOMAIN order : pairs[i] \in DOMAIN HeldBy /\ HeldBy[pairs[i]] = sock_to_id[p][order[i]]
  BY <1>2, HeldByApply
<1>8. RemoveIds([i \in DOMAIN pairs |-> HeldBy[pairs[i]]])
  BY <1>1, <1>7 DEF Returned
<1>9. /\ DOMAIN sock_to_id'[p] = {}
      /\ \A q \in Fds \ {p} : sock_to_id'[q] = sock_to_id[q]
  BY DEF ShutDown, Cleared, Empty, TypeOK, MapTypes
<1>10. T \subseteq DOMAIN HeldBy
  BY HeldByApply
<1> HIDE DEF pairs
<1>11. Lifecycle!LetGo(pairs)
  BY <1>6, <1>8, <1>9, ErasedLetGo
<1>12. pairs \in Lifecycle!SetToSeqs(T)
  <2>1. \A X : Lifecycle!Cardinality(X) = Cardinality(X)
    BY DEF Lifecycle!Cardinality, Cardinality, Lifecycle!IsFiniteSet, IsFiniteSet
  <2> QED  BY <1>5, <2>1 DEF Lifecycle!SetToSeqs, SetToSeqs
<1> HIDE DEF T
<1>13. Lifecycle!ShutDown(T)
  BY <1>11, <1>12 DEF Lifecycle!ShutDown
<1> QED  BY <1>10, <1>13 DEF Lifecycle!Next

\* Every step of the server is one of the life cycle.
LEMMA NextIsLifecycleStep ==
    ASSUME TypeOK, IdsExclusive, IdsReturnable, TableStep
    PROVE  Lifecycle!Next \/ UNCHANGED Lifecycle!vars
<1>1. CASE UNCHANGED <<sock_to_id, id_to_sock, poolVars, observers>>
  BY <1>1 DEF Lifecycle!vars, HeldBy, poolVars
<1>2. CASE \E p \in Proxies, f \in Fds \cup {BadFd} :
              f \notin DOMAIN sock_to_id[p] /\ LinkClient(p, f)
  BY <1>2, LinkLinks DEF Proxies, TypeOK, TableTypes
<1>3. CASE \E p \in Fds, id \in Ids : Unlinked(p, id)
  BY <1>3, UnlinkLetsGo
<1>4. CASE \E p \in Fds : ShutDown(p)
  BY <1>4, ShutDownLetsGo
<1>5. CASE \E p \in Fds \ Proxies : Cleared(p) /\ UNCHANGED poolVars
  <2>1. PICK p \in Fds \ Proxies : Cleared(p) /\ UNCHANGED poolVars
    BY <1>5
  <2>2. \A q \in Fds \ {p} : sock_to_id'[q] = sock_to_id[q]
    BY <2>1 DEF Cleared, TypeOK, MapTypes
  <2>3. DOMAIN sock_to_id[p] = {} /\ DOMAIN sock_to_id'[p] = {}
    BY <2>1 DEF IdsReturnable, IdsExclusive, MapsInverse, Cleared, Empty, TypeOK, MapTypes
  <2>4. ASSUME NEW c PROVE c \in DOMAIN HeldBy' <=> c \in DOMAIN HeldBy
    <3>1. CASE \E q \in Fds : \E f : c = <<q, f>>
      BY <2>2, <2>3, <3>1, HeldByAfter, HeldByApply
    <3>2. CASE ~\E q \in Fds : \E f : c = <<q, f>>
      BY <2>2, <3>2, HeldByAfter, HeldByApply
    <3> QED  BY <3>1, <3>2
  <2>5. \A c \in DOMAIN HeldBy : HeldBy'[c] = HeldBy[c]
    BY <2>2, <2>3, HeldByAfter, HeldByApply
  <2>6. HeldBy' = HeldBy
    BY <2>4, <2>5 DEF HeldBy
  <2> QED  BY <2>1, <2>6 DEF Lifecycle!vars, poolVars
<1> QED  BY <1>1, <1>2, <1>3, <1>4, <1>5 DEF TableStep

\* The server starts with nothing held.
LEMMA InitIsLifecycleInit == Init => Lifecycle!Init
<1> SUFFICES ASSUME Init PROVE Lifecycle!Init
  OBVIOUS
<1>1. \A p \in Fds : DOMAIN sock_to_id[p] = {}
  BY DEF Init, Empty
<1>2. UNION {{p} \X DOMAIN sock_to_id[p] : p \in Fds} = {}
  BY <1>1
<1>3. HeldBy = [c \in {} |-> 0]
  BY <1>2 DEF HeldBy
<1> QED  BY <1>3 DEF Init, PoolInit, Lifecycle!Init, Lifecycle!PoolInit

(* The server implements the life cycle of identifiers: a connection gives *)
(* back the identifier it holds, once, on its own or with its proxy, as    *)
(* long as no accept fails for a proxy that has the entry of an earlier    *)
(* failure.                                                                *)
THEOREM ImplementsLifecycle == Spec /\ [][NoOverwrite]_vars => LifecycleSpec
<1>1. TypeOK /\ IdsExclusive /\ Sessions /\ IdsReturnable /\ [NoOverwrite]_vars /\ [Next]_vars
         => IdsReturnable' /\ [Lifecycle!Next]_(Lifecycle!vars)
  BY NextIsTableStep, StepKeepsReturnable, NextIsLifecycleStep
<1>2. Init => IdsReturnable
  BY InitComplete
<1> QED  BY <1>1, <1>2, TypeCorrect, IdentifiersExclusive, SessionsHold, InitIsLifecycleInit, PTL
         DEF Spec, LifecycleSpec, Lifecycle!Spec
=============================================================================
