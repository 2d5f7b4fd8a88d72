----------------------------- MODULE GrokServer -----------------------------
(***************************************************************************)
(* FreeGrok (grokserver/server.cpp) and its GrokProxy objects              *)
(* (grokserver/proxy_server.cpp) as observers of the event loop.  A tunnel *)
(* is a connection to the main server: it asks for a proxy, a listening    *)
(* socket of its own, and from then on its byte stream carries what the    *)
(* visitors of that proxy do, each under an identifier of the pool.  A     *)
(* proxy object is named by its listening descriptor.                      *)
(*                                                                         *)
(* A request is one complete packet: the rounds that read its type, length *)
(* and payload are one step, and a packet still incomplete is ReadPart.    *)
(***************************************************************************)
EXTENDS EventLoop, IdPool, SequencesExt

CONSTANTS Tunnels,   \* the connections to the main server
          Visitors,  \* the connections to a proxy
          Kinds,     \* the kinds of message peers send
          Endings,   \* how peers end connections: "fin" for close, "rst" for reset
          MaxRx,     \* bound: messages a peer sends ahead of the server
          MaxQueue   \* bound: frames waiting for a tunnel when more are caused

\* Packets by what process_message tells apart: CREATE_PORT carries a port;
\* PACKET_SHORT and DISCONNECT_SIZE have a wrong length; AUTH_BAD has the right
\* length and other bytes; GARBLED and OVERSIZE do not decompress.
RequestKinds == {"PING", "CREATE", "CREATE_PORT", "PACKET", "PACKET_SHORT",
                 "DISCONNECT", "DISCONNECT_SIZE", "AUTH", "AUTH_BAD", "STAT",
                 "UNKNOWN", "GARBLED", "OVERSIZE"}

\* What visitors send is not looked into.
MessageKinds == RequestKinds \cup {"DATA"}

\* The requests about a client of the session.
Addressed == {"PACKET", "PACKET_SHORT", "DISCONNECT", "DISCONNECT_SIZE"}

\* The codes of a GROK_ERROR packet.
Errors == {"NO_SUCH_COMMAND", "NO_SESSION", "TOO_SHORT_BUFFER", "TOO_LONG_BUFFER",
           "SERVER_ALREADY_CREATED", "BUFFER_SIZE_INCORRECT", "NO_SUCH_CLIENT",
           "DECOMPRESSION_ERROR", "UNAVAILABLE_PORT", "NOT_IMPLEMENTED"}

ASSUME ServerAssumption ==
    /\ IsFiniteSet(Fds)
    /\ Conns = Tunnels \cup Visitors /\ Tunnels \cap Visitors = {}
    /\ Kinds \subseteq MessageKinds /\ Endings \subseteq {"fin", "rst"}
    /\ MaxRx \in Nat /\ MaxQueue \in Nat

VARIABLES
    users,      \* descriptor -> its User; NoUser when FreeGrok::users has none
    initiator,  \* proxy -> the descriptor of its tunnel
    sock_to_id, \* proxy -> (visitor's descriptor -> identifier)
    id_to_sock, \* proxy -> (identifier -> visitor's descriptor)
    view        \* tunnel -> (identifier -> whom it stands for), as its peer
                \* reads the stream: a visitor, BadFd for the connection of a
                \* failed accept, None once the peer asked to disconnect it

proxyVars  == <<initiator, sock_to_id, id_to_sock>>
poolVars   == <<last, ids>>
serverVars == <<users, proxyVars, poolVars>>
vars       == <<loopVars, serverVars, view>>

Ids    == 0 .. IdSpace - 1
NoUser == [server |-> None, can_select_port |-> FALSE]
Empty  == [x \in {} |-> x]

\* Mutated form of Without: the entry is not erased.
WithoutErasing(g, x) == g

Put(g, x, v)  == [y \in DOMAIN g \cup {x} |-> IF y = x THEN v ELSE g[y]]
Without(g, x) == [y \in DOMAIN g \ {x} |-> g[y]]

Packet(type, arg, who) == [type |-> type, arg |-> arg, who |-> who]

Proxies == observers \ {Main}

Init ==
    /\ LoopInit /\ PoolInit
    /\ users = [f \in Fds |-> NoUser]
    /\ initiator = [f \in Fds |-> None]
    /\ sock_to_id = [f \in Fds |-> Empty]
    /\ id_to_sock = [f \in Fds |-> Empty]
    /\ view = [t \in Tunnels |-> Empty]

----------------------------------------------------------------------------
(* Connections.                                                            *)

\* Bound: no queue is long when a peer, or a failing accept, causes more frames.
Quiet == \A f \in Fds : Len(writeq[f]) < MaxQueue

\* Mutated form of LinkClient: the two maps are exchanged.
LinkClientSwapped(p, f) ==
    /\ IdAvailable /\ GetId
    /\ sock_to_id' = [sock_to_id EXCEPT ![p] = Put(@, NextId, f)]
    /\ id_to_sock' = [id_to_sock EXCEPT ![p] = Put(@, f, NextId)]

\* GrokProxy::link_client, for the proxy p.
LinkClient(p, f) ==
    /\ IdAvailable /\ GetId
    /\ sock_to_id' = [sock_to_id EXCEPT ![p] = Put(@, f, NextId)]
    /\ id_to_sock' = [id_to_sock EXCEPT ![p] = Put(@, NextId, f)]

\* The event of a listener that makes Loop::run call on_connect: EPOLLIN, or
\* an EPOLLOUT meant for the connection that had this descriptor before, which
\* neither registers nor links what it accepts.
Arrival(l, register) ==
    /\ l \in observers
    /\ IF register THEN ReadTurn(l) ELSE WriteTurn(l)

\* FreeGrok::on_connect
AcceptTunnel ==
    /\ Arrival(Main, TRUE)
    /\ \E c \in Tunnels, f \in Fds :
         /\ Accepted(Main, c, f, "READ", TRUE)
         /\ interest' = [interest EXCEPT ![f] = {"IN"}]
    /\ NextEvent(Main)
    /\ UNCHANGED <<writeq, status, serverVars, view>>

\* FreeGrok::on_connect when accept fails.
AcceptTunnelFails ==
    /\ Arrival(Main, TRUE) /\ AcceptFailed(Main, TRUE)
    /\ NextEvent(Main)
    /\ UNCHANGED <<writeq, interest, status, serverVars, view>>

\* GrokProxy::on_connect
AcceptVisitor(p, register) ==
    /\ p # Main /\ Arrival(p, register)
    /\ \E c \in Visitors, f \in Fds :
         /\ Accepted(p, c, f, "CAPTURE", register)
         /\ LinkClient(p, f)
         /\ writeq' = Queued(initiator[p], Packet("CONNECTED", NextId, c))
         /\ interest' = IF register THEN [Watched(initiator[p]) EXCEPT ![f] = {"IN"}]
                                    ELSE Watched(initiator[p])
    /\ NextEvent(p)
    /\ UNCHANGED <<status, users, initiator, view>>

\* GrokProxy::on_connect when accept fails: -1 is linked like a connection.
AcceptVisitorFails(p, register) ==
    /\ p # Main /\ Arrival(p, register) /\ AcceptFailed(p, register)
    /\ Quiet
    /\ Send(initiator[p], Packet("CONNECTED", NextId, BadFd))
    /\ LinkClient(p, BadFd)
    /\ NextEvent(p)
    /\ UNCHANGED <<status, users, initiator, view>>

----------------------------------------------------------------------------
(* Hangups.                                                                *)

\* FreeGrok::on_disconnect of a tunnel that has a proxy: its identifiers
\* (GrokProxy::shutdown), its visitors and its listener go with it.
TunnelHangUp(f) ==
    LET p == users[f].server IN
    /\ HangupTurn(f) /\ f \notin observers /\ linked[f] = Main /\ p # None
    /\ \E order \in SetToSeqs(DOMAIN sock_to_id[p]) :
         RemoveIds([i \in DOMAIN order |-> sock_to_id[p][order[i]]])
    /\ CloseAll({f, p} \cup clients[p], rx, readq, writeq, interest)
    /\ observers' = observers \ {p}
    /\ clients' = [clients EXCEPT ![p] = {}, ![Main] = @ \ {f}]
    /\ users' = [users EXCEPT ![f] = NoUser]
    /\ initiator' = [initiator EXCEPT ![p] = None]
    /\ sock_to_id' = [sock_to_id EXCEPT ![p] = Empty]
    /\ id_to_sock' = [id_to_sock EXCEPT ![p] = Empty]
    /\ DropBatch
    /\ UNCHANGED <<status, view>>

\* FreeGrok::on_disconnect of one that has none: remove_user is not called.
IdleTunnelHangUp(f) ==
    /\ HangupTurn(f) /\ f \notin observers /\ linked[f] = Main /\ users[f].server = None
    /\ CloseAll({f}, rx, readq, writeq, interest)
    /\ clients' = [clients EXCEPT ![Main] = @ \ {f}]
    /\ DropBatch
    /\ UNCHANGED <<observers, status, serverVars, view>>

\* GrokProxy::on_disconnect
VisitorHangUp(f) ==
    LET p == linked[f] IN
    /\ HangupTurn(f) /\ f \notin observers /\ p \in Proxies /\ f \in DOMAIN sock_to_id[p]
    /\ LET id == sock_to_id[p][f]
           t  == initiator[p]
       IN /\ RemoveIds(<<id>>)
          /\ sock_to_id' = [sock_to_id EXCEPT ![p] = Without(@, f)]
          /\ id_to_sock' = [id_to_sock EXCEPT ![p] = Without(@, id)]
          /\ CloseAll({f}, rx, readq, Queued(t, Packet("DISCONNECT", id, None)), Watched(t))
    /\ clients' = [clients EXCEPT ![p] = @ \ {f}]
    /\ DropBatch
    /\ UNCHANGED <<observers, status, users, initiator, view>>

\* GrokProxy::on_disconnect of a descriptor it does not know: a visitor's that
\* is not in sock_to_id, or its own, when the descriptor was reused for it
\* after the hangup was reported.
UnknownHangUp(f) ==
    LET p == IF f \in observers THEN f ELSE linked[f] IN
    /\ HangupTurn(f) /\ p \in Proxies /\ f \notin DOMAIN sock_to_id[p]
    /\ Throw("out_of_range")
    /\ UNCHANGED <<serverVars, view>>

----------------------------------------------------------------------------
(* FreeGrok::process_message.                                              *)

\* Mutated form of HasServer: a server is never found.
HasServerNever(f) == FALSE

HasServer(f) == users[f].server # None
HasClient(f, id) == id \in DOMAIN id_to_sock[users[f].server]

\* The tunnel f has m next, complete, and the READ item after it is queued.
Request(f, m) ==
    /\ ReadTurn(f) /\ linked[f] = Main
    /\ readq[f] # <<>> /\ Head(readq[f]) = "READ"
    /\ sock[f] \in Conns /\ rx[sock[f]] # <<>> /\ m = Head(rx[sock[f]])

\* Mutated form of NewMessage: go_new_message is forgotten.
NewMessageForgotten(f) == [readq EXCEPT ![f] = Tail(@)]

NewMessage(f) == [readq EXCEPT ![f] = Append(Tail(@), "READ")]
Consumed(f)   == [rx EXCEPT ![sock[f]] = Tail(@)]

\* A request that only sends its answer.
Answer(f, frame) ==
    /\ Send(f, frame)
    /\ rx' = Consumed(f) /\ readq' = NewMessage(f) /\ NextEvent(f)
    /\ UNCHANGED <<sock, backlog, peer, tableVars, status, serverVars, view>>

\* The error process_message and on_received answer to m, if any.  A port that
\* is asked for may be taken by anyone on the host.
Refused(f, m, error) ==
    \/ m.type = "UNKNOWN" /\ error = "NO_SUCH_COMMAND"
    \/ m.type = "STAT" /\ error = "NOT_IMPLEMENTED"
    \/ m.type = "GARBLED" /\ error = "DECOMPRESSION_ERROR"
    \/ m.type = "OVERSIZE" /\ error = "TOO_LONG_BUFFER"
    \/ m.type \in {"CREATE", "CREATE_PORT"} /\ HasServer(f) /\ error = "SERVER_ALREADY_CREATED"
    \/ /\ m.type = "CREATE_PORT" /\ ~HasServer(f) /\ users[f].can_select_port
       /\ FreeFds # {} /\ error = "UNAVAILABLE_PORT"
    \/ m.type \in Addressed /\ ~HasServer(f) /\ error = "NO_SESSION"
    \/ m.type = "PACKET_SHORT" /\ HasServer(f) /\ error = "TOO_SHORT_BUFFER"
    \/ m.type = "DISCONNECT_SIZE" /\ HasServer(f) /\ error = "BUFFER_SIZE_INCORRECT"
    \/ /\ m.type \in {"PACKET", "DISCONNECT"} /\ HasServer(f) /\ ~HasClient(f, m.arg)
       /\ error = "NO_SUCH_CLIENT"

Refuse(f, m) ==
    /\ Request(f, m)
    /\ \E error \in Errors : Refused(f, m, error) /\ Answer(f, Packet(error, 0, None))

HandlePing(f, m) ==
    /\ Request(f, m) /\ m.type = "PING"
    /\ Answer(f, Packet("PING", 0, None))

\* GROK_AUTH, silent whether the magic is right or wrong.
HandleAuth(f, m) ==
    /\ Request(f, m) /\ m.type \in {"AUTH", "AUTH_BAD"}
    /\ users' = IF m.type = "AUTH" THEN [users EXCEPT ![f].can_select_port = TRUE] ELSE users
    /\ rx' = Consumed(f) /\ readq' = NewMessage(f) /\ NextEvent(f)
    /\ UNCHANGED <<sock, backlog, peer, tableVars, writeq, interest, status,
                   proxyVars, poolVars, view>>

\* GROK_CREATE_SERVER: the new proxy p, with its listening socket.
HandleCreate(f, m, p) ==
    /\ Request(f, m) /\ m.type \in {"CREATE", "CREATE_PORT"} /\ ~HasServer(f)
    /\ NewFd(p)
    /\ users' = [users EXCEPT ![f].server = p]
    /\ initiator' = [initiator EXCEPT ![p] = f]
    /\ sock_to_id' = [sock_to_id EXCEPT ![p] = Empty]
    /\ id_to_sock' = [id_to_sock EXCEPT ![p] = Empty]
    /\ observers' = observers \cup {p}
    /\ clients' = [clients EXCEPT ![p] = {}]
    /\ sock' = [sock EXCEPT ![p] = Listener]
    /\ writeq' = Queued(f, Packet("CREATE_SERVER", 0, None))
    /\ interest' = [Watched(f) EXCEPT ![p] = {"IN"}]
    /\ rx' = Consumed(f) /\ readq' = NewMessage(f) /\ NextEvent(f)
    /\ UNCHANGED <<backlog, peer, linked, status, poolVars, view>>

\* The same when socket() has no descriptor to give, or when the port asked
\* for is taken after tcp_is_port_available has tried it: SysError.
CreateThrows(f, m) ==
    /\ Request(f, m) /\ m.type \in {"CREATE", "CREATE_PORT"} /\ ~HasServer(f)
    /\ FreeFds = {} \/ (m.type = "CREATE_PORT" /\ users[f].can_select_port)
    /\ Throw("SysError")
    /\ UNCHANGED <<serverVars, view>>

\* GROK_PACKET: the payload is queued for the visitor; what is queued for -1
\* goes nowhere.
HandlePacket(f, m) ==
    LET g == id_to_sock[users[f].server][m.arg] IN
    /\ Request(f, m) /\ m.type = "PACKET" /\ HasServer(f) /\ HasClient(f, m.arg)
    /\ IF g = BadFd THEN UNCHANGED <<writeq, interest>> ELSE Send(g, Packet("DATA", 0, m.who))
    /\ rx' = Consumed(f) /\ readq' = NewMessage(f) /\ NextEvent(f)
    /\ UNCHANGED <<sock, backlog, peer, tableVars, status, serverVars, view>>

\* GROK_DISCONNECT: GrokProxy::disconnect_client and Loop::force_disconnect.
\* The batch goes on, with the events of the closed descriptor still in it.
HandleDisconnect(f, m) ==
    LET p == users[f].server
        g == id_to_sock[p][m.arg]
        closed == {x \in {g} : linked[x] # None}
    IN /\ Request(f, m) /\ m.type = "DISCONNECT" /\ HasServer(f) /\ HasClient(f, m.arg)
       /\ RemoveIds(<<m.arg>>)
       /\ sock_to_id' = [sock_to_id EXCEPT ![p] = Without(@, g)]
       /\ id_to_sock' = [id_to_sock EXCEPT ![p] = Without(@, m.arg)]
       /\ clients' = [q \in Fds |-> IF q = linked[g] THEN clients[q] \ {g} ELSE clients[q]]
       /\ CloseAll(closed, Consumed(f), NewMessage(f), writeq, interest)
       /\ NextEvent(f)
       /\ UNCHANGED <<observers, status, users, initiator, view>>

----------------------------------------------------------------------------
(* Visitors' data and the frames that are sent.                            *)

\* The CAPTURE item of f is due; a recv with nothing to read blocks until the
\* peer sends or hangs up, for accepted sockets are blocking.
Capture(f) ==
    /\ ReadTurn(f) /\ f \notin observers /\ linked[f] \in Proxies
    /\ readq[f] # <<>> /\ Head(readq[f]) = "CAPTURE" /\ sock[f] \in Conns

\* GrokProxy::on_received: what recv returns, be it nothing at the end of the
\* stream, goes to the tunnel.  The item stays.
VisitorData(f) ==
    LET c == sock[f]
        p == linked[f]
    IN /\ Capture(f)
       /\ rx[c] # <<>> \/ peer[c] = "fin"
       /\ IF f \in DOMAIN sock_to_id[p]
          THEN /\ Send(initiator[p], Packet("PACKET", sock_to_id[p][f], c))
               /\ rx' = IF rx[c] = <<>> THEN rx ELSE [rx EXCEPT ![c] = Tail(@)]
          ELSE UNCHANGED <<writeq, interest, rx>>
       /\ NextEvent(f)
       /\ UNCHANGED <<sock, backlog, peer, tableVars, readq, status, serverVars, view>>

\* The same when recv returns -1: redirect_packet takes it for a length, and
\* copies that many bytes.
VisitorDataFails(f) ==
    /\ Capture(f) /\ rx[sock[f]] = <<>> /\ peer[sock[f]] = "rst"
    /\ f \in DOMAIN sock_to_id[linked[f]]
    /\ Throw("undefined")
    /\ UNCHANGED <<serverVars, view>>

\* What a peer knows after reading a frame.
Hear(v, frame) ==
    IF frame.type = "CONNECTED" THEN Put(v, frame.arg, frame.who)
    ELSE IF frame.type = "DISCONNECT" THEN Without(v, frame.arg)
    ELSE v

\* And after reading frames, the first one first.
Heard(v, frames) == FoldLeft(Hear, v, frames)

Deliver(f, n) ==
    /\ Write(f, n)
    /\ view' = IF sock[f] \in Tunnels
               THEN [view EXCEPT ![sock[f]] = Heard(@, SubSeq(writeq[f], 1, n))]
               ELSE view
    /\ UNCHANGED serverVars

\* The steps of the loop that leave its observers alone.
LoopStep(f) ==
    /\ StaleHangup(f) \/ ThrowOnEvent(f) \/ WriteFails(f) \/ ReadFails(f) \/ ReadPart(f)
    /\ UNCHANGED <<serverVars, view>>

----------------------------------------------------------------------------
(* Peers (external).                                                       *)

TunnelConnects(t)   == PeerConnects(t, Main) /\ UNCHANGED <<serverVars, view>>
VisitorConnects(v)  == /\ \E p \in Proxies : PeerConnects(v, p)
                       /\ UNCHANGED <<serverVars, view>>
HangsUp(c)          == "fin" \in Endings /\ PeerCloses(c) /\ UNCHANGED <<serverVars, view>>
ResetsConnection(c) == "rst" \in Endings /\ PeerResets(c) /\ UNCHANGED <<serverVars, view>>

VisitorSends(v) ==
    /\ Quiet /\ Len(rx[v]) < MaxRx /\ "DATA" \in Kinds
    /\ PeerSends(v, Packet("DATA", 0, None))
    /\ UNCHANGED <<serverVars, view>>

\* A tunnel sends a request without identifier.
TunnelAsks(t, kind) ==
    /\ Quiet /\ Len(rx[t]) < MaxRx
    /\ kind \in Kinds \ {"PACKET", "DISCONNECT", "DATA"}
    /\ PeerSends(t, Packet(kind, 0, None))
    /\ UNCHANGED <<serverVars, view>>

\* A tunnel names an identifier, meaning whom the stream told it that is; one
\* it has asked to disconnect it names no more.
TunnelNames(t, kind, id, who) ==
    /\ Quiet /\ Len(rx[t]) < MaxRx
    /\ id \in DOMAIN view[t] /\ view[t][id] = who
    /\ PeerSends(t, Packet(kind, id, who))
    /\ view' = IF kind = "DISCONNECT" THEN [view EXCEPT ![t][id] = None] ELSE view
    /\ UNCHANGED serverVars

----------------------------------------------------------------------------
(* The system.                                                             *)

Peers ==
    \/ \E t \in Tunnels : TunnelConnects(t)
    \/ \E v \in Visitors : VisitorConnects(v)
    \/ \E c \in Conns : HangsUp(c) \/ ResetsConnection(c)
    \/ \E v \in Visitors : VisitorSends(v)
    \/ \E t \in Tunnels, kind \in Kinds : TunnelAsks(t, kind)
    \/ \E t \in Tunnels, kind \in Kinds \cap {"PACKET", "DISCONNECT"} :
          \E id \in Ids, who \in Visitors \cup {BadFd} : TunnelNames(t, kind, id, who)

\* One call of process_message, for the packet at the head of the stream.
Handle(f, m) ==
    \/ Refuse(f, m)
    \/ HandlePing(f, m)
    \/ HandleAuth(f, m)
    \/ \E p \in Fds : HandleCreate(f, m, p)
    \/ CreateThrows(f, m)
    \/ HandlePacket(f, m)
    \/ HandleDisconnect(f, m)

Server ==
    \/ EpollWait /\ UNCHANGED <<serverVars, view>>
    \/ AcceptTunnel
    \/ AcceptTunnelFails
    \/ \E p \in Fds, register \in BOOLEAN : AcceptVisitor(p, register)
    \/ \E p \in Fds, register \in BOOLEAN : AcceptVisitorFails(p, register)
    \/ \E f \in Fds : TunnelHangUp(f)
    \/ \E f \in Fds : IdleTunnelHangUp(f)
    \/ \E f \in Fds : VisitorHangUp(f)
    \/ \E f \in Fds : UnknownHangUp(f)
    \/ \E t \in Tunnels, f \in Fds : sock[f] = t /\ rx[t] # <<>> /\ Handle(f, Head(rx[t]))
    \/ \E f \in Fds : VisitorData(f)
    \/ \E f \in Fds : VisitorDataFails(f)
    \/ \E f \in Fds : \E n \in 0 .. Len(writeq[f]) : Deliver(f, n)
    \/ \E f \in Fds : LoopStep(f)

Next == status = "running" /\ (Peers \/ Server)

Spec == Init /\ [][Next]_vars

----------------------------------------------------------------------------
(* What is checked.                                                        *)

Whom      == Conns \cup {BadFd, None}
Incoming  == [type : MessageKinds, arg : Ids, who : Whom]
Outgoing  == [type : Errors \cup {"PING", "CREATE_SERVER", "CONNECTED", "PACKET", "DISCONNECT", "DATA"},
              arg : Ids, who : Whom]
Maps(A, B) == UNION {[D -> B] : D \in SUBSET A}

NetTypes ==
    /\ sock \in [Fds -> Conns \cup {Listener, None}]
    /\ backlog \in [Fds -> SUBSET Conns]
    /\ peer \in [Conns -> {"idle", "open", "fin", "rst", "gone"}]
    /\ rx \in [Conns -> Seq(Incoming)]

TableTypes ==
    /\ observers \in SUBSET Fds
    /\ clients \in [Fds -> SUBSET (Fds \cup {BadFd})]
    /\ linked \in [Fds \cup {BadFd} -> Fds \cup {None}]

QueueTypes ==
    /\ readq \in [Fds -> Seq({"READ", "CAPTURE"})]
    /\ writeq \in [Fds -> Seq(Outgoing)]
    /\ interest \in [Fds -> SUBSET {"IN", "OUT"}]

BatchTypes ==
    /\ pending \in [Fds -> SUBSET {"IN", "OUT", "HUP"}]
    /\ resume \in Fds \cup {None}
    /\ status \in {"running", "EmptyQueue::READ", "EmptyQueue::WRITE", "out_of_range",
                   "SysError", "undefined"}

SessionTypes ==
    /\ users \in [Fds -> [server : Fds \cup {None}, can_select_port : BOOLEAN]]
    /\ initiator \in [Fds -> Fds \cup {None}]

MapTypes ==
    /\ sock_to_id \in [Fds -> Maps(Fds \cup {BadFd}, Ids)]
    /\ id_to_sock \in [Fds -> Maps(Ids, Fds \cup {BadFd})]

PoolTypes == last \in Ids /\ ids \in Seq(Ids)

(* Types of the loop's and the server's state. *)
TypeOK == NetTypes /\ TableTypes /\ QueueTypes /\ BatchTypes /\ SessionTypes /\ MapTypes /\ PoolTypes

\* The identifiers that name a connection of some proxy.
Held == UNION {DOMAIN id_to_sock[p] : p \in Fds}

TablesDisjoint ==
    \A p, q \in Fds : p # q => DOMAIN id_to_sock[p] \cap DOMAIN id_to_sock[q] = {}
MapsInverse ==
    \A p \in Fds : \A f \in DOMAIN sock_to_id[p] :
        /\ sock_to_id[p][f] \in DOMAIN id_to_sock[p]
        /\ id_to_sock[p][sock_to_id[p][f]] = f
HeldNotFree ==
    \A p \in Fds : \A id \in DOMAIN id_to_sock[p] :
        id < last /\ \A i \in DOMAIN ids : ids[i] # id
FreeOnce == \A i, j \in DOMAIN ids : ids[i] < last /\ (ids[i] = ids[j] => i = j)

(* No identifier names two connections, of one proxy or of two, and none    *)
(* that is handed out next names one: the pool and the tables of all        *)
(* proxies stay disjoint through connects, hangups in any order, requests   *)
(* to disconnect, shutdowns and failed accepts.                             *)
IdsExclusive == TablesDisjoint /\ MapsInverse /\ HeldNotFree /\ FreeOnce

(* No identifier is lost: each that was handed out names a connection or    *)
(* waits in the pool (server.cpp: "serv->shutdown(); // free ids").         *)
PoolComplete == 0 .. last - 1 = Held \cup ToSet(ids)

(* The loop's tables and the proxies' agree: a visitor the loop has an      *)
(* event for is known to its proxy, so that sock_to_id.at never throws in   *)
(* on_disconnect, and an identifier stands for an open connection.          *)
MapsAgree ==
    /\ \A f \in Fds : linked[f] \in Proxies => f \in DOMAIN sock_to_id[linked[f]]
    /\ \A p \in Fds : \A id \in DOMAIN id_to_sock[p] :
          LET f == id_to_sock[p][id] IN
          f # BadFd => /\ p \in Proxies /\ linked[f] \in {p, None} /\ sock[f] \in Visitors
                       /\ f \in DOMAIN sock_to_id[p] /\ sock_to_id[p][f] = id

(* Sessions and observers: a proxy lives exactly as long as the connection  *)
(* that asked for it, which is open and served by the main server, and the  *)
(* loop's links are the observers' clients.  A dangling GrokProxy pointer,  *)
(* in users, in the loop or in a visitor's link, would break it.            *)
SessionOwned ==
    /\ \A p \in Proxies : /\ initiator[p] \in Fds /\ sock[p] = Listener
                          /\ users[initiator[p]].server = p
    /\ \A f \in Fds : users[f].server # None =>
          /\ users[f].server \in Proxies /\ initiator[users[f].server] = f
          /\ linked[f] = Main /\ sock[f] \in Tunnels
    /\ \A f, o \in Fds : f \in clients[o] <=> linked[f] = o
    /\ \A f \in Fds : linked[f] # None => linked[f] \in observers /\ f \notin observers

(* No wake-up is lost or spurious: EPOLLOUT is watched for a connection     *)
(* exactly while frames wait for it, so that queued frames are sent and     *)
(* perform_write_queue finds something to send.                             *)
WakeupArmed ==
    \A f \in Fds : linked[f] # None => ("OUT" \in interest[f] <=> writeq[f] # <<>>)

(* No queue, interest, link or session survives a descriptor: when one is   *)
(* closed, the loop's tables and queues, the epoll set, the proxies and     *)
(* their maps do not name it, and users gives it no proxy, since the next   *)
(* connection gets it.  An entry of users without a proxy may survive:      *)
(* on_disconnect erases only that of a connection that has one, so that     *)
(* can_select_port is left to whoever gets the descriptor next, and this    *)
(* says nothing of it.                                                      *)
NoStaleDescriptor ==
    \A f \in FreeFds :
        /\ readq[f] = <<>> /\ writeq[f] = <<>> /\ interest[f] = {}
        /\ linked[f] = None /\ f \notin observers /\ users[f].server = None
        /\ \A p \in Fds : /\ f \notin clients[p] /\ initiator[p] # f
                          /\ f \notin DOMAIN sock_to_id[p]

\* What t's peer will know of its visitors after the frames queued for f.
Announced(t, f) == Heard(view[t], writeq[f])

(* The stream tells a tunnel's peer of every visitor: reading what is on    *)
(* its way, an open peer knows each identifier of the proxy's table as the  *)
(* visitor it stands for (unless it has asked to disconnect it), and, where *)
(* peers never ask, knows no other.                                         *)
StreamAgrees ==
    \A f \in Fds : (sock[f] \in Tunnels /\ peer[sock[f]] = "open" /\ HasServer(f)) =>
        LET known == Announced(sock[f], f)
            table == id_to_sock[users[f].server]
        IN /\ \A id \in DOMAIN table :
                 /\ id \in DOMAIN known
                 /\ known[id] \in {None, IF table[id] = BadFd THEN BadFd ELSE sock[table[id]]}
           /\ "DISCONNECT" \notin Kinds => DOMAIN known = DOMAIN table

(* The stream is well bracketed: GROK_PACKET and GROK_DISCONNECT come only  *)
(* for an identifier that a GROK_CONNECTED before them opened and no        *)
(* GROK_DISCONNECT has closed since.                                        *)
BracketedStream ==
    \A f \in Fds : (sock[f] \in Tunnels /\ peer[sock[f]] = "open") =>
        \A i \in DOMAIN writeq[f] :
            writeq[f][i].type \in {"PACKET", "DISCONNECT"} =>
                writeq[f][i].arg \in
                    DOMAIN Heard(view[sock[f]], SubSeq(writeq[f], 1, i - 1))

(* The server closes a connection only for a cause: its peer hung up; or,   *)
(* of a visitor, its tunnel did, or asked for it by the identifier the      *)
(* visitor has.                                                             *)
ClosedForCause ==
    [][\A f \in Fds :
         LET o == linked[f]
             t == sock[initiator[o]]
         IN (sock[f] \in Conns /\ sock'[f] # sock[f] /\ peer[sock[f]] = "open") =>
              /\ o \in Proxies
              /\ \/ peer[t] # "open"
                 \/ /\ rx[t] # <<>> /\ Head(rx[t]).type = "DISCONNECT"
                    /\ rx'[t] = Tail(rx[t])
                    /\ Head(rx[t]).arg = sock_to_id[o][f]]_vars

(* The process never ends by an exception. *)
NeverThrows == status = "running"

(* After a failed send the program waits for the hangup, as loop.cpp:104    *)
(* says; the read queue it has cleared is not asked for meanwhile.          *)
FailedSendWaits == status # "EmptyQueue::READ"

(* A request that cannot be served for lack of resources is answered with   *)
(* INTERNAL_SERVER_ERROR (docs/ru.md), and does not end the process.        *)
CreateIsAnswered == status # "SysError"

(* A GROK_DISCONNECT closes the client its sender named by the identifier.  *)
DisconnectsTheNamed ==
    [][\A t \in Tunnels, v \in Visitors :
         (/\ rx[t] # <<>> /\ rx'[t] = Tail(rx[t]) /\ Head(rx[t]).type = "DISCONNECT"
          /\ peer[v] # "gone" /\ peer'[v] = "gone") => Head(rx[t]).who = v]_vars

\* The pairs of an identifier and the connection it names, of a proxy.
Named == UNION {{<<id, <<p, id_to_sock[p][id]>>>> : id \in DOMAIN id_to_sock[p]} : p \in Fds}

\* What IdLifecycle calls held: the identifier each connection has, a connection
\* being a proxy and a descriptor of its table.
HeldBy == [c \in UNION {{p} \X DOMAIN sock_to_id[p] : p \in Fds} |-> sock_to_id[c[1]][c[2]]]

(* The proxies use the pool as IdLifecycle says: each identifier they give  *)
(* back is one they hold, and given back once, whatever ends the connection *)
(* (this holds while accept does not fail).                                 *)
Lifecycle == INSTANCE IdLifecycle WITH Holders <- Fds \X (Fds \cup {BadFd}), held <- HeldBy
LifecycleSpec == Lifecycle!Spec

(* The tables of all proxies together implement the abstract allocator: an *)
(* identifier that names a connection is never given to another, of the    *)
(* same proxy or of another one.                                           *)
Allocator == INSTANCE IdAllocator WITH named <- Named
AllocatorSpec == Allocator!ASpec

----------------------------------------------------------------------------
(* Liveness.                                                               *)

\* The process runs, and epoll_wait keeps returning.
Fairness == WF_vars(Server /\ status = "running")
FairSpec == Spec /\ Fairness

(* A connection whose peer hangs up is closed in the end, with all that     *)
(* belongs to it, however many others hang up in the same batch, unless the *)
(* process ends.                                                            *)
HungUpReleased ==
    \A c \in Conns : peer[c] \in {"fin", "rst"} ~> peer[c] = "gone" \/ status # "running"
=============================================================================
