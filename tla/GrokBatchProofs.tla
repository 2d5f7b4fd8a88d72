-------------------------- MODULE GrokBatchProofs --------------------------
(***************************************************************************)
(* Theorems about the loop's queues and its batch of events in GrokServer: *)
(* what epoll watches agrees with what is queued, and as long as nothing   *)
(* closed has an event left in the batch, connections are closed for a     *)
(* cause, and the process runs on where its peers and its resources let    *)
(* it.  And about what the peer of a tunnel is told: once it has read      *)
(* everything queued for it, the identifiers it knows are those the server *)
(* keeps for it, each of the same visitor, and no frame comes before the   *)
(* GROK_CONNECTED that gives it a meaning.  All hold for every value of    *)
(* the constants.                                                          *)
(***************************************************************************)
EXTENDS GrokServerProofs

----------------------------------------------------------------------------
(* A connection is in one place.                                           *)

\* A connection waits in one backlog or has one descriptor, and then its peer
\* has opened it and the server has not closed it.
Alive == {"open", "fin", "rst"}

ConnOnce ==
    /\ \A f \in Fds : sock[f] \in Conns => peer[sock[f]] \in Alive
    /\ \A f, g \in Fds : f # g /\ sock[f] = sock[g] => sock[f] \notin Conns
    /\ \A l \in Fds : \A c \in backlog[l] : peer[c] \in Alive /\ \A f \in Fds : sock[f] # c
    /\ \A l, m \in Fds : l # m => backlog[l] \cap backlog[m] = {}

\* Where no socket changes and no connection comes or ends.
LEMMA SameSockets ==
    ASSUME ConnOnce, UNCHANGED <<sock, backlog>>,
           \A c \in Conns : peer[c] \in Alive => peer'[c] \in Alive, TypeOK
    PROVE  ConnOnce'
<1>1. \A l \in Fds : backlog[l] \subseteq Conns
  BY DEF TypeOK, NetTypes
<1> QED  BY <1>1 DEF ConnOnce

\* A connection comes once.
LEMMA ConnectsOnce ==
    ASSUME TypeOK, ConnOnce, NEW c \in Conns, NEW l \in Fds, PeerConnects(c, l)
    PROVE  ConnOnce'
<1>1. /\ peer[c] \notin Alive /\ peer'[c] \in Alive /\ sock' = sock
      /\ \A d \in Conns \ {c} : peer'[d] = peer[d]
      /\ \A m \in Fds : \A d \in backlog'[m] : d \in backlog[m] \/ (m = l /\ d = c)
      /\ \A m \in Fds : \A d \in backlog[m] : d \in Conns
  BY DEF PeerConnects, Alive, TypeOK, NetTypes
<1>2. /\ \A f \in Fds : sock[f] # c
      /\ \A m \in Fds : c \notin backlog[m]
  BY <1>1 DEF ConnOnce
<1>3. \A g \in Fds : sock'[g] \in Conns => peer'[sock'[g]] \in Alive
  BY <1>1, <1>2 DEF ConnOnce
<1>4. \A g, h \in Fds : g # h /\ sock'[g] = sock'[h] => sock'[g] \notin Conns
  BY <1>1, <1>2 DEF ConnOnce
<1>5. \A m \in Fds : \A d \in backlog'[m] : peer'[d] \in Alive /\ \A g \in Fds : sock'[g] # d
  <2> SUFFICES ASSUME NEW m \in Fds, NEW d \in backlog'[m]
               PROVE  peer'[d] \in Alive /\ \A g \in Fds : sock'[g] # d
    OBVIOUS
  <2>1. CASE d = c
    BY <1>1, <1>2, <2>1
  <2>2. CASE d # c
    <3>1. d \in backlog[m]
      BY <1>1, <2>2
    <3>2. peer'[d] = peer[d]
      BY <1>1, <2>2, <3>1
    <3> QED  BY <1>1, <3>1, <3>2 DEF ConnOnce
  <2> QED  BY <2>1, <2>2
<1>6. \A m, n \in Fds : m # n => backlog'[m] \cap backlog'[n] = {}
  <2> SUFFICES ASSUME NEW m \in Fds, NEW n \in Fds, m # n, NEW d \in backlog'[m], d \in backlog'[n]
               PROVE  FALSE
    OBVIOUS
  <2>1. d # c
    BY <1>1, <1>2
  <2>2. d \in backlog[m] /\ d \in backlog[n]
    BY <1>1, <2>1
  <2> QED  BY <2>2 DEF ConnOnce
<1> QED  BY <1>3, <1>4, <1>5, <1>6 DEF ConnOnce

\* accept moves a connection from the backlog to a free descriptor.
LEMMA AcceptedOnce ==
    ASSUME TypeOK, ConnOnce, NEW c \in Conns, NEW l \in Fds, NEW f, NEW item, NEW register,
           Accepted(l, c, f, item, register)
    PROVE  ConnOnce'
<1>1. /\ f \in Fds /\ sock[f] = None /\ c \in backlog[l] /\ peer' = peer
      /\ \A g \in Fds : sock'[g] = IF g = f THEN c ELSE sock[g]
      /\ \A m \in Fds : backlog'[m] = IF m = l THEN backlog[m] \ {c} ELSE backlog[m]
  BY DEF Accepted, NewFd, FreeFds, TypeOK, NetTypes
<1>2. peer[c] \in Alive /\ (\A g \in Fds : sock[g] # c) /\ (\A m \in Fds : m # l => c \notin backlog[m])
  BY <1>1 DEF ConnOnce
<1>3. \A g \in Fds : sock'[g] \in Conns => peer'[sock'[g]] \in Alive
  BY <1>1, <1>2 DEF ConnOnce
<1>4. \A g, h \in Fds : g # h /\ sock'[g] = sock'[h] => sock'[g] \notin Conns
  BY <1>1, <1>2 DEF ConnOnce
<1>5. \A m \in Fds : \A d \in backlog'[m] : peer'[d] \in Alive /\ \A g \in Fds : sock'[g] # d
  <2> SUFFICES ASSUME NEW m \in Fds, NEW d \in backlog'[m]
               PROVE  peer'[d] \in Alive /\ \A g \in Fds : sock'[g] # d
    OBVIOUS
  <2>1. d \in backlog[m] /\ d # c
    BY <1>1, <1>2
  <2> QED  BY <1>1, <2>1 DEF ConnOnce
<1>6. \A m, n \in Fds : m # n => backlog'[m] \cap backlog'[n] = {}
  BY <1>1, <1>2 DEF ConnOnce
<1> QED  BY <1>3, <1>4, <1>5, <1>6 DEF ConnOnce

\* A new listener is no connection.
LEMMA ListensOnce ==
    ASSUME TypeOK, ConnOnce, NEW p \in Fds, sock' = [sock EXCEPT ![p] = Listener],
           UNCHANGED <<backlog, peer>>
    PROVE  ConnOnce'
<1>1. \A g \in Fds : sock'[g] = IF g = p THEN Listener ELSE sock[g]
  BY DEF TypeOK, NetTypes
<1>2. Listener \notin Conns /\ \A m \in Fds : backlog[m] \subseteq Conns
  BY LoopAssumption DEF TypeOK, NetTypes
<1> QED  BY <1>1, <1>2 DEF ConnOnce, Alive

\* What is closed is in no other place.
LEMMA ClosesOnce ==
    ASSUME TypeOK, ConnOnce, NEW S, NEW r, NEW q, NEW w, NEW i, CloseAll(S, r, q, w, i)
    PROVE  ConnOnce'
<1> DEFINE lost == {c \in Conns : \E f \in S \cap Fds : c = sock[f] \/ c \in backlog[f]}
<1>1. /\ \A f \in Fds : sock'[f] = IF f \in S THEN None ELSE sock[f]
      /\ \A f \in Fds : backlog'[f] = IF f \in S THEN {} ELSE backlog[f]
      /\ \A c \in Conns : peer'[c] = IF c \in lost THEN "gone" ELSE peer[c]
  BY DEF CloseAll
<1>2. None \notin Conns /\ \A m \in Fds : backlog[m] \subseteq Conns
  BY LoopAssumption DEF TypeOK, NetTypes
<1>3. \A f \in Fds \ S : sock[f] \notin lost
  BY DEF ConnOnce
<1>4. \A f \in Fds \ S : \A c \in backlog[f] : c \notin lost
  BY DEF ConnOnce
<1> HIDE DEF lost
<1>5. \A f \in Fds : sock'[f] \in Conns => f \notin S /\ sock'[f] = sock[f]
  BY <1>1, <1>2
<1>6. \A f \in Fds : \A c \in backlog'[f] : f \notin S /\ c \in backlog[f] /\ c \in Conns
  BY <1>1, <1>2
<1>7. \A f \in Fds : sock'[f] \in Conns => peer'[sock'[f]] \in Alive
  BY <1>1, <1>3, <1>5 DEF ConnOnce, Alive
<1>8. \A f, g \in Fds : f # g /\ sock'[f] = sock'[g] => sock'[f] \notin Conns
  BY <1>5 DEF ConnOnce
<1>9. \A l \in Fds : \A c \in backlog'[l] : peer'[c] \in Alive /\ \A f \in Fds : sock'[f] # c
  BY <1>1, <1>4, <1>5, <1>6 DEF ConnOnce, Alive
<1>10. \A l, m \in Fds : l # m => backlog'[l] \cap backlog'[m] = {}
  BY <1>6 DEF ConnOnce
<1> QED  BY <1>7, <1>8, <1>9, <1>10 DEF ConnOnce

\* The closings of the handlers are all CloseAll.
Closes == \E S, r, q, w, i : CloseAll(S, r, q, w, i)

\* Every step is one of these for the kernel.
LEMMA NextIsConnStep ==
    ASSUME TypeOK, Sessions, [Next]_vars
    PROVE  \/ UNCHANGED <<sock, backlog>> /\ \A c \in Conns : peer[c] \in Alive => peer'[c] \in Alive
           \/ \E c \in Conns, l \in Fds : PeerConnects(c, l)
           \/ \E c \in Conns, l \in Fds, f \in Fds : \E item, register : Accepted(l, c, f, item, register)
           \/ \E p \in Fds : sock' = [sock EXCEPT ![p] = Listener] /\ UNCHANGED <<backlog, peer>>
           \/ Closes
<1> DEFINE Still == UNCHANGED <<sock, backlog>> /\ \A c \in Conns : peer[c] \in Alive => peer'[c] \in Alive
<1>1. UNCHANGED netVars => Still
  BY DEF netVars
<1>2. CASE UNCHANGED vars
  BY <1>1, <1>2 DEF vars, loopVars
<1>3. CASE Peers
  <2>1. ASSUME NEW c \in Conns, PeerCloses(c) \/ PeerResets(c) \/ \E data : PeerSends(c, data)
        PROVE  Still
    BY <2>1 DEF PeerCloses, PeerResets, PeerSends, Alive, TypeOK, NetTypes
  <2>2. Proxies \subseteq Fds /\ Main \in Fds /\ Tunnels \subseteq Conns /\ Visitors \subseteq Conns
    BY ServerAssumption, LoopAssumption DEF Proxies, TypeOK, TableTypes
  <2> QED  BY <1>3, <2>1, <2>2 DEF Peers, TunnelConnects, VisitorConnects, HangsUp, ResetsConnection,
                                   VisitorSends, TunnelAsks, TunnelNames
<1>4. CASE Server
  <2>1. CASE \/ EpollWait \/ AcceptTunnelFails
             \/ \E p \in Fds, register \in BOOLEAN : AcceptVisitorFails(p, register)
             \/ \E f \in Fds : UnknownHangUp(f) \/ VisitorDataFails(f) \/ LoopStep(f)
             \/ \E f \in Fds : \E n \in 0 .. Len(writeq[f]) : Deliver(f, n)
    BY <1>1, <2>1 DEF EpollWait, AcceptTunnelFails, AcceptVisitorFails, AcceptFailed, UnknownHangUp, Throw,
                      VisitorDataFails, LoopStep, StaleHangup, ThrowOnEvent, WriteFails, ReadFails, ReadPart,
                      Deliver, Write
  <2>2. CASE \E f \in Fds : VisitorData(f)
    BY <2>2 DEF VisitorData
  <2>3. CASE AcceptTunnel \/ \E p \in Fds, register \in BOOLEAN : AcceptVisitor(p, register)
    BY <2>3, LoopAssumption, ServerAssumption DEF AcceptTunnel, AcceptVisitor
  <2>4. CASE \E f \in Fds : TunnelHangUp(f) \/ IdleTunnelHangUp(f) \/ VisitorHangUp(f)
    BY <2>4 DEF TunnelHangUp, IdleTunnelHangUp, VisitorHangUp, Closes
  <2>5. ASSUME NEW f \in Fds, NEW m, Handle(f, m)
        PROVE  Still \/ Closes \/ \E p \in Fds : sock' = [sock EXCEPT ![p] = Listener] /\ UNCHANGED <<backlog, peer>>
    BY <1>1, <2>5 DEF Handle, Refuse, HandlePing, HandleAuth, HandleCreate, CreateThrows, Throw, HandlePacket,
                      HandleDisconnect, Answer, Closes
  <2> QED  BY <1>4, <2>1, <2>2, <2>3, <2>4, <2>5 DEF Server
<1> QED  BY <1>2, <1>3, <1>4 DEF Next

\* So every step keeps each connection in one place.
LEMMA NextKeepsOnce ==
    ASSUME TypeOK, Sessions, ConnOnce, [Next]_vars
    PROVE  ConnOnce'
BY NextIsConnStep, SameSockets, ConnectsOnce, AcceptedOnce, ListensOnce, ClosesOnce DEF Closes

----------------------------------------------------------------------------
(* What a step does to one descriptor.                                     *)

\* A step that leaves alone what the program has queued for f, or gives it a
\* frame: a tunnel has a proxy then, or its turn is over.
Unqueued(f) == writeq'[f] = writeq[f] /\ interest'[f] = interest[f]

Sent(f) ==
    /\ \E frame : writeq'[f] = Append(writeq[f], frame)
    /\ interest'[f] = IF writeq[f] = <<>> /\ interest[f] # {} THEN {"IN", "OUT"} ELSE interest[f]
    /\ linked[f] = Main => users[f].server # None \/ pending'[f] = {}

\* f is not opened or closed; its read queue changes if it is a tunnel.
Linked(f) ==
    /\ linked'[f] = linked[f] /\ sock'[f] = sock[f] /\ (f \in observers' <=> f \in observers)
    /\ readq'[f] = readq[f] \/ (linked[f] = Main /\ readq'[f] # <<>>)

\* Its turn is over, or has not been.
Waits(f) ==
    \/ pending'[f] = {}
    \/ /\ pending'[f] = pending[f] /\ users'[f].server = users[f].server
       /\ (sock[f] \in Conns /\ rx[sock[f]] # <<>>) => rx'[sock[f]] # <<>>

Stays(f) == Linked(f) /\ (Unqueued(f) \/ Sent(f)) /\ Waits(f)

\* f is closed.
Closed(f) ==
    sock[f] # None /\ sock'[f] = None /\ linked'[f] = None /\ interest'[f] = {} /\ f \notin observers'

\* f is new: a listener, a connection nothing serves, or one that is served.
New(f) ==
    /\ f \in FreeFds /\ pending'[f] \in {{}, pending[f]}
    /\ \/ linked'[f] = None /\ (interest'[f] = {} \/ f \in observers')
       \/ /\ linked'[f] # None /\ f \notin observers'
          /\ linked'[f] = Main => sock'[f] \in Tunnels /\ readq'[f] = <<"READ">>
          /\ linked'[f] # Main => readq'[f] = <<"CAPTURE">>
          /\ writeq'[f] = <<>> /\ interest'[f] = {"IN"} /\ users'[f].server = None

\* Frames of f are sent, or dropped when the send fails.
Written(f) ==
    /\ WriteTurn(f) /\ UNCHANGED <<sock, rx, linked, observers, users>> /\ f \notin observers
    /\ pending'[f] = pending[f] \cap {"IN"}
    /\ \/ writeq'[f] = <<>> /\ interest'[f] = {"IN"}
       \/ writeq'[f] # <<>> /\ interest'[f] = interest[f] /\ writeq[f] # <<>>
    /\ \/ readq'[f] = readq[f]
       \/ readq'[f] = <<>> /\ sock[f] \in Conns /\ peer[sock[f]] = "rst"

\* The queues of f are dropped, for nothing could be read.
Emptied(f) ==
    /\ pending[f] = {"IN"} /\ linked[f] # None /\ readq[f] # <<>> /\ Head(readq[f]) = "READ"
    /\ sock[f] \in Conns /\ rx[sock[f]] = <<>>
    /\ UNCHANGED <<sock, rx, linked, observers, users, interest>>
    /\ readq'[f] = <<>> /\ writeq'[f] = <<>> /\ pending'[f] = {}

\* epoll_wait fills the batch.
Filled(f) ==
    /\ pending[f] = {} /\ (\E W : W \subseteq {g \in Fds : "OUT" \in interest[g]} /\ pending'[f] = Reported(f, W))
    /\ UNCHANGED <<netVars, tableVars, queueVars, users>>

Shape(f) == Stays(f) \/ Closed(f) \/ New(f) \/ Written(f) \/ Emptied(f) \/ Filled(f)

\* Loop::send to a tunnel that has a proxy, or by the one whose turn it is.
LEMMA SentOne ==
    ASSUME TypeOK, NEW f \in Fds, NEW frame, writeq'[f] = Queued(f, frame)[f], interest'[f] = Watched(f)[f],
           users[f].server # None \/ pending'[f] = {}
    PROVE  Sent(f)
BY DEF Queued, Watched, TypeOK, QueueTypes, Sent

\* What peers do, and an exception, stay away from what the program has.
LEMMA OutsideShape ==
    ASSUME TypeOK, NEW f \in Fds, Peers \/ \E what : Throw(what) /\ UNCHANGED serverVars
    PROVE  Shape(f)
<1>1. CASE Peers
  <2>1. /\ UNCHANGED <<sock, linked, observers, readq, writeq, interest, pending, users>>
        /\ \/ rx' = rx
           \/ \E c \in Conns : \E data : rx' = [rx EXCEPT ![c] = Append(@, data)]
    BY <1>1, ServerAssumption, ZenonT(60) DEF Peers, TunnelConnects, VisitorConnects, HangsUp, ResetsConnection, VisitorSends,
         TunnelAsks, TunnelNames, PeerCloses, PeerResets, PeerConnects, PeerSends, tableVars, queueVars,
         batchVars, serverVars
  <2>2. \A d \in Conns : rx[d] # <<>> => rx'[d] # <<>>
    <3>1. CASE rx' = rx
      BY <3>1
    <3>2. CASE rx' # rx
      <4>1. PICK c, data : c \in Conns /\ rx' = [rx EXCEPT ![c] = Append(@, data)]
        BY <2>1, <3>2
      <4>2. \A d \in Conns : rx[d] \in Seq(Incoming) /\ (d # c => rx'[d] = rx[d]) /\ rx'[c] = Append(rx[c], data)
        BY <4>1 DEF TypeOK, NetTypes
      <4>3. rx'[c] # <<>>
        BY <4>1, <4>2
      <4> QED  BY <4>2, <4>3
    <3> QED  BY <3>1, <3>2
  <2> QED  BY <2>1, <2>2 DEF Shape, Stays, Linked, Unqueued, Waits
<1>2. CASE \E what : Throw(what) /\ UNCHANGED serverVars
  BY <1>2 DEF Throw, netVars, tableVars, queueVars, batchVars, serverVars, Shape, Stays, Linked, Unqueued, Waits
<1> QED  BY <1>1, <1>2

\* Selector::wait
LEMMA EpollWaitShape ==
    ASSUME TypeOK, NEW f \in Fds, EpollWait, UNCHANGED serverVars
    PROVE  Shape(f)
<1>1. PICK W \in SUBSET {g \in Fds : "OUT" \in interest[g]} : pending' = [g \in Fds |-> Reported(g, W)]
  BY DEF EpollWait
<1>2. pending'[f] = Reported(f, W) /\ pending[f] = {}
  BY <1>1 DEF EpollWait, NoEvents
<1> QED  BY <1>2 DEF EpollWait, Shape, Filled, serverVars

\* FreeGrok::on_connect
LEMMA AcceptTunnelShape ==
    ASSUME TypeOK, Sessions, NEW f \in Fds, AcceptTunnel
    PROVE  Shape(f)
<1>1. PICK c \in Tunnels, g \in Fds :
        /\ Accepted(Main, c, g, "READ", TRUE)
        /\ interest' = [interest EXCEPT ![g] = {"IN"}]
        /\ NextEvent(Main) /\ UNCHANGED <<writeq, serverVars>>
  BY DEF AcceptTunnel
<1>2. /\ g \in FreeFds /\ sock'[g] = c /\ linked'[g] = Main /\ readq'[g] = Append(readq[g], "READ")
      /\ interest'[g] = {"IN"} /\ UNCHANGED <<writeq, users, rx, observers>> /\ c \in Conns
      /\ \A h \in Fds \ {g} : /\ sock'[h] = sock[h] /\ linked'[h] = linked[h] /\ readq'[h] = readq[h]
                              /\ interest'[h] = interest[h]
      /\ \A h \in Fds : pending'[h] \in {{}, pending[h]}
  BY <1>1, ServerAssumption, LoopAssumption
     DEF Accepted, NewFd, NextEvent, serverVars, TypeOK, NetTypes, TableTypes, QueueTypes, BatchTypes
<1>3. CASE f = g
  <2>1. readq[f] = <<>> /\ writeq[f] = <<>> /\ users[f].server = None /\ f \notin observers
    BY <1>2, <1>3 DEF Sessions, NoStaleDescriptor
  <2>2. Append(<<>>, "READ") = <<"READ">>
    OBVIOUS
  <2> QED  BY <1>2, <1>3, <2>1, <2>2, LoopAssumption DEF Shape, New
<1>4. CASE f # g
  BY <1>2, <1>4 DEF Shape, Stays, Linked, Unqueued, Waits
<1> QED  BY <1>3, <1>4

\* GrokProxy::on_connect
LEMMA AcceptVisitorShape ==
    ASSUME TypeOK, Sessions, NEW f \in Fds, NEW p \in Fds, NEW register \in BOOLEAN,
           AcceptVisitor(p, register)
    PROVE  Shape(f)
<1>1. PICK c \in Visitors, g \in Fds :
        /\ Accepted(p, c, g, "CAPTURE", register)
        /\ writeq' = Queued(initiator[p], Packet("CONNECTED", NextId, c))
        /\ interest' = IF register THEN [Watched(initiator[p]) EXCEPT ![g] = {"IN"}]
                                   ELSE Watched(initiator[p])
        /\ NextEvent(p) /\ UNCHANGED users
  BY DEF AcceptVisitor
<1> DEFINE t == initiator[p]
<1>2. /\ p \in Proxies /\ p # Main /\ t \in Fds /\ users[t].server # None /\ sock[t] # None
  BY ProxyOwner, KindsApart, LoopAssumption DEF AcceptVisitor, Arrival, Proxies, Sessions
<1>3. /\ g \in FreeFds /\ sock'[g] = c /\ linked'[g] = (IF register THEN p ELSE linked[g])
      /\ readq'[g] = Append(readq[g], "CAPTURE") /\ UNCHANGED <<users, rx, observers>> /\ c \in Conns
      /\ \A h \in Fds \ {g} : sock'[h] = sock[h] /\ linked'[h] = linked[h] /\ readq'[h] = readq[h]
      /\ \A h \in Fds : pending'[h] \in {{}, pending[h]}
  BY <1>1, ServerAssumption
     DEF Accepted, NewFd, NextEvent, TypeOK, NetTypes, TableTypes, QueueTypes, BatchTypes
<1>4. Watched(t) \in [Fds -> SUBSET {"IN", "OUT"}]
  BY WatchedType DEF TypeOK
<1>5. \A h \in Fds \ {g} : interest'[h] = Watched(t)[h]
  BY <1>1, <1>4
<1>6. t # g
  BY <1>2, <1>3 DEF FreeFds
<1>7. CASE f = g
  <2>1. /\ linked[f] = None /\ readq[f] = <<>> /\ writeq[f] = <<>> /\ interest[f] = {} /\ f \notin observers
        /\ users[f].server = None
    BY <1>3, <1>7 DEF Sessions, NoStaleDescriptor
  <2>2. writeq'[f] = writeq[f] /\ Watched(t)[f] = interest[f]
    BY <1>1, <1>2, <1>6, <1>7, SendElsewhere
  <2>3. Append(<<>>, "CAPTURE") = <<"CAPTURE">>
    OBVIOUS
  <2>4. CASE register
    <3>1. interest'[f] = {"IN"}
      BY <1>1, <1>4, <1>7, <2>4
    <3> QED  BY <1>2, <1>3, <1>7, <2>1, <2>2, <2>3, <2>4, <3>1, LoopAssumption DEF Shape, New
  <2>5. CASE ~register
    BY <1>1, <1>3, <1>7, <2>1, <2>2, <2>5 DEF Shape, New
  <2> QED  BY <2>4, <2>5
<1>8. CASE f = t
  <2>1. Sent(f)
    BY <1>1, <1>2, <1>5, <1>6, <1>8, SentOne
  <2> QED  BY <1>3, <1>6, <1>8, <2>1 DEF Shape, Stays, Linked, Waits
<1>9. CASE f \notin {g, t}
  <2>1. Unqueued(f)
    BY <1>1, <1>2, <1>5, <1>9, SendElsewhere DEF Unqueued
  <2> QED  BY <1>3, <1>9, <2>1 DEF Shape, Stays, Linked, Waits
<1> QED  BY <1>7, <1>8, <1>9

\* on_connect of both when accept fails.
LEMMA AcceptFailsShape ==
    ASSUME TypeOK, Sessions, NEW f \in Fds,
           AcceptTunnelFails \/ \E p \in Fds, register \in BOOLEAN : AcceptVisitorFails(p, register)
    PROVE  Shape(f)
<1>1. /\ UNCHANGED <<sock, rx, readq, users, observers>> /\ linked'[f] = linked[f]
      /\ pending'[f] \in {{}, pending[f]}
  BY LoopAssumption, ZenonT(60)
     DEF AcceptTunnelFails, AcceptVisitorFails, AcceptFailed, netVars, serverVars, NextEvent, TypeOK, TableTypes,
         BatchTypes
<1>2. CASE AcceptTunnelFails
  BY <1>1, <1>2 DEF AcceptTunnelFails, Shape, Stays, Linked, Unqueued, Waits
<1>3. CASE \E p \in Fds, register \in BOOLEAN : AcceptVisitorFails(p, register)
  <2>1. PICK p \in Proxies : \E frame : Send(initiator[p], frame)
    BY <1>3 DEF AcceptVisitorFails, Arrival, Proxies
  <2>2. initiator[p] \in Fds /\ users[initiator[p]].server # None
    BY ProxyOwner, LoopAssumption DEF Sessions
  <2>3. Unqueued(f) \/ Sent(f)
    BY <2>1, <2>2, SendElsewhere, SentOne DEF Send, Unqueued
  <2> QED  BY <1>1, <2>3 DEF Shape, Stays, Linked, Waits
<1> QED  BY <1>2, <1>3

\* What CloseAll leaves of a descriptor it closes, and of another.
LEMMA ClosesAllElse ==
    ASSUME TypeOK, NEW f \in Fds, NEW S, NEW r, NEW q, NEW w, NEW i, CloseAll(S, r, q, w, i)
    PROVE  /\ f \in S => sock'[f] = None /\ linked'[f] = None /\ interest'[f] = {}
           /\ f \notin S => /\ sock'[f] = sock[f] /\ linked'[f] = linked[f] /\ readq'[f] = q[f]
                            /\ writeq'[f] = w[f] /\ interest'[f] = i[f]
BY DEF CloseAll

\* The connection of a descriptor that stays is not among those it closes.
LEMMA ClosesNotElse ==
    ASSUME TypeOK, ConnOnce, NEW f \in Fds, NEW S, NEW r, NEW q, NEW w, NEW i, CloseAll(S, r, q, w, i), f \notin S,
           sock[f] \in Conns
    PROVE  rx'[sock[f]] = r[sock[f]]
<1> DEFINE c == sock[f]
           lost == {d \in Conns : \E g \in S \cap Fds : d = sock[g] \/ d \in backlog[g]}
<1>1. c \notin lost
  BY DEF ConnOnce
<1>2. rx' = [d \in Conns |-> IF d \in lost THEN <<>> ELSE r[d]]
  BY DEF CloseAll
<1> HIDE DEF lost
<1> QED  BY <1>1, <1>2

\* What the loop serves is open, and no listener.
LEMMA ServedIsOpen ==
    ASSUME TypeOK, Sessions, NEW f \in Fds, linked[f] # None
    PROVE  sock[f] # None /\ f \notin observers
BY DEF Sessions, NoStaleDescriptor, SessionOwned, FreeFds

\* FreeGrok::on_disconnect
LEMMA TunnelHangUpShape ==
    ASSUME TypeOK, Sessions, NEW f \in Fds, NEW g \in Fds, TunnelHangUp(g) \/ IdleTunnelHangUp(g)
    PROVE  Shape(f)
<1>1. pending'[f] = {}
  BY DEF TunnelHangUp, IdleTunnelHangUp, DropBatch, NoEvents
<1>2. CASE TunnelHangUp(g)
  <2> DEFINE p == users[g].server
             S == {g, p} \cup clients[p]
  <2>1. /\ CloseAll(S, rx, readq, writeq, interest) /\ observers' = observers \ {p}
        /\ linked[g] = Main /\ p # None
    BY <1>2 DEF TunnelHangUp
  <2>2. p \in Proxies /\ p \in Fds /\ sock[p] = Listener
    BY <2>1 DEF Sessions, SessionOwned, TypeOK, SessionTypes
  <2>3. CASE f = p
    BY <2>1, <2>2, <2>3, ClosesAllElse, LoopAssumption DEF Shape, Closed
  <2>4. CASE f \in S /\ f # p
    <3>1. \A x \in Fds : x \in clients[p] => linked[x] = p
      BY <2>2 DEF Sessions, SessionOwned
    <3>2. linked[f] # None
      BY <2>1, <2>4, <3>1, LoopAssumption
    <3> QED  BY <2>1, <2>4, <3>2, ClosesAllElse, ServedIsOpen DEF Shape, Closed
  <2>5. CASE f \notin S
    BY <1>1, <2>1, <2>5, ClosesAllElse DEF Shape, Stays, Linked, Unqueued, Waits
  <2> QED  BY <2>3, <2>4, <2>5
<1>3. CASE IdleTunnelHangUp(g)
  <2>1. /\ CloseAll({g}, rx, readq, writeq, interest) /\ UNCHANGED observers /\ linked[g] # None
    BY <1>3, LoopAssumption DEF IdleTunnelHangUp
  <2>2. CASE f = g
    BY <2>1, <2>2, ClosesAllElse, ServedIsOpen DEF Shape, Closed
  <2>3. CASE f # g
    BY <1>1, <2>1, <2>3, ClosesAllElse DEF Shape, Stays, Linked, Unqueued, Waits
  <2> QED  BY <2>2, <2>3
<1> QED  BY <1>2, <1>3

\* GrokProxy::on_disconnect
LEMMA VisitorHangUpShape ==
    ASSUME TypeOK, Sessions, NEW f \in Fds, NEW g \in Fds, VisitorHangUp(g) \/ UnknownHangUp(g)
    PROVE  Shape(f)
<1>1. CASE VisitorHangUp(g)
  <2> DEFINE p == linked[g]
             t == initiator[p]
  <2>1. PICK frame : CloseAll({g}, rx, readq, Queued(t, frame), Watched(t)) /\ DropBatch
    BY <1>1 DEF VisitorHangUp
  <2>2. pending'[f] = {} /\ observers' = observers /\ linked[g] # None
    BY <1>1, <2>1, LoopAssumption DEF DropBatch, NoEvents, VisitorHangUp, Proxies, TypeOK, TableTypes
  <2>3. CASE f = g
    BY <2>1, <2>2, <2>3, ClosesAllElse, ServedIsOpen DEF Shape, Closed
  <2>4. CASE f # g
    <3>1. Linked(f) /\ writeq'[f] = Queued(t, frame)[f] /\ interest'[f] = Watched(t)[f]
      BY <2>1, <2>2, <2>4, ClosesAllElse DEF Linked
    <3>2. Unqueued(f) \/ Sent(f)
      BY <2>2, <3>1, SendElsewhere, SentOne DEF Unqueued
    <3> QED  BY <2>2, <3>1, <3>2 DEF Shape, Stays, Waits
  <2> QED  BY <2>3, <2>4
<1>2. CASE UnknownHangUp(g)
  BY <1>2, OutsideShape DEF UnknownHangUp
<1> QED  BY <1>1, <1>2

\* The request is taken from the stream of one tunnel, and the turn is over.
LEMMA RequestMoves ==
    ASSUME TypeOK, ConnOnce, NEW f \in Fds, NEW g \in Fds, NEW m, Request(g, m), NextEvent(g)
    PROVE  /\ linked[g] = Main /\ pending'[g] = {} /\ sock[g] \in Conns /\ NewMessage(g)[g] # <<>>
           /\ f # g => /\ pending'[f] = pending[f]
                       /\ NewMessage(g)[f] = readq[f]
                       /\ sock[f] \in Conns => Consumed(g)[sock[f]] = rx[sock[f]]
<1>1. linked[g] = Main /\ sock[g] \in Conns /\ pending'[g] = {}
  BY DEF Request, NextEvent, TypeOK, BatchTypes
<1>2. f # g => pending'[f] = pending[f] /\ NewMessage(g)[f] = readq[f]
  BY DEF NextEvent, NewMessage, TypeOK, BatchTypes, QueueTypes
<1>3. f # g /\ sock[f] \in Conns => sock[f] # sock[g]
  BY DEF ConnOnce
<1>4. f # g /\ sock[f] \in Conns => Consumed(g)[sock[f]] = rx[sock[f]]
  BY <1>1, <1>3 DEF Consumed, TypeOK, NetTypes
<1>5. NewMessage(g)[g] # <<>>
  <2>1. readq[g] \in Seq({"READ", "CAPTURE"}) /\ readq[g] # <<>>
    BY DEF Request, TypeOK, QueueTypes
  <2>2. NewMessage(g)[g] = Append(Tail(readq[g]), "READ") /\ Tail(readq[g]) \in Seq({"READ", "CAPTURE"})
    BY <2>1 DEF NewMessage, TypeOK, QueueTypes
  <2> QED  BY <2>2
<1> QED  BY <1>1, <1>2, <1>4, <1>5

\* process_message, when nothing is opened or closed.
LEMMA AnswerShape ==
    ASSUME TypeOK, ConnOnce, Sessions, NEW f \in Fds, NEW g \in Fds, NEW m,
           Refuse(g, m) \/ HandlePing(g, m) \/ HandleAuth(g, m) \/ HandlePacket(g, m)
    PROVE  Shape(f)
<1>1. /\ Request(g, m) /\ NextEvent(g) /\ UNCHANGED <<sock, linked, observers>>
      /\ rx' = Consumed(g) /\ readq' = NewMessage(g)
  BY DEF Refuse, HandlePing, HandleAuth, HandlePacket, Answer, tableVars
<1>2. users'[f].server = users[f].server
  BY DEF Refuse, HandlePing, HandleAuth, HandlePacket, Answer, serverVars, TypeOK, SessionTypes
<1>3. Linked(f) /\ Waits(f)
  BY <1>1, <1>2, RequestMoves DEF Linked, Waits
<1>4. Unqueued(f) \/ Sent(f)
  <2>1. CASE HandleAuth(g, m)
    BY <2>1 DEF HandleAuth, Unqueued
  <2>2. CASE Refuse(g, m) \/ HandlePing(g, m)
    <3>1. PICK frame : Send(g, frame)
      BY <2>2 DEF Refuse, HandlePing, Answer
    <3>2. CASE f = g
      <4>1. pending'[f] = {} /\ writeq'[f] = Queued(f, frame)[f] /\ interest'[f] = Watched(f)[f]
        BY <1>1, <3>1, <3>2, RequestMoves DEF Send
      <4> QED  BY <4>1, SentOne
    <3>3. CASE f # g
      BY <3>1, <3>3, SendElsewhere DEF Send, Unqueued
    <3> QED  BY <3>2, <3>3
  <2>3. CASE HandlePacket(g, m)
    <3> DEFINE p == users[g].server
               h == id_to_sock[p][m.arg]
    <3>1. p \in Fds /\ m.arg \in DOMAIN id_to_sock[p]
      BY <2>3 DEF HandlePacket, HasServer, HasClient, TypeOK, SessionTypes
    <3>2. h # BadFd => linked[h] \in {p, None} /\ p \in Proxies
      BY <3>1 DEF Sessions, MapsAgree
    <3>3. IF h = BadFd THEN UNCHANGED <<writeq, interest>> ELSE \E frame : Send(h, frame)
      BY <2>3 DEF HandlePacket
    <3> HIDE DEF h
    <3>4. CASE f = h
      <4>1. PICK frame : Send(f, frame)
        BY <3>3, <3>4, LoopAssumption
      <4>2. linked[f] # Main
        BY <3>2, <3>4, LoopAssumption DEF Proxies
      <4>3. writeq[f] \in Seq(Outgoing)
        BY DEF TypeOK, QueueTypes
      <4> QED  BY <4>1, <4>2, <4>3 DEF Send, Sent, Queued, Watched, TypeOK, QueueTypes
    <3>5. CASE f # h
      BY <3>3, <3>5, SendElsewhere DEF Send, Unqueued
    <3> QED  BY <3>4, <3>5
  <2> QED  BY <2>1, <2>2, <2>3
<1> QED  BY <1>3, <1>4 DEF Shape, Stays

\* GROK_CREATE_SERVER
LEMMA CreateShape ==
    ASSUME TypeOK, ConnOnce, Sessions, NEW f \in Fds, NEW g \in Fds, NEW m, NEW p \in Fds,
           HandleCreate(g, m, p)
    PROVE  Shape(f)
<1>1. /\ Request(g, m) /\ NextEvent(g) /\ p \in FreeFds
      /\ rx' = Consumed(g) /\ readq' = NewMessage(g) /\ linked' = linked /\ observers' = observers \cup {p}
      /\ writeq' = Queued(g, Packet("CREATE_SERVER", 0, None))
      /\ interest' = [Watched(g) EXCEPT ![p] = {"IN"}]
      /\ \A h \in Fds \ {p} : sock'[h] = sock[h]
      /\ \A h \in Fds \ {g} : users'[h] = users[h]
  BY DEF HandleCreate, NewFd, TypeOK, NetTypes, SessionTypes
<1>2. CASE f = p
  <2>1. linked[f] = None /\ pending'[f] \in {{}, pending[f]}
    BY <1>1, <1>2, RequestMoves DEF Sessions, NoStaleDescriptor
  <2> QED  BY <1>1, <1>2, <2>1 DEF Shape, New
<1>3. CASE f # p
  <2>1. interest'[f] = Watched(g)[f]
    BY <1>1, <1>3, WatchedType DEF TypeOK
  <2>2. Linked(f) /\ Waits(f)
    BY <1>1, <1>3, RequestMoves DEF Linked, Waits
  <2>3. Unqueued(f) \/ Sent(f)
    BY <1>1, <2>1, RequestMoves, SendElsewhere, SentOne DEF Unqueued
  <2> QED  BY <2>2, <2>3 DEF Shape, Stays
<1> QED  BY <1>2, <1>3

\* GROK_DISCONNECT
LEMMA DisconnectShape ==
    ASSUME TypeOK, ConnOnce, Sessions, NEW f \in Fds, NEW g \in Fds, NEW m, HandleDisconnect(g, m)
    PROVE  Shape(f)
<1>1. PICK S, r, q : /\ CloseAll(S, r, q, writeq, interest) /\ r = Consumed(g) /\ q = NewMessage(g)
                     /\ Request(g, m) /\ NextEvent(g) /\ UNCHANGED <<users, observers>>
                     /\ \A x \in S : linked[x] # None
  BY DEF HandleDisconnect
<1>2. CASE f \in S
  BY <1>1, <1>2, ClosesAllElse, ServedIsOpen DEF Shape, Closed
<1>3. CASE f \notin S
  <2>1. Linked(f) /\ Unqueued(f)
    BY <1>1, <1>3, ClosesAllElse, RequestMoves DEF Linked, Unqueued
  <2>2. Waits(f)
    <3>1. sock[f] \in Conns => rx'[sock[f]] = Consumed(g)[sock[f]]
      BY <1>1, <1>3, ClosesNotElse
    <3>2. pending'[f] = {} \/ (pending'[f] = pending[f] /\ (sock[f] \in Conns => Consumed(g)[sock[f]] = rx[sock[f]]))
      BY <1>1, RequestMoves
    <3> QED  BY <1>1, <3>1, <3>2 DEF Waits
  <2> QED  BY <2>1, <2>2 DEF Shape, Stays
<1> QED  BY <1>2, <1>3

\* GrokProxy::on_received
LEMMA VisitorDataShape ==
    ASSUME TypeOK, ConnOnce, Sessions, NEW f \in Fds, NEW g \in Fds, VisitorData(g)
    PROVE  Shape(f)
<1>1. /\ linked[g] \in Proxies /\ NextEvent(g) /\ UNCHANGED <<sock, linked, observers, readq, users>>
      /\ sock[g] \in Conns
      /\ rx' = rx \/ rx' = [rx EXCEPT ![sock[g]] = Tail(@)]
      /\ UNCHANGED <<writeq, interest>> \/ \E frame : Send(initiator[linked[g]], frame)
  BY DEF VisitorData, Capture, tableVars, serverVars
<1>2. initiator[linked[g]] \in Fds /\ users[initiator[linked[g]]].server # None
  BY <1>1, ProxyOwner, LoopAssumption DEF Sessions
<1>3. Linked(f)
  BY <1>1 DEF Linked
<1>4. Waits(f)
  <2>1. CASE f = g
    BY <1>1, <2>1 DEF Waits, NextEvent, TypeOK, BatchTypes
  <2>2. CASE f # g
    <3>1. sock[f] \in Conns => sock[f] # sock[g]
      BY <2>2 DEF ConnOnce
    <3>2. sock[f] \in Conns => rx'[sock[f]] = rx[sock[f]]
      BY <1>1, <3>1 DEF TypeOK, NetTypes
    <3> QED  BY <1>1, <2>2, <3>2 DEF Waits, NextEvent, TypeOK, BatchTypes
  <2> QED  BY <2>1, <2>2
<1>5. Unqueued(f) \/ Sent(f)
  <2>1. CASE UNCHANGED <<writeq, interest>>
    BY <2>1 DEF Unqueued
  <2>2. CASE \E frame : Send(initiator[linked[g]], frame)
    <3>1. PICK frame : Send(initiator[linked[g]], frame)
      BY <2>2
    <3> QED  BY <1>2, <3>1, SendElsewhere, SentOne DEF Send, Unqueued
  <2> QED  BY <1>1, <2>1, <2>2
<1> QED  BY <1>3, <1>4, <1>5 DEF Shape, Stays

\* perform_write_queue
LEMMA DeliverShape ==
    ASSUME TypeOK, NEW f \in Fds, NEW g \in Fds, NEW n \in 0 .. Len(writeq[g]), Deliver(g, n)
    PROVE  Shape(f)
<1>1. /\ WriteTurn(g) /\ OutDone(g) /\ UNCHANGED <<sock, rx, linked, observers, readq, users>>
      /\ writeq[g] # <<>> /\ g \notin observers
      /\ writeq' = [writeq EXCEPT ![g] = SubSeq(@, n + 1, Len(@))]
      /\ interest' = IF n = Len(writeq[g]) THEN [interest EXCEPT ![g] = {"IN"}] ELSE interest
  BY DEF Deliver, Write, netVars, tableVars, serverVars
<1>2. CASE f # g
  BY <1>1, <1>2 DEF Shape, Stays, Linked, Unqueued, Waits, OutDone, NextEvent, TypeOK, QueueTypes, BatchTypes
<1>3. CASE f = g
  <2>1. pending'[f] = pending[f] \cap {"IN"}
    BY <1>1, <1>3 DEF WriteTurn, OutDone, NextEvent, TypeOK, BatchTypes
  <2>2. /\ writeq[f] \in Seq(Outgoing) /\ writeq'[f] = SubSeq(writeq[f], n + 1, Len(writeq[f]))
        /\ n \in 0 .. Len(writeq[f])
        /\ n = Len(writeq[f]) => interest'[f] = {"IN"}
        /\ n # Len(writeq[f]) => interest'[f] = interest[f]
    BY <1>1, <1>3 DEF TypeOK, QueueTypes
  <2>3. n = Len(writeq[f]) <=> writeq'[f] = <<>>
    <3>1. Len(writeq'[f]) = Len(writeq[f]) - n /\ writeq'[f] \in Seq(Outgoing) /\ Len(writeq[f]) \in Nat
      BY <2>2
    <3>2. writeq'[f] = <<>> <=> Len(writeq'[f]) = 0
      BY <3>1
    <3> QED  BY <2>2, <3>1, <3>2
  <2> QED  BY <1>1, <1>3, <2>1, <2>2, <2>3 DEF Shape, Written
<1> QED  BY <1>2, <1>3

\* The steps of the loop itself.
LEMMA LoopStepShape ==
    ASSUME TypeOK, NEW f \in Fds, NEW g \in Fds, LoopStep(g)
    PROVE  Shape(f)
<1> USE DEF Shape, Stays, Linked, Unqueued, Waits
<1>1. UNCHANGED <<sock, rx, linked, observers, users>>
  BY DEF LoopStep, StaleHangup, ThrowOnEvent, Throw, WriteFails, ReadFails, ReadPart, netVars, tableVars, serverVars
<1>2. CASE StaleHangup(g) \/ ThrowOnEvent(g) \/ ReadPart(g)
  <2>1. UNCHANGED queueVars /\ (pending'[f] = {} \/ pending'[f] = pending[f])
    BY <1>2 DEF StaleHangup, ThrowOnEvent, Throw, ReadPart, DropBatch, NoEvents, NextEvent, batchVars,
                TypeOK, BatchTypes
  <2> QED  BY <1>1, <2>1 DEF queueVars
<1>3. CASE WriteFails(g) /\ f # g
  BY <1>1, <1>3 DEF WriteFails, OutDone, NextEvent, TypeOK, QueueTypes, BatchTypes
<1>4. CASE WriteFails(g) /\ f = g
  <2>1. /\ interest'[f] = {"IN"} /\ readq'[f] = <<>> /\ writeq'[f] = <<>>
        /\ pending'[f] = pending[f] \cap {"IN"}
    BY <1>4 DEF WriteFails, WriteTurn, OutDone, NextEvent, TypeOK, QueueTypes, BatchTypes
  <2> QED  BY <1>1, <1>4, <2>1 DEF WriteFails, Written
<1>5. CASE ReadFails(g) /\ f # g
  BY <1>1, <1>5 DEF ReadFails, NextEvent, TypeOK, QueueTypes, BatchTypes
<1>6. CASE ReadFails(g) /\ f = g
  <2>1. /\ pending[f] = {"IN"} /\ linked[f] # None /\ Head(readq[f]) = "READ" /\ rx[sock[f]] = <<>>
        /\ pending'[f] = {} /\ writeq'[f] = <<>> /\ readq'[f] = <<>> /\ interest' = interest /\ readq[f] # <<>>
        /\ sock[f] \in Conns
    BY <1>6 DEF ReadFails, ReadTurn, NextEvent, TypeOK, QueueTypes, BatchTypes
  <2> QED  BY <1>1, <2>1 DEF Emptied
<1> QED  BY <1>2, <1>3, <1>4, <1>5, <1>6 DEF LoopStep

\* A packet handled is one of process_message's cases.
LEMMA HandleShape ==
    ASSUME TypeOK, ConnOnce, Sessions, NEW f \in Fds, NEW g \in Fds, NEW m, Handle(g, m)
    PROVE  Shape(f)
<1>1. CASE CreateThrows(g, m)
  BY <1>1, OutsideShape DEF CreateThrows
<1> QED  BY <1>1, AnswerShape, CreateShape, DisconnectShape DEF Handle

(* Every step has, for every descriptor, one of these shapes. *)
LEMMA NextHasShape ==
    ASSUME TypeOK, ConnOnce, Sessions, NEW f \in Fds, [Next]_vars
    PROVE  Shape(f)
<1>1. CASE UNCHANGED vars
  BY <1>1 DEF vars, loopVars, netVars, tableVars, queueVars, batchVars, serverVars, Shape, Stays, Linked,
              Unqueued, Waits
<1>2. CASE Peers
  BY <1>2, OutsideShape
<1>3. CASE Server
  <2>1. CASE EpollWait /\ UNCHANGED <<serverVars, view>>
    BY <2>1, EpollWaitShape
  <2>2. CASE AcceptTunnel \/ \E p \in Fds, register \in BOOLEAN : AcceptVisitor(p, register)
    BY <2>2, AcceptTunnelShape, AcceptVisitorShape
  <2>3. CASE AcceptTunnelFails \/ \E p \in Fds, register \in BOOLEAN : AcceptVisitorFails(p, register)
    BY <2>3, AcceptFailsShape
  <2>4. CASE \E g \in Fds : TunnelHangUp(g) \/ IdleTunnelHangUp(g) \/ VisitorHangUp(g) \/ UnknownHangUp(g)
    BY <2>4, TunnelHangUpShape, VisitorHangUpShape
  <2>5. CASE \E t \in Tunnels, g \in Fds : sock[g] = t /\ rx[t] # <<>> /\ Handle(g, Head(rx[t]))
    BY <2>5, HandleShape
  <2>6. CASE \E g \in Fds : VisitorData(g)
    BY <2>6, VisitorDataShape
  <2>7. CASE \E g \in Fds : VisitorDataFails(g)
    BY <2>7, OutsideShape DEF VisitorDataFails
  <2>8. CASE \E g \in Fds : \E n \in 0 .. Len(writeq[g]) : Deliver(g, n)
    BY <2>8, DeliverShape
  <2>9. CASE \E g \in Fds : LoopStep(g)
    BY <2>9, LoopStepShape
  <2> QED  BY <1>3, <2>1, <2>2, <2>3, <2>4, <2>5, <2>6, <2>7, <2>8, <2>9 DEF Server
<1> QED  BY <1>1, <1>2, <1>3 DEF Next

----------------------------------------------------------------------------
(* No wake-up is lost.                                                     *)

\* What epoll watches, what is queued and what the batch has left agree for
\* each connection that is served.  The last part is what the clearing of the
\* queues in perform_read_queue needs: the EPOLLIN of a tunnel means data,
\* unless the descriptor is a new one's, which nothing is queued for yet.
Wired(f) ==
    linked[f] # None =>
        /\ linked[f] = Main => sock[f] \in Tunnels
        /\ linked[f] # Main => readq[f] \in {<<>>, <<"CAPTURE">>}
        /\ interest[f] # {} /\ ("OUT" \in interest[f] <=> writeq[f] # <<>>)
        /\ (linked[f] = Main /\ "HUP" \notin pending[f] /\ "IN" \in pending[f]) =>
              rx[sock[f]] # <<>> \/ (writeq[f] = <<>> /\ users[f].server = None)

\* A descriptor that is not opened or closed keeps its agreement.
LEMMA StaysWired ==
    ASSUME TypeOK, NEW f \in Fds, Wired(f), Stays(f)
    PROVE  Wired(f)'
<1> SUFFICES ASSUME linked[f] # None PROVE Wired(f)'
  BY DEF Stays, Linked, Wired
<1>1. /\ interest[f] # {} /\ ("OUT" \in interest[f] <=> writeq[f] # <<>>)
      /\ writeq[f] \in Seq(Outgoing) /\ interest[f] \in SUBSET {"IN", "OUT"}
  BY DEF Wired, TypeOK, QueueTypes
<1>2. interest'[f] # {} /\ ("OUT" \in interest'[f] <=> writeq'[f] # <<>>)
  <2>1. CASE Unqueued(f)
    BY <1>1, <2>1 DEF Unqueued
  <2>2. CASE Sent(f)
    <3>1. PICK frame : writeq'[f] = Append(writeq[f], frame)
      BY <2>2 DEF Sent
    <3>2. writeq'[f] # <<>>
      BY <1>1, <3>1
    <3>3. interest'[f] = {"IN", "OUT"} \/ (interest'[f] = interest[f] /\ writeq[f] # <<>>)
      BY <1>1, <2>2 DEF Sent
    <3> QED  BY <1>1, <3>2, <3>3
  <2> QED  BY <2>1, <2>2 DEF Stays
<1>3. ASSUME linked[f] = Main, "HUP" \notin pending'[f], "IN" \in pending'[f]
      PROVE  rx'[sock'[f]] # <<>> \/ (writeq'[f] = <<>> /\ users'[f].server = None)
  <2>1. /\ pending'[f] = pending[f] /\ users'[f].server = users[f].server
        /\ (sock[f] \in Conns /\ rx[sock[f]] # <<>>) => rx'[sock[f]] # <<>>
        /\ sock'[f] = sock[f]
    BY <1>3 DEF Stays, Waits, Linked
  <2>2. sock[f] \in Conns
    BY <1>3, ServerAssumption DEF Wired
  <2>3. rx[sock[f]] # <<>> \/ (writeq[f] = <<>> /\ users[f].server = None)
    BY <1>3, <2>1 DEF Wired
  <2>4. Sent(f) => users[f].server # None
    BY <1>3 DEF Sent
  <2> QED  BY <2>1, <2>2, <2>3, <2>4 DEF Stays, Unqueued
<1> QED  BY <1>2, <1>3 DEF Wired, Stays, Linked

\* And whatever a step does to a descriptor keeps it.
LEMMA ShapeKeepsWired ==
    ASSUME TypeOK, NEW f \in Fds, Wired(f), Shape(f)
    PROVE  Wired(f)'
<1>1. CASE Closed(f)
  BY <1>1 DEF Closed, Wired
<1>2. CASE New(f)
  <2>1. CASE linked'[f] = None
    BY <2>1 DEF Wired
  <2>2. CASE linked'[f] # None
    <3>1. /\ linked'[f] = Main => sock'[f] \in Tunnels
          /\ linked'[f] # Main => readq'[f] = <<"CAPTURE">>
          /\ writeq'[f] = <<>> /\ interest'[f] = {"IN"} /\ users'[f].server = None
      BY <1>2, <2>2 DEF New
    <3>2. interest'[f] # {} /\ ("OUT" \in interest'[f] <=> writeq'[f] # <<>>)
      BY <3>1
    <3> QED  BY <3>1, <3>2 DEF Wired
  <2> QED  BY <2>1, <2>2
<1>3. CASE Written(f)
  BY <1>3 DEF Written, WriteTurn, Wired
<1>4. CASE Emptied(f)
  <2>1. Head(<<"CAPTURE">>) # "READ"
    OBVIOUS
  <2>2. linked[f] = Main
    BY <1>4, <2>1 DEF Emptied, Wired
  <2>3. writeq[f] = <<>>
    BY <1>4, <2>2 DEF Emptied, Wired
  <2> QED  BY <1>4, <2>2, <2>3 DEF Emptied, Wired
<1>5. CASE Filled(f)
  <2>1. ASSUME linked[f] = Main, "HUP" \notin pending'[f], "IN" \in pending'[f]
        PROVE  rx[sock[f]] # <<>>
    <3>1. sock[f] # Listener
      BY <2>1, KindsApart, LoopAssumption DEF Wired
    <3> QED  BY <1>5, <2>1, <3>1 DEF Filled, Reported
  <2> QED  BY <1>5, <2>1 DEF Filled, Wired, netVars, tableVars, queueVars
<1> QED  BY <1>1, <1>2, <1>3, <1>4, <1>5, StaysWired DEF Shape

\* What the loop knows of its connections.
LoopAgrees == ConnOnce /\ \A f \in Fds : Wired(f)

\* At first nothing is served.
LEMMA InitAgrees == Init => LoopAgrees
<1> SUFFICES ASSUME Init PROVE LoopAgrees
  OBVIOUS
<1>1. ConnOnce
  <2>1. /\ \A f \in Fds : sock[f] \in {Listener, None} /\ backlog[f] = {}
    BY DEF Init, LoopInit
  <2> QED  BY <2>1, LoopAssumption DEF ConnOnce
<1>2. \A f \in Fds : linked[f] = None
  BY DEF Init, LoopInit
<1> QED  BY <1>1, <1>2 DEF LoopAgrees, Wired

\* Every step keeps the loop's knowledge true.
LEMMA NextKeepsAgrees == TypeOK /\ Sessions /\ LoopAgrees /\ [Next]_vars => LoopAgrees'
<1> SUFFICES ASSUME TypeOK, Sessions, LoopAgrees, [Next]_vars PROVE LoopAgrees'
  OBVIOUS
<1>1. ConnOnce'
  BY NextKeepsOnce DEF LoopAgrees
<1>2. ASSUME NEW f \in Fds PROVE Wired(f)'
  BY NextHasShape, ShapeKeepsWired DEF LoopAgrees
<1> QED  BY <1>1, <1>2 DEF LoopAgrees

\* It is an invariant of the server.
LEMMA LoopAgreesHolds == Spec => []LoopAgrees
<1>1. Init => LoopAgrees
  BY InitAgrees
<1>2. TypeOK /\ Sessions /\ LoopAgrees /\ [Next]_vars => LoopAgrees'
  BY NextKeepsAgrees
<1> QED  BY <1>1, <1>2, TypeCorrect, SessionsHold, PTL DEF Spec

(* Frames that are queued for a connection are always waited for, and       *)
(* EPOLLOUT for nothing else, through hangups, failed reads and failed      *)
(* sends, and descriptors that are used again while events of the           *)
(* connection that had them before are left in the batch.                   *)
THEOREM WakeupsArmed == Spec => []WakeupArmed
<1>1. LoopAgrees => WakeupArmed
  BY DEF LoopAgrees, Wired, WakeupArmed
<1> QED  BY <1>1, LoopAgreesHolds, PTL

----------------------------------------------------------------------------
(* The batch is current.                                                   *)

\* No descriptor is closed while an event of it is left in the batch: what
\* Loop::force_disconnect does not see to.
NoneLeftInBatch == \A f \in Fds : sock[f] # None /\ sock'[f] # sock[f] => pending'[f] = {}

\* What the batch has left for f is of the connection that has it, and still
\* true: its peer hung up, frames wait, data wait.
Current(f) ==
    /\ interest[f] # {} => f \in observers \/ linked[f] # None
    /\ f \in observers => pending[f] \subseteq {"IN"}
    /\ (f \notin observers /\ pending[f] # {}) =>
          /\ linked[f] # None
          /\ "HUP" \in pending[f] => peer[sock[f]] # "open"
          /\ "OUT" \in pending[f] => writeq[f] # <<>>
          /\ "IN" \in pending[f] /\ "HUP" \notin pending[f] => rx[sock[f]] # <<>>

\* What has hung up stays so.
HungUp == {"fin", "rst", "gone"}

\* No step takes a hangup back.
LEMMA HangUpLasts ==
    ASSUME TypeOK, Sessions, [Next]_vars, NEW c \in Conns, peer[c] \in HungUp
    PROVE  peer'[c] \in HungUp
<1> USE DEF HungUp
<1>1. peer' = peer => peer'[c] \in HungUp
  OBVIOUS
<1>2. CASE UNCHANGED vars
  BY <1>1, <1>2 DEF vars, loopVars, netVars
<1>3. CASE Peers
  <2>1. ASSUME NEW d \in Conns, \/ PeerCloses(d) \/ PeerResets(d) \/ (\E data : PeerSends(d, data))
                                \/ (\E l : PeerConnects(d, l))
        PROVE  peer'[c] \in HungUp
    BY <2>1 DEF PeerCloses, PeerResets, PeerSends, PeerConnects, TypeOK, NetTypes
  <2> QED  BY <1>3, <2>1, ServerAssumption DEF Peers, TunnelConnects, VisitorConnects, HangsUp, ResetsConnection,
                                   VisitorSends, TunnelAsks, TunnelNames
<1>4. CASE Server
  <2>1. Closes => peer'[c] \in HungUp
    BY DEF Closes, CloseAll
  <2>2. CASE \/ EpollWait \/ AcceptTunnelFails \/ AcceptTunnel
             \/ \E p \in Fds, register \in BOOLEAN : AcceptVisitorFails(p, register) \/ AcceptVisitor(p, register)
             \/ \E f \in Fds : UnknownHangUp(f) \/ VisitorDataFails(f) \/ LoopStep(f) \/ VisitorData(f)
             \/ \E f \in Fds : \E n \in 0 .. Len(writeq[f]) : Deliver(f, n)
    BY <1>1, <2>2, ZenonT(60) DEF EpollWait, AcceptTunnelFails, AcceptVisitorFails, AcceptFailed, UnknownHangUp, Throw,
                      VisitorDataFails, LoopStep, StaleHangup, ThrowOnEvent, WriteFails, ReadFails, ReadPart,
                      Deliver, Write, VisitorData, AcceptTunnel, AcceptVisitor, Accepted, netVars
  <2>3. CASE \E f \in Fds : TunnelHangUp(f) \/ IdleTunnelHangUp(f) \/ VisitorHangUp(f)
    BY <2>1, <2>3 DEF TunnelHangUp, IdleTunnelHangUp, VisitorHangUp, Closes
  <2>4. ASSUME NEW f \in Fds, NEW m, Handle(f, m)
        PROVE  peer'[c] \in HungUp
    <3>1. peer' = peer \/ Closes
      BY <2>4 DEF Handle, Refuse, HandlePing, HandleAuth, HandleCreate, CreateThrows, Throw, HandlePacket,
                  HandleDisconnect, Answer, Closes, netVars
    <3> QED  BY <1>1, <2>1, <3>1
  <2> QED  BY <1>4, <2>2, <2>3, <2>4 DEF Server
<1> QED  BY <1>2, <1>3, <1>4 DEF Next

\* What the loop serves is a connection.
LEMMA ServedIsConn ==
    ASSUME TypeOK, IdsExclusive, Sessions, NEW f \in Fds, Wired(f), linked[f] # None
    PROVE  sock[f] \in Conns
<1>1. linked[f] = Main \/ linked[f] \in Proxies
  BY DEF Sessions, SessionOwned, Proxies
<1>2. linked[f] \in Proxies => sock[f] \in Visitors
  BY ServedIsVisitor DEF Sessions
<1> QED  BY <1>1, <1>2, ServerAssumption DEF Wired

\* Whatever a step does to a descriptor, what the batch has for it stays true.
LEMMA ShapeKeepsCurrent ==
    ASSUME TypeOK, IdsExclusive, Sessions, ConnOnce, NEW f \in Fds, Wired(f), Current(f), Shape(f),
           \A c \in Conns : peer[c] \in HungUp => peer'[c] \in HungUp,
           NoneLeftInBatch
    PROVE  Current(f)'
<1> DEFINE c == sock[f]
<1>1. linked[f] # None => c \in Conns /\ (peer[c] # "open" => peer[c] \in HungUp)
  <2>1. linked[f] # None => c \in Conns
    BY ServedIsConn
  <2>2. linked[f] # None => peer[c] \in Alive
    BY <2>1 DEF ConnOnce
  <2> QED  BY <2>1, <2>2 DEF Alive, HungUp
<1>2. linked[f] # None /\ peer[c] # "open" => peer'[c] # "open"
  BY <1>1 DEF HungUp
<1>3. f \in observers => linked[f] = None
  BY ServedIsOpen
<1>4. CASE Stays(f)
  <2>1. /\ linked'[f] = linked[f] /\ sock'[f] = sock[f] /\ (f \in observers' <=> f \in observers)
    BY <1>4 DEF Stays, Linked
  <2>2. interest'[f] # {} => interest[f] # {}
    BY <1>4 DEF Stays, Unqueued, Sent
  <2>3. writeq[f] # <<>> => writeq'[f] # <<>>
    <3>1. CASE Unqueued(f)
      BY <3>1 DEF Unqueued
    <3>2. CASE Sent(f)
      <4>1. PICK frame : writeq'[f] = Append(writeq[f], frame)
        BY <3>2 DEF Sent
      <4>2. writeq[f] \in Seq(Outgoing)
        BY DEF TypeOK, QueueTypes
      <4> QED  BY <4>1, <4>2
    <3> QED  BY <1>4, <3>1, <3>2 DEF Stays
  <2>4. CASE pending'[f] = {}
    BY <2>1, <2>2, <2>4 DEF Current
  <2>5. CASE pending'[f] # {}
    <3>1. pending'[f] = pending[f] /\ ((sock[f] \in Conns /\ rx[sock[f]] # <<>>) => rx'[sock[f]] # <<>>)
      BY <1>4, <2>5 DEF Stays, Waits
    <3>2. /\ interest'[f] # {} => f \in observers' \/ linked'[f] # None
          /\ f \in observers' => pending'[f] \subseteq {"IN"}
      BY <2>1, <2>2, <3>1 DEF Current
    <3>3. ASSUME f \notin observers', pending'[f] # {}
          PROVE  /\ linked'[f] # None
                 /\ "HUP" \in pending'[f] => peer'[sock'[f]] # "open"
                 /\ "OUT" \in pending'[f] => writeq'[f] # <<>>
                 /\ "IN" \in pending'[f] /\ "HUP" \notin pending'[f] => rx'[sock'[f]] # <<>>
      <4>1. /\ linked[f] # None
            /\ "HUP" \in pending[f] => peer[sock[f]] # "open"
            /\ "OUT" \in pending[f] => writeq[f] # <<>>
            /\ "IN" \in pending[f] /\ "HUP" \notin pending[f] => rx[sock[f]] # <<>>
        BY <2>1, <3>1, <3>3 DEF Current
      <4> QED  BY <1>1, <1>2, <2>1, <2>3, <3>1, <4>1
    <3> QED  BY <3>2, <3>3 DEF Current
  <2> QED  BY <2>4, <2>5
<1>5. CASE Closed(f)
  <2>1. pending'[f] = {}
    BY <1>5 DEF Closed, NoneLeftInBatch
  <2> QED  BY <1>5, <2>1 DEF Closed, Current
<1>6. CASE New(f)
  <2>1. linked[f] = None /\ f \notin observers
    BY <1>6 DEF New, Sessions, NoStaleDescriptor
  <2>2. pending[f] = {}
    BY <2>1 DEF Current
  <2>3. pending'[f] = {}
    BY <1>6, <2>2 DEF New
  <2>4. interest'[f] # {} => f \in observers' \/ linked'[f] # None
    BY <1>6 DEF New
  <2> QED  BY <2>3, <2>4 DEF Current
<1>7. CASE Written(f)
  <2>1. /\ pending'[f] = pending[f] \cap {"IN"} /\ pending[f] # {} /\ "HUP" \notin pending[f]
        /\ f \notin observers /\ observers' = observers /\ linked' = linked /\ sock' = sock /\ rx' = rx
    BY <1>7 DEF Written, WriteTurn, Turn
  <2>2. linked[f] # None /\ ("IN" \in pending[f] => rx[sock[f]] # <<>>)
    BY <2>1 DEF Current
  <2> QED  BY <2>1, <2>2 DEF Current
<1>8. CASE Emptied(f)
  BY <1>8 DEF Emptied, Current
<1>9. CASE Filled(f)
  <2>1. PICK W : W \subseteq {g \in Fds : "OUT" \in interest[g]} /\ pending'[f] = Reported(f, W)
    BY <1>9 DEF Filled
  <2>2. UNCHANGED <<sock, peer, rx, observers, linked, writeq, interest>>
    BY <1>9 DEF Filled, netVars, tableVars, queueVars
  <2>3. f \in observers => sock[f] = Listener
    BY DEF Sessions, SessionOwned, Rooted, Proxies
  <2>4. f \in observers => pending'[f] \subseteq {"IN"}
    BY <2>1, <2>3 DEF Reported
  <2>5. ASSUME f \notin observers, pending'[f] # {}
        PROVE  /\ linked[f] # None
               /\ "HUP" \in pending'[f] => peer[sock[f]] # "open"
               /\ "OUT" \in pending'[f] => writeq[f] # <<>>
               /\ "IN" \in pending'[f] /\ "HUP" \notin pending'[f] => rx[sock[f]] # <<>>
    <3>1. interest[f] # {}
      BY <2>1, <2>5 DEF Reported
    <3>2. linked[f] # None
      BY <2>5, <3>1 DEF Current
    <3>3. sock[f] # Listener
      BY <1>1, <3>2, LoopAssumption
    <3>4. "OUT" \in interest[f] => writeq[f] # <<>>
      BY <3>2 DEF Wired
    <3> QED  BY <2>1, <3>1, <3>2, <3>3, <3>4 DEF Reported
  <2>6. interest[f] # {} => f \in observers \/ linked[f] # None
    BY DEF Current
  <2> QED  BY <2>2, <2>4, <2>5, <2>6 DEF Current
<1> QED  BY <1>4, <1>5, <1>6, <1>7, <1>8, <1>9 DEF Shape

BatchCurrent == \A f \in Fds : Current(f)

\* At first there is no batch.
LEMMA InitCurrent == Init => BatchCurrent
BY DEF Init, LoopInit, NoEvents, BatchCurrent, Current

\* Every step that leaves no event of what it closes keeps the batch current.
LEMMA NextKeepsCurrent ==
    /\ TypeOK /\ IdsExclusive /\ Sessions /\ LoopAgrees /\ BatchCurrent
    /\ [Next]_vars /\ [NoneLeftInBatch]_vars
    => BatchCurrent'
<1> SUFFICES ASSUME TypeOK, IdsExclusive, Sessions, LoopAgrees, BatchCurrent, [Next]_vars,
                    [NoneLeftInBatch]_vars
             PROVE  BatchCurrent'
  OBVIOUS
<1>1. NoneLeftInBatch
  BY DEF NoneLeftInBatch, vars, loopVars, netVars
<1>2. \A c \in Conns : peer[c] \in HungUp => peer'[c] \in HungUp
  BY HangUpLasts
<1>3. ASSUME NEW f \in Fds PROVE Current(f)'
  BY <1>1, <1>2, NextHasShape, ShapeKeepsCurrent DEF LoopAgrees, BatchCurrent
<1> QED  BY <1>3 DEF BatchCurrent

\* So it always is, as long as every step does.
LEMMA BatchCurrentHolds == Spec /\ [][NoneLeftInBatch]_vars => []BatchCurrent
BY InitCurrent, NextKeepsCurrent, TypeCorrect, IdentifiersExclusive, SessionsHold, LoopAgreesHolds, PTL DEF Spec

----------------------------------------------------------------------------
(* Connections are closed for a cause.                                     *)

\* What ClosedForCause says of the descriptor f.
HasCause(f) ==
    LET o == linked[f]
        t == sock[initiator[o]]
    IN (sock[f] \in Conns /\ sock'[f] # sock[f] /\ peer[sock[f]] = "open") =>
         /\ o \in Proxies
         /\ \/ peer[t] # "open"
            \/ /\ rx[t] # <<>> /\ Head(rx[t]).type = "DISCONNECT"
               /\ rx'[t] = Tail(rx[t])
               /\ Head(rx[t]).arg = sock_to_id[o][f]

\* A hangup that is reported is one.
LEMMA HangupIsTrue ==
    ASSUME NEW g \in Fds, HangupTurn(g), g \notin observers, Current(g)
    PROVE  peer[sock[g]] # "open"
BY DEF HangupTurn, Current

\* What a hangup closes.
LEMMA HangUpHasCause ==
    ASSUME TypeOK, IdsExclusive, Sessions, BatchCurrent, NEW f \in Fds, NEW g \in Fds,
           TunnelHangUp(g) \/ IdleTunnelHangUp(g) \/ VisitorHangUp(g)
    PROVE  HasCause(f)
<1> SUFFICES ASSUME sock[f] \in Conns, sock'[f] # sock[f], peer[sock[f]] = "open" PROVE HasCause(f)
  BY DEF HasCause
<1>1. peer[sock[g]] # "open"
  BY HangupIsTrue DEF TunnelHangUp, IdleTunnelHangUp, VisitorHangUp, BatchCurrent
<1>2. f # g
  BY <1>1
<1>3. CASE TunnelHangUp(g)
  <2> DEFINE p == users[g].server
  <2>1. CloseAll({g, p} \cup clients[p], rx, readq, writeq, interest) /\ p # None
    BY <1>3 DEF TunnelHangUp
  <2>2. p \in Proxies /\ p \in Fds /\ initiator[p] = g /\ sock[p] = Listener
    BY <2>1 DEF Sessions, SessionOwned, TypeOK, SessionTypes
  <2>3. \A x \in Fds : x \in clients[p] => linked[x] = p
    BY <2>2 DEF Sessions, SessionOwned
  <2>4. f \in {g, p} \cup clients[p]
    BY <2>1, ClosesAllElse
  <2>5. f # p
    BY <2>2, LoopAssumption
  <2>6. linked[f] = p
    BY <1>2, <2>3, <2>4, <2>5
  <2> QED  BY <1>1, <2>2, <2>6 DEF HasCause
<1>4. CASE IdleTunnelHangUp(g) \/ VisitorHangUp(g)
  <2>1. PICK w, i : CloseAll({g}, rx, readq, w, i)
    BY <1>4 DEF IdleTunnelHangUp, VisitorHangUp
  <2> QED  BY <1>2, <2>1, ClosesAllElse
<1> QED  BY <1>3, <1>4

\* What a GROK_DISCONNECT closes.
LEMMA DisconnectHasCause ==
    ASSUME TypeOK, IdsExclusive, Sessions, ConnOnce, NEW f \in Fds, NEW g \in Fds, NEW m, HandleDisconnect(g, m)
    PROVE  HasCause(f)
<1> SUFFICES ASSUME sock[f] \in Conns, sock'[f] # sock[f], peer[sock[f]] = "open" PROVE HasCause(f)
  BY DEF HasCause
<1> DEFINE p == users[g].server
           h == id_to_sock[p][m.arg]
<1>1. PICK S, r, q : /\ CloseAll(S, r, q, writeq, interest) /\ r = Consumed(g) /\ Request(g, m)
                     /\ S \subseteq {h} /\ \A x \in S : linked[x] # None
  BY DEF HandleDisconnect
<1>2. p \in Proxies /\ p \in Fds /\ initiator[p] = g /\ m.arg \in DOMAIN id_to_sock[p] /\ linked[g] = Main
  <2>1. p # None /\ m.arg \in DOMAIN id_to_sock[p] /\ linked[g] = Main
    BY DEF HandleDisconnect, HasServer, HasClient, Request
  <2>2. p \in Proxies /\ initiator[p] = g
    BY <2>1 DEF Sessions, SessionOwned
  <2> QED  BY <2>1, <2>2 DEF Proxies, TypeOK, TableTypes
<1>3. f \in S
  BY <1>1, ClosesAllElse
<1>4. f = h /\ linked[f] # None
  BY <1>1, <1>3
<1>5. linked[f] \in {p, None} /\ sock_to_id[p][f] = m.arg
  BY <1>2, <1>4, LoopAssumption DEF Sessions, MapsAgree
<1>6. p # Main
  BY <1>2 DEF Proxies
<1>7. g \notin S
  BY <1>1, <1>2, <1>4, <1>5, <1>6, LoopAssumption
<1>8. sock[g] \in Conns /\ rx[sock[g]] # <<>> /\ m = Head(rx[sock[g]]) /\ m.type = "DISCONNECT"
  BY <1>1 DEF Request, HandleDisconnect
<1>9. rx'[sock[g]] = Consumed(g)[sock[g]]
  BY <1>1, <1>7, <1>8, ClosesNotElse
<1>10. Consumed(g)[sock[g]] = Tail(rx[sock[g]])
  BY <1>8 DEF Consumed, TypeOK, NetTypes
<1> QED  BY <1>2, <1>4, <1>5, <1>8, <1>9, <1>10 DEF HasCause

\* No other step closes a connection whose peer is open.
LEMMA NextHasCause ==
    TypeOK /\ IdsExclusive /\ Sessions /\ LoopAgrees /\ BatchCurrent /\ [Next]_vars
    => \A f \in Fds : HasCause(f)
<1> SUFFICES ASSUME TypeOK, IdsExclusive, Sessions, LoopAgrees, BatchCurrent, [Next]_vars, NEW f \in Fds
             PROVE  HasCause(f)
  OBVIOUS
<1>1. sock'[f] = sock[f] => HasCause(f)
  BY DEF HasCause
<1>2. CASE UNCHANGED vars
  BY <1>1, <1>2 DEF vars, loopVars, netVars
<1>3. CASE Peers
  <2>1. sock' = sock
    BY <1>3 DEF Peers, TunnelConnects, VisitorConnects, HangsUp, ResetsConnection, VisitorSends, TunnelAsks,
                TunnelNames, PeerCloses, PeerResets, PeerConnects, PeerSends
  <2> QED  BY <1>1, <2>1
<1>4. CASE Server
  <2>1. CASE \/ EpollWait \/ AcceptTunnelFails
             \/ \E p \in Fds, register \in BOOLEAN : AcceptVisitorFails(p, register)
             \/ \E g \in Fds : UnknownHangUp(g) \/ VisitorDataFails(g) \/ LoopStep(g) \/ VisitorData(g)
             \/ \E g \in Fds : \E n \in 0 .. Len(writeq[g]) : Deliver(g, n)
    BY <1>1, <2>1 DEF EpollWait, AcceptTunnelFails, AcceptVisitorFails, AcceptFailed, UnknownHangUp, Throw,
                      VisitorDataFails, LoopStep, StaleHangup, ThrowOnEvent, WriteFails, ReadFails, ReadPart,
                      Deliver, Write, VisitorData, netVars
  <2>2. ASSUME NEW g \in FreeFds, NEW c, sock' = [sock EXCEPT ![g] = c]
        PROVE  HasCause(f)
    <3>1. CASE f = g
      BY <3>1, LoopAssumption DEF HasCause, FreeFds
    <3>2. CASE f # g
      BY <1>1, <2>2, <3>2 DEF FreeFds, TypeOK, NetTypes
    <3> QED  BY <3>1, <3>2
  <2>3. CASE AcceptTunnel \/ \E p \in Fds, register \in BOOLEAN : AcceptVisitor(p, register)
    <3>1. \E g \in FreeFds : \E c : sock' = [sock EXCEPT ![g] = c]
      BY <2>3, ZenonT(60) DEF AcceptTunnel, AcceptVisitor, Accepted, NewFd
    <3> QED  BY <2>2, <3>1
  <2>4. CASE \E g \in Fds : TunnelHangUp(g) \/ IdleTunnelHangUp(g) \/ VisitorHangUp(g)
    BY <2>4, HangUpHasCause
  <2>5. ASSUME NEW g \in Fds, NEW m, Handle(g, m)
        PROVE  HasCause(f)
    <3>1. CASE HandleDisconnect(g, m)
      BY <3>1, DisconnectHasCause DEF LoopAgrees
    <3>2. CASE \E p \in Fds : HandleCreate(g, m, p)
      BY <2>2, <3>2 DEF HandleCreate, NewFd
    <3>3. CASE Refuse(g, m) \/ HandlePing(g, m) \/ HandleAuth(g, m) \/ CreateThrows(g, m) \/ HandlePacket(g, m)
      BY <1>1, <3>3 DEF Refuse, HandlePing, HandleAuth, CreateThrows, Throw, HandlePacket, Answer, netVars
    <3> QED  BY <2>5, <3>1, <3>2, <3>3 DEF Handle
  <2> QED  BY <1>4, <2>1, <2>3, <2>4, <2>5 DEF Server
<1> QED  BY <1>2, <1>3, <1>4 DEF Next

(* The server closes a connection only when its peer hung up, when the      *)
(* tunnel it came through did, or when that tunnel asks for it by its       *)
(* identifier: as long as no closed descriptor has an event left in the     *)
(* batch, which the next connection would take for its own.                 *)
THEOREM ClosesForCause == Spec /\ [][NoneLeftInBatch]_vars => ClosedForCause
<1>1. TypeOK /\ IdsExclusive /\ Sessions /\ LoopAgrees /\ BatchCurrent /\ [Next]_vars
      => [\A f \in Fds : HasCause(f)]_vars
  BY NextHasCause
<1>2. Spec /\ [][NoneLeftInBatch]_vars => [][\A f \in Fds : HasCause(f)]_vars
  BY <1>1, BatchCurrentHolds, TypeCorrect, IdentifiersExclusive, SessionsHold, LoopAgreesHolds, PTL DEF Spec
<1> QED  BY <1>2, PTL DEF ClosedForCause, HasCause

----------------------------------------------------------------------------
(* What peers may do.                                                      *)

\* A tunnel has sent the kinds of request it may, and has the right to choose
\* a port only if it may authenticate.
Asked ==
    /\ \A c \in Conns : \A i \in DOMAIN rx[c] : rx[c][i].type \in Kinds
    /\ \A f \in Fds : users[f].can_select_port => "AUTH" \in Kinds

\* What happens to the messages of a connection.
Reads(c) ==
    \/ rx'[c] \in {rx[c], <<>>}
    \/ rx[c] # <<>> /\ rx'[c] = Tail(rx[c])
    \/ \E data : data.type \in Kinds /\ rx'[c] = Append(rx[c], data)

\* process_message takes the first message of its connection.
LEMMA ConsumedReads ==
    ASSUME TypeOK, NEW g \in Fds, NEW m, Request(g, m), NEW c \in Conns
    PROVE  Consumed(g)[c] = rx[c] \/ (rx[c] # <<>> /\ Consumed(g)[c] = Tail(rx[c]))
BY DEF Consumed, Request, TypeOK, NetTypes

\* Peers append a message of the kinds they send.
LEMMA PeersRead ==
    ASSUME TypeOK, Peers, NEW c \in Conns
    PROVE  Reads(c)
<1>1. rx' = rx \/ \E d \in Conns : \E data : data.type \in Kinds /\ rx' = [rx EXCEPT ![d] = Append(@, data)]
  <2>1. \A kind, arg, who : Packet(kind, arg, who).type = kind
    BY DEF Packet
  <2>2. CASE \/ \E t \in Tunnels : TunnelConnects(t)
             \/ \E v \in Visitors : VisitorConnects(v)
             \/ \E d \in Conns : HangsUp(d) \/ ResetsConnection(d)
    BY <2>2 DEF TunnelConnects, VisitorConnects, HangsUp, ResetsConnection, PeerCloses, PeerResets, PeerConnects
  <2>3. ASSUME NEW d \in Conns, NEW kind \in Kinds, NEW arg, NEW who, PeerSends(d, Packet(kind, arg, who))
        PROVE  \E e \in Conns : \E data : data.type \in Kinds /\ rx' = [rx EXCEPT ![e] = Append(@, data)]
    <3> DEFINE sent == Packet(kind, arg, who)
    <3>1. sent.type \in Kinds
      BY <2>1
    <3>2. rx' = [rx EXCEPT ![d] = Append(@, sent)]
      BY <2>3 DEF PeerSends
    <3> HIDE DEF sent
    <3> QED  BY <3>1, <3>2
  <2>4. ASSUME NEW v \in Visitors, VisitorSends(v)
        PROVE  \E d \in Conns : \E data : data.type \in Kinds /\ rx' = [rx EXCEPT ![d] = Append(@, data)]
    <3>1. v \in Conns /\ "DATA" \in Kinds /\ PeerSends(v, Packet("DATA", 0, None))
      BY <2>4, ServerAssumption DEF VisitorSends
    <3> QED  BY <2>3, <3>1
  <2>5. ASSUME NEW t \in Tunnels, NEW kind \in Kinds, NEW id, NEW who,
               TunnelAsks(t, kind) \/ TunnelNames(t, kind, id, who)
        PROVE  \E d \in Conns : \E data : data.type \in Kinds /\ rx' = [rx EXCEPT ![d] = Append(@, data)]
    <3>1. t \in Conns /\ (PeerSends(t, Packet(kind, 0, None)) \/ PeerSends(t, Packet(kind, id, who)))
      BY <2>5, ServerAssumption DEF TunnelAsks, TunnelNames
    <3> QED  BY <2>3, <3>1
  <2> QED  BY <2>2, <2>4, <2>5 DEF Peers
<1>2. ASSUME NEW d \in Conns, NEW data, data.type \in Kinds, rx' = [rx EXCEPT ![d] = Append(@, data)]
      PROVE  Reads(c)
  <2>1. rx'[c] = rx[c] \/ rx'[c] = Append(rx[c], data)
    BY <1>2 DEF TypeOK, NetTypes
  <2> QED  BY <1>2, <2>1 DEF Reads
<1> QED  BY <1>1, <1>2 DEF Reads

\* Every step does one of these to the messages of a connection.
LEMMA NextReads ==
    ASSUME TypeOK, [Next]_vars, NEW c \in Conns
    PROVE  Reads(c)
<1>1. rx' = rx => Reads(c)
  BY DEF Reads
<1>2. \A S, q, w, i : CloseAll(S, rx, q, w, i) => Reads(c)
  BY DEF CloseAll, Reads
<1>3. CASE UNCHANGED vars
  BY <1>1, <1>3 DEF vars, loopVars, netVars
<1>4. CASE Server
  <2>1. CASE \/ EpollWait \/ AcceptTunnelFails \/ AcceptTunnel
             \/ \E p \in Fds, register \in BOOLEAN : AcceptVisitorFails(p, register) \/ AcceptVisitor(p, register)
             \/ \E f \in Fds : UnknownHangUp(f) \/ VisitorDataFails(f) \/ LoopStep(f)
             \/ \E f \in Fds : \E n \in 0 .. Len(writeq[f]) : Deliver(f, n)
    BY <1>1, <2>1, ZenonT(60) DEF EpollWait, AcceptTunnelFails, AcceptVisitorFails, AcceptFailed, UnknownHangUp, Throw,
                      VisitorDataFails, LoopStep, StaleHangup, ThrowOnEvent, WriteFails, ReadFails, ReadPart,
                      Deliver, Write, AcceptTunnel, AcceptVisitor, Accepted, netVars
  <2>2. CASE \E f \in Fds : TunnelHangUp(f) \/ IdleTunnelHangUp(f) \/ VisitorHangUp(f)
    BY <1>2, <2>2 DEF TunnelHangUp, IdleTunnelHangUp, VisitorHangUp
  <2>3. ASSUME NEW f \in Fds, VisitorData(f)
        PROVE  Reads(c)
    <3>1. sock[f] \in Conns /\ (rx' = rx \/ (rx[sock[f]] # <<>> /\ rx' = [rx EXCEPT ![sock[f]] = Tail(@)]))
      BY <2>3 DEF VisitorData, Capture
    <3> QED  BY <3>1 DEF Reads, TypeOK, NetTypes
  <2>4. ASSUME NEW f \in Fds, NEW m, Handle(f, m)
        PROVE  Reads(c)
    <3>1. CASE CreateThrows(f, m)
      BY <1>1, <3>1 DEF CreateThrows, Throw, netVars
    <3>2. CASE HandleDisconnect(f, m)
      <4>1. PICK S, r, q : CloseAll(S, r, q, writeq, interest) /\ r = Consumed(f) /\ Request(f, m)
        BY <3>2 DEF HandleDisconnect
      <4>2. rx'[c] = <<>> \/ rx'[c] = Consumed(f)[c]
        BY <4>1 DEF CloseAll
      <4> QED  BY <4>1, <4>2, ConsumedReads DEF Reads
    <3>3. CASE Refuse(f, m) \/ HandlePing(f, m) \/ HandleAuth(f, m) \/ HandlePacket(f, m)
               \/ \E p \in Fds : HandleCreate(f, m, p)
      <4>1. rx' = Consumed(f) /\ Request(f, m)
        BY <3>3 DEF Refuse, HandlePing, HandleAuth, HandlePacket, HandleCreate, Answer
      <4> QED  BY <4>1, ConsumedReads DEF Reads
    <3> QED  BY <2>4, <3>1, <3>2, <3>3 DEF Handle
  <2> QED  BY <1>4, <2>1, <2>2, <2>3, <2>4 DEF Server
<1> QED  BY <1>3, <1>4, PeersRead DEF Next

\* The right to choose a port comes of a GROK_AUTH.
LEMMA NextGrants ==
    ASSUME TypeOK, [Next]_vars, NEW f \in Fds, users'[f].can_select_port, ~users[f].can_select_port
    PROVE  \E c \in Conns : rx[c] # <<>> /\ Head(rx[c]).type = "AUTH"
<1>1. users' # users
  OBVIOUS
<1>2. CASE Peers \/ UNCHANGED vars
  BY <1>1, <1>2 DEF vars, Peers, TunnelConnects, VisitorConnects, HangsUp, ResetsConnection, VisitorSends,
                    TunnelAsks, TunnelNames, serverVars
<1>3. CASE Server
  <2>1. CASE \/ (EpollWait /\ UNCHANGED <<serverVars, view>>) \/ AcceptTunnelFails \/ AcceptTunnel
             \/ \E p \in Fds, register \in BOOLEAN : AcceptVisitorFails(p, register) \/ AcceptVisitor(p, register)
             \/ \E g \in Fds : \/ UnknownHangUp(g) \/ VisitorDataFails(g) \/ LoopStep(g) \/ VisitorData(g)
                               \/ IdleTunnelHangUp(g) \/ VisitorHangUp(g)
             \/ \E g \in Fds : \E n \in 0 .. Len(writeq[g]) : Deliver(g, n)
    BY <1>1, <2>1 DEF AcceptTunnelFails, AcceptVisitorFails, UnknownHangUp, VisitorDataFails, LoopStep, Deliver,
                      AcceptTunnel, AcceptVisitor, VisitorData, IdleTunnelHangUp, VisitorHangUp, serverVars
  <2>2. ASSUME NEW g \in Fds, TunnelHangUp(g)
        PROVE  FALSE
    <3>1. users' = [users EXCEPT ![g] = NoUser]
      BY <2>2 DEF TunnelHangUp
    <3> QED  BY <3>1 DEF NoUser, TypeOK, SessionTypes
  <2>3. ASSUME NEW g \in Fds, NEW m, Handle(g, m)
        PROVE  \E c \in Conns : rx[c] # <<>> /\ Head(rx[c]).type = "AUTH"
    <3>1. CASE HandleAuth(g, m)
      BY <1>1, <3>1 DEF HandleAuth, Request
    <3>2. CASE \E p \in Fds : HandleCreate(g, m, p)
      BY <3>2 DEF HandleCreate, TypeOK, SessionTypes
    <3>3. CASE Refuse(g, m) \/ HandlePing(g, m) \/ CreateThrows(g, m) \/ HandlePacket(g, m)
               \/ HandleDisconnect(g, m)
      BY <1>1, <3>3 DEF Refuse, HandlePing, CreateThrows, HandlePacket, HandleDisconnect, Answer, serverVars
    <3> QED  BY <2>3, <3>1, <3>2, <3>3 DEF Handle
  <2> QED  BY <1>3, <2>1, <2>2, <2>3 DEF Server
<1> QED  BY <1>2, <1>3 DEF Next

\* No step brings a message of another kind, or a right without GROK_AUTH.
LEMMA NextKeepsAsked == TypeOK /\ Asked /\ [Next]_vars => Asked'
<1> SUFFICES ASSUME TypeOK, Asked, [Next]_vars PROVE Asked'
  OBVIOUS
<1>1. ASSUME NEW c \in Conns PROVE \A i \in DOMAIN rx'[c] : rx'[c][i].type \in Kinds
  <2>1. rx[c] \in Seq(Incoming) /\ \A i \in DOMAIN rx[c] : rx[c][i].type \in Kinds
    BY DEF Asked, TypeOK, NetTypes
  <2>2. Reads(c)
    BY NextReads
  <2>3. CASE rx'[c] \in {rx[c], <<>>}
    BY <2>1, <2>3
  <2>4. CASE rx[c] # <<>> /\ rx'[c] = Tail(rx[c])
    <3>1. \A i \in DOMAIN rx'[c] : i + 1 \in DOMAIN rx[c] /\ rx'[c][i] = rx[c][i + 1]
      BY <2>1, <2>4
    <3> QED  BY <2>1, <3>1
  <2>5. CASE \E data : data.type \in Kinds /\ rx'[c] = Append(rx[c], data)
    <3>1. PICK data : data.type \in Kinds /\ rx'[c] = Append(rx[c], data)
      BY <2>5
    <3>2. \A i \in DOMAIN rx'[c] : rx'[c][i] = data \/ (i \in DOMAIN rx[c] /\ rx'[c][i] = rx[c][i])
      BY <2>1, <3>1
    <3> QED  BY <2>1, <3>1, <3>2
  <2> QED  BY <2>2, <2>3, <2>4, <2>5 DEF Reads
<1>2. ASSUME NEW f \in Fds, users'[f].can_select_port PROVE "AUTH" \in Kinds
  <2>1. CASE users[f].can_select_port
    BY <2>1 DEF Asked
  <2>2. CASE ~users[f].can_select_port
    <3>1. PICK c \in Conns : rx[c] # <<>> /\ Head(rx[c]).type = "AUTH"
      BY <1>2, <2>2, NextGrants
    <3>2. rx[c] \in Seq(Incoming)
      BY DEF TypeOK, NetTypes
    <3>3. 1 \in DOMAIN rx[c] /\ Head(rx[c]) = rx[c][1]
      BY <3>1, <3>2
    <3> QED  BY <3>1, <3>3 DEF Asked
  <2> QED  BY <2>1, <2>2
<1> QED  BY <1>1, <1>2 DEF Asked

\* So the server meets only the kinds that are sent.
LEMMA AskedHolds == Spec => []Asked
<1>1. Init => Asked
  BY DEF Init, LoopInit, NoUser, Asked
<1> QED  BY <1>1, NextKeepsAsked, TypeCorrect, PTL DEF Spec

\* Where peers only close, no connection is ever reset.
NoneReset == \A c \in Conns : peer[c] # "rst"

\* No step resets a connection but its peer's.
LEMMA NextKeepsNoneReset ==
    ASSUME "rst" \notin Endings
    PROVE  TypeOK /\ NoneReset /\ [Next]_vars => NoneReset'
<1> SUFFICES ASSUME TypeOK, NoneReset, [Next]_vars, NEW c \in Conns PROVE peer'[c] # "rst"
  BY DEF NoneReset
<1>1. peer' = peer \/ Closes => peer'[c] # "rst"
  BY DEF Closes, CloseAll, NoneReset
<1>2. CASE UNCHANGED vars
  BY <1>1, <1>2 DEF vars, loopVars, netVars
<1>3. CASE Peers
  <2>1. ASSUME NEW d \in Conns, PeerCloses(d) \/ (\E data : PeerSends(d, data)) \/ (\E l : PeerConnects(d, l))
        PROVE  peer'[c] # "rst"
    BY <2>1 DEF PeerCloses, PeerSends, PeerConnects, NoneReset, TypeOK, NetTypes
  <2> QED  BY <1>3, <2>1, ServerAssumption DEF Peers, TunnelConnects, VisitorConnects, HangsUp, ResetsConnection,
                                   VisitorSends, TunnelAsks, TunnelNames
<1>4. CASE Server
  <2>1. CASE \/ EpollWait \/ AcceptTunnelFails \/ AcceptTunnel
             \/ \E p \in Fds, register \in BOOLEAN : AcceptVisitorFails(p, register) \/ AcceptVisitor(p, register)
             \/ \E f \in Fds : UnknownHangUp(f) \/ VisitorDataFails(f) \/ LoopStep(f) \/ VisitorData(f)
             \/ \E f \in Fds : \E n \in 0 .. Len(writeq[f]) : Deliver(f, n)
    BY <1>1, <2>1, ZenonT(60) DEF EpollWait, AcceptTunnelFails, AcceptVisitorFails, AcceptFailed, UnknownHangUp, Throw,
                      VisitorDataFails, LoopStep, StaleHangup, ThrowOnEvent, WriteFails, ReadFails, ReadPart,
                      Deliver, Write, VisitorData, AcceptTunnel, AcceptVisitor, Accepted, netVars
  <2>2. CASE \E f \in Fds : TunnelHangUp(f) \/ IdleTunnelHangUp(f) \/ VisitorHangUp(f)
    BY <1>1, <2>2 DEF TunnelHangUp, IdleTunnelHangUp, VisitorHangUp, Closes
  <2>3. ASSUME NEW f \in Fds, NEW m, Handle(f, m)
        PROVE  peer'[c] # "rst"
    <3>1. peer' = peer \/ Closes
      BY <2>3 DEF Handle, Refuse, HandlePing, HandleAuth, HandleCreate, CreateThrows, Throw, HandlePacket,
                  HandleDisconnect, Answer, Closes, netVars
    <3> QED  BY <1>1, <3>1
  <2> QED  BY <1>4, <2>1, <2>2, <2>3 DEF Server
<1> QED  BY <1>2, <1>3, <1>4 DEF Next

\* So none ever is.
LEMMA NoneResetHolds == ASSUME "rst" \notin Endings PROVE Spec => []NoneReset
<1>1. Init => NoneReset
  BY DEF Init, LoopInit, NoneReset
<1>2. TypeOK /\ NoneReset /\ [Next]_vars => NoneReset'
  BY NextKeepsNoneReset
<1> QED  BY <1>1, <1>2, TypeCorrect, PTL DEF Spec

----------------------------------------------------------------------------
(* No exception.                                                           *)

\* The read queue of a connection that is served has its item.
AwaitsReading == \A f \in Fds : linked[f] # None => readq[f] # <<>>

\* A current batch empties no read queue: only a failed send or read does.
LEMMA NextKeepsAwaits ==
    TypeOK /\ Sessions /\ LoopAgrees /\ BatchCurrent /\ NoneReset /\ AwaitsReading /\ [Next]_vars
    => AwaitsReading'
<1> SUFFICES ASSUME TypeOK, Sessions, LoopAgrees, BatchCurrent, NoneReset, AwaitsReading, [Next]_vars,
                    NEW f \in Fds, linked'[f] # None
             PROVE  readq'[f] # <<>>
  BY DEF AwaitsReading
<1>1. Shape(f)
  BY NextHasShape DEF LoopAgrees
<1>2. CASE Stays(f)
  BY <1>2 DEF Stays, Linked, AwaitsReading
<1>3. CASE New(f)
  BY <1>3 DEF New
<1>4. CASE Written(f)
  BY <1>4 DEF Written, NoneReset, AwaitsReading
<1>5. CASE Emptied(f)
  <2>1. Current(f) /\ f \notin observers
    BY <1>5, ServedIsOpen DEF Emptied, BatchCurrent
  <2> QED  BY <1>5, <2>1 DEF Emptied, Current
<1>6. CASE Filled(f)
  BY <1>6 DEF Filled, tableVars, queueVars, AwaitsReading
<1> QED  BY <1>1, <1>2, <1>3, <1>4, <1>5, <1>6 DEF Shape, Closed

\* What ends the process.
LEMMA WhatThrows ==
    ASSUME [Next]_vars, status' # status
    PROVE  \E f \in Fds : \/ ThrowOnEvent(f) \/ UnknownHangUp(f) \/ VisitorDataFails(f)
                          \/ \E m : CreateThrows(f, m)
<1>1. CASE Peers \/ UNCHANGED vars
  BY <1>1 DEF vars, loopVars, Peers, TunnelConnects, VisitorConnects, HangsUp, ResetsConnection, VisitorSends,
              TunnelAsks, TunnelNames, PeerCloses, PeerResets, PeerConnects, PeerSends
<1>2. CASE Server
  <2>1. \A f \in Fds : \A m : Handle(f, m) => CreateThrows(f, m)
    <3> SUFFICES ASSUME NEW f \in Fds, NEW m, Handle(f, m)
                 PROVE  CreateThrows(f, m)
      OBVIOUS
    <3>1. ~Refuse(f, m)
      BY DEF Refuse, Answer
    <3>2. ~HandlePing(f, m)
      BY DEF HandlePing, Answer
    <3>3. ~HandleAuth(f, m) /\ ~HandlePacket(f, m) /\ ~HandleDisconnect(f, m)
      BY DEF HandleAuth, HandlePacket, HandleDisconnect
    <3>4. \A p \in Fds : ~HandleCreate(f, m, p)
      BY DEF HandleCreate
    <3> QED  BY <3>1, <3>2, <3>3, <3>4 DEF Handle
  <2> QED
    BY <1>2, <2>1
       DEF Server, EpollWait, AcceptTunnel, AcceptTunnelFails, AcceptVisitor, AcceptVisitorFails, TunnelHangUp,
           IdleTunnelHangUp, VisitorHangUp, VisitorData, Deliver, Write, LoopStep, StaleHangup, WriteFails,
           ReadFails, ReadPart
<1> QED  BY <1>1, <1>2 DEF Next

\* And then no handler finds what it throws on.
LEMMA NextDoesNotThrow ==
    ASSUME ~({"CREATE_PORT", "AUTH"} \subseteq Kinds)
    PROVE  /\ TypeOK /\ Sessions /\ LoopAgrees /\ BatchCurrent /\ NoneReset /\ AwaitsReading /\ Asked
           /\ NeverThrows /\ FreeFds # {} /\ [Next]_vars
           => NeverThrows'
<1> SUFFICES ASSUME TypeOK, Sessions, LoopAgrees, BatchCurrent, NoneReset, AwaitsReading, Asked,
                    FreeFds # {}, [Next]_vars, status' # status
             PROVE  FALSE
  BY DEF NeverThrows
<1>1. PICK f \in Fds : \/ ThrowOnEvent(f) \/ UnknownHangUp(f) \/ VisitorDataFails(f)
                       \/ \E m : CreateThrows(f, m)
  BY WhatThrows
<1>2. Current(f)
  BY DEF BatchCurrent
<1>3. ~ThrowOnEvent(f)
  BY <1>2 DEF ThrowOnEvent, WriteTurn, ReadTurn, Turn, Current, AwaitsReading
<1>4. ~UnknownHangUp(f)
  BY <1>2 DEF UnknownHangUp, HangupTurn, Current, Sessions, MapsAgree
<1>5. ~VisitorDataFails(f)
  BY DEF VisitorDataFails, Capture, NoneReset
<1>6. ASSUME NEW m, CreateThrows(f, m) PROVE FALSE
  <2>1. m.type = "CREATE_PORT" /\ users[f].can_select_port /\ Request(f, m)
    BY <1>6 DEF CreateThrows
  <2>2. sock[f] \in Conns /\ rx[sock[f]] # <<>> /\ m = Head(rx[sock[f]])
    BY <2>1 DEF Request
  <2>3. rx[sock[f]] \in Seq(Incoming)
    BY <2>2 DEF TypeOK, NetTypes
  <2>4. 1 \in DOMAIN rx[sock[f]] /\ m = rx[sock[f]][1]
    BY <2>2, <2>3
  <2> QED  BY <2>1, <2>2, <2>4 DEF Asked
<1> QED  BY <1>1, <1>3, <1>4, <1>5, <1>6

(* The process never ends by an exception where peers do not reset their   *)
(* connections, none of them may both authenticate and choose a port, a    *)
(* descriptor is free whenever one is asked for, and no closed descriptor  *)
(* has an event left in the batch.  Each of the four is needed: without    *)
(* the first a failed send leaves an empty read queue to the next EPOLLIN  *)
(* (the run failed_send), without the second or the third a request for a  *)
(* proxy throws SysError (the run no_descriptor), and without the last     *)
(* linked_clients.at throws for the event of a connection that             *)
(* GROK_DISCONNECT has closed.                                             *)
THEOREM RunsOn ==
    ASSUME "rst" \notin Endings, ~({"CREATE_PORT", "AUTH"} \subseteq Kinds)
    PROVE  Spec /\ [](FreeFds # {}) /\ [][NoneLeftInBatch]_vars => []NeverThrows
<1>1. Init => AwaitsReading /\ NeverThrows
  BY DEF Init, LoopInit, AwaitsReading, NeverThrows
<1>2. TypeOK /\ Sessions /\ LoopAgrees /\ BatchCurrent /\ NoneReset /\ AwaitsReading /\ [Next]_vars
      => AwaitsReading'
  BY NextKeepsAwaits
<1>3. /\ TypeOK /\ Sessions /\ LoopAgrees /\ BatchCurrent /\ NoneReset /\ AwaitsReading /\ Asked
      /\ NeverThrows /\ FreeFds # {} /\ [Next]_vars
      => NeverThrows'
  BY NextDoesNotThrow
<1>4. Spec => []NoneReset
  BY NoneResetHolds
<1> QED  BY <1>1, <1>2, <1>3, <1>4, TypeCorrect, SessionsHold, LoopAgreesHolds, BatchCurrentHolds, AskedHolds, PTL
         DEF Spec

----------------------------------------------------------------------------
(* Without GROK_DISCONNECT.                                                *)

\* Every handler that closes a descriptor drops the batch, but the one of
\* GROK_DISCONNECT.
LEMMA OthersLeaveNone ==
    TypeOK /\ [Next]_vars =>
        \/ NoneLeftInBatch
        \/ \E f \in Fds : \E m : HandleDisconnect(f, m)
<1> SUFFICES ASSUME TypeOK, [Next]_vars, \A f \in Fds : \A m : ~HandleDisconnect(f, m)
             PROVE  NoneLeftInBatch
  OBVIOUS
<1>1. sock' = sock => NoneLeftInBatch
  BY DEF NoneLeftInBatch
<1>2. DropBatch => NoneLeftInBatch
  BY DEF DropBatch, NoEvents, NoneLeftInBatch
<1>3. ASSUME NEW g \in FreeFds, NEW c, sock' = [sock EXCEPT ![g] = c]
      PROVE  NoneLeftInBatch
  BY <1>3 DEF NoneLeftInBatch, FreeFds, TypeOK, NetTypes
<1>4. CASE Peers \/ UNCHANGED vars
  BY <1>1, <1>4 DEF vars, loopVars, netVars, Peers, TunnelConnects, VisitorConnects, HangsUp, ResetsConnection,
                    VisitorSends, TunnelAsks, TunnelNames, PeerCloses, PeerResets, PeerConnects, PeerSends
<1>5. CASE Server
  <2>1. CASE \/ EpollWait \/ AcceptTunnelFails
             \/ \E p \in Fds, register \in BOOLEAN : AcceptVisitorFails(p, register)
             \/ \E g \in Fds : UnknownHangUp(g) \/ VisitorDataFails(g) \/ LoopStep(g) \/ VisitorData(g)
             \/ \E g \in Fds : \E n \in 0 .. Len(writeq[g]) : Deliver(g, n)
    BY <1>1, <2>1 DEF EpollWait, AcceptTunnelFails, AcceptVisitorFails, AcceptFailed, UnknownHangUp, Throw,
                      VisitorDataFails, LoopStep, StaleHangup, ThrowOnEvent, WriteFails, ReadFails, ReadPart,
                      Deliver, Write, VisitorData, netVars
  <2>2. CASE AcceptTunnel \/ \E p \in Fds, register \in BOOLEAN : AcceptVisitor(p, register)
    <3>1. \E g \in FreeFds : \E c : sock' = [sock EXCEPT ![g] = c]
      BY <2>2 DEF AcceptTunnel, AcceptVisitor, Accepted, NewFd
    <3> QED  BY <1>3, <3>1
  <2>3. CASE \E g \in Fds : TunnelHangUp(g) \/ IdleTunnelHangUp(g) \/ VisitorHangUp(g)
    BY <1>2, <2>3 DEF TunnelHangUp, IdleTunnelHangUp, VisitorHangUp
  <2>4. ASSUME NEW g \in Fds, NEW m, Handle(g, m)
        PROVE  NoneLeftInBatch
    <3>1. CASE \E p \in Fds : HandleCreate(g, m, p)
      BY <1>3, <3>1 DEF HandleCreate, NewFd
    <3>2. CASE Refuse(g, m) \/ HandlePing(g, m) \/ HandleAuth(g, m) \/ CreateThrows(g, m) \/ HandlePacket(g, m)
      BY <1>1, <3>2 DEF Refuse, HandlePing, HandleAuth, CreateThrows, Throw, HandlePacket, Answer, netVars
    <3> QED  BY <2>4, <3>1, <3>2 DEF Handle
  <2> QED  BY <1>5, <2>1, <2>2, <2>3, <2>4 DEF Server
<1> QED  BY <1>4, <1>5 DEF Next

\* Without it no closed descriptor has an event left.
LEMMA NoneLeft ==
    ASSUME "DISCONNECT" \notin Kinds
    PROVE  Spec => [][NoneLeftInBatch]_vars
<1>1. TypeOK /\ Asked /\ [Next]_vars => NoneLeftInBatch
  <2> SUFFICES ASSUME TypeOK, Asked, NEW f \in Fds, NEW m, HandleDisconnect(f, m) PROVE FALSE
    BY OthersLeaveNone
  <2>1. sock[f] \in Conns /\ rx[sock[f]] # <<>> /\ m = Head(rx[sock[f]]) /\ m.type = "DISCONNECT"
    BY DEF HandleDisconnect, Request
  <2>2. rx[sock[f]] \in Seq(Incoming)
    BY <2>1 DEF TypeOK, NetTypes
  <2>3. 1 \in DOMAIN rx[sock[f]] /\ m = rx[sock[f]][1]
    BY <2>1, <2>2
  <2> QED  BY <2>1, <2>3 DEF Asked
<1> QED  BY <1>1, TypeCorrect, AskedHolds, PTL DEF Spec

(* Peers that send no GROK_DISCONNECT have connections closed only for a    *)
(* cause, whatever else happens: the handler of GROK_DISCONNECT alone       *)
(* closes a descriptor and goes on with the batch.                          *)
THEOREM ClosesForCauseUnasked ==
    ASSUME "DISCONNECT" \notin Kinds
    PROVE  Spec => ClosedForCause
BY NoneLeft, ClosesForCause, PTL

(* And without GROK_DISCONNECT nothing about the batch need be assumed for  *)
(* the process to run on.                                                   *)
THEOREM RunsOnUnasked ==
    ASSUME "DISCONNECT" \notin Kinds, "rst" \notin Endings, ~({"CREATE_PORT", "AUTH"} \subseteq Kinds)
    PROVE  Spec /\ [](FreeFds # {}) => []NeverThrows
BY NoneLeft, RunsOn, PTL

----------------------------------------------------------------------------
(* What a peer reads: a fold of Hear over the frames.                      *)

Frames == INSTANCE FoldFacts WITH Take <- Hear

\* What is heard of some frames is their fold.
LEMMA HeardIs ==
    ASSUME NEW v, NEW s
    PROVE  Heard(v, s) = Frames!Folded(v, s)
BY DEF Heard, FoldLeft, MapThenFoldSet, Max, Frames!Folded, Frames!Folds, Frames!Greatest

\* Nothing is heard from no frame.
LEMMA HeardNothing == ASSUME NEW v PROVE Heard(v, <<>>) = v
BY HeardIs, Frames!FoldedNothing

\* And what is heard from one more is heard after the rest.
LEMMA HeardAppend ==
    ASSUME NEW v, NEW T, NEW s \in Seq(T), NEW x \in T
    PROVE  Heard(v, Append(s, x)) = Hear(Heard(v, s), x)
BY HeardIs, Frames!FoldedAppend, Zenon

\* What is heard in two parts is what is heard at once.
LEMMA HeardSplit ==
    ASSUME NEW v, NEW T, NEW s \in Seq(T), NEW n \in Nat, n <= Len(s)
    PROVE  Heard(Heard(v, SubSeq(s, 1, n)), SubSeq(s, n + 1, Len(s))) = Heard(v, s)
BY HeardIs, Frames!FoldedSplit, Zenon

\* The same identifiers are known, some as nobody's.
Renounced(u, v) == DOMAIN u = DOMAIN v /\ \A i \in DOMAIN v : u[i] \in {None, v[i]}

\* To ask for a disconnect makes an identifier stand for nobody, also after
\* the frames on their way; it makes none known or unknown.
LEMMA HeardRenounced ==
    ASSUME NEW v, NEW u, Renounced(u, v), NEW T, NEW s \in Seq(T)
    PROVE  Renounced(Heard(u, s), Heard(v, s))
<1> DEFINE S == {k \in Nat : \A r \in Seq(T) : Len(r) = k => Renounced(Heard(u, r), Heard(v, r))}
<1>1. ASSUME NEW a, NEW b, NEW x, Renounced(a, b) PROVE Renounced(Hear(a, x), Hear(b, x))
  BY <1>1 DEF Hear, Put, Without, Renounced
<1>2. 0 \in S
  <2>1. \A r \in Seq(T) : Len(r) = 0 => r = <<>>
    OBVIOUS
  <2> QED  BY <2>1, HeardNothing
<1>3. ASSUME NEW k \in Nat, k \in S PROVE k + 1 \in S
  <2> SUFFICES ASSUME NEW r \in Seq(T), Len(r) = k + 1 PROVE Renounced(Heard(u, r), Heard(v, r))
    OBVIOUS
  <2> DEFINE q == SubSeq(r, 1, k)
             x == r[k + 1]
  <2>1. q \in Seq(T) /\ Len(q) = k /\ x \in T /\ r = Append(q, x)
    BY Frames!LastApart, Zenon
  <2> HIDE DEF q, x
  <2>2. Renounced(Heard(u, q), Heard(v, q))
    BY <1>3, <2>1
  <2>3. Heard(u, Append(q, x)) = Hear(Heard(u, q), x) /\ Heard(v, Append(q, x)) = Hear(Heard(v, q), x)
    BY <2>1, HeardAppend, ZenonT(40)
  <2> QED  BY <1>1, <2>1, <2>2, <2>3, Zenon
<1> HIDE DEF S
<1>4. Nat \subseteq S
  BY <1>2, <1>3, Frames!NatSetInduction
<1>5. Len(s) \in S
  BY <1>4
<1> QED  BY <1>5 DEF S

----------------------------------------------------------------------------
(* What the program knows of the visitors of a tunnel.                     *)

\* The table of the proxy of f.
Table(f) == IF users[f].server = None THEN Empty ELSE id_to_sock[users[f].server]

\* Whom an entry of a table stands for, and all of the table of f.
Stands(g) == IF g = BadFd THEN BadFd ELSE sock[g]
Names(f)  == [id \in DOMAIN Table(f) |-> Stands(Table(f)[id])]

\* The entries are failed accepts and visitors.
LEMMA NamesVisitors ==
    ASSUME TypeOK, Sessions, NEW f \in Fds, NEW id \in DOMAIN Table(f)
    PROVE  Table(f)[id] = BadFd \/ (Table(f)[id] \in Fds /\ sock[Table(f)[id]] \in Visitors)
<1> DEFINE p == users[f].server
<1>1. p \in Fds /\ Table(f) = id_to_sock[p] /\ id \in DOMAIN id_to_sock[p]
  BY DEF Table, Empty, TypeOK, SessionTypes
<1>2. id_to_sock[p] \in Maps(Ids, Fds \cup {BadFd})
  BY <1>1 DEF TypeOK, MapTypes
<1>3. id_to_sock[p][id] \in Fds \cup {BadFd}
  BY <1>1, <1>2, MapsElim
<1>4. id_to_sock[p][id] # BadFd => sock[id_to_sock[p][id]] \in Visitors
  BY <1>1 DEF Sessions, MapsAgree
<1> QED  BY <1>1, <1>3, <1>4

\* And so they are after a step.
LEMMA NamesVisitorsNext ==
    (TypeOK /\ Sessions => \A f \in Fds : \A id \in DOMAIN Table(f) :
        Table(f)[id] = BadFd \/ (Table(f)[id] \in Fds /\ sock[Table(f)[id]] \in Visitors))'
<1>1. TypeOK /\ Sessions => \A f \in Fds : \A id \in DOMAIN Table(f) :
         Table(f)[id] = BadFd \/ (Table(f)[id] \in Fds /\ sock[Table(f)[id]] \in Visitors)
  BY NamesVisitors
<1> QED  BY <1>1, PTL

\* No step gives the descriptor of a visitor to another.
LEMMA VisitorsStay ==
    ASSUME TypeOK, ConnOnce, Sessions, [Next]_vars, NEW g \in Fds, sock[g] \in Visitors, sock'[g] \in Visitors
    PROVE  sock'[g] = sock[g]
<1>1. Shape(g)
  BY NextHasShape
<1>2. sock[g] # None /\ sock'[g] # None
  BY KindsApart
<1> QED  BY <1>1, <1>2 DEF Shape, Stays, Linked, Closed, New, FreeFds, Written, Emptied, Filled, netVars

\* What stands for an identifier that stays in the table stays, too.
LEMMA StandsStay ==
    ASSUME TypeOK, ConnOnce, Sessions, TypeOK', Sessions', [Next]_vars, NEW f \in Fds,
           NEW id \in DOMAIN Table(f), id \in DOMAIN Table(f)', Table(f)'[id] = Table(f)[id]
    PROVE  Names(f)'[id] = Names(f)[id]
<1>1. PICK g : g = Table(f)[id]
  OBVIOUS
<1>2. g = BadFd \/ (g \in Fds /\ sock[g] \in Visitors)
  BY <1>1, NamesVisitors
<1>3. g = BadFd \/ (g \in Fds /\ sock'[g] \in Visitors)
  BY <1>1, NamesVisitorsNext
<1>4. (IF g = BadFd THEN BadFd ELSE sock'[g]) = (IF g = BadFd THEN BadFd ELSE sock[g])
  BY <1>2, <1>3, VisitorsStay
<1> QED  BY <1>1, <1>4 DEF Names, Stands

\* The names of a table that does not change, gets an entry or loses one.
LEMMA NamesAfter ==
    ASSUME TypeOK, ConnOnce, Sessions, TypeOK', Sessions', [Next]_vars, NEW f \in Fds
    PROVE  /\ Table(f)' = Table(f) => Names(f)' = Names(f)
           /\ \A id, g : Table(f)' = Put(Table(f), id, g) =>
                 Names(f)' = Put(Names(f), id, IF g = BadFd THEN BadFd ELSE sock'[g]) \/ id \in DOMAIN Table(f)
           /\ \A id : Table(f)' = Without(Table(f), id) => Names(f)' = Without(Names(f), id)
<1>1. /\ DOMAIN Names(f) = DOMAIN Table(f) /\ DOMAIN Names(f)' = DOMAIN Table(f)'
      /\ Names(f)' = [id \in DOMAIN Table(f)' |-> Names(f)'[id]]
      /\ Names(f) = [id \in DOMAIN Table(f) |-> Names(f)[id]]
  BY DEF Names
<1>2. \A id \in DOMAIN Table(f) : id \in DOMAIN Table(f)' /\ Table(f)'[id] = Table(f)[id] => Names(f)'[id] = Names(f)[id]
  BY StandsStay
<1>3. Table(f)' = Table(f) => Names(f)' = Names(f)
  BY <1>1, <1>2
<1>4. ASSUME NEW id, NEW g, Table(f)' = Put(Table(f), id, g), id \notin DOMAIN Table(f)
      PROVE  Names(f)' = Put(Names(f), id, IF g = BadFd THEN BadFd ELSE sock'[g])
  <2>1. Names(f)'[id] = IF g = BadFd THEN BadFd ELSE sock'[g]
    BY <1>4 DEF Names, Stands, Put
  <2>2. DOMAIN Table(f)' = DOMAIN Table(f) \cup {id} /\ \A i \in DOMAIN Table(f) : Table(f)'[i] = Table(f)[i]
    BY <1>4 DEF Put
  <2>3. \A i \in DOMAIN Table(f) : Names(f)'[i] = Names(f)[i] /\ i # id
    BY <1>2, <1>4, <2>2
  <2> QED  BY <1>1, <2>1, <2>2, <2>3 DEF Put
<1>5. ASSUME NEW id, Table(f)' = Without(Table(f), id)
      PROVE  Names(f)' = Without(Names(f), id)
  <2>1. DOMAIN Table(f)' = DOMAIN Table(f) \ {id} /\ \A i \in DOMAIN Table(f)' : Table(f)'[i] = Table(f)[i]
    BY <1>5 DEF Without
  <2>2. \A i \in DOMAIN Table(f)' : Names(f)'[i] = Names(f)[i]
    BY <1>2, <2>1
  <2> QED  BY <1>1, <2>1, <2>2 DEF Without
<1> QED  BY <1>3, <1>4, <1>5

\* The tunnel of a proxy is its user, and no other.
LEMMA Owner ==
    ASSUME TypeOK, Sessions, NEW p \in Proxies, NEW f \in Fds
    PROVE  p \in Fds /\ p # None /\ (users[f].server = p <=> initiator[p] = f)
<1>1. p \in Fds /\ initiator[p] \in Fds /\ users[initiator[p]].server = p
  BY ProxyOwner DEF Sessions
<1>2. p # None
  BY <1>1, LoopAssumption
<1> QED  BY <1>1, <1>2 DEF Sessions, SessionOwned

\* The table of f where that of another proxy changes.
LEMMA TableElsewhere ==
    ASSUME TypeOK, NEW f \in Fds, NEW p, users[f].server # p, users'[f].server = users[f].server,
           \A q \in Fds \ {p} : id_to_sock'[q] = id_to_sock[q]
    PROVE  Table(f)' = Table(f)
BY DEF Table, TypeOK, SessionTypes

----------------------------------------------------------------------------
(* What a step does to the stream of a tunnel.                             *)

\* Nothing is said and nothing read, and the names stay.
Silent(f) == view'[sock[f]] = view[sock[f]] /\ writeq'[f] = writeq[f] /\ Names(f)' = Names(f)

\* A frame is queued: of an entry that is made, of one that is erased, or of
\* neither; GROK_PACKET then is of an entry there is.
Speaks(f) ==
    /\ view'[sock[f]] = view[sock[f]]
    /\ \E frame \in Outgoing :
         /\ writeq'[f] = Append(writeq[f], frame)
         /\ \/ /\ frame.type \notin {"CONNECTED", "DISCONNECT"}
               /\ frame.type = "PACKET" => frame.arg \in DOMAIN Names(f)
               /\ Names(f)' = Names(f)
            \/ frame.type = "CONNECTED" /\ Names(f)' = Put(Names(f), frame.arg, frame.who)
            \/ /\ frame.type = "DISCONNECT" /\ frame.arg \in DOMAIN Names(f)
               /\ Names(f)' = Without(Names(f), frame.arg)

\* GROK_DISCONNECT is handled, or sent by the peer, who names it no more.
Forgets(f) ==
    /\ "DISCONNECT" \in Kinds
    /\ view'[sock[f]] = view[sock[f]] /\ writeq'[f] = writeq[f]
    /\ \E id : Names(f)' = Without(Names(f), id)

Renounces(f) ==
    /\ "DISCONNECT" \in Kinds
    /\ \E id : view'[sock[f]] = [view[sock[f]] EXCEPT ![id] = None]
    /\ writeq'[f] = writeq[f] /\ Names(f)' = Names(f)

\* The first frames are sent.
Drains(f) ==
    /\ Names(f)' = Names(f)
    /\ \E n \in 0 .. Len(writeq[f]) :
         /\ writeq'[f] = SubSeq(writeq[f], n + 1, Len(writeq[f]))
         /\ view'[sock[f]] = Heard(view[sock[f]], SubSeq(writeq[f], 1, n))

Told(f) == Silent(f) \/ Speaks(f) \/ Forgets(f) \/ Renounces(f) \/ Drains(f)

\* What a step may assume: f is a tunnel whose peer is there, and stays so.
Streaming(f) ==
    /\ TypeOK /\ IdsExclusive /\ Sessions /\ ConnOnce /\ Asked /\ DOMAIN view = Tunnels
    /\ TypeOK' /\ Sessions' /\ [Next]_vars
    /\ sock[f] \in Tunnels /\ sock'[f] = sock[f] /\ peer[sock[f]] = "open"

\* Where the queue and the table of f are left alone.
LEMMA SilentStep ==
    ASSUME NEW f \in Fds, Streaming(f), Table(f)' = Table(f), writeq'[f] = writeq[f],
           view'[sock[f]] = view[sock[f]]
    PROVE  Told(f)
BY NamesAfter DEF Streaming, Told, Silent

\* Where no table and no server is changed.
LEMMA SameTable ==
    ASSUME NEW f \in Fds, id_to_sock' = id_to_sock, users'[f].server = users[f].server
    PROVE  Table(f)' = Table(f)
BY DEF Table

\* What is queued is a frame.
LEMMA QueuedIsFrame ==
    ASSUME TypeOK, TypeOK', NEW f \in Fds, NEW frame, writeq'[f] = Append(writeq[f], frame)
    PROVE  frame \in Outgoing
<1>1. writeq[f] \in Seq(Outgoing) /\ writeq'[f] \in Seq(Outgoing)
  BY DEF TypeOK, QueueTypes
<1>2. Len(writeq'[f]) = Len(writeq[f]) + 1 /\ writeq'[f][Len(writeq[f]) + 1] = frame
  BY <1>1
<1>3. Len(writeq[f]) + 1 \in DOMAIN writeq'[f]
  BY <1>1, <1>2
<1> QED  BY <1>1, <1>2, <1>3

\* A frame that tells of no entry made or erased.
LEMMA NeutralStep ==
    ASSUME NEW f \in Fds, Streaming(f), Table(f)' = Table(f), view' = view,
           NEW frame, writeq'[f] = Append(writeq[f], frame),
           frame.type \notin {"CONNECTED", "DISCONNECT"},
           frame.type = "PACKET" => frame.arg \in DOMAIN Table(f)
    PROVE  Told(f)
<1>1. Names(f)' = Names(f) /\ DOMAIN Names(f) = DOMAIN Table(f)
  BY NamesAfter DEF Streaming, Names
<1>2. frame \in Outgoing
  BY QueuedIsFrame DEF Streaming
<1> QED  BY <1>1, <1>2 DEF Told, Speaks

\* What peers do.
LEMMA PeersTell ==
    ASSUME NEW f \in Fds, Streaming(f), Peers
    PROVE  Told(f)
<1>1. UNCHANGED <<writeq, users, id_to_sock>>
  BY DEF Peers, TunnelConnects, VisitorConnects, HangsUp, ResetsConnection, VisitorSends, TunnelAsks,
         TunnelNames, PeerCloses, PeerResets, PeerConnects, PeerSends, serverVars, proxyVars, queueVars
<1>2. Table(f)' = Table(f)
  BY <1>1, SameTable
<1>3. CASE view'[sock[f]] = view[sock[f]]
  BY <1>1, <1>2, <1>3, SilentStep
<1>4. CASE view'[sock[f]] # view[sock[f]]
  <2>1. PICK t, kind, id, who : t \in Tunnels /\ kind \in Kinds /\ id \in Ids /\ TunnelNames(t, kind, id, who) /\ view' # view
    BY <1>4 DEF Peers, TunnelConnects, VisitorConnects, HangsUp, ResetsConnection, VisitorSends, TunnelAsks
  <2>2. kind = "DISCONNECT" /\ view' = [view EXCEPT ![t][id] = None]
    BY <2>1 DEF TunnelNames
  <2>3. t = sock[f]
    BY <1>4, <2>2 DEF Streaming
  <2>4. view'[sock[f]] = [view[sock[f]] EXCEPT ![id] = None]
    BY <2>2, <2>3 DEF Streaming
  <2>5. Names(f)' = Names(f)
    BY <1>2, NamesAfter DEF Streaming
  <2> QED  BY <1>1, <2>1, <2>2, <2>4, <2>5 DEF Told, Renounces
<1> QED  BY <1>3, <1>4

\* GrokProxy::on_connect, of a connection or of the -1 of a failed accept.
LEMMA LinksTell ==
    ASSUME NEW f \in Fds, Streaming(f), NEW p \in Proxies, NEW g, NEW who,
           IdAvailable, writeq' = Queued(initiator[p], Packet("CONNECTED", NextId, who)),
           id_to_sock' = [id_to_sock EXCEPT ![p] = Put(@, NextId, g)],
           who = (IF g = BadFd THEN BadFd ELSE sock'[g]), users' = users, view' = view
    PROVE  Told(f)
<1>1. p \in Fds /\ p # None /\ (users[f].server = p <=> initiator[p] = f)
  BY Owner DEF Streaming
<1>2. CASE initiator[p] # f
  <2>1. Table(f)' = Table(f)
    BY <1>1, <1>2, TableElsewhere DEF Streaming, TypeOK, MapTypes
  <2>2. writeq'[f] = writeq[f]
    BY <1>2, SendElsewhere DEF Streaming
  <2> QED  BY <2>1, <2>2, SilentStep
<1>3. CASE initiator[p] = f
  <2> DEFINE frame == Packet("CONNECTED", NextId, who)
  <2>1. Table(f) = id_to_sock[p] /\ Table(f)' = Put(Table(f), NextId, g)
    BY <1>1, <1>3 DEF Table, Streaming, TypeOK, MapTypes
  <2>2. NextId \notin DOMAIN id_to_sock[p]
    BY <1>1, NextIdIsFree DEF Streaming
  <2>3. Names(f)' = Put(Names(f), NextId, who)
    BY <2>1, <2>2, NamesAfter DEF Streaming
  <2>4. writeq'[f] = Append(writeq[f], frame)
    BY <1>3 DEF Queued, Streaming, TypeOK, QueueTypes
  <2>5. frame.type = "CONNECTED" /\ frame.arg = NextId /\ frame.who = who
    BY DEF Packet
  <2> HIDE DEF frame
  <2>6. frame \in Outgoing
    BY <2>4, QueuedIsFrame DEF Streaming
  <2> QED  BY <2>3, <2>4, <2>5, <2>6 DEF Told, Speaks
<1> QED  BY <1>2, <1>3

\* A tunnel that stays open is not among those that are closed.
LEMMA NotClosed ==
    ASSUME NEW f \in Fds, Streaming(f), NEW S, NEW r, NEW q, NEW w, NEW i, CloseAll(S, r, q, w, i)
    PROVE  f \notin S /\ writeq'[f] = w[f]
BY ClosesAllElse, KindsApart DEF Streaming

\* FreeGrok::on_disconnect of another tunnel.
LEMMA TunnelHangUpTells ==
    ASSUME NEW f \in Fds, Streaming(f), NEW g \in Fds, TunnelHangUp(g) \/ IdleTunnelHangUp(g)
    PROVE  Told(f)
<1>1. CASE TunnelHangUp(g)
  <2> DEFINE p == users[g].server
  <2>1. /\ CloseAll({g, p} \cup clients[p], rx, readq, writeq, interest)
        /\ users' = [users EXCEPT ![g] = NoUser] /\ id_to_sock' = [id_to_sock EXCEPT ![p] = Empty]
        /\ p # None /\ view' = view
    BY <1>1 DEF TunnelHangUp
  <2>2. f # g /\ writeq'[f] = writeq[f]
    BY <2>1, NotClosed
  <2>3. p \in Proxies /\ initiator[p] = g
    BY <2>1 DEF Streaming, Sessions, SessionOwned
  <2>4. users[f].server # p /\ users'[f].server = users[f].server
    BY <2>1, <2>2, <2>3, Owner DEF Streaming, TypeOK, SessionTypes
  <2>5. Table(f)' = Table(f)
    BY <2>1, <2>4, TableElsewhere DEF Streaming, TypeOK, MapTypes
  <2> QED  BY <2>1, <2>2, <2>5, SilentStep
<1>2. CASE IdleTunnelHangUp(g)
  <2>1. CloseAll({g}, rx, readq, writeq, interest) /\ UNCHANGED <<users, id_to_sock, view>>
    BY <1>2 DEF IdleTunnelHangUp, serverVars, proxyVars
  <2> QED  BY <2>1, NotClosed, SameTable, SilentStep
<1> QED  BY <1>1, <1>2

\* GrokProxy::on_disconnect
LEMMA VisitorHangUpTells ==
    ASSUME NEW f \in Fds, Streaming(f), NEW g \in Fds, VisitorHangUp(g)
    PROVE  Told(f)
<1> DEFINE p == linked[g]
           id == sock_to_id[p][g]
           t == initiator[p]
           frame == Packet("DISCONNECT", id, None)
<1>1. /\ p \in Proxies /\ g \in DOMAIN sock_to_id[p] /\ UNCHANGED <<users, view>>
      /\ id_to_sock' = [id_to_sock EXCEPT ![p] = Without(@, id)]
      /\ CloseAll({g}, rx, readq, Queued(t, frame), Watched(t))
  BY DEF VisitorHangUp
<1>2. p \in Fds /\ p # None /\ (users[f].server = p <=> t = f)
  BY <1>1, Owner DEF Streaming
<1>3. id \in DOMAIN id_to_sock[p]
  BY <1>1, <1>2 DEF Streaming, IdsExclusive, MapsInverse
<1>4. writeq'[f] = Queued(t, frame)[f]
  BY <1>1, NotClosed
<1>5. CASE t # f
  <2>1. Table(f)' = Table(f)
    BY <1>1, <1>2, <1>5, TableElsewhere DEF Streaming, TypeOK, MapTypes
  <2>2. writeq'[f] = writeq[f]
    BY <1>4, <1>5, SendElsewhere DEF Streaming
  <2> QED  BY <1>1, <2>1, <2>2, SilentStep
<1>6. CASE t = f
  <2>1. Table(f) = id_to_sock[p] /\ Table(f)' = Without(Table(f), id)
    BY <1>1, <1>2, <1>6 DEF Table, Streaming, TypeOK, MapTypes
  <2>2. Names(f)' = Without(Names(f), id) /\ id \in DOMAIN Names(f)
    BY <1>3, <2>1, NamesAfter DEF Streaming, Names
  <2>3. writeq'[f] = Append(writeq[f], frame)
    BY <1>4, <1>6 DEF Queued, Streaming, TypeOK, QueueTypes
  <2>4. frame.type = "DISCONNECT" /\ frame.arg = id
    BY DEF Packet
  <2>5. view'[sock[f]] = view[sock[f]]
    BY <1>1
  <2> HIDE DEF frame, id
  <2>6. frame \in Outgoing
    BY <2>3, QueuedIsFrame DEF Streaming
  <2> QED  BY <2>2, <2>3, <2>4, <2>5, <2>6 DEF Told, Speaks
<1> QED  BY <1>5, <1>6

\* process_message, when it changes no table: it answers, or sends a visitor
\* its data.
LEMMA AnswerTells ==
    ASSUME NEW f \in Fds, Streaming(f), NEW g \in Fds, NEW m,
           \/ Refuse(g, m) \/ HandlePing(g, m) \/ HandleAuth(g, m) \/ HandlePacket(g, m) \/ CreateThrows(g, m)
    PROVE  Told(f)
<1>1. UNCHANGED <<id_to_sock, view>> /\ users'[f].server = users[f].server
  BY DEF Refuse, HandlePing, HandleAuth, HandlePacket, CreateThrows, Answer, serverVars, proxyVars, Streaming,
         TypeOK, SessionTypes
<1>2. Table(f)' = Table(f)
  BY <1>1, SameTable
<1>3. \/ writeq' = writeq
      \/ \E h, frame : writeq' = Queued(h, frame) /\ frame.type \notin {"CONNECTED", "DISCONNECT", "PACKET"}
  <2>1. CASE HandleAuth(g, m) \/ CreateThrows(g, m)
    BY <2>1 DEF HandleAuth, CreateThrows, Throw, queueVars
  <2>2. CASE HandlePing(g, m)
    BY <2>2 DEF HandlePing, Answer, Send, Packet
  <2>3. CASE Refuse(g, m)
    <3>1. PICK error \in Errors : Answer(g, Packet(error, 0, None))
      BY <2>3 DEF Refuse
    <3>2. Packet(error, 0, None).type \notin {"CONNECTED", "DISCONNECT", "PACKET"}
      BY DEF Packet, Errors
    <3> QED  BY <3>1, <3>2 DEF Answer, Send
  <2>4. CASE HandlePacket(g, m)
    <3>1. writeq' = writeq \/ \E h : Send(h, Packet("DATA", 0, m.who))
      BY <2>4 DEF HandlePacket
    <3>2. Packet("DATA", 0, m.who).type \notin {"CONNECTED", "DISCONNECT", "PACKET"}
      BY DEF Packet
    <3> QED  BY <3>1, <3>2 DEF Send
  <2> QED  BY <2>1, <2>2, <2>3, <2>4
<1>4. CASE writeq' = writeq
  BY <1>1, <1>2, <1>4, SilentStep
<1>5. ASSUME NEW h, NEW frame, writeq' = Queued(h, frame), frame.type \notin {"CONNECTED", "DISCONNECT", "PACKET"}
      PROVE  Told(f)
  <2>1. CASE h = f
    <3>1. writeq'[f] = Append(writeq[f], frame)
      BY <1>5, <2>1 DEF Queued, Streaming, TypeOK, QueueTypes
    <3> QED  BY <1>1, <1>2, <1>5, <3>1, NeutralStep
  <2>2. CASE h # f
    <3>1. writeq'[f] = writeq[f]
      BY <1>5, <2>2, SendElsewhere DEF Streaming
    <3> QED  BY <1>1, <1>2, <3>1, SilentStep
  <2> QED  BY <2>1, <2>2
<1> QED  BY <1>3, <1>4, <1>5

\* GROK_CREATE_SERVER: the table of the new proxy is empty.
LEMMA CreateTells ==
    ASSUME NEW f \in Fds, Streaming(f), NEW g \in Fds, NEW m, NEW p \in Fds, HandleCreate(g, m, p)
    PROVE  Told(f)
<1> DEFINE frame == Packet("CREATE_SERVER", 0, None)
<1>1. /\ users[g].server = None /\ p \in FreeFds /\ view' = view
      /\ users' = [users EXCEPT ![g].server = p]
      /\ id_to_sock' = [id_to_sock EXCEPT ![p] = Empty]
      /\ writeq' = Queued(g, frame)
  BY DEF HandleCreate, HasServer, NewFd
<1>2. CASE f = g
  <2>1. Table(f) = Empty /\ Table(f)' = Empty
    BY <1>1, <1>2, KindsApart DEF Table, Streaming, TypeOK, SessionTypes, MapTypes
  <2>2. writeq'[f] = Append(writeq[f], frame)
    BY <1>1, <1>2 DEF Queued, Streaming, TypeOK, QueueTypes
  <2>3. frame.type = "CREATE_SERVER"
    BY DEF Packet
  <2> HIDE DEF frame
  <2> QED  BY <1>1, <2>1, <2>2, <2>3, NeutralStep
<1>3. CASE f # g
  <2>1. users[f].server # p
    BY <1>1, KindsApart DEF Streaming, Sessions, SessionOwned, FreeFds
  <2>2. users'[f].server = users[f].server
    BY <1>1, <1>3 DEF Streaming, TypeOK, SessionTypes
  <2>3. Table(f)' = Table(f)
    BY <1>1, <2>1, <2>2, TableElsewhere DEF Streaming, TypeOK, MapTypes
  <2>4. writeq'[f] = writeq[f]
    BY <1>1, <1>3, SendElsewhere DEF Streaming
  <2> QED  BY <1>1, <2>3, <2>4, SilentStep
<1> QED  BY <1>2, <1>3

\* GROK_DISCONNECT: the entry goes, and the tunnel is not told.
LEMMA DisconnectTells ==
    ASSUME NEW f \in Fds, Streaming(f), NEW g \in Fds, NEW m, HandleDisconnect(g, m)
    PROVE  Told(f)
<1> DEFINE p == users[g].server
<1>1. /\ Request(g, m) /\ m.type = "DISCONNECT" /\ p # None
      /\ UNCHANGED <<users, view>>
      /\ id_to_sock' = [id_to_sock EXCEPT ![p] = Without(@, m.arg)]
      /\ \E S, r, q : CloseAll(S, r, q, writeq, interest)
  BY DEF HandleDisconnect, HasServer
<1>2. writeq'[f] = writeq[f]
  BY <1>1, NotClosed
<1>3. p \in Fds
  BY <1>1 DEF Streaming, TypeOK, SessionTypes
<1>4. CASE users[f].server # p
  <2>1. Table(f)' = Table(f)
    BY <1>1, <1>4, TableElsewhere DEF Streaming, TypeOK, MapTypes
  <2> QED  BY <1>1, <1>2, <2>1, SilentStep
<1>5. CASE users[f].server = p
  <2>1. Table(f)' = Without(Table(f), m.arg)
    BY <1>1, <1>3, <1>5 DEF Table, Streaming, TypeOK, MapTypes
  <2>2. Names(f)' = Without(Names(f), m.arg)
    BY <2>1, NamesAfter DEF Streaming
  <2>3. "DISCONNECT" \in Kinds
    <3>1. sock[g] \in Conns /\ rx[sock[g]] # <<>> /\ m = Head(rx[sock[g]])
      BY <1>1 DEF Request
    <3>2. rx[sock[g]] \in Seq(Incoming)
      BY <3>1 DEF Streaming, TypeOK, NetTypes
    <3>3. 1 \in DOMAIN rx[sock[g]] /\ m = rx[sock[g]][1]
      BY <3>1, <3>2
    <3> QED  BY <1>1, <3>1, <3>3 DEF Streaming, Asked
  <2> QED  BY <1>1, <1>2, <2>2, <2>3 DEF Told, Forgets
<1> QED  BY <1>4, <1>5

\* GrokProxy::on_received: what it redirects is of an entry of the table.
LEMMA VisitorDataTells ==
    ASSUME NEW f \in Fds, Streaming(f), NEW g \in Fds, VisitorData(g)
    PROVE  Told(f)
<1> DEFINE p == linked[g]
           frame == Packet("PACKET", sock_to_id[p][g], sock[g])
<1>1. /\ p \in Proxies /\ UNCHANGED <<users, id_to_sock, view>>
      /\ \/ g \in DOMAIN sock_to_id[p] /\ writeq' = Queued(initiator[p], frame)
         \/ writeq' = writeq
  BY DEF VisitorData, Capture, Send, serverVars, proxyVars
<1>2. p \in Fds /\ p # None /\ (users[f].server = p <=> initiator[p] = f)
  BY <1>1, Owner DEF Streaming
<1>3. Table(f)' = Table(f)
  BY <1>1, SameTable
<1>4. CASE writeq'[f] = writeq[f]
  BY <1>1, <1>3, <1>4, SilentStep
<1>5. CASE writeq'[f] # writeq[f]
  <2>1. g \in DOMAIN sock_to_id[p] /\ writeq' = Queued(initiator[p], frame)
    BY <1>1, <1>5
  <2>2. initiator[p] = f
    BY <1>5, <2>1, SendElsewhere DEF Streaming
  <2>3. writeq'[f] = Append(writeq[f], frame)
    BY <2>1, <2>2 DEF Queued, Streaming, TypeOK, QueueTypes
  <2>4. Table(f) = id_to_sock[p]
    BY <1>2, <2>2 DEF Table
  <2>5. sock_to_id[p][g] \in DOMAIN id_to_sock[p]
    BY <1>2, <2>1 DEF Streaming, IdsExclusive, MapsInverse
  <2>6. frame.type = "PACKET" /\ frame.arg = sock_to_id[p][g]
    BY DEF Packet
  <2>7. frame.type \notin {"CONNECTED", "DISCONNECT"} /\ frame.arg \in DOMAIN Table(f)
    BY <2>4, <2>5, <2>6
  <2>8. view' = view
    BY <1>1
  <2> HIDE DEF frame
  <2> QED  BY <1>3, <2>3, <2>7, <2>8, NeutralStep
<1> QED  BY <1>4, <1>5

\* perform_write_queue
LEMMA DeliverTells ==
    ASSUME NEW f \in Fds, Streaming(f), NEW g \in Fds, NEW n \in 0 .. Len(writeq[g]), Deliver(g, n)
    PROVE  Told(f)
<1>1. /\ UNCHANGED <<users, id_to_sock>> /\ sock[g] \in Conns
      /\ writeq' = [writeq EXCEPT ![g] = SubSeq(@, n + 1, Len(@))]
      /\ view' = IF sock[g] \in Tunnels
                 THEN [view EXCEPT ![sock[g]] = Heard(@, SubSeq(writeq[g], 1, n))] ELSE view
  BY DEF Deliver, Write, serverVars, proxyVars
<1>2. Table(f)' = Table(f)
  BY <1>1, SameTable
<1>3. CASE f # g
  <2>1. sock[f] # sock[g]
    BY <1>1, <1>3 DEF Streaming, ConnOnce
  <2>2. view'[sock[f]] = view[sock[f]] /\ writeq'[f] = writeq[f]
    BY <1>1, <1>3, <2>1 DEF Streaming, TypeOK, QueueTypes
  <2> QED  BY <1>2, <2>2, SilentStep
<1>4. CASE f = g
  <2>1. /\ writeq'[f] = SubSeq(writeq[f], n + 1, Len(writeq[f]))
        /\ view'[sock[f]] = Heard(view[sock[f]], SubSeq(writeq[f], 1, n))
    BY <1>1, <1>4 DEF Streaming, TypeOK, QueueTypes
  <2>2. Names(f)' = Names(f)
    BY <1>2, NamesAfter DEF Streaming
  <2> QED  BY <1>4, <2>1, <2>2 DEF Told, Drains
<1> QED  BY <1>3, <1>4

\* The steps of the loop itself drop the frames of a peer that is gone only.
LEMMA LoopStepTells ==
    ASSUME NEW f \in Fds, Streaming(f), NEW g \in Fds, LoopStep(g)
    PROVE  Told(f)
<1>1. UNCHANGED <<users, id_to_sock, view>>
  BY DEF LoopStep, serverVars, proxyVars
<1>2. Table(f)' = Table(f)
  BY <1>1, SameTable
<1>3. writeq'[f] = writeq[f]
  <2>1. CASE StaleHangup(g) \/ ThrowOnEvent(g) \/ ReadPart(g)
    BY <2>1 DEF StaleHangup, ThrowOnEvent, Throw, ReadPart, queueVars
  <2>2. CASE WriteFails(g) \/ ReadFails(g)
    <3>1. peer[sock[g]] \in {"fin", "rst"} /\ writeq' = [writeq EXCEPT ![g] = <<>>]
      BY <2>2 DEF WriteFails, ReadFails
    <3>2. f # g
      BY <3>1 DEF Streaming
    <3> QED  BY <3>1, <3>2 DEF Streaming, TypeOK, QueueTypes
  <2> QED  BY <2>1, <2>2 DEF LoopStep
<1> QED  BY <1>1, <1>2, <1>3, SilentStep

\* Every step tells a tunnel's peer in one of these ways.
LEMMA NextTells ==
    ASSUME NEW f \in Fds, Streaming(f)
    PROVE  Told(f)
<1>1. UNCHANGED <<writeq, users, id_to_sock, view>> => Told(f)
  BY SameTable, SilentStep
<1>2. CASE UNCHANGED vars
  BY <1>1, <1>2 DEF vars, loopVars, queueVars, serverVars, proxyVars
<1>3. CASE Server
  <2>1. CASE \/ (EpollWait /\ UNCHANGED <<serverVars, view>>) \/ AcceptTunnel \/ AcceptTunnelFails
             \/ \E g \in Fds : UnknownHangUp(g) \/ VisitorDataFails(g)
    BY <1>1, <2>1 DEF EpollWait, AcceptTunnel, AcceptTunnelFails, UnknownHangUp, VisitorDataFails, Throw,
                      queueVars, serverVars, proxyVars
  <2>2. ASSUME NEW p \in Fds, NEW register \in BOOLEAN, AcceptVisitor(p, register)
        PROVE  Told(f)
    <3>1. p \in Proxies
      BY <2>2 DEF AcceptVisitor, Arrival, Proxies
    <3>2. PICK c \in Visitors, g \in Fds :
            /\ sock'[g] = c /\ IdAvailable /\ UNCHANGED <<users, view>>
            /\ writeq' = Queued(initiator[p], Packet("CONNECTED", NextId, c))
            /\ id_to_sock' = [id_to_sock EXCEPT ![p] = Put(@, NextId, g)]
      BY <2>2 DEF AcceptVisitor, Accepted, LinkClient, Streaming, TypeOK, NetTypes
    <3>3. g # BadFd
      BY KindsApart
    <3> QED  BY <3>1, <3>2, <3>3, LinksTell
  <2>3. ASSUME NEW p \in Fds, NEW register \in BOOLEAN, AcceptVisitorFails(p, register)
        PROVE  Told(f)
    BY <2>3, LinksTell DEF AcceptVisitorFails, Arrival, Proxies, LinkClient, Send
  <2>4. CASE \E g \in Fds : TunnelHangUp(g) \/ IdleTunnelHangUp(g) \/ VisitorHangUp(g)
    BY <2>4, TunnelHangUpTells, VisitorHangUpTells
  <2>5. ASSUME NEW g \in Fds, NEW m, Handle(g, m)
        PROVE  Told(f)
    BY <2>5, AnswerTells, CreateTells, DisconnectTells DEF Handle
  <2>6. CASE \E g \in Fds : VisitorData(g)
    BY <2>6, VisitorDataTells
  <2>7. CASE \E g \in Fds : \E n \in 0 .. Len(writeq[g]) : Deliver(g, n)
    BY <2>7, DeliverTells
  <2>8. CASE \E g \in Fds : LoopStep(g)
    BY <2>8, LoopStepTells
  <2> QED  BY <1>3, <2>1, <2>2, <2>3, <2>4, <2>5, <2>6, <2>7, <2>8 DEF Server
<1> QED  BY <1>2, <1>3, PeersTell DEF Streaming, Next

----------------------------------------------------------------------------
(* The peer of a tunnel knows its visitors.                                *)

\* What a peer knows matches the names of the program.
Matches(known, names) ==
    /\ \A id \in DOMAIN names : id \in DOMAIN known /\ known[id] \in {None, names[id]}
    /\ "DISCONNECT" \notin Kinds => DOMAIN known = DOMAIN names

\* StreamAgrees for the descriptor f, also where it has no proxy.
Tells(f) ==
    (sock[f] \in Tunnels /\ peer[sock[f]] = "open") => Matches(Announced(sock[f], f), Names(f))

\* They go on matching through each way a tunnel's peer is told.
LEMMA MatchesAfter ==
    ASSUME NEW known, NEW names, Matches(known, names)
    PROVE  /\ \A id, who : Matches(Put(known, id, who), Put(names, id, who))
           /\ \A id : Matches(Without(known, id), Without(names, id))
           /\ "DISCONNECT" \in Kinds => \A id : Matches(known, Without(names, id))
           /\ "DISCONNECT" \in Kinds => \A new : Renounced(new, known) => Matches(new, names)
<1>1. ASSUME NEW id, NEW who PROVE Matches(Put(known, id, who), Put(names, id, who))
  BY DEF Matches, Put
<1>2. ASSUME NEW id PROVE Matches(Without(known, id), Without(names, id))
  BY DEF Matches, Without
<1>3. ASSUME "DISCONNECT" \in Kinds, NEW id PROVE Matches(known, Without(names, id))
  BY <1>3 DEF Matches, Without
<1>4. ASSUME "DISCONNECT" \in Kinds, NEW new, Renounced(new, known) PROVE Matches(new, names)
  BY <1>4 DEF Matches, Renounced
<1> QED  BY <1>1, <1>2, <1>3, <1>4

\* What the peer knows after one frame more.
LEMMA AnnouncedAppend ==
    ASSUME TypeOK, NEW f \in Fds, NEW frame \in Outgoing, NEW v
    PROVE  Heard(v, Append(writeq[f], frame)) = Hear(Heard(v, writeq[f]), frame)
<1>1. writeq[f] \in Seq(Outgoing)
  BY DEF TypeOK, QueueTypes
<1> QED  BY <1>1, HeardAppend

\* What it knows after reading the first of the frames on their way.
LEMMA AnnouncedDrains ==
    ASSUME TypeOK, NEW f \in Fds, NEW n \in 0 .. Len(writeq[f]), NEW v
    PROVE  Heard(Heard(v, SubSeq(writeq[f], 1, n)), SubSeq(writeq[f], n + 1, Len(writeq[f]))) = Heard(v, writeq[f])
<1>1. writeq[f] \in Seq(Outgoing) /\ n \in Nat /\ n <= Len(writeq[f])
  BY DEF TypeOK, QueueTypes
<1> QED  BY <1>1, HeardSplit

\* What it knows after asking to disconnect.
LEMMA AnnouncedRenounces ==
    ASSUME TypeOK, NEW f \in Fds, NEW v, NEW id, NEW new, new = [v EXCEPT ![id] = None]
    PROVE  Renounced(Heard(new, writeq[f]), Heard(v, writeq[f]))
<1>1. Renounced(new, v)
  BY DEF Renounced
<1>2. writeq[f] \in Seq(Outgoing)
  BY DEF TypeOK, QueueTypes
<1> QED  BY <1>1, <1>2, HeardRenounced, Zenon

\* So a step keeps what it knows and the names matching.
LEMMA ToldKeepsTells ==
    ASSUME NEW f \in Fds, Streaming(f), Tells(f)
    PROVE  Tells(f)'
<1> DEFINE t == sock[f]
           known == Heard(view[t], writeq[f])
<1>1. Matches(known, Names(f)) /\ TypeOK
  BY DEF Streaming, Tells, Announced
<1>2. SUFFICES ASSUME Told(f) PROVE Matches(Heard(view'[t], writeq'[f]), Names(f)')
  BY NextTells DEF Streaming, Tells, Announced
<1> HIDE DEF t
<1>3. CASE Silent(f)
  BY <1>1, <1>3 DEF Silent, t
<1>4. CASE Speaks(f)
  <2>1. PICK frame \in Outgoing :
          /\ view'[t] = view[t] /\ writeq'[f] = Append(writeq[f], frame)
          /\ \/ frame.type \notin {"CONNECTED", "DISCONNECT"} /\ Names(f)' = Names(f)
             \/ frame.type = "CONNECTED" /\ Names(f)' = Put(Names(f), frame.arg, frame.who)
             \/ frame.type = "DISCONNECT" /\ Names(f)' = Without(Names(f), frame.arg)
    BY <1>4 DEF Speaks, t
  <2>2. Heard(view'[t], writeq'[f]) = Hear(known, frame)
    BY <1>1, <2>1, AnnouncedAppend
  <2> HIDE DEF known
  <2>3. Matches(Hear(known, frame), Names(f)')
    BY <1>1, <2>1, MatchesAfter DEF Hear
  <2> QED  BY <2>2, <2>3
<1>5. CASE Forgets(f)
  BY <1>1, <1>5, MatchesAfter DEF Forgets, t
<1>6. CASE Renounces(f)
  <2>1. PICK id : view'[t] = [view[t] EXCEPT ![id] = None]
    BY <1>6 DEF Renounces, t
  <2>2. writeq'[f] = writeq[f] /\ Names(f)' = Names(f) /\ "DISCONNECT" \in Kinds
    BY <1>6 DEF Renounces
  <2>3. Renounced(Heard(view'[t], writeq[f]), known)
    BY <1>1, <2>1, AnnouncedRenounces
  <2> HIDE DEF known
  <2> QED  BY <1>1, <2>2, <2>3, MatchesAfter
<1>7. CASE Drains(f)
  <2>1. PICK n \in 0 .. Len(writeq[f]) :
          /\ writeq'[f] = SubSeq(writeq[f], n + 1, Len(writeq[f]))
          /\ view'[t] = Heard(view[t], SubSeq(writeq[f], 1, n))
    BY <1>7 DEF Drains, t
  <2>2. Heard(view'[t], writeq'[f]) = known
    BY <1>1, <2>1, AnnouncedDrains
  <2> QED  BY <1>1, <1>7, <2>2 DEF Drains
<1> QED  BY <1>2, <1>3, <1>4, <1>5, <1>6, <1>7 DEF Told

----------------------------------------------------------------------------
(* A new tunnel has heard nothing.                                         *)

\* The peer of a tunnel that is not accepted yet knows nobody.
Unheard ==
    /\ DOMAIN view = Tunnels
    /\ \A t \in Tunnels : (peer[t] \notin HungUp /\ \A f \in Fds : sock[f] # t) => DOMAIN view[t] = {}

\* How a step changes what peers know.
LEMMA NextViews ==
    ASSUME [Next]_vars
    PROVE  \/ view' = view
           \/ \E t \in Tunnels : \E id : view' = [view EXCEPT ![t] = [view[t] EXCEPT ![id] = None]]
           \/ /\ sock' = sock
              /\ \E g \in Fds : \E new : sock[g] \in Tunnels /\ view' = [view EXCEPT ![sock[g]] = new]
<1>1. CASE UNCHANGED vars
  BY <1>1 DEF vars
<1>2. CASE Peers
  BY <1>2 DEF Peers, TunnelConnects, VisitorConnects, HangsUp, ResetsConnection, VisitorSends, TunnelAsks,
              TunnelNames
<1>3. CASE Server
  <2>1. CASE \E g \in Fds : \E n \in 0 .. Len(writeq[g]) : Deliver(g, n)
    BY <2>1 DEF Deliver, Write, netVars
  <2>2. CASE \/ (EpollWait /\ UNCHANGED <<serverVars, view>>) \/ AcceptTunnel \/ AcceptTunnelFails
             \/ \E p \in Fds, register \in BOOLEAN : AcceptVisitorFails(p, register) \/ AcceptVisitor(p, register)
             \/ \E g \in Fds : UnknownHangUp(g) \/ VisitorDataFails(g) \/ LoopStep(g) \/ VisitorData(g)
    BY <2>2 DEF AcceptTunnelFails, AcceptVisitorFails, UnknownHangUp, VisitorDataFails, LoopStep, VisitorData,
                AcceptTunnel, AcceptVisitor
  <2>3. CASE \E g \in Fds : TunnelHangUp(g) \/ IdleTunnelHangUp(g) \/ VisitorHangUp(g)
    BY <2>3 DEF TunnelHangUp, IdleTunnelHangUp, VisitorHangUp
  <2>4. ASSUME NEW g \in Fds, NEW m, Handle(g, m) PROVE view' = view
    BY <2>4 DEF Handle, Refuse, HandlePing, HandleAuth, HandleCreate, CreateThrows, HandlePacket,
                HandleDisconnect, Answer
  <2> QED  BY <1>3, <2>1, <2>2, <2>3, <2>4 DEF Server
<1> QED  BY <1>1, <1>2, <1>3 DEF Next

\* A connection that loses its descriptor is gone.
LEMMA LeftIsGone ==
    ASSUME TypeOK, ConnOnce, Sessions, [Next]_vars, NEW f \in Fds, sock[f] \in Conns, sock'[f] # sock[f]
    PROVE  peer'[sock[f]] = "gone"
<1>1. sock[f] # None
  BY LoopAssumption
<1>2. ASSUME NEW g \in FreeFds, NEW c, sock' = [sock EXCEPT ![g] = c] PROVE FALSE
  BY <1>1, <1>2 DEF FreeFds, TypeOK, NetTypes
<1>3. CASE Closes
  BY <1>3 DEF Closes, CloseAll
<1>4. CASE \E c \in Conns, l \in Fds, g \in Fds : \E item, register : Accepted(l, c, g, item, register)
  BY <1>2, <1>4 DEF Accepted, NewFd
<1>5. CASE \E p \in Fds : sock' = [sock EXCEPT ![p] = Listener] /\ UNCHANGED <<backlog, peer>>
  <2>1. sock'[f] = None
    BY <1>1, NextHasShape DEF Shape, Stays, Linked, Closed, New, FreeFds, Written, Emptied, Filled, netVars
  <2>2. sock'[f] = Listener
    BY <1>5 DEF TypeOK, NetTypes
  <2> QED  BY <2>1, <2>2, LoopAssumption
<1> QED  BY <1>3, <1>4, <1>5, NextIsConnStep DEF PeerConnects

\* Every step keeps it so.
LEMMA NextKeepsUnheard == TypeOK /\ ConnOnce /\ Sessions /\ Unheard /\ [Next]_vars => Unheard'
<1> SUFFICES ASSUME TypeOK, ConnOnce, Sessions, Unheard, [Next]_vars PROVE Unheard'
  OBVIOUS
<1>1. DOMAIN view' = Tunnels
  BY NextViews DEF Unheard
<1>2. ASSUME NEW t \in Tunnels, peer'[t] \notin HungUp, \A f \in Fds : sock'[f] # t
      PROVE  DOMAIN view'[t] = {}
  <2>1. t \in Conns /\ peer[t] \notin HungUp
    BY <1>2, HangUpLasts, ServerAssumption
  <2>2. \A f \in Fds : sock[f] # t
    BY <1>2, <2>1, LeftIsGone DEF HungUp
  <2>3. DOMAIN view[t] = {}
    BY <2>1, <2>2 DEF Unheard
  <2>4. CASE view' = view
    BY <2>3, <2>4
  <2>5. CASE \E u \in Tunnels : \E id : view' = [view EXCEPT ![u] = [view[u] EXCEPT ![id] = None]]
    BY <2>3, <2>5 DEF Unheard
  <2>6. CASE \E g \in Fds : \E new : sock[g] \in Tunnels /\ view' = [view EXCEPT ![sock[g]] = new]
    BY <2>2, <2>3, <2>6 DEF Unheard
  <2> QED  BY <2>4, <2>5, <2>6, NextViews
<1> QED  BY <1>1, <1>2 DEF Unheard

\* What becomes a tunnel's comes of FreeGrok::on_connect.
LEMMA TunnelsArrive ==
    ASSUME TypeOK, [Next]_vars, NEW f \in Fds, sock'[f] \in Tunnels, sock'[f] # sock[f]
    PROVE  AcceptTunnel
<1>1. sock' # sock
  OBVIOUS
<1>2. ~ Closes
  BY KindsApart DEF Closes, CloseAll
<1>3. ASSUME NEW g, NEW c, c \notin Tunnels, sock' = [sock EXCEPT ![g] = c] PROVE FALSE
  BY <1>3 DEF TypeOK, NetTypes
<1>4. ~ Peers /\ ~ UNCHANGED vars
  BY <1>1 DEF vars, loopVars, netVars, Peers, TunnelConnects, VisitorConnects, HangsUp, ResetsConnection,
              VisitorSends, TunnelAsks, TunnelNames, PeerCloses, PeerResets, PeerConnects, PeerSends
<1>5. Server
  BY <1>4 DEF Next
<1>6. /\ ~ EpollWait /\ ~ AcceptTunnelFails
      /\ \A p \in Fds, register \in BOOLEAN : ~ AcceptVisitorFails(p, register)
      /\ \A g \in Fds : ~ UnknownHangUp(g) /\ ~ VisitorDataFails(g) /\ ~ LoopStep(g) /\ ~ VisitorData(g)
      /\ \A g \in Fds : \A n \in 0 .. Len(writeq[g]) : ~ Deliver(g, n)
  BY <1>1 DEF EpollWait, AcceptTunnelFails, AcceptVisitorFails, AcceptFailed, UnknownHangUp, Throw,
              VisitorDataFails, LoopStep, StaleHangup, ThrowOnEvent, WriteFails, ReadFails, ReadPart,
              Deliver, Write, VisitorData, netVars
<1>7. \A g \in Fds : ~ TunnelHangUp(g) /\ ~ IdleTunnelHangUp(g) /\ ~ VisitorHangUp(g)
  BY <1>2 DEF TunnelHangUp, IdleTunnelHangUp, VisitorHangUp, Closes
<1>8. \A p \in Fds, register \in BOOLEAN : ~ AcceptVisitor(p, register)
  BY <1>3, KindsApart DEF AcceptVisitor, Accepted
<1>9. \A g \in Fds : \A m : ~ Handle(g, m)
  <2> SUFFICES ASSUME NEW g \in Fds, NEW m, Handle(g, m) PROVE FALSE
    OBVIOUS
  <2>1. ~ HandleDisconnect(g, m)
    BY <1>2 DEF HandleDisconnect, Closes
  <2>2. \A p \in Fds : ~ HandleCreate(g, m, p)
    BY <1>3, KindsApart DEF HandleCreate
  <2>3. ~ Refuse(g, m) /\ ~ HandlePing(g, m) /\ ~ HandleAuth(g, m) /\ ~ CreateThrows(g, m) /\ ~ HandlePacket(g, m)
    BY <1>1 DEF Refuse, HandlePing, HandleAuth, CreateThrows, Throw, HandlePacket, Answer, netVars
  <2> QED  BY <2>1, <2>2, <2>3 DEF Handle
<1> QED  BY <1>5, <1>6, <1>7, <1>8, <1>9 DEF Server

\* A new tunnel has nothing queued, no table, and knows nobody.
LEMMA NewTunnel ==
    ASSUME TypeOK, ConnOnce, Sessions, Unheard, TypeOK', [Next]_vars, NEW f \in Fds,
           sock'[f] \in Tunnels, sock'[f] # sock[f], peer'[sock'[f]] = "open"
    PROVE  writeq'[f] = <<>> /\ DOMAIN view'[sock'[f]] = {} /\ DOMAIN Names(f)' = {}
<1>1. AcceptTunnel
  BY TunnelsArrive
<1>2. PICK c \in Tunnels, g \in Fds :
        /\ c \in backlog[Main] /\ g \in FreeFds /\ sock' = [sock EXCEPT ![g] = c]
        /\ UNCHANGED <<peer, writeq, users, view>>
  BY <1>1 DEF AcceptTunnel, Accepted, NewFd, serverVars
<1>3. f = g /\ sock'[f] = c
  BY <1>2 DEF TypeOK, NetTypes
<1>4. writeq[f] = <<>> /\ users[f].server = None
  BY <1>2, <1>3 DEF Sessions, NoStaleDescriptor
<1>5. DOMAIN view[c] = {}
  <2>1. peer[c] = "open"
    BY <1>2, <1>3
  <2>2. \A h \in Fds : sock[h] # c
    BY <1>2, LoopAssumption DEF ConnOnce
  <2> QED  BY <2>1, <2>2 DEF Unheard, HungUp
<1>6. DOMAIN Names(f)' = {}
  BY <1>2, <1>4 DEF Names, Table, Empty
<1> QED  BY <1>2, <1>3, <1>4, <1>5, <1>6

\* What every step keeps of the streams.
StreamsTell == Unheard /\ \A f \in Fds : Tells(f)

\* A tunnel that is open after a step was so before, or is new.
LEMMA TunnelBefore ==
    ASSUME TypeOK, IdsExclusive, Sessions, ConnOnce, Asked, Unheard, TypeOK', Sessions', [Next]_vars,
           NEW f \in Fds, sock'[f] \in Tunnels, peer'[sock'[f]] = "open", sock'[f] = sock[f]
    PROVE  Streaming(f)
<1>1. sock[f] \in Conns
  BY ServerAssumption
<1>2. peer[sock[f]] \in Alive /\ peer[sock[f]] \notin HungUp
  BY <1>1, HangUpLasts DEF ConnOnce, HungUp
<1> QED  BY <1>2 DEF Streaming, Alive, HungUp, Unheard

\* At first there is no tunnel.
LEMMA InitTells == Init => StreamsTell
<1> SUFFICES ASSUME Init PROVE StreamsTell
  OBVIOUS
<1>1. \A f \in Fds : sock[f] \notin Tunnels
  BY KindsApart DEF Init, LoopInit
<1>2. Unheard
  BY DEF Init, Unheard, Empty
<1> QED  BY <1>1, <1>2 DEF StreamsTell, Tells

\* Every step keeps what peers know and the tables matching.
LEMMA NextKeepsTells ==
    TypeOK /\ IdsExclusive /\ Sessions /\ ConnOnce /\ Asked /\ StreamsTell /\ TypeOK' /\ Sessions' /\ [Next]_vars
    => StreamsTell'
<1> SUFFICES ASSUME TypeOK, IdsExclusive, Sessions, ConnOnce, Asked, StreamsTell, TypeOK', Sessions', [Next]_vars
             PROVE  StreamsTell'
  OBVIOUS
<1>1. Unheard'
  BY NextKeepsUnheard DEF StreamsTell
<1>2. ASSUME NEW f \in Fds PROVE Tells(f)'
  <2> SUFFICES ASSUME sock'[f] \in Tunnels, peer'[sock'[f]] = "open" PROVE Tells(f)'
    BY DEF Tells
  <2>1. CASE sock'[f] = sock[f]
    <3>1. Streaming(f)
      BY <2>1, TunnelBefore DEF StreamsTell
    <3> QED  BY <3>1, ToldKeepsTells DEF StreamsTell
  <2>2. CASE sock'[f] # sock[f]
    <3>1. writeq'[f] = <<>> /\ DOMAIN view'[sock'[f]] = {} /\ DOMAIN Names(f)' = {}
      BY <2>2, NewTunnel DEF StreamsTell
    <3>2. Announced(sock[f], f)' = view'[sock'[f]]
      BY <3>1, HeardNothing DEF Announced
    <3> QED  BY <3>1, <3>2 DEF Tells, Matches
  <2> QED  BY <2>1, <2>2
<1> QED  BY <1>1, <1>2 DEF StreamsTell

\* So they always match.
LEMMA StreamsTellHolds == Spec => []StreamsTell
<1>1. LoopAgrees => ConnOnce
  BY DEF LoopAgrees
<1> QED  BY <1>1, InitTells, NextKeepsTells, TypeCorrect, IdentifiersExclusive, SessionsHold, LoopAgreesHolds,
            AskedHolds, PTL DEF Spec

(* The stream of a tunnel tells its peer of every visitor: whoever reads   *)
(* what is queued and on its way knows each identifier of the proxy's      *)
(* table as the visitor it stands for, through failed accepts, hangups,    *)
(* requests to disconnect that cross them, shutdowns and descriptors that  *)
(* are used again, and knows no other where peers never ask.               *)
THEOREM StreamsAgree == Spec => []StreamAgrees
<1>1. TypeOK /\ StreamsTell => StreamAgrees
  <2> SUFFICES ASSUME TypeOK, StreamsTell, NEW f \in Fds, sock[f] \in Tunnels, peer[sock[f]] = "open", HasServer(f)
               PROVE  LET known == Announced(sock[f], f)
                          table == id_to_sock[users[f].server]
                      IN /\ \A id \in DOMAIN table :
                              /\ id \in DOMAIN known
                              /\ known[id] \in {None, IF table[id] = BadFd THEN BadFd ELSE sock[table[id]]}
                         /\ "DISCONNECT" \notin Kinds => DOMAIN known = DOMAIN table
    BY DEF StreamAgrees
  <2>1. Matches(Announced(sock[f], f), Names(f))
    BY DEF StreamsTell, Tells
  <2>2. Table(f) = id_to_sock[users[f].server]
    BY DEF Table, HasServer
  <2> QED  BY <2>1, <2>2 DEF Matches, Names, Stands
<1> QED  BY <1>1, StreamsTellHolds, TypeCorrect, PTL

----------------------------------------------------------------------------
(* The stream is well bracketed.                                           *)

\* BracketedStream for the descriptor f.
Bracketed(f) ==
    (sock[f] \in Tunnels /\ peer[sock[f]] = "open") =>
        \A i \in DOMAIN writeq[f] :
            writeq[f][i].type \in {"PACKET", "DISCONNECT"} =>
                writeq[f][i].arg \in DOMAIN Heard(view[sock[f]], SubSeq(writeq[f], 1, i - 1))

\* The frames before one that stays are the same.
LEMMA FirstsAfterAppend ==
    ASSUME TypeOK, NEW f \in Fds, NEW frame \in Outgoing, NEW i \in DOMAIN Append(writeq[f], frame)
    PROVE  /\ i = Len(writeq[f]) + 1 => /\ Append(writeq[f], frame)[i] = frame
                                        /\ SubSeq(Append(writeq[f], frame), 1, i - 1) = writeq[f]
           /\ i # Len(writeq[f]) + 1 => /\ i \in DOMAIN writeq[f] /\ Append(writeq[f], frame)[i] = writeq[f][i]
                                        /\ SubSeq(Append(writeq[f], frame), 1, i - 1) = SubSeq(writeq[f], 1, i - 1)
<1>1. writeq[f] \in Seq(Outgoing)
  BY DEF TypeOK, QueueTypes
<1>2. ASSUME NEW s \in Seq(Outgoing), NEW j \in DOMAIN Append(s, frame)
      PROVE  /\ j = Len(s) + 1 => Append(s, frame)[j] = frame /\ SubSeq(Append(s, frame), 1, j - 1) = s
             /\ j # Len(s) + 1 => /\ j \in DOMAIN s /\ Append(s, frame)[j] = s[j]
                                  /\ SubSeq(Append(s, frame), 1, j - 1) = SubSeq(s, 1, j - 1)
  <2>1. j \in 1 .. Len(s) + 1 /\ DOMAIN s = 1 .. Len(s) /\ Len(s) \in Nat
    OBVIOUS
  <2>2. CASE j = Len(s) + 1
    <3>1. j - 1 = Len(s) /\ Append(s, frame)[j] = frame
      BY <2>2
    <3>2. SubSeq(Append(s, frame), 1, Len(s)) = SubSeq(s, 1, Len(s)) /\ SubSeq(s, 1, Len(s)) = s
      BY <2>1, Frames!CutApart
    <3> QED  BY <2>2, <3>1, <3>2
  <2>3. CASE j # Len(s) + 1
    <3>1. j - 1 \in Nat /\ j - 1 <= Len(s) /\ j \in DOMAIN s
      BY <2>1, <2>3
    <3>2. SubSeq(Append(s, frame), 1, j - 1) = SubSeq(s, 1, j - 1)
      BY <3>1, Frames!CutApart
    <3> QED  BY <2>3, <3>1, <3>2
  <2> QED  BY <2>2, <2>3
<1> QED  BY <1>1, <1>2

\* What is left of f's queue when its first n frames are sent.
IsRest(w, f, n) == w = SubSeq(writeq[f], n + 1, Len(writeq[f]))

\* The i-th frame of w was in f's queue, and a peer that knew v hears the same
\* before it whether the first n were sent or not.
HeardAlike(v, w, i, f, n) ==
    \E k \in DOMAIN writeq[f] :
        /\ w[i] = writeq[f][k]
        /\ Heard(Heard(v, SubSeq(writeq[f], 1, n)), SubSeq(w, 1, i - 1))
           = Heard(v, SubSeq(writeq[f], 1, k - 1))

\* What is heard before a frame is heard after the first ones are sent, too.
LEMMA FirstsAfterDrain ==
    TypeOK => \A f \in Fds : \A n \in 0 .. Len(writeq[f]) : \A v, w :
        IsRest(w, f, n) => \A i \in DOMAIN w : HeardAlike(v, w, i, f, n)
<1> SUFFICES ASSUME TypeOK, NEW f \in Fds, NEW n \in 0 .. Len(writeq[f]), NEW v, NEW w,
                    w = SubSeq(writeq[f], n + 1, Len(writeq[f])), NEW i \in DOMAIN w
             PROVE  \E k \in DOMAIN writeq[f] :
                /\ w[i] = writeq[f][k]
                /\ Heard(Heard(v, SubSeq(writeq[f], 1, n)), SubSeq(w, 1, i - 1))
                   = Heard(v, SubSeq(writeq[f], 1, k - 1))
  BY DEF IsRest, HeardAlike
<1> DEFINE s == writeq[f]
           r == SubSeq(s, 1, (n + i) - 1)
<1>1. s \in Seq(Outgoing) /\ n \in 0 .. Len(s)
  BY DEF TypeOK, QueueTypes
<1>2. w = SubSeq(s, n + 1, Len(s)) /\ i \in DOMAIN w
  OBVIOUS
<1> HIDE DEF s
<1>3. w \in Seq(Outgoing) /\ Len(w) = Len(s) - n /\ i \in 1 .. Len(s) - n
  BY <1>1, <1>2
<1>4. n + i \in DOMAIN s /\ w[i] = s[n + i]
  BY <1>1, <1>2, <1>3
<1>5. r \in Seq(Outgoing) /\ Len(r) = n + i - 1 /\ n <= Len(r)
  BY <1>1, <1>3
<1>6. SubSeq(r, 1, n) = SubSeq(s, 1, n)
  BY <1>1, <1>3
<1>7. SubSeq(r, n + 1, Len(r)) = SubSeq(w, 1, i - 1)
  <2> DEFINE a == SubSeq(r, n + 1, Len(r))
             b == SubSeq(w, 1, i - 1)
  <2>1. \A j \in 1 .. n + i - 1 : r[j] = s[j]
    BY <1>1, <1>3
  <2>2. \A j \in 1 .. Len(w) : w[j] = s[n + j]
    <3>1. \A j \in 1 .. Len(s) - n : SubSeq(s, n + 1, Len(s))[j] = s[n + j]
      BY <1>1
    <3> QED  BY <1>2, <1>3, <3>1
  <2> HIDE DEF r
  <2>3. a \in Seq(Outgoing) /\ Len(a) = i - 1 /\ \A j \in 1 .. i - 1 : a[j] = r[n + j]
    BY <1>1, <1>3, <1>5
  <2>4. b \in Seq(Outgoing) /\ Len(b) = i - 1 /\ \A j \in 1 .. i - 1 : b[j] = w[j]
    BY <1>1, <1>3
  <2>5. ASSUME NEW j \in 1 .. i - 1 PROVE a[j] = b[j]
    <3>1. n + j \in 1 .. n + i - 1 /\ j \in 1 .. Len(w)
      BY <1>1, <1>3
    <3> QED  BY <2>1, <2>2, <2>3, <2>4, <3>1
  <2> HIDE DEF a, b
  <2>6. a = b
    BY <2>3, <2>4, <2>5
  <2> QED  BY <2>6 DEF a, b
<1> HIDE DEF r
<1>8. Heard(Heard(v, SubSeq(r, 1, n)), SubSeq(r, n + 1, Len(r))) = Heard(v, r)
  <2>1. n \in Nat
    BY <1>1
  <2> QED  BY <1>5, <2>1, HeardSplit
<1>9. Heard(Heard(v, SubSeq(s, 1, n)), SubSeq(w, 1, i - 1)) = Heard(v, SubSeq(s, 1, (n + i) - 1))
  BY <1>6, <1>7, <1>8 DEF r
<1>10. PICK k \in DOMAIN s : k = n + i
  BY <1>4
<1>11. w[i] = s[k] /\ Heard(Heard(v, SubSeq(s, 1, n)), SubSeq(w, 1, i - 1)) = Heard(v, SubSeq(s, 1, k - 1))
  BY <1>4, <1>9, <1>10
<1> QED  BY <1>10, <1>11, Zenon DEF s

\* What is heard before a frame is of the same identifiers after one of them
\* is renounced.
LEMMA FirstsAfterRenounce ==
    TypeOK => \A f \in Fds : \A i \in DOMAIN writeq[f] : \A v, id, new : new = [v EXCEPT ![id] = None] =>
        DOMAIN Heard(new, SubSeq(writeq[f], 1, i - 1)) = DOMAIN Heard(v, SubSeq(writeq[f], 1, i - 1))
<1> SUFFICES ASSUME TypeOK, NEW f \in Fds, NEW i \in DOMAIN writeq[f], NEW v, NEW id, NEW new,
                    new = [v EXCEPT ![id] = None]
             PROVE  DOMAIN Heard(new, SubSeq(writeq[f], 1, i - 1)) = DOMAIN Heard(v, SubSeq(writeq[f], 1, i - 1))
  OBVIOUS
<1>1. Renounced(new, v)
  BY DEF Renounced
<1>2. writeq[f] \in Seq(Outgoing)
  BY DEF TypeOK, QueueTypes
<1>3. SubSeq(writeq[f], 1, i - 1) \in Seq(Outgoing)
  BY <1>2
<1>4. Renounced(Heard(new, SubSeq(writeq[f], 1, i - 1)), Heard(v, SubSeq(writeq[f], 1, i - 1)))
  BY <1>1, <1>3, HeardRenounced, Zenon
<1> QED  BY <1>4 DEF Renounced

\* A step keeps the stream of a tunnel well bracketed.
LEMMA ToldKeepsBracketed ==
    ASSUME NEW f \in Fds, Streaming(f), Tells(f), Bracketed(f)
    PROVE  Bracketed(f)'
<1> DEFINE t == sock[f]
<1>1. SUFFICES ASSUME Told(f), NEW i \in DOMAIN writeq'[f], writeq'[f][i].type \in {"PACKET", "DISCONNECT"}
               PROVE  writeq'[f][i].arg \in DOMAIN Heard(view'[t], SubSeq(writeq'[f], 1, i - 1))
  BY NextTells DEF Streaming, Bracketed
<1>2. /\ TypeOK
      /\ \A j \in DOMAIN writeq[f] : writeq[f][j].type \in {"PACKET", "DISCONNECT"} =>
            writeq[f][j].arg \in DOMAIN Heard(view[t], SubSeq(writeq[f], 1, j - 1))
      /\ \A id \in DOMAIN Names(f) : id \in DOMAIN Heard(view[t], writeq[f])
  BY DEF Streaming, Bracketed, Tells, Announced, Matches
<1> HIDE DEF t
<1>3. CASE Silent(f) \/ Forgets(f)
  BY <1>1, <1>2, <1>3 DEF Silent, Forgets, t
<1>4. CASE Speaks(f)
  <2>1. PICK frame \in Outgoing :
          /\ view'[t] = view[t] /\ writeq'[f] = Append(writeq[f], frame)
          /\ frame.type \in {"PACKET", "DISCONNECT"} => frame.arg \in DOMAIN Names(f)
    BY <1>4 DEF Speaks, t
  <2>2. CASE i = Len(writeq[f]) + 1
    <3>1. writeq'[f][i] = frame /\ SubSeq(writeq'[f], 1, i - 1) = writeq[f]
      BY <1>1, <1>2, <2>1, <2>2, FirstsAfterAppend
    <3> QED  BY <1>1, <1>2, <2>1, <3>1
  <2>3. CASE i # Len(writeq[f]) + 1
    <3>1. i \in DOMAIN writeq[f] /\ writeq'[f][i] = writeq[f][i]
          /\ SubSeq(writeq'[f], 1, i - 1) = SubSeq(writeq[f], 1, i - 1)
      BY <1>1, <1>2, <2>1, <2>3, FirstsAfterAppend
    <3> QED  BY <1>1, <1>2, <2>1, <3>1
  <2> QED  BY <2>2, <2>3
<1>5. CASE Renounces(f)
  <2>1. PICK id : view'[t] = [view[t] EXCEPT ![id] = None]
    BY <1>5 DEF Renounces, t
  <2>2. writeq'[f] = writeq[f] /\ i \in DOMAIN writeq[f]
    BY <1>1, <1>5 DEF Renounces
  <2>3. PICK old, new : old = view[t] /\ new = view'[t]
    OBVIOUS
  <2>4. new = [old EXCEPT ![id] = None]
    BY <2>1, <2>3
  <2>5. DOMAIN Heard(new, SubSeq(writeq[f], 1, i - 1)) = DOMAIN Heard(old, SubSeq(writeq[f], 1, i - 1))
    BY <1>2, <2>2, <2>4, FirstsAfterRenounce, Zenon
  <2>6. writeq[f][i].arg \in DOMAIN Heard(old, SubSeq(writeq[f], 1, i - 1))
    BY <1>1, <1>2, <2>2, <2>3
  <2>7. writeq[f][i].arg \in DOMAIN Heard(new, SubSeq(writeq[f], 1, i - 1))
    BY <2>5, <2>6
  <2> QED  BY <2>2, <2>3, <2>7
<1>6. CASE Drains(f)
  <2>1. PICK n \in 0 .. Len(writeq[f]) :
          /\ writeq'[f] = SubSeq(writeq[f], n + 1, Len(writeq[f]))
          /\ view'[t] = Heard(view[t], SubSeq(writeq[f], 1, n))
    BY <1>6 DEF Drains, t
  <2>2. PICK w, v : w = writeq'[f] /\ v = view[t]
    OBVIOUS
  <2>3. w = SubSeq(writeq[f], n + 1, Len(writeq[f])) /\ i \in DOMAIN w
    BY <1>1, <2>1, <2>2
  <2>4. PICK k \in DOMAIN writeq[f] :
          /\ w[i] = writeq[f][k]
          /\ Heard(Heard(v, SubSeq(writeq[f], 1, n)), SubSeq(w, 1, i - 1)) = Heard(v, SubSeq(writeq[f], 1, k - 1))
    <3>1. TypeOK
      BY <1>2
    <3>2. IsRest(w, f, n)
      BY <2>3 DEF IsRest
    <3>3. i \in DOMAIN w
      BY <2>3
    <3>4. HeardAlike(v, w, i, f, n)
      BY <3>1, <3>2, <3>3, FirstsAfterDrain, Zenon
    <3> QED  BY <3>4 DEF HeardAlike
  <2>5. writeq[f][k].type \in {"PACKET", "DISCONNECT"}
    BY <1>1, <2>2, <2>4
  <2>6. writeq[f][k].arg \in DOMAIN Heard(v, SubSeq(writeq[f], 1, k - 1))
    BY <1>2, <2>2, <2>5
  <2>7. w[i].arg \in DOMAIN Heard(Heard(v, SubSeq(writeq[f], 1, n)), SubSeq(w, 1, i - 1))
    BY <2>4, <2>6, Zenon
  <2> QED  BY <2>1, <2>2, <2>7
<1> QED  BY <1>1, <1>3, <1>4, <1>5, <1>6 DEF Told

\* And so does every step for all.
LEMMA NextKeepsBracketed ==
    /\ TypeOK /\ IdsExclusive /\ Sessions /\ ConnOnce /\ Asked /\ StreamsTell /\ BracketedStream
    /\ TypeOK' /\ Sessions' /\ [Next]_vars
    => BracketedStream'
<1> SUFFICES ASSUME TypeOK, IdsExclusive, Sessions, ConnOnce, Asked, StreamsTell, BracketedStream,
                    TypeOK', Sessions', [Next]_vars, NEW f \in Fds,
                    sock'[f] \in Tunnels, peer'[sock'[f]] = "open"
             PROVE  Bracketed(f)'
  BY DEF BracketedStream, Bracketed
<1>1. CASE sock'[f] = sock[f]
  <2>1. Streaming(f)
    BY <1>1, TunnelBefore DEF StreamsTell
  <2> QED  BY <2>1, ToldKeepsBracketed DEF StreamsTell, BracketedStream, Bracketed
<1>2. CASE sock'[f] # sock[f]
  <2>1. writeq'[f] = <<>>
    BY <1>2, NewTunnel DEF StreamsTell
  <2> QED  BY <2>1 DEF Bracketed
<1> QED  BY <1>1, <1>2

(* GROK_PACKET and GROK_DISCONNECT reach a tunnel's peer only for an        *)
(* identifier that a GROK_CONNECTED before them opened and no               *)
(* GROK_DISCONNECT has closed since: in every prefix of what is queued,     *)
(* however visitors come and go and whatever part of it is sent.            *)
THEOREM StreamsBracketed == Spec => []BracketedStream
<1>1. Init => BracketedStream
  BY KindsApart DEF Init, LoopInit, BracketedStream
<1>2. LoopAgrees => ConnOnce
  BY DEF LoopAgrees
<1> QED  BY <1>1, <1>2, NextKeepsBracketed, StreamsTellHolds, TypeCorrect, IdentifiersExclusive, SessionsHold,
            LoopAgreesHolds, AskedHolds, PTL DEF Spec
=============================================================================
