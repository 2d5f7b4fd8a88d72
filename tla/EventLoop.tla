----------------------------- MODULE EventLoop -----------------------------
(***************************************************************************)
(* The single-threaded event loop (loop/loop.cpp, loop/selector.cpp) and   *)
(* the sockets under it.  A handler runs to its end within one step; the   *)
(* peers act between any two steps, so what epoll_wait reported for a      *)
(* descriptor may be out of date when its turn in the batch comes.         *)
(*                                                                         *)
(* The module holds the loop's state, what its calls do to it, and the     *)
(* steps that need no observer.  GrokServer supplies the observers.        *)
(***************************************************************************)
EXTENDS Naturals, Sequences, FiniteSets

CONSTANTS Fds,      \* the descriptors the process may have open
          Main,     \* the listener of the observer that is always there
          BadFd,    \* the -1 that accept returns when it fails
          Conns,    \* the TCP connections peers may open, each once
          Listener, \* what a listening descriptor refers to
          None      \* no connection, no observer, no descriptor

ASSUME LoopAssumption ==
    /\ Fds \subseteq Nat /\ Main \in Fds
    /\ BadFd \notin Fds /\ None \notin Fds /\ BadFd # None
    /\ Listener \notin Conns /\ None \notin Conns /\ Listener # None

VARIABLES
    \* The kernel and the peers (external).
    sock,       \* fd -> the connection or Listener it refers to, None if closed
    backlog,    \* listening fd -> connections not yet accepted
    peer,       \* connection -> "idle", "open", "fin", "rst"; "gone" once the server closed it
    rx,         \* connection -> what its peer sent and the server has not read
    \* The loop.
    observers,  \* the listening descriptors with an observer: Loop::observers
    clients,    \* observer -> its descriptors: IObserver::clients
    linked,     \* descriptor -> its observer: Loop::linked_clients
    readq,      \* descriptor -> its pending ReadItems: Queues::read
    writeq,     \* descriptor -> frames not yet sent: Queues::write
    interest,   \* descriptor -> the events epoll watches, {} if not registered
    pending,    \* descriptor -> its events left in the current batch
    resume,     \* the descriptor whose EPOLLOUT is done and EPOLLIN is due
    status      \* "running", or the exception that ended Loop::run

netVars   == <<sock, backlog, peer, rx>>
tableVars == <<observers, clients, linked>>
queueVars == <<readq, writeq, interest>>
batchVars == <<pending, resume>>
loopVars  == <<netVars, tableVars, queueVars, batchVars, status>>

NoEvents == [f \in Fds |-> {}]
FreeFds  == {f \in Fds : sock[f] = None}

\* The descriptor a new socket gets: the lowest that is free.
NewFd(f) == f \in FreeFds /\ \A g \in FreeFds : f <= g

LoopInit ==
    /\ sock = [f \in Fds |-> IF f = Main THEN Listener ELSE None]
    /\ backlog = [f \in Fds |-> {}]
    /\ peer = [c \in Conns |-> "idle"]
    /\ rx = [c \in Conns |-> <<>>]
    /\ observers = {Main}
    /\ clients = [f \in Fds |-> {}]
    /\ linked = [f \in Fds \cup {BadFd} |-> None]
    /\ readq = [f \in Fds |-> <<>>]
    /\ writeq = [f \in Fds |-> <<>>]
    /\ interest = [f \in Fds |-> IF f = Main THEN {"IN"} ELSE {}]
    /\ pending = NoEvents
    /\ resume = None
    /\ status = "running"

----------------------------------------------------------------------------
(* Selector::wait and the batch.                                           *)

\* Mutated form of Reported: EVENTS_R lacks EPOLLRDHUP.
ReportedNoRdhup(f, W) ==
    LET c == sock[f] IN
    IF interest[f] = {} THEN {}
    ELSE IF c = Listener THEN {e \in {"IN"} : backlog[f] # {}}
    ELSE {e \in {"IN", "HUP", "OUT"} :
            \/ e = "IN"  /\ (rx[c] # <<>> \/ peer[c] # "open")
            \/ e = "HUP" /\ peer[c] = "rst"
            \/ e = "OUT" /\ f \in W}

\* What epoll reports for a registered descriptor: W are those watched for
\* EPOLLOUT whose peer leaves room in the send buffer.
Reported(f, W) ==
    LET c == sock[f] IN
    IF interest[f] = {} THEN {}
    ELSE IF c = Listener THEN {e \in {"IN"} : backlog[f] # {}}
    ELSE {e \in {"IN", "HUP", "OUT"} :
            \/ e = "IN"  /\ (rx[c] # <<>> \/ peer[c] # "open")
            \/ e = "HUP" /\ peer[c] # "open"
            \/ e = "OUT" /\ f \in W}

\* epoll_wait returns when something is ready.  MAX_EVENTS is 4096, so a
\* batch holds every ready descriptor; it is kept as a map, since the kernel
\* lists them in no order the program may rely on.
EpollWait ==
    /\ status = "running" /\ pending = NoEvents
    /\ \E W \in SUBSET {f \in Fds : "OUT" \in interest[f]} :
         pending' = [f \in Fds |-> Reported(f, W)]
    /\ pending' # NoEvents
    /\ UNCHANGED <<netVars, tableVars, queueVars, resume, status>>

\* It is f's turn: the events left for it, taken in the order HUP, OUT, IN.
Turn(f) == status = "running" /\ pending[f] # {} /\ resume \in {None, f}

\* Mutated form of HangupTurn: any event is taken for a hangup.
HangupTurnOnAny(f) == Turn(f)

HangupTurn(f) == Turn(f) /\ "HUP" \in pending[f]
WriteTurn(f)  == Turn(f) /\ "HUP" \notin pending[f] /\ "OUT" \in pending[f]
ReadTurn(f)   == Turn(f) /\ pending[f] = {"IN"}

\* The end of an iteration, the break after a hangup, and the fall through
\* from EPOLLOUT to EPOLLIN.
NextEvent(f) == pending' = [pending EXCEPT ![f] = {}] /\ resume' = None
DropBatch    == pending' = NoEvents /\ resume' = None
OutDone(f)   == IF "IN" \in pending[f]
                THEN pending' = [pending EXCEPT ![f] = {"IN"}] /\ resume' = f
                ELSE NextEvent(f)

\* An exception leaves Loop::run, which nothing catches: the process ends.
Throw(what) ==
    /\ status' = what
    /\ UNCHANGED <<netVars, tableVars, queueVars, batchVars>>

----------------------------------------------------------------------------
(* Loop's calls, as the values they leave behind.                          *)

\* Loop::send appends to the write queue (merging into its one item), and
\* asks for EPOLLOUT when the queue was empty; epoll_ctl does nothing for a
\* descriptor that is not registered.
\* Mutated forms: merge_buffers puts the new bytes first; EPOLLOUT is asked for
\* when something was queued already.
QueuedFirst(f, frame) == [writeq EXCEPT ![f] = <<frame>> \o @]
WatchedLate(f) == IF writeq[f] # <<>> /\ interest[f] # {}
                  THEN [interest EXCEPT ![f] = {"IN", "OUT"}] ELSE interest

Queued(f, frame) == [writeq EXCEPT ![f] = Append(@, frame)]
Watched(f) == IF writeq[f] = <<>> /\ interest[f] # {}
              THEN [interest EXCEPT ![f] = {"IN", "OUT"}] ELSE interest

Send(f, frame) == writeq' = Queued(f, frame) /\ interest' = Watched(f)

\* Mutated form of CloseAll: what waits to be sent is not cleared.
CloseAllKeepsQueue(S, r, q, w, i) ==
    LET lost == {c \in Conns : \E f \in S \cap Fds : c = sock[f] \/ c \in backlog[f]} IN
    /\ sock' = [f \in Fds |-> IF f \in S THEN None ELSE sock[f]]
    /\ backlog' = [f \in Fds |-> IF f \in S THEN {} ELSE backlog[f]]
    /\ peer' = [c \in Conns |-> IF c \in lost THEN "gone" ELSE peer[c]]
    /\ rx' = [c \in Conns |-> IF c \in lost THEN <<>> ELSE r[c]]
    /\ linked' = [f \in Fds \cup {BadFd} |-> IF f \in S THEN None ELSE linked[f]]
    /\ readq' = [f \in Fds |-> IF f \in S THEN <<>> ELSE q[f]]
    /\ writeq' = w
    /\ interest' = [f \in Fds |-> IF f \in S THEN {} ELSE i[f]]

\* Queues::clear_all and remove_queues, unlink_client, the removal from epoll
\* and close, for every descriptor of S; r, q, w and i are what the handler
\* leaves in rx, readq, writeq and interest before.  Closing a listener resets
\* what it had not accepted.
CloseAll(S, r, q, w, i) ==
    LET lost == {c \in Conns : \E f \in S \cap Fds : c = sock[f] \/ c \in backlog[f]} IN
    /\ sock' = [f \in Fds |-> IF f \in S THEN None ELSE sock[f]]
    /\ backlog' = [f \in Fds |-> IF f \in S THEN {} ELSE backlog[f]]
    /\ peer' = [c \in Conns |-> IF c \in lost THEN "gone" ELSE peer[c]]
    /\ rx' = [c \in Conns |-> IF c \in lost THEN <<>> ELSE r[c]]
    /\ linked' = [f \in Fds \cup {BadFd} |-> IF f \in S THEN None ELSE linked[f]]
    /\ readq' = [f \in Fds |-> IF f \in S THEN <<>> ELSE q[f]]
    /\ writeq' = [f \in Fds |-> IF f \in S THEN <<>> ELSE w[f]]
    /\ interest' = [f \in Fds |-> IF f \in S THEN {} ELSE i[f]]

\* The accept and registration half of Loop::run for a connection c of the
\* listener l that gets descriptor f; item is the ReadItem on_connect queues.
\* Only a step that handles EPOLLIN registers and links f.
Accepted(l, c, f, item, register) ==
    /\ c \in backlog[l] /\ NewFd(f)
    /\ sock' = [sock EXCEPT ![f] = c]
    /\ backlog' = [backlog EXCEPT ![l] = @ \ {c}]
    /\ readq' = [readq EXCEPT ![f] = Append(@, item)]
    /\ IF register
       THEN /\ clients' = [clients EXCEPT ![l] = @ \cup {f}]
            /\ linked' = [linked EXCEPT ![f] = l]
       ELSE UNCHANGED <<clients, linked>>
    /\ UNCHANGED <<peer, rx, observers>>

\* The same when accept returns -1: no connection is waiting, or no
\* descriptor is free.  Nothing ever serves the read queue of -1.
AcceptFailed(l, register) ==
    /\ backlog[l] = {} \/ FreeFds = {}
    /\ IF register
       THEN /\ clients' = [clients EXCEPT ![l] = @ \cup {BadFd}]
            /\ linked' = [linked EXCEPT ![BadFd] = l]
       ELSE UNCHANGED <<clients, linked>>
    /\ UNCHANGED <<netVars, observers, readq>>

----------------------------------------------------------------------------
(* Steps of Loop::run that call no observer.                               *)

\* A hangup of a descriptor closed earlier in the batch: force_disconnect
\* finds no observer and returns.
StaleHangup(f) ==
    /\ HangupTurn(f) /\ f \notin observers /\ linked[f] = None
    /\ DropBatch
    /\ UNCHANGED <<netVars, tableVars, queueVars, status>>

\* perform_write_queue on an empty queue, perform_read_queue on an empty
\* queue, linked_clients.at on a descriptor that is not there.
ThrowOnEvent(f) ==
    \/ WriteTurn(f) /\ f \notin observers /\ writeq[f] = <<>> /\ Throw("EmptyQueue::WRITE")
    \/ ReadTurn(f) /\ f \notin observers /\ linked[f] = None /\ Throw("out_of_range")
    \/ /\ ReadTurn(f) /\ f \notin observers /\ linked[f] # None /\ readq[f] = <<>>
       /\ Throw("EmptyQueue::READ")

\* perform_write_queue when send fails: the peer has reset the connection.
WriteFails(f) ==
    /\ WriteTurn(f) /\ f \notin observers /\ writeq[f] # <<>>
    /\ sock[f] \in Conns /\ peer[sock[f]] = "rst"
    /\ interest' = [interest EXCEPT ![f] = {"IN"}]
    /\ readq' = [readq EXCEPT ![f] = <<>>]
    /\ writeq' = [writeq EXCEPT ![f] = <<>>]
    /\ OutDone(f)
    /\ UNCHANGED <<netVars, tableVars, status>>

\* perform_write_queue when send takes the first n frames (and, without
\* showing here, perhaps a part of the next).
Write(f, n) ==
    /\ WriteTurn(f) /\ f \notin observers /\ writeq[f] # <<>> /\ n \in 0 .. Len(writeq[f])
    /\ sock[f] \in Conns /\ peer[sock[f]] # "rst"
    /\ writeq' = [writeq EXCEPT ![f] = SubSeq(@, n + 1, Len(@))]
    /\ interest' = IF n = Len(writeq[f]) THEN [interest EXCEPT ![f] = {"IN"}] ELSE interest
    /\ OutDone(f)
    /\ UNCHANGED <<netVars, tableVars, readq, status>>

\* perform_read_queue of a READ item when recv returns 0 or fails.
ReadFails(f) ==
    /\ ReadTurn(f) /\ linked[f] # None /\ readq[f] # <<>> /\ Head(readq[f]) = "READ"
    /\ sock[f] \in Conns /\ rx[sock[f]] = <<>> /\ peer[sock[f]] \in {"fin", "rst"}
    /\ readq' = [readq EXCEPT ![f] = <<>>]
    /\ writeq' = [writeq EXCEPT ![f] = <<>>]
    /\ NextEvent(f)
    /\ UNCHANGED <<netVars, tableVars, interest, status>>

\* perform_read_queue of a READ item that the bytes so far do not complete.
ReadPart(f) ==
    /\ ReadTurn(f) /\ linked[f] # None /\ readq[f] # <<>> /\ Head(readq[f]) = "READ"
    /\ sock[f] \in Conns /\ rx[sock[f]] # <<>>
    /\ NextEvent(f)
    /\ UNCHANGED <<netVars, tableVars, queueVars, status>>

----------------------------------------------------------------------------
(* What peers do to a connection that exists (external).                   *)

PeerCloses(c) == /\ peer[c] = "open" /\ peer' = [peer EXCEPT ![c] = "fin"]
                 /\ UNCHANGED <<sock, backlog, rx, tableVars, queueVars, batchVars, status>>

PeerResets(c) == /\ peer[c] \in {"open", "fin"} /\ peer' = [peer EXCEPT ![c] = "rst"]
                 /\ UNCHANGED <<sock, backlog, rx, tableVars, queueVars, batchVars, status>>

PeerConnects(c, l) == /\ peer[c] = "idle" /\ peer' = [peer EXCEPT ![c] = "open"]
                      /\ backlog' = [backlog EXCEPT ![l] = @ \cup {c}]
                      /\ UNCHANGED <<sock, rx, tableVars, queueVars, batchVars, status>>

PeerSends(c, data) == /\ peer[c] = "open" /\ rx' = [rx EXCEPT ![c] = Append(@, data)]
                      /\ UNCHANGED <<sock, backlog, peer, tableVars, queueVars, batchVars, status>>
=============================================================================
