------------------------------- MODULE Wepoll -------------------------------
(***************************************************************************)
(* The epoll of the Windows build (loop/wepoll.c), as Selector and Loop    *)
(* use it: one thread, which adds what it accepts, changes what it watches,*)
(* removes a connection before closing it, and closes a listener without   *)
(* removing it.  An epoll_wait submits poll requests to the AFD driver and *)
(* collects their completions; the driver acts at any time.                *)
(*                                                                         *)
(* A sock_state is allocated by EPOLL_CTL_ADD and must live until the      *)
(* request that writes to it is over, which may be long after the socket   *)
(* was removed and its number given to another.                            *)
(***************************************************************************)
EXTENDS Naturals, FiniteSets

CONSTANTS Socks,    \* the numbers of sockets
          States,   \* bound: the sock_states there is memory for
          Levels,   \* bound: which conditions come and go, of which sockets
          None      \* no sock_state, or no number

VARIABLES
    \* The program and the peers (external).
    socket,          \* number -> "closed", "connection" or "listener"
    level,           \* number -> the conditions that hold of it
    \* The port and its sock_states.
    sock_tree,       \* number -> its sock_state, None if not registered
    base_socket,     \* sock_state -> the number it was made for, None if not allocated
    user_events,     \* sock_state -> the events asked for
    pending_events,  \* sock_state -> those its request looks for
    poll_status,     \* sock_state -> "FREE" if not allocated, "IDLE", "PENDING", "CANCELLED"
    delete_pending,  \* sock_state -> whether it is to be freed
    queue_node,      \* sock_state -> the queue it is in: "none", "update" or "deleted"
    phase,           \* where the thread is: "user", "updating", "polling" or "feeding"
    taken,           \* the sock_states whose completions it has dequeued
    batch,           \* number -> the events epoll_wait reports
    \* The driver (external).
    request,         \* sock_state -> "none", "asked", "orphaned", "cancelled" or "done"
    asked,           \* sock_state -> the conditions its request is about
    result,          \* sock_state -> what its request found
    \* History.
    occurred         \* number -> the events true since it was registered

progVars   == <<socket, level>>
stateVars  == <<sock_tree, base_socket, user_events, pending_events, poll_status,
                delete_pending, queue_node>>
threadVars == <<phase, taken, batch>>
afdVars    == <<request, asked, result>>
vars       == <<progVars, stateVars, threadVars, afdVars, occurred>>

Conditions == {"RECEIVE", "SEND", "DISCONNECT", "ABORT"}
Outcomes   == Conditions \cup {"LOCAL_CLOSE", "CANCELLED"}
Events     == {"IN", "OUT", "RDHUP", "HUP"}

ASSUME WepollAssumption == None \notin States \cup Socks /\ Levels \subseteq Socks \X Conditions

\* EVENTS_R, and EVENTS_R | EVENT_WRITE; EPOLLHUP is asked for in any case.
ReadEvents  == {"IN", "RDHUP", "HUP"}
WriteEvents == ReadEvents \cup {"OUT"}

----------------------------------------------------------------------------
(* Events of epoll and conditions of the driver.                           *)

AfdEvents(E) ==
    {c \in Conditions \cup {"LOCAL_CLOSE"} :
        \/ c = "LOCAL_CLOSE"
        \/ c = "RECEIVE" /\ "IN" \in E
        \/ c = "SEND" /\ "OUT" \in E
        \/ c = "DISCONNECT" /\ {"IN", "RDHUP"} \cap E # {}
        \/ c = "ABORT" /\ "HUP" \in E}

EpollEvents(C) ==
    {e \in Events :
        \/ e = "IN" /\ {"RECEIVE", "DISCONNECT"} \cap C # {}
        \/ e = "OUT" /\ "SEND" \in C
        \/ e = "RDHUP" /\ "DISCONNECT" \in C
        \/ e = "HUP" /\ "ABORT" \in C}

----------------------------------------------------------------------------
Init ==
    /\ socket = [s \in Socks |-> "closed"]
    /\ level = [s \in Socks |-> {}]
    /\ sock_tree = [s \in Socks |-> None]
    /\ base_socket = [o \in States |-> None]
    /\ user_events = [o \in States |-> {}]
    /\ pending_events = [o \in States |-> {}]
    /\ poll_status = [o \in States |-> "FREE"]
    /\ delete_pending = [o \in States |-> FALSE]
    /\ queue_node = [o \in States |-> "none"]
    /\ phase = "user"
    /\ taken = {}
    /\ batch = [s \in Socks |-> {}]
    /\ request = [o \in States |-> "none"]
    /\ asked = [o \in States |-> {}]
    /\ result = [o \in States |-> {}]
    /\ occurred = [s \in Socks |-> {}]

----------------------------------------------------------------------------
(* Calls of the program, between two waits.                                *)

\* sock_new, and sock_set_event of a new one.
NewState(o, s) ==
    /\ poll_status[o] = "FREE"
    /\ sock_tree' = [sock_tree EXCEPT ![s] = o]
    /\ base_socket' = [base_socket EXCEPT ![o] = s]
    /\ user_events' = [user_events EXCEPT ![o] = ReadEvents]
    /\ poll_status' = [poll_status EXCEPT ![o] = "IDLE"]
    /\ queue_node' = [queue_node EXCEPT ![o] = "update"]
    /\ UNCHANGED <<pending_events, delete_pending>>

\* A socket is made and added.  If its number is still registered, for a
\* listener that was closed with no completion seen, EPOLL_CTL_ADD fails.
Add(s, kind, o) ==
    /\ phase = "user" /\ socket[s] = "closed"
    /\ socket' = [socket EXCEPT ![s] = kind]
    /\ IF sock_tree[s] = None THEN NewState(o, s) ELSE UNCHANGED stateVars
    /\ UNCHANGED <<level, threadVars, afdVars, occurred>>

\* Mutant of Modify: only an idle sock_state is queued.
ModifyWhenIdle(s, E) ==
    LET o == sock_tree[s] IN
    /\ phase = "user" /\ socket[s] # "closed" /\ o # None
    /\ user_events' = [user_events EXCEPT ![o] = E]
    /\ queue_node' = IF poll_status[o] # "IDLE" THEN queue_node
                     ELSE [queue_node EXCEPT ![o] = "update"]
    /\ UNCHANGED <<progVars, sock_tree, base_socket, pending_events, poll_status,
                   delete_pending, threadVars, afdVars, occurred>>

\* EPOLL_CTL_MOD: the sock_state waits for an update if its request does not
\* look for all that is asked for.
Modify(s, E) ==
    LET o == sock_tree[s] IN
    /\ phase = "user" /\ socket[s] # "closed" /\ o # None
    /\ user_events' = [user_events EXCEPT ![o] = E]
    /\ queue_node' = IF E \subseteq pending_events[o] THEN queue_node
                     ELSE [queue_node EXCEPT ![o] = "update"]
    /\ UNCHANGED <<progVars, sock_tree, base_socket, pending_events, poll_status,
                   delete_pending, threadVars, afdVars, occurred>>

\* afd_cancel_poll: what is done already stays so.
CancelPoll(o) ==
    IF request[o] = "done" THEN request ELSE [request EXCEPT ![o] = "cancelled"]

\* closesocket: a request about the socket ends.
Orphaned(s, r) ==
    [o \in States |-> IF base_socket[o] = s /\ r[o] = "asked" THEN "orphaned" ELSE r[o]]

\* sock__free.
Free(o) ==
    /\ poll_status' = [poll_status EXCEPT ![o] = "FREE"]
    /\ base_socket' = [base_socket EXCEPT ![o] = None]
    /\ user_events' = [user_events EXCEPT ![o] = {}]
    /\ delete_pending' = [delete_pending EXCEPT ![o] = FALSE]
    /\ queue_node' = [queue_node EXCEPT ![o] = "none"]

\* Mutants of Unregister: it is freed at once; it stays in the tree.
UnregisterFrees(o, status) ==
    /\ sock_tree' = [sock_tree EXCEPT ![base_socket[o]] = None]
    /\ occurred' = [occurred EXCEPT ![base_socket[o]] = {}]
    /\ pending_events' = [pending_events EXCEPT ![o] = {}]
    /\ Free(o)

UnregisterKeepsTree(o, status) ==
    /\ pending_events' = [pending_events EXCEPT ![o] = {}]
    /\ poll_status' = [poll_status EXCEPT ![o] = status]
    /\ delete_pending' = [delete_pending EXCEPT ![o] = TRUE]
    /\ queue_node' = [queue_node EXCEPT ![o] = "deleted"]
    /\ UNCHANGED <<sock_tree, base_socket, user_events, occurred>>

\* sock__delete of a sock_state not yet deleted, with the status it then has.
Unregister(o, status) ==
    /\ sock_tree' = [sock_tree EXCEPT ![base_socket[o]] = None]
    /\ occurred' = [occurred EXCEPT ![base_socket[o]] = {}]
    /\ pending_events' = [pending_events EXCEPT ![o] = {}]
    /\ IF status = "IDLE"
       THEN Free(o)
       ELSE /\ poll_status' = [poll_status EXCEPT ![o] = status]
            /\ delete_pending' = [delete_pending EXCEPT ![o] = TRUE]
            /\ queue_node' = [queue_node EXCEPT ![o] = "deleted"]
            /\ UNCHANGED <<base_socket, user_events>>

\* force_disconnect: EPOLL_CTL_DEL, then closesocket.
Remove(s) ==
    LET o == sock_tree[s] IN
    /\ phase = "user" /\ socket[s] = "connection"
    /\ IF o = None
       THEN request' = Orphaned(s, request) /\ UNCHANGED <<stateVars, occurred>>
       ELSE IF poll_status[o] = "PENDING"
       THEN Unregister(o, "CANCELLED") /\ request' = Orphaned(s, CancelPoll(o))
       ELSE Unregister(o, poll_status[o]) /\ request' = Orphaned(s, request)
    /\ socket' = [socket EXCEPT ![s] = "closed"]
    /\ level' = [level EXCEPT ![s] = {}]
    /\ UNCHANGED <<threadVars, asked, result>>

\* remove_observer closes a listener that is still registered.
CloseListener(s) ==
    /\ phase = "user" /\ socket[s] = "listener"
    /\ request' = Orphaned(s, request)
    /\ socket' = [socket EXCEPT ![s] = "closed"]
    /\ level' = [level EXCEPT ![s] = {}]
    /\ UNCHANGED <<stateVars, threadVars, asked, result, occurred>>

----------------------------------------------------------------------------
(* epoll_wait.                                                             *)

PortWait ==
    /\ phase = "user"
    /\ phase' = "updating"
    /\ batch' = [s \in Socks |-> {}]
    /\ UNCHANGED <<progVars, stateVars, taken, afdVars, occurred>>

\* sock_update of a sock_state whose request must be replaced, or is being
\* cancelled, or looks for all that is asked for.
Recancel(o) ==
    /\ phase = "updating" /\ queue_node[o] = "update"
    /\ poll_status[o] = "PENDING" /\ ~(user_events[o] \subseteq pending_events[o])
    /\ request' = CancelPoll(o)
    /\ poll_status' = [poll_status EXCEPT ![o] = "CANCELLED"]
    /\ pending_events' = [pending_events EXCEPT ![o] = {}]
    /\ queue_node' = [queue_node EXCEPT ![o] = "none"]
    /\ UNCHANGED <<progVars, sock_tree, base_socket, user_events, delete_pending, threadVars,
                   asked, result, occurred>>

LeaveAsIs(o) ==
    /\ phase = "updating" /\ queue_node[o] = "update"
    /\ \/ poll_status[o] = "CANCELLED"
       \/ poll_status[o] = "PENDING" /\ user_events[o] \subseteq pending_events[o]
    /\ queue_node' = [queue_node EXCEPT ![o] = "none"]
    /\ UNCHANGED <<progVars, sock_tree, base_socket, user_events, pending_events, poll_status,
                   delete_pending, threadVars, afdVars, occurred>>

\* No request is out: one is submitted, for the socket that has the number
\* now.  The driver answers it at once if what it asks for holds.
Submit(o) ==
    /\ phase = "updating" /\ queue_node[o] = "update" /\ poll_status[o] = "IDLE"
    /\ socket[base_socket[o]] # "closed"
    /\ asked' = [asked EXCEPT ![o] = AfdEvents(user_events[o])]
    /\ result' = [result EXCEPT ![o] = asked'[o] \cap level[base_socket[o]]]
    /\ request' = [request EXCEPT ![o] = IF result'[o] = {} THEN "asked" ELSE "done"]
    /\ poll_status' = [poll_status EXCEPT ![o] = "PENDING"]
    /\ pending_events' = [pending_events EXCEPT ![o] = user_events[o]]
    /\ queue_node' = [queue_node EXCEPT ![o] = "none"]
    /\ UNCHANGED <<progVars, sock_tree, base_socket, user_events, delete_pending, threadVars,
                   occurred>>

\* ERROR_INVALID_HANDLE: the socket was closed.
SubmitFails(o) ==
    /\ phase = "updating" /\ queue_node[o] = "update" /\ poll_status[o] = "IDLE"
    /\ socket[base_socket[o]] = "closed"
    /\ Unregister(o, "IDLE")
    /\ UNCHANGED <<progVars, threadVars, afdVars>>

Blocks ==
    /\ phase = "updating" /\ \A o \in States : queue_node[o] # "update"
    /\ phase' = "polling"
    /\ UNCHANGED <<progVars, stateVars, taken, batch, afdVars, occurred>>

\* GetQueuedCompletionStatusEx returns some of the completions there are.
Wakes(T) ==
    /\ phase = "polling" /\ T # {} /\ T \subseteq {o \in States : request[o] = "done"}
    /\ phase' = "feeding"
    /\ taken' = T
    /\ UNCHANGED <<progVars, stateVars, batch, afdVars, occurred>>

\* The completion of a request is dealt with.
Collect(o) ==
    /\ request' = [request EXCEPT ![o] = "none"]
    /\ asked' = [asked EXCEPT ![o] = {}]
    /\ result' = [result EXCEPT ![o] = {}]
    /\ taken' = taken \ {o}

\* Mutant of FeedDeleted: the sock_state is left.
FeedDeletedKept(o) ==
    /\ phase = "feeding" /\ o \in taken /\ delete_pending[o]
    /\ poll_status' = [poll_status EXCEPT ![o] = "IDLE"]
    /\ Collect(o)
    /\ UNCHANGED <<progVars, sock_tree, base_socket, user_events, pending_events, delete_pending,
                   queue_node, phase, batch, occurred>>

\* sock_feed_event: a sock_state to be deleted is freed.
FeedDeleted(o) ==
    /\ phase = "feeding" /\ o \in taken /\ delete_pending[o]
    /\ Free(o) /\ Collect(o)
    /\ pending_events' = [pending_events EXCEPT ![o] = {}]
    /\ UNCHANGED <<progVars, sock_tree, phase, batch, occurred>>

\* The socket was closed while it was registered.
FeedClosed(o) ==
    /\ phase = "feeding" /\ o \in taken /\ ~delete_pending[o] /\ "LOCAL_CLOSE" \in result[o]
    /\ Unregister(o, "IDLE") /\ Collect(o)
    /\ UNCHANGED <<progVars, phase, batch>>

\* Mutants of FeedEvents: all that was found is reported; it is not queued.
FeedAllEvents(o) ==
    /\ phase = "feeding" /\ o \in taken /\ ~delete_pending[o] /\ "LOCAL_CLOSE" \notin result[o]
    /\ poll_status' = [poll_status EXCEPT ![o] = "IDLE"]
    /\ pending_events' = [pending_events EXCEPT ![o] = {}]
    /\ queue_node' = [queue_node EXCEPT ![o] = "update"]
    /\ batch' = [batch EXCEPT ![base_socket[o]] = @ \cup EpollEvents(result[o])]
    /\ Collect(o)
    /\ UNCHANGED <<progVars, sock_tree, base_socket, user_events, delete_pending, phase, occurred>>

FeedUnqueued(o) ==
    /\ phase = "feeding" /\ o \in taken /\ ~delete_pending[o] /\ "LOCAL_CLOSE" \notin result[o]
    /\ poll_status' = [poll_status EXCEPT ![o] = "IDLE"]
    /\ pending_events' = [pending_events EXCEPT ![o] = {}]
    /\ batch' = [batch EXCEPT ![base_socket[o]] =
                    @ \cup (EpollEvents(result[o]) \cap user_events[o])]
    /\ Collect(o)
    /\ UNCHANGED <<progVars, sock_tree, base_socket, user_events, delete_pending, queue_node, phase,
                   occurred>>

\* Otherwise it is queued for the next request, and what the user asks for of
\* what was found is reported: nothing of a cancelled request.
FeedEvents(o) ==
    /\ phase = "feeding" /\ o \in taken /\ ~delete_pending[o] /\ "LOCAL_CLOSE" \notin result[o]
    /\ poll_status' = [poll_status EXCEPT ![o] = "IDLE"]
    /\ pending_events' = [pending_events EXCEPT ![o] = {}]
    /\ queue_node' = [queue_node EXCEPT ![o] = "update"]
    /\ batch' = [batch EXCEPT ![base_socket[o]] =
                    @ \cup (EpollEvents(result[o]) \cap user_events[o])]
    /\ Collect(o)
    /\ UNCHANGED <<progVars, sock_tree, base_socket, user_events, delete_pending, phase, occurred>>

\* With an event to report epoll_wait returns; with none it polls again.
Returns ==
    /\ phase = "feeding" /\ taken = {}
    /\ phase' = IF \A s \in Socks : batch[s] = {} THEN "updating" ELSE "user"
    /\ UNCHANGED <<progVars, stateVars, taken, batch, afdVars, occurred>>

----------------------------------------------------------------------------
(* The driver and the peers (external).                                    *)

Completes(o) ==
    /\ \/ /\ request[o] = "asked" /\ asked[o] \cap level[base_socket[o]] # {}
          /\ result' = [result EXCEPT ![o] = asked[o] \cap level[base_socket[o]]]
       \/ request[o] = "orphaned" /\ result' = [result EXCEPT ![o] = {"LOCAL_CLOSE"}]
       \/ request[o] = "cancelled" /\ result' = [result EXCEPT ![o] = {"CANCELLED"}]
    /\ request' = [request EXCEPT ![o] = "done"]
    /\ UNCHANGED <<progVars, stateVars, threadVars, asked, occurred>>

\* A condition begins to hold, or, as the program reads or writes, no more.
Changes(s, c) ==
    /\ socket[s] # "closed"
    /\ socket[s] = "listener" => c = "RECEIVE"
    /\ c \in level[s] => c \in {"RECEIVE", "SEND"}
    /\ level' = [level EXCEPT ![s] = IF c \in @ THEN @ \ {c} ELSE @ \cup {c}]
    /\ occurred' = IF sock_tree[s] = None THEN occurred
                   ELSE [occurred EXCEPT ![s] = @ \cup EpollEvents(level'[s])]
    /\ UNCHANGED <<socket, stateVars, threadVars, afdVars>>

Calls ==
    \/ \E s \in Socks, kind \in {"connection", "listener"}, o \in States : Add(s, kind, o)
    \/ \E s \in Socks, E \in {ReadEvents, WriteEvents} : Modify(s, E)
    \/ \E s \in Socks : Remove(s) \/ CloseListener(s)

Waiting ==
    \/ PortWait \/ Blocks \/ Returns
    \/ \E o \in States : Recancel(o) \/ LeaveAsIs(o) \/ Submit(o) \/ SubmitFails(o)
    \/ \E T \in SUBSET States : Wakes(T)
    \/ \E o \in States : FeedDeleted(o) \/ FeedClosed(o) \/ FeedEvents(o)

Next ==
    \/ Calls
    \/ Waiting
    \/ \E o \in States : Completes(o)
    \/ \E x \in Levels : Changes(x[1], x[2])

Spec == Init /\ [][Next]_vars

\* The thread goes on; the completion port is a queue, so that each completion
\* is dequeued if the thread polls again and again; the driver answers what it can.
Fairness == /\ WF_vars(Waiting)
            /\ \A o \in States : SF_vars(\E T \in SUBSET States : o \in T /\ Wakes(T))
            /\ \A o \in States : WF_vars(Completes(o))
FairSpec == Spec /\ Fairness

----------------------------------------------------------------------------
(* What is checked.                                                        *)

(* The driver never writes to memory that was freed, and no sock_state is   *)
(* idle with a request out: one that is not idle has exactly its request.   *)
RequestOwned ==
    \A o \in States : request[o] = "none" <=> poll_status[o] \in {"FREE", "IDLE"}

(* The tree holds the allocated sock_states that are not deleted, each under*)
(* its number, so that no two speak for one socket.                         *)
TreeAgrees ==
    /\ \A s \in Socks : sock_tree[s] # None =>
          /\ base_socket[sock_tree[s]] = s /\ ~delete_pending[sock_tree[s]]
          /\ poll_status[sock_tree[s]] # "FREE"
    /\ \A o \in States : poll_status[o] # "FREE" /\ ~delete_pending[o] =>
          sock_tree[base_socket[o]] = o

(* When the thread blocks, every socket it watches has a request out that   *)
(* looks for all that is asked for, or is being replaced: none can become   *)
(* ready without waking it.                                                 *)
NoMissedEvent ==
    phase = "polling" => \A s \in Socks : sock_tree[s] # None =>
        LET o == sock_tree[s] IN
        \/ poll_status[o] = "CANCELLED"
        \/ /\ poll_status[o] = "PENDING" /\ user_events[o] \subseteq pending_events[o]
           /\ asked[o] = AfdEvents(pending_events[o])

(* wepoll is an epoll: no event of an earlier owner of a number, none that  *)
(* never was, none not asked for.                                           *)
Interest == [s \in Socks |-> IF sock_tree[s] = None THEN {} ELSE user_events[sock_tree[s]]]
Abstract == INSTANCE Epoll WITH interest <- Interest, reported <- batch
EpollSpec == Abstract!ESpec

(* A condition that is watched for and lasts is reported.                   *)
Watched(s, e) == /\ socket[s] # "closed" /\ e \in EpollEvents(level[s])
                 /\ sock_tree[s] # None /\ e \in user_events[sock_tree[s]]
EventReported ==
    \A s \in Socks : \A e \in Events : Watched(s, e) ~> (e \in batch[s] \/ ~Watched(s, e))

(* A deleted sock_state is freed in the end. *)
DeletedFreed == \A o \in States : delete_pending[o] ~> ~delete_pending[o]
=============================================================================
