---------------------------- MODULE WepollProofs ----------------------------
(***************************************************************************)
(* wepoll is an epoll, and no request outlives its sock_state, for every   *)
(* set of sockets and of sock_states.                                      *)
(***************************************************************************)
EXTENDS Wepoll, TLAPS

Statuses == {"FREE", "IDLE", "PENDING", "CANCELLED"}
Requests == {"none", "asked", "orphaned", "cancelled", "done"}

Types ==
    /\ socket \in [Socks -> {"closed", "connection", "listener"}]
    /\ level \in [Socks -> SUBSET Conditions]
    /\ sock_tree \in [Socks -> States \cup {None}]
    /\ base_socket \in [States -> Socks \cup {None}]
    /\ user_events \in [States -> SUBSET Events]
    /\ pending_events \in [States -> SUBSET Events]
    /\ poll_status \in [States -> Statuses]
    /\ delete_pending \in [States -> BOOLEAN]
    /\ queue_node \in [States -> {"none", "update", "deleted"}]
    /\ phase \in {"user", "updating", "polling", "feeding"}
    /\ taken \in SUBSET States
    /\ batch \in [Socks -> SUBSET Events]
    /\ request \in [States -> Requests]
    /\ asked \in [States -> SUBSET Outcomes]
    /\ result \in [States -> SUBSET Outcomes]
    /\ occurred \in [Socks -> SUBSET Events]

Live(o) == poll_status[o] # "FREE" /\ ~delete_pending[o]

\* What is allocated has a number, and asks for something; what is not has
\* nothing; what is deleted waits for a cancelled request.
Allocation ==
    \A o \in States :
        /\ poll_status[o] # "FREE" => base_socket[o] \in Socks /\ user_events[o] # {}
        /\ poll_status[o] = "FREE" => ~delete_pending[o]
        /\ queue_node[o] = "update" => Live(o)
        /\ poll_status[o] = "IDLE" => queue_node[o] = "update"

\* What a request looks for, and that a live sock_state not queued for an
\* update looks for all that is asked for.
LookedFor ==
    \A o \in States :
        /\ poll_status[o] = "PENDING" => asked[o] = AfdEvents(pending_events[o])
        /\ poll_status[o] = "PENDING" /\ Live(o) /\ queue_node[o] # "update" =>
              user_events[o] \subseteq pending_events[o]

\* Where the thread is: outside of a batch nothing is dequeued, and what it
\* has still to deal with has reported nothing yet.
Batches ==
    /\ \A o \in taken : request[o] = "done"
    /\ phase # "feeding" => taken = {}
    /\ phase \in {"updating", "polling"} => \A s \in Socks : batch[s] = {}
    /\ \A o \in taken : ~delete_pending[o] => batch[base_socket[o]] = {}
    /\ phase = "polling" => \A o \in States : queue_node[o] # "update"

\* What the driver finds has occurred since the number was registered.
Found ==
    /\ \A s \in Socks : socket[s] = "closed" => level[s] = {}
    /\ \A s \in Socks : sock_tree[s] # None => EpollEvents(level[s]) \subseteq occurred[s]
    /\ \A o \in States : Live(o) => EpollEvents(result[o]) \subseteq occurred[base_socket[o]]
    /\ \A o \in States : request[o] = "none" => result[o] = {}

IInv == Types /\ RequestOwned /\ TreeAgrees /\ Allocation /\ LookedFor /\ Batches /\ Found

----------------------------------------------------------------------------
(* The events of a set of conditions grow with it. *)
LEMMA EventsMonotone ==
    ASSUME NEW C, NEW D, C \subseteq D
    PROVE  EpollEvents(C) \subseteq EpollEvents(D)
BY DEF EpollEvents

(* A cancelled request, and one whose socket was closed, report nothing. *)
LEMMA NothingFound ==
    EpollEvents({}) = {} /\ EpollEvents({"LOCAL_CLOSE"}) = {} /\ EpollEvents({"CANCELLED"}) = {}
BY DEF EpollEvents

(* Types of the conversions. *)
LEMMA ConversionTypes ==
    /\ \A C : EpollEvents(C) \in SUBSET Events
    /\ \A E : AfdEvents(E) \in SUBSET Outcomes
    /\ ReadEvents \in SUBSET Events /\ WriteEvents \in SUBSET Events
    /\ ReadEvents # {} /\ WriteEvents # {}
BY DEF EpollEvents, AfdEvents, Events, Outcomes, Conditions, ReadEvents, WriteEvents

(* Initially. *)
LEMMA InitIInv == Init => IInv
<1> SUFFICES ASSUME Init PROVE IInv
  OBVIOUS
<1> USE WepollAssumption DEF Init
<1>1. Types
  BY DEF Types, Statuses, Requests
<1>2. RequestOwned /\ TreeAgrees
  BY DEF RequestOwned, TreeAgrees
<1>3. Allocation /\ LookedFor /\ Batches
  BY DEF Allocation, LookedFor, Batches, Live
<1>4. Found
  BY NothingFound DEF Found, Live
<1> QED  BY <1>1, <1>2, <1>3, <1>4 DEF IInv

(* What deleting a sock_state leaves is typed. *)
LEMMA UnregisterTypes ==
    ASSUME Types, NEW o \in States, base_socket[o] \in Socks,
           NEW status \in Statuses, Unregister(o, status)
    PROVE  /\ sock_tree' \in [Socks -> States \cup {None}]
           /\ base_socket' \in [States -> Socks \cup {None}]
           /\ user_events' \in [States -> SUBSET Events]
           /\ pending_events' \in [States -> SUBSET Events]
           /\ poll_status' \in [States -> Statuses]
           /\ delete_pending' \in [States -> BOOLEAN]
           /\ queue_node' \in [States -> {"none", "update", "deleted"}]
           /\ occurred' \in [Socks -> SUBSET Events]
BY ZenonT(60) DEF Types, Unregister, Free, Statuses

(* Registering a number that is not in the tree allocates its sock_state. *)
LEMMA AddKeeps ==
    ASSUME IInv, NEW s \in Socks, NEW kind \in {"connection", "listener"}, NEW o \in States,
           Add(s, kind, o)
    PROVE  IInv'
<1> USE DEF IInv, Types, Add, progVars, stateVars, threadVars, afdVars
<1>1. Types'
  BY ConversionTypes DEF NewState, Statuses, Requests
<1>2. RequestOwned'
  BY DEF RequestOwned, NewState
<1>3. TreeAgrees'
  BY WepollAssumption, SMTT(30) DEF TreeAgrees, Allocation, NewState
<1>4. Allocation'
  BY ConversionTypes DEF Allocation, Live, NewState
<1>5. LookedFor'
  BY DEF LookedFor, Live, NewState
<1>6. Batches'
  BY DEF Batches
<1>7. Found'
  <2>1. CASE sock_tree[s] = None
    <3>1. level[s] = {} /\ EpollEvents({}) = {}
      BY NothingFound DEF Found
    <3>2. request[o] = "none" /\ result[o] = {}
      BY <2>1 DEF NewState, RequestOwned, Found
    <3>3. \A p \in States \ {o} : Live(p)' <=> Live(p)
      BY <2>1 DEF NewState, Live
    <3> QED  BY <2>1, <3>1, <3>2, <3>3, WepollAssumption, ZenonT(60) DEF NewState, Found, Live, Allocation
  <2>2. CASE sock_tree[s] # None
    BY <2>2 DEF Found, Live, Allocation
  <2> QED  BY <2>1, <2>2
<1> QED  BY <1>1, <1>2, <1>3, <1>4, <1>5, <1>6, <1>7

(* What is asked for changes, and the sock_state is queued. *)
LEMMA ModifyKeeps ==
    ASSUME IInv, NEW s \in Socks, NEW E \in {ReadEvents, WriteEvents},
           Modify(s, E)
    PROVE  IInv'
<1> USE DEF IInv, Types, Modify, progVars, stateVars, threadVars, afdVars
<1>1. Types'
  BY ConversionTypes
<1>2. RequestOwned'
  BY DEF RequestOwned
<1>3. TreeAgrees'
  BY DEF TreeAgrees
<1>4. Allocation'
  BY ConversionTypes DEF Allocation, TreeAgrees, Live
<1>5. LookedFor'
  BY DEF LookedFor, Live
<1>6. Batches'
  BY DEF Batches
<1>7. Found'
  BY DEF Found, Live
<1> QED  BY <1>1, <1>2, <1>3, <1>4, <1>5, <1>6, <1>7

(* A number that leaves the epoll before it is closed. *)
LEMMA RemoveKeeps ==
    ASSUME IInv, NEW s \in Socks,
           Remove(s)
    PROVE  IInv'
<1> USE DEF IInv, Types, Remove, progVars, stateVars, threadVars, afdVars
<1>1. Types'
  <2>1. request' \in [States -> Requests]
    BY DEF Orphaned, CancelPoll, Requests
  <2>2. CASE sock_tree[s] = None
    BY <2>1, <2>2
  <2>3. CASE sock_tree[s] # None
    <3> DEFINE o == sock_tree[s]
    <3>1. o \in States /\ base_socket[o] \in Socks /\ poll_status[o] \in Statuses
      BY <2>3 DEF TreeAgrees
    <3>2. \E status \in Statuses : Unregister(o, status)
      BY <2>3, <3>1 DEF Statuses
    <3>3. /\ sock_tree' \in [Socks -> States \cup {None}]
          /\ base_socket' \in [States -> Socks \cup {None}]
          /\ user_events' \in [States -> SUBSET Events]
          /\ pending_events' \in [States -> SUBSET Events]
          /\ poll_status' \in [States -> Statuses]
          /\ delete_pending' \in [States -> BOOLEAN]
          /\ queue_node' \in [States -> {"none", "update", "deleted"}]
          /\ occurred' \in [Socks -> SUBSET Events]
      BY <3>1, <3>2, UnregisterTypes
    <3>4. socket' \in [Socks -> {"closed", "connection", "listener"}] /\ level' \in [Socks -> SUBSET Conditions]
      OBVIOUS
    <3>5. UNCHANGED <<phase, taken, batch, asked, result>>
      OBVIOUS
    <3> QED  BY <2>1, <3>3, <3>4, <3>5
  <2> QED  BY <2>2, <2>3
<1>2. RequestOwned'
  BY SMTT(30) DEF RequestOwned, Unregister, Free, CancelPoll, Orphaned
<1>3. TreeAgrees'
  BY SMTT(30) DEF TreeAgrees, RequestOwned, Allocation, Unregister, Free, CancelPoll, Orphaned
<1>4. Allocation'
  BY DEF Allocation, TreeAgrees, Live, Unregister, Free, CancelPoll, Orphaned
<1>5. LookedFor'
  BY DEF LookedFor, Live, Unregister, Free, CancelPoll, Orphaned
<1>6. Batches'
  BY DEF Batches, Free, CancelPoll, Orphaned
<1>7. Found'
  BY DEF Found, TreeAgrees, Allocation, Live, Unregister, Free, CancelPoll, Orphaned
<1> QED  BY <1>1, <1>2, <1>3, <1>4, <1>5, <1>6, <1>7

(* A listener is closed while registered. *)
LEMMA CloseListenerKeeps ==
    ASSUME IInv, NEW s \in Socks,
           CloseListener(s)
    PROVE  IInv'
<1> USE DEF IInv, Types, CloseListener, progVars, stateVars, threadVars, afdVars
<1>1. Types'
  BY DEF Requests, Orphaned
<1>2. RequestOwned'
  BY DEF RequestOwned, Orphaned
<1>3. TreeAgrees'
  BY DEF TreeAgrees, Orphaned
<1>4. Allocation'
  BY DEF Allocation, Live, Orphaned
<1>5. LookedFor'
  BY DEF LookedFor, Live, Orphaned
<1>6. Batches'
  BY DEF Batches, Orphaned
<1>7. Found'
  BY EventsMonotone DEF Found, Live, Orphaned
<1> QED  BY <1>1, <1>2, <1>3, <1>4, <1>5, <1>6, <1>7

(* epoll_wait begins. *)
LEMMA PortWaitKeeps ==
    ASSUME IInv,
           PortWait
    PROVE  IInv'
<1> USE DEF IInv, Types, PortWait, progVars, stateVars, threadVars, afdVars
<1>1. Types'
  OBVIOUS
<1>2. RequestOwned'
  BY DEF RequestOwned
<1>3. TreeAgrees'
  BY DEF TreeAgrees
<1>4. Allocation'
  BY DEF Allocation, Live
<1>5. LookedFor'
  BY DEF LookedFor, Live
<1>6. Batches'
  BY DEF Batches
<1>7. Found'
  BY DEF Found, Live
<1> QED  BY <1>1, <1>2, <1>3, <1>4, <1>5, <1>6, <1>7

(* A request that looks for less is replaced. *)
LEMMA RecancelKeeps ==
    ASSUME IInv, NEW o \in States,
           Recancel(o)
    PROVE  IInv'
<1> USE DEF IInv, Types, Recancel, progVars, stateVars, threadVars, afdVars
<1>1. Types'
  BY DEF Statuses, Requests, CancelPoll
<1>2. RequestOwned'
  BY DEF RequestOwned, CancelPoll
<1>3. TreeAgrees'
  BY DEF TreeAgrees, CancelPoll
<1>4. Allocation'
  BY DEF Allocation, Live, CancelPoll
<1>5. LookedFor'
  BY DEF LookedFor, Live, CancelPoll
<1>6. Batches'
  BY DEF Batches, CancelPoll
<1>7. Found'
  BY DEF Found, Live, CancelPoll
<1> QED  BY <1>1, <1>2, <1>3, <1>4, <1>5, <1>6, <1>7

(* A request that looks for enough is left. *)
LEMMA LeaveAsIsKeeps ==
    ASSUME IInv, NEW o \in States,
           LeaveAsIs(o)
    PROVE  IInv'
<1> USE DEF IInv, Types, LeaveAsIs, progVars, stateVars, threadVars, afdVars
<1>1. Types'
  OBVIOUS
<1>2. RequestOwned'
  BY DEF RequestOwned
<1>3. TreeAgrees'
  BY DEF TreeAgrees
<1>4. Allocation'
  BY DEF Allocation, Live
<1>5. LookedFor'
  BY DEF LookedFor, Live
<1>6. Batches'
  BY DEF Batches
<1>7. Found'
  BY DEF Found, Live
<1> QED  BY <1>1, <1>2, <1>3, <1>4, <1>5, <1>6, <1>7

(* A request is made. *)
LEMMA SubmitKeeps ==
    ASSUME IInv, NEW o \in States,
           Submit(o)
    PROVE  IInv'
<1> USE DEF IInv, Types, Submit, progVars, stateVars, threadVars, afdVars
<1>1. Types'
  BY ConversionTypes DEF Statuses, Requests
<1>2. RequestOwned'
  BY DEF RequestOwned
<1>3. TreeAgrees'
  BY DEF TreeAgrees
<1>4. Allocation'
  BY DEF Allocation, Live
<1>5. LookedFor'
  BY DEF LookedFor, Live
<1>6. Batches'
  BY DEF Batches
<1>7. Found'
  BY WepollAssumption, EventsMonotone, SMTT(30) DEF Found, TreeAgrees, Allocation, Live
<1> QED  BY <1>1, <1>2, <1>3, <1>4, <1>5, <1>6, <1>7

(* The socket of the request was closed. *)
LEMMA SubmitFailsKeeps ==
    ASSUME IInv, NEW o \in States,
           SubmitFails(o)
    PROVE  IInv'
<1> USE DEF IInv, Types, SubmitFails, progVars, stateVars, threadVars, afdVars
<1>1. Types'
  <2>1. base_socket[o] \in Socks
    BY DEF Allocation
  <2> QED  BY <2>1, ZenonT(60) DEF Unregister, Free, Statuses
<1>2. RequestOwned'
  BY DEF RequestOwned, Unregister, Free
<1>3. TreeAgrees'
  BY DEF TreeAgrees, Allocation, Live, Unregister, Free
<1>4. Allocation'
  BY DEF Allocation, Live, Unregister, Free
<1>5. LookedFor'
  BY DEF LookedFor, Live, Unregister, Free
<1>6. Batches'
  BY DEF Batches, Free
<1>7. Found'
  BY DEF Found, TreeAgrees, Allocation, Live, Unregister, Free
<1> QED  BY <1>1, <1>2, <1>3, <1>4, <1>5, <1>6, <1>7

(* Everything queued was dealt with. *)
LEMMA BlocksKeeps ==
    ASSUME IInv,
           Blocks
    PROVE  IInv'
<1> USE DEF IInv, Types, Blocks, progVars, stateVars, threadVars, afdVars
<1>1. Types'
  OBVIOUS
<1>2. RequestOwned'
  BY DEF RequestOwned
<1>3. TreeAgrees'
  BY DEF TreeAgrees
<1>4. Allocation'
  BY DEF Allocation
<1>5. LookedFor'
  BY DEF LookedFor, Live
<1>6. Batches'
  BY DEF Batches
<1>7. Found'
  BY DEF Found, Live
<1> QED  BY <1>1, <1>2, <1>3, <1>4, <1>5, <1>6, <1>7

(* Completions are dequeued. *)
LEMMA WakesKeeps ==
    ASSUME IInv, NEW T \in SUBSET States,
           Wakes(T)
    PROVE  IInv'
<1> USE DEF IInv, Types, Wakes, progVars, stateVars, threadVars, afdVars
<1>1. Types'
  OBVIOUS
<1>2. RequestOwned'
  BY DEF RequestOwned
<1>3. TreeAgrees'
  BY DEF TreeAgrees
<1>4. Allocation'
  BY DEF Allocation, Batches
<1>5. LookedFor'
  BY DEF LookedFor, Live
<1>6. Batches'
  BY DEF Batches, Allocation, RequestOwned
<1>7. Found'
  BY DEF Found, Live
<1> QED  BY <1>1, <1>2, <1>3, <1>4, <1>5, <1>6, <1>7

(* The last request of a deleted sock_state. *)
LEMMA FeedDeletedKeeps ==
    ASSUME IInv, NEW o \in States,
           FeedDeleted(o)
    PROVE  IInv'
<1> USE DEF IInv, Types, FeedDeleted, progVars, stateVars, threadVars, afdVars
<1>1. Types'
  BY DEF Statuses, Requests, Free, Collect
<1>2. RequestOwned'
  BY DEF RequestOwned, Free, Collect
<1>3. TreeAgrees'
  BY DEF TreeAgrees, Free, Collect
<1>4. Allocation'
  BY DEF Allocation, Live, Free, Collect
<1>5. LookedFor'
  BY DEF LookedFor, Live, Free, Collect
<1>6. Batches'
  BY DEF Batches, Free, Collect
<1>7. Found'
  BY DEF Found, Live, Free, Collect
<1> QED  BY <1>1, <1>2, <1>3, <1>4, <1>5, <1>6, <1>7

(* The socket was closed with the request out. *)
LEMMA FeedClosedKeeps ==
    ASSUME IInv, NEW o \in States,
           FeedClosed(o)
    PROVE  IInv'
<1> USE DEF IInv, Types, FeedClosed, progVars, stateVars, threadVars, afdVars
<1>1. Types'
  <2>1. base_socket[o] \in Socks
    BY DEF Allocation, Batches, RequestOwned
  <2> QED  BY <2>1, ZenonT(60) DEF Unregister, Free, Collect, Statuses, Requests
<1>2. RequestOwned'
  BY DEF RequestOwned, Unregister, Free, Collect
<1>3. TreeAgrees'
  BY DEF TreeAgrees, RequestOwned, Batches, Unregister, Free, Collect
<1>4. Allocation'
  BY DEF Allocation, Live, Unregister, Free, Collect
<1>5. LookedFor'
  BY DEF LookedFor, Live, Unregister, Free, Collect
<1>6. Batches'
  BY DEF Batches, Unregister, Free, Collect
<1>7. Found'
  BY DEF Found, TreeAgrees, RequestOwned, Live, Unregister, Free, Collect
<1> QED  BY <1>1, <1>2, <1>3, <1>4, <1>5, <1>6, <1>7

(* What a request found is reported. *)
LEMMA FeedEventsKeeps ==
    ASSUME IInv, NEW o \in States,
           FeedEvents(o)
    PROVE  IInv'
<1> USE DEF IInv, Types, FeedEvents, progVars, stateVars, threadVars, afdVars
<1>1. Types'
  BY DEF Statuses, Requests, Collect
<1>2. RequestOwned'
  BY DEF RequestOwned, Collect
<1>3. TreeAgrees'
  BY DEF TreeAgrees, RequestOwned, Batches, Collect
<1>4. Allocation'
  BY DEF Allocation, RequestOwned, Batches, Live, Collect
<1>5. LookedFor'
  BY DEF LookedFor, Live, Collect
<1>6. Batches'
  BY DEF Batches, TreeAgrees, RequestOwned, Collect
<1>7. Found'
  BY NothingFound DEF Found, Live, Collect
<1> QED  BY <1>1, <1>2, <1>3, <1>4, <1>5, <1>6, <1>7

(* The batch is dealt with. *)
LEMMA ReturnsKeeps ==
    ASSUME IInv,
           Returns
    PROVE  IInv'
<1> USE DEF IInv, Types, Returns, progVars, stateVars, threadVars, afdVars
<1>1. Types'
  OBVIOUS
<1>2. RequestOwned'
  BY DEF RequestOwned
<1>3. TreeAgrees'
  BY DEF TreeAgrees
<1>4. Allocation'
  BY DEF Allocation, Live
<1>5. LookedFor'
  BY DEF LookedFor, Live
<1>6. Batches'
  BY DEF Batches
<1>7. Found'
  BY DEF Found, Live
<1> QED  BY <1>1, <1>2, <1>3, <1>4, <1>5, <1>6, <1>7

(* The driver answers. *)
LEMMA CompletesKeeps ==
    ASSUME IInv, NEW o \in States,
           Completes(o)
    PROVE  IInv'
<1> USE DEF IInv, Types, Completes, progVars, stateVars, threadVars, afdVars
<1>1. Types'
  BY DEF Requests, Outcomes
<1>2. RequestOwned'
  BY DEF RequestOwned
<1>3. TreeAgrees'
  BY DEF TreeAgrees
<1>4. Allocation'
  BY DEF Allocation, Live
<1>5. LookedFor'
  BY DEF LookedFor, Live
<1>6. Batches'
  BY DEF Batches
<1>7. Found'
  <2>1. Live(o) => /\ base_socket[o] \in Socks
                   /\ EpollEvents(level[base_socket[o]]) \subseteq occurred[base_socket[o]]
    BY WepollAssumption DEF Found, TreeAgrees, Allocation, Live
  <2>2. \/ EpollEvents(result'[o]) = {}
        \/ EpollEvents(result'[o]) \subseteq EpollEvents(level[base_socket[o]])
    <3>1. CASE result' = [result EXCEPT ![o] = asked[o] \cap level[base_socket[o]]]
      BY <3>1, EventsMonotone
    <3>2. CASE result' = [result EXCEPT ![o] = {"LOCAL_CLOSE"}]
      BY <3>2, NothingFound
    <3>3. CASE result' = [result EXCEPT ![o] = {"CANCELLED"}]
      BY <3>3, NothingFound
    <3> QED  BY <3>1, <3>2, <3>3
  <2>3. Live(o) => EpollEvents(result'[o]) \subseteq occurred[base_socket[o]]
    BY <2>1, <2>2
  <2>4. \A p \in States \ {o} : result'[p] = result[p] /\ request'[p] = request[p]
    OBVIOUS
  <2> QED  BY <2>3, <2>4 DEF Found, Live
<1> QED  BY <1>1, <1>2, <1>3, <1>4, <1>5, <1>6, <1>7

(* A socket changes. *)
LEMMA ChangesKeeps ==
    ASSUME IInv, NEW s \in Socks, NEW c \in Conditions,
           Changes(s, c)
    PROVE  IInv'
<1> USE DEF IInv, Types, Changes, progVars, stateVars, threadVars, afdVars
<1>1. Types'
  BY ConversionTypes
<1>2. RequestOwned'
  BY DEF RequestOwned
<1>3. TreeAgrees'
  BY DEF TreeAgrees
<1>4. Allocation'
  BY DEF Allocation, Live
<1>5. LookedFor'
  BY DEF LookedFor, Live
<1>6. Batches'
  BY DEF Batches
<1>7. Found'
  BY DEF Found, Live
<1> QED  BY <1>1, <1>2, <1>3, <1>4, <1>5, <1>6, <1>7

----------------------------------------------------------------------------
(* Every step keeps the invariant. *)
LEMMA NextKeeps == IInv /\ [Next]_vars => IInv'
<1> SUFFICES ASSUME IInv, [Next]_vars PROVE IInv'
  OBVIOUS
<1>1. CASE Calls
  BY <1>1, AddKeeps, ModifyKeeps, RemoveKeeps, CloseListenerKeeps DEF Calls
<1>2. CASE Waiting
  BY <1>2, PortWaitKeeps, BlocksKeeps, ReturnsKeeps, RecancelKeeps, LeaveAsIsKeeps, SubmitKeeps,
     SubmitFailsKeeps, WakesKeeps, FeedDeletedKeeps, FeedClosedKeeps, FeedEventsKeeps DEF Waiting
<1>3. CASE \E o \in States : Completes(o)
  BY <1>3, CompletesKeeps
<1>4. CASE \E x \in Levels : Changes(x[1], x[2])
  <2>1. PICK x \in Levels : Changes(x[1], x[2])
    BY <1>4
  <2>2. x[1] \in Socks /\ x[2] \in Conditions
    BY WepollAssumption
  <2> QED  BY <2>1, <2>2, ChangesKeeps
<1>5. CASE UNCHANGED vars
  BY <1>5 DEF vars, progVars, stateVars, threadVars, afdVars, IInv, Types, RequestOwned, TreeAgrees,
     Allocation, LookedFor, Batches, Found, Live
<1> QED  BY <1>1, <1>2, <1>3, <1>4, <1>5 DEF Next

(* The invariant holds in every reachable state. *)
LEMMA InvariantHolds == Spec => []IInv
<1>1. Init => IInv
  BY InitIInv
<1>2. IInv /\ [Next]_vars => IInv'
  BY NextKeeps
<1> QED  BY <1>1, <1>2, PTL DEF Spec

(* In every reachable state the driver has a request of exactly the         *)
(* sock_states that are not idle, so that it never writes to freed memory.  *)
THEOREM RequestsOwned == Spec => []RequestOwned
<1>1. IInv => RequestOwned
  BY DEF IInv
<1> QED  BY <1>1, InvariantHolds, PTL

(* The tree and the sock_states agree: no two live ones speak for a socket. *)
THEOREM TreeCorrect == Spec => []TreeAgrees
<1>1. IInv => TreeAgrees
  BY DEF IInv
<1> QED  BY <1>1, InvariantHolds, PTL

(* The thread never blocks on a request that looks for less than is asked   *)
(* for.                                                                     *)
THEOREM NoneMissed == Spec => []NoMissedEvent
<1>1. IInv => NoMissedEvent
  <2> SUFFICES ASSUME IInv, phase = "polling", NEW s \in Socks, sock_tree[s] # None
               PROVE  \/ poll_status[sock_tree[s]] = "CANCELLED"
                      \/ /\ poll_status[sock_tree[s]] = "PENDING"
                         /\ user_events[sock_tree[s]] \subseteq pending_events[sock_tree[s]]
                         /\ asked[sock_tree[s]] = AfdEvents(pending_events[sock_tree[s]])
    BY DEF NoMissedEvent
  <2>1. sock_tree[s] \in States /\ Live(sock_tree[s])
    BY DEF IInv, Types, TreeAgrees, Live
  <2>2. queue_node[sock_tree[s]] # "update" /\ poll_status[sock_tree[s]] \in {"PENDING", "CANCELLED"}
    BY <2>1 DEF IInv, Types, Batches, Allocation, Live, Statuses
  <2> QED  BY <2>1, <2>2 DEF IInv, LookedFor
<1> QED  BY <1>1, InvariantHolds, PTL

----------------------------------------------------------------------------
(* A step that leaves the tree and what is asked for leaves the interest. *)
LEMMA SameInterest ==
    ASSUME UNCHANGED <<sock_tree, user_events>>
    PROVE  Interest' = Interest
BY DEF Interest

(* What changes for one sock_state of the tree, changes for its number. *)
LEMMA InterestChanges ==
    ASSUME Types, TreeAgrees, NEW s \in Socks, sock_tree[s] # None, NEW E,
           user_events' = [user_events EXCEPT ![sock_tree[s]] = E], UNCHANGED sock_tree
    PROVE  Interest' = [Interest EXCEPT ![s] = E]
<1>1. sock_tree[s] \in States
  BY DEF Types
<1>2. \A r \in Socks \ {s} : sock_tree[r] # None => sock_tree[r] # sock_tree[s]
  BY DEF TreeAgrees
<1>3. \A r \in Socks \ {s} : Interest'[r] = Interest[r]
  BY <1>1, <1>2 DEF Types, Interest
<1>4. Interest'[s] = E
  BY <1>1 DEF Types, Interest
<1>5. /\ Interest = [r \in Socks |-> Interest[r]]
      /\ Interest' = [r \in Socks |-> Interest'[r]]
  BY DEF Interest
<1> QED  BY <1>3, <1>4, <1>5

(* Deleting a sock_state drops its number. *)
LEMMA UnregisterDrops ==
    ASSUME IInv, NEW o \in States, Live(o), NEW status, Unregister(o, status), UNCHANGED batch
    PROVE  Abstract!Drop(base_socket[o]) /\ base_socket[o] \in Socks
<1>1. base_socket[o] \in Socks /\ sock_tree[base_socket[o]] = o
  BY DEF IInv, Live, Allocation, TreeAgrees
<1>2. \A s \in Socks \ {base_socket[o]} : sock_tree[s] # o
  BY <1>1, WepollAssumption DEF IInv, TreeAgrees
<1>3. \A s \in Socks \ {base_socket[o]} : Interest'[s] = Interest[s]
  BY <1>1, <1>2 DEF IInv, Types, Interest, Unregister, Free
<1>4. Interest'[base_socket[o]] = {}
  BY <1>1 DEF IInv, Types, Interest, Unregister, Free
<1>5. Interest' = [Interest EXCEPT ![base_socket[o]] = {}]
  BY <1>1, <1>3, <1>4 DEF Interest
<1>6. occurred' = [occurred EXCEPT ![base_socket[o]] = {}]
  BY DEF Unregister
<1> QED  BY <1>1, <1>5, <1>6 DEF Abstract!Drop

(* The interest of a number that is registered is not empty. *)
LEMMA Interested ==
    ASSUME IInv, NEW s \in Socks
    PROVE  /\ sock_tree[s] = None => Interest[s] = {}
           /\ sock_tree[s] # None => Interest[s] = user_events[sock_tree[s]] /\ Interest[s] # {}
BY DEF IInv, Types, TreeAgrees, Allocation, Interest

(* Every step is one of the abstract epoll, or none. *)
LEMMA EpollStep ==
    ASSUME IInv, [Next]_vars
    PROVE  [Abstract!ENext]_<<Interest, occurred, batch>>
<1> USE DEF progVars, stateVars, threadVars, afdVars
<1>1. ASSUME NEW s \in Socks, NEW kind \in {"connection", "listener"}, NEW o \in States, Add(s, kind, o)
      PROVE  [Abstract!ENext]_<<Interest, occurred, batch>>
  <2>1. CASE sock_tree[s] = None
    <3>1. \A r \in Socks : sock_tree[r] # o
      BY <1>1, <2>1, WepollAssumption DEF IInv, TreeAgrees, Add, NewState
    <3>2. Interest' = [Interest EXCEPT ![s] = ReadEvents]
      <4>1. \A r \in Socks \ {s} : Interest'[r] = Interest[r]
        BY <1>1, <2>1, <3>1 DEF IInv, Types, Interest, Add, NewState
      <4>2. Interest'[s] = ReadEvents
        BY <1>1, <2>1, WepollAssumption DEF IInv, Types, Interest, Add, NewState
      <4> QED  BY <4>1, <4>2 DEF Interest
    <3>3. occurred' = [occurred EXCEPT ![s] = occurred[s]] /\ occurred[s] \in SUBSET Events
      BY <1>1 DEF IInv, Types, Add
    <3>4. Abstract!Register(s)
      BY <1>1, <2>1, <3>2, <3>3, Interested, ConversionTypes DEF Abstract!Register, Add
    <3> QED  BY <3>4 DEF Abstract!ENext
  <2>2. CASE sock_tree[s] # None
    BY <1>1, <2>2, SameInterest DEF Add
  <2> QED  BY <2>1, <2>2
<1>2. ASSUME NEW s \in Socks, NEW E \in {ReadEvents, WriteEvents}, Modify(s, E)
      PROVE  [Abstract!ENext]_<<Interest, occurred, batch>>
  <2>1. Interest' = [Interest EXCEPT ![s] = E]
    BY <1>2, InterestChanges DEF IInv, Modify
  <2>2. Interest[s] # {} /\ E \in SUBSET Events
    BY <1>2, Interested, ConversionTypes DEF Modify
  <2>3. Abstract!Modify(s)
    BY <1>2, <2>1, <2>2 DEF Abstract!Modify, Modify
  <2> QED  BY <2>3 DEF Abstract!ENext
<1>3. ASSUME NEW s \in Socks, Remove(s)
      PROVE  [Abstract!ENext]_<<Interest, occurred, batch>>
  <2>1. CASE sock_tree[s] = None
    BY <1>3, <2>1, SameInterest DEF Remove
  <2>2. CASE sock_tree[s] # None
    <3>1. sock_tree[s] \in States /\ Live(sock_tree[s])
      BY <2>2 DEF IInv, Types, TreeAgrees, Live
    <3>2. \E status : Unregister(sock_tree[s], status)
      BY <1>3, <2>2 DEF Remove
    <3>3. UNCHANGED batch
      BY <1>3 DEF Remove
    <3>4. \E r \in Socks : Abstract!Drop(r)
      BY <3>1, <3>2, <3>3, UnregisterDrops
    <3> QED  BY <3>4 DEF Abstract!ENext
  <2> QED  BY <2>1, <2>2
<1>4. ASSUME NEW o \in States, SubmitFails(o) \/ FeedClosed(o)
      PROVE  [Abstract!ENext]_<<Interest, occurred, batch>>
  <2>1. Live(o)
    BY <1>4 DEF IInv, Allocation, Batches, RequestOwned, SubmitFails, FeedClosed, Live
  <2>2. Unregister(o, "IDLE") /\ UNCHANGED batch
    BY <1>4 DEF SubmitFails, FeedClosed
  <2>3. \E r \in Socks : Abstract!Drop(r)
    BY <2>1, <2>2, UnregisterDrops
  <2> QED  BY <2>3 DEF Abstract!ENext
<1>5. ASSUME NEW o \in States, FeedDeleted(o)
      PROVE  [Abstract!ENext]_<<Interest, occurred, batch>>
  <2>1. \A s \in Socks : sock_tree[s] # o
    BY <1>5, WepollAssumption DEF IInv, TreeAgrees, FeedDeleted
  <2>2. Interest' = Interest
    BY <1>5, <2>1 DEF IInv, Types, Interest, FeedDeleted, Free
  <2> QED  BY <1>5, <2>2 DEF FeedDeleted
<1>6. ASSUME NEW o \in States, FeedEvents(o)
      PROVE  [Abstract!ENext]_<<Interest, occurred, batch>>
  <2> DEFINE s == base_socket[o]
             E == EpollEvents(result[o]) \cap user_events[o]
  <2>1. Live(o) /\ s \in Socks /\ sock_tree[s] = o
    BY <1>6 DEF IInv, TreeAgrees, Allocation, Batches, RequestOwned, FeedEvents, Live
  <2>2. batch[s] = {} /\ E \subseteq occurred[s]
    BY <1>6, <2>1 DEF IInv, Batches, Found, FeedEvents
  <2>3. E \subseteq Interest[s]
    BY <2>1, WepollAssumption DEF Interest
  <2>4. batch' = [batch EXCEPT ![s] = E]
    BY <1>6, <2>1, <2>2 DEF IInv, Types, FeedEvents
  <2>5. Interest' = Interest
    BY <1>6, SameInterest DEF FeedEvents
  <2>6. Abstract!Report(s)
    BY <1>6, <2>2, <2>3, <2>4, <2>5 DEF Abstract!Report, FeedEvents
  <2> QED  BY <2>1, <2>6 DEF Abstract!ENext
<1>7. ASSUME NEW s \in Socks, NEW c \in Conditions, Changes(s, c)
      PROVE  [Abstract!ENext]_<<Interest, occurred, batch>>
  <2>1. Interest' = Interest /\ UNCHANGED batch
    BY <1>7, SameInterest DEF Changes
  <2>2. CASE sock_tree[s] = None
    BY <1>7, <2>1, <2>2 DEF Changes
  <2>3. CASE sock_tree[s] # None
    <3>1. Interest[s] # {}
      BY <2>3, Interested
    <3>2. \E E \in SUBSET Events : occurred' = [occurred EXCEPT ![s] = @ \cup E]
      BY <1>7, <2>3, ConversionTypes DEF Changes
    <3>3. Abstract!Occur(s)
      BY <2>1, <3>1, <3>2 DEF Abstract!Occur
    <3> QED  BY <3>3 DEF Abstract!ENext
  <2> QED  BY <2>2, <2>3
<1>8. ASSUME PortWait
      PROVE  [Abstract!ENext]_<<Interest, occurred, batch>>
  <2>1. Abstract!Wait
    BY <1>8, SameInterest DEF PortWait, Abstract!Wait
  <2> QED  BY <2>1 DEF Abstract!ENext
<1>9. ASSUME \/ \E s \in Socks : CloseListener(s)
             \/ \E o \in States : Recancel(o) \/ LeaveAsIs(o) \/ Submit(o) \/ Completes(o)
             \/ Blocks \/ Returns
             \/ \E T \in SUBSET States : Wakes(T)
             \/ UNCHANGED vars
      PROVE  UNCHANGED <<Interest, occurred, batch>>
  BY <1>9, SameInterest DEF CloseListener, Recancel, LeaveAsIs, Submit, Completes, Blocks, Returns, Wakes, vars
<1>10. \A x \in Levels : x[1] \in Socks /\ x[2] \in Conditions
  BY WepollAssumption
<1> QED  BY <1>1, <1>2, <1>3, <1>4, <1>5, <1>6, <1>7, <1>8, <1>9, <1>10 DEF Next, Calls, Waiting

(* wepoll implements the abstract epoll. *)
THEOREM ImplementsEpoll == Spec => EpollSpec
<1>1. Init => Abstract!EInit
  BY DEF Init, Abstract!EInit, Interest
<1>2. IInv /\ [Next]_vars => [Abstract!ENext]_<<Interest, occurred, batch>>
  BY EpollStep
<1> QED  BY <1>1, <1>2, InvariantHolds, PTL DEF Spec, EpollSpec, Abstract!ESpec
=============================================================================
