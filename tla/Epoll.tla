------------------------------- MODULE Epoll -------------------------------
(***************************************************************************)
(* What Selector expects of an epoll, level-triggered: a report names      *)
(* events the caller asked for, of the registration that is in force, that *)
(* were true at some time since it was made.                               *)
(***************************************************************************)
CONSTANTS Socks,     \* descriptors
          Events     \* the events there are

VARIABLES interest,  \* descriptor -> the events asked for, {} if not registered
          occurred,  \* descriptor -> the events true since it was registered
          reported   \* descriptor -> the events of the last epoll_wait

EInit == /\ interest = [s \in Socks |-> {}]
         /\ occurred = [s \in Socks |-> {}]
         /\ reported = [s \in Socks |-> {}]

Register(s) ==
    /\ interest[s] = {}
    /\ \E E \in SUBSET Events, T \in SUBSET Events :
         /\ interest' = [interest EXCEPT ![s] = E]
         /\ occurred' = [occurred EXCEPT ![s] = T]
    /\ UNCHANGED reported

Modify(s) ==
    /\ interest[s] # {}
    /\ \E E \in SUBSET Events : interest' = [interest EXCEPT ![s] = E]
    /\ UNCHANGED <<occurred, reported>>

Drop(s) == /\ interest' = [interest EXCEPT ![s] = {}]
           /\ occurred' = [occurred EXCEPT ![s] = {}]
           /\ UNCHANGED reported

Occur(s) == /\ interest[s] # {}
            /\ \E E \in SUBSET Events : occurred' = [occurred EXCEPT ![s] = @ \cup E]
            /\ UNCHANGED <<interest, reported>>

Report(s) ==
    /\ reported[s] = {}
    /\ \E E \in SUBSET (interest[s] \cap occurred[s]) : reported' = [reported EXCEPT ![s] = E]
    /\ UNCHANGED <<interest, occurred>>

Wait == reported' = [s \in Socks |-> {}] /\ UNCHANGED <<interest, occurred>>

ENext == Wait \/ \E s \in Socks : Register(s) \/ Modify(s) \/ Drop(s) \/ Occur(s) \/ Report(s)

ESpec == EInit /\ [][ENext]_<<interest, occurred, reported>>
=============================================================================
