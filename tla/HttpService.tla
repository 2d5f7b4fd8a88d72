----------------------------- MODULE HttpService -----------------------------
(***************************************************************************)
(* What a client of the HTTP interface is promised, in terms of messages:  *)
(* each one received whole is answered once, in order, up to the first     *)
(* that ends the conversation.  What that one gets depends on why:         *)
(*     "last"     200, and nothing more, as it asked for the end;          *)
(*     "refused"  400, perhaps before it is whole, and 400 again;          *)
(*     "upgrade"  200, then 400, for what follows is not HTTP;             *)
(*     "silent"   nothing ever, as it has no end.                          *)
(***************************************************************************)
EXTENDS Naturals, Sequences, FiniteSetsExt

CONSTANTS Clients,   \* the connections
          Outcome    \* message -> "more", or how it ends the conversation

VARIABLES sent,      \* client -> the messages it has sent
          got,       \* client -> how many of them were received whole
          answers    \* client -> the answers on their way to it

SInit == /\ sent = [c \in Clients |-> <<>>]
         /\ got = [c \in Clients |-> 0]
         /\ answers = [c \in Clients |-> <<>>]

\* The position of the message that ends the conversation.
Ends(s) == Min({i \in DOMAIN s : Outcome[s[i]] # "more"} \cup {Len(s) + 1})
Why(s)  == IF Ends(s) \in DOMAIN s THEN Outcome[s[Ends(s)]] ELSE "more"

\* How many messages are answered 200 when n are whole; whether a 400 may
\* follow, and whether it must.
Served(s, n) ==
    IF n < Ends(s) THEN n
    ELSE IF Why(s) \in {"last", "upgrade"} THEN Ends(s) ELSE Ends(s) - 1
MayRefuse(s, n)  == \/ Why(s) = "refused" /\ Ends(s) <= n + 1
                    \/ Why(s) = "upgrade" /\ Ends(s) <= n
MustRefuse(s, n) == Why(s) \in {"refused", "upgrade"} /\ Ends(s) <= n

\* The answers a are those due to the messages s of which n are whole.
Due(s, n, a) ==
    LET k == Served(s, n) IN
    /\ a = [i \in DOMAIN a |-> IF i <= k THEN "OK" ELSE "BAD"]
    /\ Len(a) >= k
    /\ Len(a) > k => MayRefuse(s, n)
    /\ MustRefuse(s, n) => Len(a) > k

Ask(c) == /\ \E m \in DOMAIN Outcome : sent' = [sent EXCEPT ![c] = Append(@, m)]
          /\ UNCHANGED <<got, answers>>

Take(c) == /\ got[c] <= got'[c] /\ got' = [got EXCEPT ![c] = got'[c]]
           /\ Len(answers[c]) <= Len(answers'[c])
           /\ answers' = [answers EXCEPT ![c] = answers'[c]]
           /\ Due(sent[c], got'[c], answers'[c])
           /\ UNCHANGED sent

Leave(c) == /\ sent' = [sent EXCEPT ![c] = <<>>] /\ got' = [got EXCEPT ![c] = 0]
            /\ answers' = [answers EXCEPT ![c] = <<>>]

SNext == \E c \in Clients : Ask(c) \/ Take(c) \/ Leave(c)

SSpec == SInit /\ [][SNext]_<<sent, got, answers>>
=============================================================================
