----------------------------- MODULE HttpServer -----------------------------
(***************************************************************************)
(* HttpInterface (grokserver/http_interface.cpp) as an observer of the     *)
(* event loop, with one parser for each of its connections.  A recv takes  *)
(* any part of what has arrived, so that a message reaches its parser cut  *)
(* anywhere, or together with the next.                                    *)
(*                                                                         *)
(* Main is the descriptor it listens on.  The other observers of the loop  *)
(* are outside of this module but for what they do to it: they take and    *)
(* release descriptors, also in the middle of a batch (external).          *)
(***************************************************************************)
EXTENDS EventLoop, Llhttp

CONSTANTS Clients,     \* the connections to the HTTP interface
          Others,      \* connections to other observers
          Elsewhere,   \* stands for any other observer
          Outcome,     \* the messages clients send, and what becomes of each (HttpService)
          Wire,        \* message -> its characters
          Followers,   \* bound: message -> those its client may send next
          MaxSent,     \* bound: messages a client sends
          Cuts         \* bound: how much a recv takes when it does not take all there is

ASSUME HttpAssumption ==
    /\ Conns = Clients \cup Others /\ Clients \cap Others = {}
    /\ Elsewhere \notin Fds \cup {None}
    /\ Wire \in [DOMAIN Outcome -> Seq(STRING) \ {<<>>}]
    /\ Followers \in [DOMAIN Outcome -> SUBSET DOMAIN Outcome]
    /\ MaxSent \in Nat /\ Cuts \subseteq Nat

VARIABLES
    parsers,   \* HttpInterface::parsers: a map of descriptors to their parsers
    sent,      \* client -> the messages it has sent
    heard      \* client -> the answers it has received

httpVars == <<sent, heard>>
vars     == <<loopVars, parsers, httpVars>>

Init ==
    /\ LoopInit
    /\ parsers = [f \in {} |-> NewParser]
    /\ sent = [c \in Clients |-> <<>>]
    /\ heard = [c \in Clients |-> <<>>]

----------------------------------------------------------------------------
(* The handlers.                                                           *)

\* What on_connect puts into the map, in the place of what it may have.
KeepParser(f) ==
    parsers' = [g \in DOMAIN parsers \cup {f} |-> IF g = f THEN NewParser ELSE parsers[g]]

\* HttpInterface::on_connect
AcceptClient ==
    /\ ReadTurn(Main)
    /\ \E c \in Clients, f \in Fds :
         /\ Accepted(Main, c, f, "CAPTURE", TRUE)
         /\ interest' = [interest EXCEPT ![f] = {"IN"}]
         /\ KeepParser(f)
    /\ NextEvent(Main)
    /\ UNCHANGED <<writeq, status, httpVars>>

\* The same when accept fails: -1 gets a parser too.
AcceptClientFails ==
    /\ ReadTurn(Main) /\ AcceptFailed(Main, TRUE)
    /\ KeepParser(BadFd)
    /\ NextEvent(Main)
    /\ UNCHANGED <<writeq, interest, status, httpVars>>

\* Mutated form of ForgetParser: parsers.erase is left out.
ForgetNoParser(f) == parsers

ForgetParser(f) == [g \in DOMAIN parsers \ {f} |-> parsers[g]]

\* HttpInterface::on_disconnect, and what force_disconnect does then.
HangUp(f) ==
    /\ HangupTurn(f) /\ f # Main /\ linked[f] = Main
    /\ parsers' = ForgetParser(f)
    /\ CloseAll({f}, rx, readq, writeq, interest)
    /\ clients' = [clients EXCEPT ![Main] = @ \ {f}]
    /\ DropBatch
    /\ UNCHANGED <<observers, status, httpVars>>

\* The CAPTURE item of f is due and its parser known.
Capture(f) ==
    /\ ReadTurn(f) /\ f # Main /\ linked[f] = Main /\ f \in DOMAIN parsers
    /\ readq[f] # <<>> /\ Head(readq[f]) = "CAPTURE" /\ sock[f] \in Clients

\* The answers feed gives: on_complete for each message, on_parse_error.
Answers(q) ==
    [i \in 1 .. q.complete |-> "OK"] \o IF q.error = "OK" THEN <<>> ELSE <<"BAD">>

\* A parser that has read the next n characters: its answers merge into the
\* item that waits.
Fed(f, n, q) ==
    /\ parsers' = [parsers EXCEPT ![f] = [q EXCEPT !.complete = 0]]
    /\ rx' = [rx EXCEPT ![sock[f]] = SubSeq(@, n + 1, Len(@))]
    /\ writeq' = [writeq EXCEPT ![f] = @ \o Answers(q)]
    /\ interest' = IF q.complete = 0 /\ q.error = "OK" THEN interest ELSE Watched(f)
    /\ NextEvent(f)
    /\ UNCHANGED <<sock, backlog, peer, tableVars, readq, status, httpVars>>

\* HttpInterface::on_received of the next n characters, none at the end of
\* the stream.
Feed(f, n) == Fed(f, n, Execute(parsers[f], SubSeq(rx[sock[f]], 1, n)))

Receive(f, n) == /\ Capture(f) /\ n \in 1 .. Len(rx[sock[f]])
                 /\ n \in Cuts \cup {Len(rx[sock[f]])}
                 /\ Feed(f, n)

\* recv returns 0, which is fed all the same.
ReceiveEnd(f) ==
    /\ Capture(f) /\ rx[sock[f]] = <<>> /\ peer[sock[f]] = "fin"
    /\ Feed(f, 0)

\* recv fails, and feed takes -1 for a length.
ReceiveFails(f) ==
    /\ Capture(f) /\ rx[sock[f]] = <<>> /\ peer[sock[f]] = "rst"
    /\ Throw("undefined")
    /\ UNCHANGED <<parsers, httpVars>>

\* recv has nothing to return and waits, the process with it: accepted
\* sockets are blocking.
Blocked(f) == Capture(f) /\ rx[sock[f]] = <<>> /\ peer[sock[f]] = "open"

\* The loop sends what waits for f, and its peer reads it.
Deliver(f, n) ==
    /\ Write(f, n)
    /\ heard' = IF sock[f] \in Clients
                THEN [heard EXCEPT ![sock[f]] = @ \o SubSeq(writeq[f], 1, n)]
                ELSE heard
    /\ UNCHANGED <<parsers, sent>>

\* The steps of the loop that leave its observers alone.
LoopStep(f) ==
    /\ StaleHangup(f) \/ ThrowOnEvent(f) \/ WriteFails(f)
    /\ UNCHANGED <<parsers, httpVars>>

----------------------------------------------------------------------------
(* Clients and the other observers (external).                             *)

ClientConnects(c) == PeerConnects(c, Main) /\ UNCHANGED <<parsers, httpVars>>

ClientSends(c, m) ==
    /\ peer[c] = "open" /\ Len(sent[c]) < MaxSent
    /\ sent[c] # <<>> => m \in Followers[Last(sent[c])]
    /\ sent' = [sent EXCEPT ![c] = Append(@, m)]
    /\ rx' = [rx EXCEPT ![c] = @ \o Wire[m]]
    /\ UNCHANGED <<sock, backlog, peer, tableVars, queueVars, batchVars, status, parsers, heard>>

\* Another observer has a connection, with or without a frame to be sent.
OtherAccepted(c, f, frames) ==
    /\ peer[c] = "idle" /\ NewFd(f) /\ pending = NoEvents
    /\ sock' = [sock EXCEPT ![f] = c] /\ peer' = [peer EXCEPT ![c] = "open"]
    /\ rx' = [rx EXCEPT ![c] = <<"x">>]
    /\ linked' = [linked EXCEPT ![f] = Elsewhere]
    /\ readq' = [readq EXCEPT ![f] = <<"CAPTURE">>]
    /\ writeq' = [writeq EXCEPT ![f] = frames]
    /\ interest' = [interest EXCEPT ![f] = IF frames = <<>> THEN {"IN"} ELSE {"IN", "OUT"}]
    /\ UNCHANGED <<backlog, observers, clients, batchVars, status, parsers, httpVars>>

\* What it sent is handled.
OtherServed(f) ==
    /\ ReadTurn(f) /\ linked[f] = Elsewhere
    /\ rx' = [rx EXCEPT ![sock[f]] = <<>>]
    /\ NextEvent(f)
    /\ UNCHANGED <<sock, backlog, peer, tableVars, queueVars, status, parsers, httpVars>>

\* It is closed, as it hung up, or by the handler of another connection:
\* FreeGrok's GROK_DISCONNECT.
OtherClosed(f) ==
    /\ status = "running" /\ linked[f] = Elsewhere
    /\ \/ HangupTurn(f) /\ DropBatch
       \/ pending # NoEvents /\ resume # f /\ UNCHANGED batchVars
    /\ CloseAll({f}, rx, readq, writeq, interest)
    /\ UNCHANGED <<observers, clients, status, parsers, httpVars>>

----------------------------------------------------------------------------
(* The system.                                                             *)

Peers ==
    \/ \E c \in Clients : ClientConnects(c)
    \/ \E c \in Conns : PeerCloses(c) /\ UNCHANGED <<parsers, httpVars>>
    \/ \E c \in Clients : PeerResets(c) /\ UNCHANGED <<parsers, httpVars>>
    \/ \E c \in Clients, m \in DOMAIN Outcome : ClientSends(c, m)
    \/ \E c \in Others, f \in Fds, frames \in {<<>>, <<"DATA">>} : OtherAccepted(c, f, frames)

Server ==
    \/ EpollWait /\ UNCHANGED <<parsers, httpVars>>
    \/ AcceptClient
    \/ AcceptClientFails
    \/ \E f \in Fds : HangUp(f)
    \/ \E f \in Fds : sock[f] \in Conns /\ \E n \in 1 .. Len(rx[sock[f]]) : Receive(f, n)
    \/ \E f \in Fds : ReceiveEnd(f) \/ ReceiveFails(f)
    \/ \E f \in Fds : \E n \in 0 .. Len(writeq[f]) : Deliver(f, n)
    \/ \E f \in Fds : LoopStep(f)
    \/ \E f \in Fds : OtherServed(f) \/ OtherClosed(f)

Next == status = "running" /\ (Peers \/ Server)

Spec == Init /\ [][Next]_vars

\* The process runs and epoll_wait keeps returning; the clients read, so that
\* again and again there is room to send to each, and a send takes something.
RoomForAll == EpollWait /\ \A f \in Fds : "OUT" \in interest[f] => "OUT" \in pending'[f]
Sends(f)   == \E n \in 1 .. Len(writeq[f]) : Deliver(f, n)
Fairness   == /\ WF_vars(Server /\ status = "running")
              /\ SF_vars(RoomForAll /\ UNCHANGED <<parsers, httpVars>>)
              /\ \A f \in Fds : SF_vars(Sends(f))
FairSpec   == Spec /\ Fairness

----------------------------------------------------------------------------
(* What is checked.                                                        *)

\* The status codes a parser goes on with, and those it may have stored when
\* it refuses a fourth digit.
StatusCodes == 0 .. 999
StoredCodes == 0 .. 9999

(* Types: in particular no content_length beyond its width, and no status   *)
(* code of more than three digits but the one whose fourth is refused.      *)
TypeOK ==
    /\ \A f \in DOMAIN parsers :
          /\ parsers[f].content_length \in 0 .. MaxLength
          /\ parsers[f].status \in StoredCodes /\ parsers[f].method \in 0 .. 45
          /\ parsers[f].error = "OK" => parsers[f].status \in StatusCodes
          /\ parsers[f].complete = 0
    /\ \A f \in Fds : linked[f] = Main => ToSet(writeq[f]) \subseteq {"OK", "BAD"}
    /\ heard \in [Clients -> Seq({"OK", "BAD"})]
    /\ sent \in [Clients -> Seq(DOMAIN Outcome)]

(* The two "should be never called" branches of http_interface.cpp are      *)
(* dead: the loop's links and the map of parsers agree, for -1 too.         *)
ParserKnown == \A f \in Fds \cup {BadFd} : linked[f] = Main <=> f \in DOMAIN parsers

\* The messages s as they are sent, how many of them their first n characters
\* hold whole, and what of sent[c] the server has read.
Joined(text, m) == text \o Wire[m]
Text(s)     == FoldLeft(Joined, <<>>, s)
WholeIn(s, n) == Cardinality({i \in DOMAIN s : Len(Text(SubSeq(s, 1, i))) <= n})
Read(c)     == Len(Text(sent[c])) - Len(rx[c])
Whole(c)    == WholeIn(sent[c], Read(c))

(* Nothing of a message is left for the next one, nor of a connection for   *)
(* the next one that gets its descriptor: flags, lengths and headers are    *)
(* those of the message being read.                                         *)
ParserFresh ==
    \A f \in Fds : (linked[f] = Main /\ f \in DOMAIN parsers /\ sock[f] \in Clients) =>
        LET p == parsers[f] IN
        /\ Read(sock[f]) = 0 => p = NewParser
        /\ p.st = "start" /\ p.error = "OK" =>
              /\ p.flags = {} /\ p.content_length = 0 /\ ~p.upgrade
              /\ DOMAIN p.headers = {} /\ p.span = "none" /\ p.cur_name = <<>>

\* The answers on their way to c.
Waiting(c) == LET S == {f \in Fds : sock[f] = c} IN IF S = {} THEN <<>> ELSE writeq[CHOOSE f \in S : TRUE]
Answered(c) == heard[c] \o Waiting(c)

(* However messages are cut, joined or pipelined, and whatever descriptor   *)
(* they come by, the answers are those HttpService promises.                *)
Here(c) == peer[c] = "open"
Service == INSTANCE HttpService WITH
               sent <- [c \in Clients |-> IF Here(c) THEN sent[c] ELSE <<>>],
               got <- [c \in Clients |-> IF Here(c) THEN Whole(c) ELSE 0],
               answers <- [c \in Clients |-> IF Here(c) THEN Answered(c) ELSE <<>>]
ServiceSpec == Service!SSpec

\* The messages a client may send.
Conversations ==
    {s \in UNION {[1 .. n -> DOMAIN Outcome] : n \in 0 .. MaxSent} :
        \A i \in 2 .. Len(s) : s[i] \in Followers[s[i - 1]]}

(* What Outcome says of the messages is what becomes of them when a parser  *)
(* has read the first n characters of a conversation as one piece.          *)
OutcomesAgree ==
    \A s \in Conversations : \A n \in 0 .. Len(Text(s)) :
        LET p == Scan(NewParser, SubSeq(Text(s), 1, n))
            k == WholeIn(s, n)
        IN /\ p.complete = Service!Served(s, k)
           /\ p.error # "OK" => Service!MayRefuse(s, k)
           /\ Service!MustRefuse(s, k) => p.error # "OK"

(* No trailer of a chunked body has a Content-Length.                       *)
PlainTrailers ==
    \A s \in Conversations : \A n \in 0 .. Len(Text(s)) :
        LET p == Scan(NewParser, SubSeq(Text(s), 1, n))
        IN ~(p.error = "OK" /\ p.st = "header_value_content_length" /\ "TRAILING" \in p.flags)

(* A client that stays gets the answers due to what it sent, unless the     *)
(* process ends, waits in a recv that has nothing to return, or has run out *)
(* of descriptors.                                                          *)
OutOfService == status # "running" \/ linked[BadFd] = Main \/ \E f \in Fds : Blocked(f)
AllAnswered ==
    \A c \in Clients :
        Here(c) ~> \/ ~Here(c) \/ OutOfService
                   \/ rx[c] = <<>> /\ Service!Due(sent[c], Len(sent[c]), heard[c])
=============================================================================
