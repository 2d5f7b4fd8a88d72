---------------------------- MODULE MCHttpServer ----------------------------
(* HttpServer for TLC: messages that between them take every branch of the  *)
(* parser, each with what becomes of it.                                    *)
EXTENDS HttpServer

CRLF == <<"CR", "LF">>
Version(d, e) == <<"HTTP/", d, ".", e>>
Line(method, url) == <<method, "SP">> \o url \o <<"SP">> \o Version("1", "1") \o CRLF
Field(name, value) == <<name, ":", "SP">> \o value \o CRLF
Ask == Line("GET", <<"/">>)
Chunked == Ask \o Field("Transfer-Encoding", <<"chunked">>) \o CRLF
Status(digits) == Version("1", "1") \o <<"SP">> \o digits
Switch == Field("Upgrade", <<"x">>) \o Field("Connection", <<"upgrade">>)

Answered200 ==
    [get       |-> Ask \o CRLF,
     absolute  |-> Line("HEAD", <<"x", ":", "/", "/", "x", "@", "x", "/", "?", "x", "#", "x">>) \o CRLF,
     server    |-> CRLF \o <<"GET", "SP", "SP", "x", "a", ":", "/", "/", "x", "?", "#", "SP", "SP">>
                   \o Version("1", "1") \o <<"LF", "LF">>,
     ice       |-> <<"SOURCE", "SP", "*", "#", "SP", "ICE/", "1", ".", "1", "LF", "LF">>,
     folded    |-> Ask \o <<"x", "x", ":", "CR", "LF", "SP", "x", "CR", "LF", "SP", "x", "LF">>
                   \o <<"Upgrade", "SP", ":", "LF">> \o CRLF,
     post      |-> Ask \o Field("Content-Length", <<"2", "SP">>) \o CRLF \o <<"x", "CR">>,
     no_body   |-> Ask \o Field("Content-Length", <<"0">>)
                   \o Field("Proxy-Connection", <<"keep-alive", "SP", ",", "x", ",">>) \o CRLF,
     chunked   |-> Chunked \o <<"2", ";", "x", "CR", "LF", "x", "LF", "CR", "LF">>
                   \o <<"0", "CR", "LF", "x", ":", "x", "CR", "LF">> \o CRLF,
     te_list   |-> Ask \o Field("Transfer-Encoding", <<"x", ",", "SP", "chunked", "SP">>) \o CRLF
                   \o <<"0", "CR", "LF">> \o CRLF,
     old_alive |-> <<"GET", "SP", "/", "SP">> \o Version("1", "0") \o CRLF
                   \o Field("Connection", <<"keep-alive">>) \o CRLF]

AnsweredLast ==
    [close    |-> Ask \o Field("Connection", <<"keep-alive", ",", "close">>) \o CRLF,
     not_wait |-> Ask \o Field("Content-Length", <<"1">>) \o Field("Connection", <<"close">>) \o CRLF \o <<"x">>,
     http09   |-> <<"GET", "SP", "/", "x">> \o CRLF \o CRLF,
     rtsp     |-> <<"PLAY", "SP", "/", "?", "SP", "RTSP/", "1", ".", "0">> \o CRLF \o CRLF,
     no_content |-> Status(<<"2", "0", "4">>) \o <<"SP", "x">> \o CRLF \o Field("Connection", <<"close">>) \o CRLF]

Refused ==
    [bad_method   |-> <<"x">>,
     bad_word     |-> <<"H">>,
     no_space     |-> <<"GET", "/">>,
     bad_url      |-> <<"GET", "SP", "x", "/">>,
     bad_schema   |-> <<"GET", "SP", "x", ":", "/", "x">>,
     double_at    |-> <<"CONNECT", "SP", "x", "@", "@">>,
     bad_protocol |-> <<"PLAY", "SP", "/", "SP", "HTTP/">>,
     bad_version  |-> <<"GET", "SP", "/", "SP", "HTTP/", "1", "1">>,
     long_line    |-> <<"GET", "SP", "/", "SP", "HTTP/", "1", ".", "1", "CR", "CR">>,
     pri          |-> <<"PRI", "SP", "*", "SP", "HTTP/", "2", ".", "0", "SM">>,
     bad_header   |-> Ask \o <<"x", "SP", "@">>,
     bad_value    |-> Ask \o Field("Connection", <<"x", "BAD">>),
     lf_expected  |-> Ask \o <<"x", ":", "x", "CR", "x">>,
     dup_length   |-> Ask \o Field("Content-Length", <<"1">>) \o <<"Content-Length", ":", "1">>,
     te_length    |-> Ask \o Field("Content-Length", <<"1">>) \o Field("Transfer-Encoding", <<"chunked">>) \o CRLF,
     te_not_last  |-> Ask \o Field("Transfer-Encoding", <<"chunked", "x", ",", "x">>) \o CRLF,
     empty_length |-> Ask \o <<"Content-Length", ":", "CR", "LF", "CR">>,
     bad_length   |-> Ask \o <<"Content-Length", ":", "1", "SP", "2">>,
     long_length  |-> Ask \o <<"Content-Length", ":", "9", "9">>,
     bad_chunk    |-> Chunked \o <<"x">>,
     bad_size     |-> Chunked \o <<"1", "x">>,
     long_chunk   |-> Chunked \o <<"a", "a">>,
     bad_status   |-> Status(<<"9", "9", "9", "9">>)]

Upgraded ==
    [connect   |-> Line("CONNECT", <<"x", ":", "1">>) \o CRLF,
     upgrade   |-> Ask \o Switch \o CRLF,
     with_body |-> Ask \o Switch \o Field("Content-Length", <<"1">>) \o CRLF \o <<"x">>,
     switching |-> Status(<<"1", "0", "1">>) \o <<"LF">> \o Switch \o CRLF]

Unanswered == [until_end |-> Status(<<"2", "0", "0">>) \o CRLF \o CRLF \o <<"x">>]

MCWire == Answered200 @@ AnsweredLast @@ Refused @@ Upgraded @@ Unanswered
MCOutcome ==
    [m \in DOMAIN Answered200 |-> "more"] @@ [m \in DOMAIN AnsweredLast |-> "last"]
    @@ [m \in DOMAIN Refused |-> "refused"] @@ [m \in DOMAIN Upgraded |-> "upgrade"]
    @@ [m \in DOMAIN Unanswered |-> "silent"]
\* Bound: after a refused message, whatever follows is refused too; two of
\* them show it.
MCFollowers == [m \in DOMAIN MCOutcome |->
                   IF m \in DOMAIN Refused \ {"bad_url", "bad_value"} THEN {} ELSE {"get"}]

\* What the theorems suppose of the messages.
ASSUME MessagesFit == OutcomesAgree /\ PlainTrailers

\* Why PlainTrailers is needed: the length in a trailer is still there when
\* the next message says "Content-Length: 0", which makes it 10.
LengthTrailer == Chunked \o <<"0">> \o CRLF \o Field("Content-Length", <<"1">>) \o CRLF
ASSUME TrailerLengthStays ==
    LET p == Scan(NewParser, LengthTrailer \o MCWire.no_body)
    IN p.complete = 1 /\ p.content_length = 10 /\ p.st = "consume_content_length_1"
=============================================================================
