------------------------------- MODULE Llhttp -------------------------------
(***************************************************************************)
(* The HTTP parser (hincl/llhttp.c, http.c) as compiled here, in its loose *)
(* mode with no lenient flag, and the StreamingParser of hincl/hincl.cpp   *)
(* that its callbacks reach.  A parser is a record; X(p, c) is the parser  *)
(* p, in the state x, after the character c.                               *)
(*                                                                         *)
(* What is compared as a word is one character here: a method, "HTTP/",    *)
(* a header's name, "close".  "a" and "x" stand for letters, "H" for a     *)
(* word in H that is none of these, and "BAD" for a control character.     *)
(***************************************************************************)
EXTENDS Naturals, Sequences, SequencesExt

CONSTANT MaxLength   \* the largest content_length (2^64 - 1)

ASSUME LengthAssumption == MaxLength \in Nat

Digits == [c \in {"0", "1", "2", "4", "9"} |->
              CASE c = "0" -> 0 [] c = "1" -> 1 [] c = "2" -> 2 [] c = "4" -> 4 [] c = "9" -> 9]
HexDigits == [c \in DOMAIN Digits \cup {"a"} |-> IF c = "a" THEN 10 ELSE Digits[c]]
Letters == {"a", "x"}

LineEnds == {"CR", "LF"}
Printable(c) == c \notin {"CR", "LF", "BAD"}

----------------------------------------------------------------------------
(* The methods, by their first letter as start_req branches, with their    *)
(* codes.                                                                  *)

MethodsA == [ACL |-> 19, ANNOUNCE |-> 36]
MethodsB == [BIND |-> 16]
MethodsC == [CHECKOUT |-> 22, CONNECT |-> 5, COPY |-> 8]
MethodsD == [DELETE |-> 0, DESCRIBE |-> 35]
MethodsF == [FLUSH |-> 45]
MethodsG == [GET |-> 1, GET_PARAMETER |-> 41]
MethodsH == [HEAD |-> 2]
MethodsL == [LINK |-> 31, LOCK |-> 9]
MethodsMK == [MKACTIVITY |-> 21, MKCALENDAR |-> 30, MKCOL |-> 10]
MethodsM == [MERGE |-> 23, MOVE |-> 11] @@ "M-SEARCH" :> 24 @@ MethodsMK
MethodsN == [NOTIFY |-> 25]
MethodsO == [OPTIONS |-> 6]
MethodsPR == [PRI |-> 34, PROPFIND |-> 12, PROPPATCH |-> 13]
MethodsPU == [PURGE |-> 29, PUT |-> 4]
MethodsP == [PATCH |-> 28, PAUSE |-> 39, PLAY |-> 38, POST |-> 3] @@ MethodsPR @@ MethodsPU
MethodsR == [REBIND |-> 17, RECORD |-> 44, REDIRECT |-> 43, REPORT |-> 20]
MethodsS == [SEARCH |-> 14, SETUP |-> 37, SET_PARAMETER |-> 42, SOURCE |-> 33, SUBSCRIBE |-> 26]
MethodsT == [TEARDOWN |-> 40, TRACE |-> 7]
MethodsU == [UNBIND |-> 18, UNLINK |-> 32, UNLOCK |-> 15, UNSUBSCRIBE |-> 27]

MethodCode == MethodsA @@ MethodsB @@ MethodsC @@ MethodsD @@ MethodsF @@ MethodsG
              @@ MethodsH @@ MethodsL @@ MethodsM @@ MethodsN @@ MethodsO @@ MethodsP
              @@ MethodsR @@ MethodsS @@ MethodsT @@ MethodsU

\* HTTP_ALL_METHOD_MAP: the names in the order of their codes.
MethodNames ==
    <<"DELETE", "GET", "HEAD", "POST", "PUT", "CONNECT", "OPTIONS", "TRACE", "COPY", "LOCK",
      "MKCOL", "MOVE", "PROPFIND", "PROPPATCH", "SEARCH", "UNLOCK", "BIND", "REBIND", "UNBIND",
      "ACL", "REPORT", "MKACTIVITY", "CHECKOUT", "MERGE", "M-SEARCH", "NOTIFY", "SUBSCRIBE",
      "UNSUBSCRIBE", "PATCH", "PURGE", "MKCALENDAR", "LINK", "UNLINK", "SOURCE", "PRI",
      "DESCRIBE", "ANNOUNCE", "SETUP", "PLAY", "PAUSE", "TEARDOWN", "GET_PARAMETER",
      "SET_PARAMETER", "REDIRECT", "RECORD", "FLUSH">>

\* The recogniser and the header's table name the same methods alike.
ASSUME MethodsAgree == /\ DOMAIN MethodCode = ToSet(MethodNames)
                       /\ \A i \in DOMAIN MethodNames : MethodCode[MethodNames[i]] = i - 1

\* The methods a protocol takes: load_method, _2 and _3.
HttpMethods == 0 .. 34
IceMethods  == {33}
RtspMethods == {1, 3, 6} \cup 35 .. 45

----------------------------------------------------------------------------
(* The parser, and its callbacks.                                          *)

NewParser ==
    [st |-> "start", error |-> "OK", type |-> "BOTH", method |-> 0, major |-> 0, minor |-> 0,
     status |-> 0, flags |-> {}, content_length |-> 0, upgrade |-> FALSE,
     header_state |-> "GENERAL",
     span |-> "none",                   \* the span that is open, "field" or "value"
     piece |-> <<>>,                    \* what of it this llhttp_execute has read
     cur_name |-> <<>>, headers |-> [name \in {} |-> <<>>],  \* of the StreamingParser
     complete |-> 0]                    \* calls of on_message_complete in this llhttp_execute

Go(p, st)        == [p EXCEPT !.st = st]
Fail(p, error)   == [p EXCEPT !.error = error]
AddFlag(p, flag) == [p EXCEPT !.flags = @ \cup {flag}]
Header(p, state) == [p EXCEPT !.header_state = state]

OpenSpan(p, span) == [p EXCEPT !.span = span, !.piece = <<>>]

OnHeaderField(p) == [p EXCEPT !.cur_name = p.piece]
OnHeaderValue(p) == [p EXCEPT !.headers = (p.cur_name :> p.piece) @@ @, !.cur_name = <<>>]

\* The callback of the open span, for what of it has been read.
SpanCallback(p) == CASE p.span = "field" -> OnHeaderField(p)
                     [] p.span = "value" -> OnHeaderValue(p)
                     [] OTHER -> p
EndSpan(p) == [SpanCallback(p) EXCEPT !.span = "none", !.piece = <<>>]

----------------------------------------------------------------------------
(* The end of a message (http.c).                                          *)

\* llhttp_message_needs_eof
NeedsEof(p) ==
    /\ p.type # "REQUEST"
    /\ p.status \notin 100 .. 199 \cup {204, 304}
    /\ \/ "TRANSFER_ENCODING" \in p.flags /\ "CHUNKED" \notin p.flags
       \/ {"CHUNKED", "CONTENT_LENGTH"} \cap p.flags = {}

\* llhttp_should_keep_alive
ShouldKeepAlive(p) ==
    /\ IF p.major > 0 /\ p.minor > 0 THEN "CONNECTION_CLOSE" \notin p.flags
                                     ELSE "CONNECTION_KEEP_ALIVE" \in p.flags
    /\ ~NeedsEof(p)

\* llhttp__after_message_complete.  A parser that is closed ignores the rest.
AfterMessageComplete(p) ==
    [p EXCEPT !.st = IF ShouldKeepAlive(p) THEN "start" ELSE "closed", !.flags = {}]

\* Mutated form: the headers stay.
OnMessageCompleteKept(p) == [p EXCEPT !.complete = @ + 1]

\* StreamingParser::on_message_complete
OnMessageComplete(p) == [p EXCEPT !.complete = @ + 1, !.headers = [name \in {} |-> <<>>]]

\* A message whose body is over; after an upgrade the rest is not HTTP.
MessageComplete(p) ==
    LET q == OnMessageComplete(p) IN
    IF q.upgrade THEN Fail(q, "PAUSED_UPGRADE") ELSE AfterMessageComplete(q)

\* llhttp__before_headers_complete
BeforeHeadersComplete(p) ==
    [p EXCEPT !.upgrade = IF {"UPGRADE", "CONNECTION_UPGRADE"} \subseteq p.flags
                          THEN p.type = "REQUEST" \/ p.status = 101
                          ELSE p.method = MethodCode.CONNECT]

\* llhttp__after_headers_complete, with the names its comment gives the results.
AfterHeadersComplete(p) ==
    LET hasBody == "CHUNKED" \in p.flags \/ p.content_length > 0
        noMessage == p.upgrade /\ (p.method = MethodCode.CONNECT \/ ~hasBody)
        untilEof == IF "TRANSFER_ENCODING" \in p.flags THEN p.type # "REQUEST"
                    ELSE "CONTENT_LENGTH" \notin p.flags /\ NeedsEof(p)
    IN CASE noMessage -> "pause"
         [] ~noMessage /\ "CHUNKED" \in p.flags -> "chunk_size_start"
         [] ~noMessage /\ "CHUNKED" \notin p.flags /\ untilEof -> "body_identity_eof"
         [] ~noMessage /\ "CHUNKED" \notin p.flags /\ ~untilEof ->
              IF "TRANSFER_ENCODING" \in p.flags THEN "invalid"
              ELSE IF "CONTENT_LENGTH" \in p.flags /\ p.content_length > 0 THEN "body_identity"
              ELSE "restart"

\* Where each of them leads.
HeadersComplete(p) ==
    LET next == AfterHeadersComplete(p) IN
    CASE next = "restart" -> AfterMessageComplete(OnMessageComplete(p))
      [] next = "pause" -> Fail(OnMessageComplete(p), "PAUSED_UPGRADE")
      [] next = "chunk_size_start" -> [p EXCEPT !.content_length = 0, !.st = "chunk_size_digit"]
      [] next = "body_identity" -> Go(p, "consume_content_length_1")
      [] next = "body_identity_eof" -> Go(p, "eof")
      [] next = "invalid" -> Fail(p, "INVALID_TRANSFER_ENCODING")

\* The blank line after the headers, or after the trailer of a chunked body.
HeadersAlmostDone(p) ==
    IF "TRAILING" \in p.flags THEN MessageComplete(p)
    ELSE IF {"CONTENT_LENGTH", "TRANSFER_ENCODING"} \subseteq p.flags
    THEN Fail(p, "UNEXPECTED_CONTENT_LENGTH")
    ELSE HeadersComplete(BeforeHeadersComplete(p))

----------------------------------------------------------------------------
(* Headers.                                                                *)

\* A list of header names by the value they call for.
HeaderState == "Connection" :> "CONNECTION" @@ "Proxy-Connection" :> "CONNECTION"
               @@ "Content-Length" :> "CONTENT_LENGTH"
               @@ "Transfer-Encoding" :> "TRANSFER_ENCODING" @@ "Upgrade" :> "UPGRADE"

HeaderNameChar(c) == Printable(c) /\ c \notin {":", "/", ",", ";", "?", "@"}

HeaderFieldGeneral(p, c) ==
    IF c = ":" THEN Go(EndSpan(p), "header_value_discard_ws")
    ELSE IF HeaderNameChar(c) THEN Go(p, "header_field_general")
    ELSE Fail(p, "INVALID_HEADER_TOKEN")

HeaderFieldColon(p, c) ==
    CASE c = "SP" -> p
      [] c = ":" -> Go(EndSpan(p), "header_value_discard_ws")
      [] OTHER -> HeaderFieldGeneral(Header(p, "GENERAL"), c)

HeaderField(p, c) ==
    IF c \in DOMAIN HeaderState THEN Go(Header(p, HeaderState[c]), "header_field_colon")
    ELSE HeaderFieldGeneral(Header(p, "GENERAL"), c)

HeaderFieldStart(p, c) ==
    CASE c = "CR" -> Go(p, "headers_almost_done")
      [] c = "LF" -> HeadersAlmostDone(p)
      [] OTHER -> HeaderField(OpenSpan(p, "field"), c)

\* What a value found sets, at its end or at a comma.
FlagOf == [CONNECTION_KEEP_ALIVE |-> "CONNECTION_KEEP_ALIVE", CONNECTION_CLOSE |-> "CONNECTION_CLOSE",
           CONNECTION_UPGRADE |-> "CONNECTION_UPGRADE", TRANSFER_ENCODING_CHUNKED |-> "CHUNKED"]

TakeHeaderState(p) ==
    CASE p.header_state = "TRANSFER_ENCODING_CHUNKED" -> AddFlag(p, "CHUNKED")
      [] p.header_state \in DOMAIN FlagOf \ {"TRANSFER_ENCODING_CHUNKED"} ->
             Header(AddFlag(p, FlagOf[p.header_state]), "CONNECTION")
      [] OTHER -> p

HeaderValueAlmostDone(p, c) == IF c = "LF" THEN Go(p, "header_value_lws") ELSE Fail(p, "LF_EXPECTED")

\* The end of a value, or a character no value has.
HeaderValueOtherwise(p, c) ==
    CASE c = "LF" -> HeaderValueAlmostDone(EndSpan(p), c)
      [] c = "CR" -> Go(EndSpan(p), "header_value_almost_done")
      [] OTHER -> Fail(p, "INVALID_HEADER_TOKEN")

HeaderValue(p, c) == IF Printable(c) THEN Go(p, "header_value") ELSE HeaderValueOtherwise(p, c)

ConnectionTokens == "close" :> "CONNECTION_CLOSE" @@ "keep-alive" :> "CONNECTION_KEEP_ALIVE"
                    @@ "upgrade" :> "CONNECTION_UPGRADE"

HeaderValueConnectionToken(p, c) ==
    CASE c = "," -> Go(p, "header_value_connection")
      [] Printable(c) /\ c # "," -> Go(p, "header_value_connection_token")
      [] OTHER -> HeaderValueOtherwise(p, c)

HeaderValueConnectionWs(p, c) ==
    CASE c \in LineEnds -> HeaderValueOtherwise(p, c)
      [] c = "SP" -> p
      [] c = "," -> Go(TakeHeaderState(p), "header_value_connection")
      [] OTHER -> HeaderValueConnectionToken(Header(p, "GENERAL"), c)

HeaderValueConnection(p, c) ==
    CASE c = "SP" -> Go(p, "header_value_connection")
      [] c \in DOMAIN ConnectionTokens ->
             Go(Header(p, ConnectionTokens[c]), "header_value_connection_ws")
      [] OTHER -> HeaderValueConnectionToken(p, c)

\* mul_add_content_length: one more digit, or an overflow, of the product or of
\* the sum; the product is stored by then.
MulAdd(p, base, digit, error) ==
    LET q == [p EXCEPT !.content_length = @ * base]
    IN  IF p.content_length > MaxLength \div base THEN Fail(p, error)
        ELSE IF q.content_length > MaxLength - digit THEN Fail(q, error)
        ELSE [q EXCEPT !.content_length = @ + digit]

HeaderValueContentLengthWs(p, c) ==
    CASE c \in LineEnds -> HeaderValueOtherwise(AddFlag(p, "CONTENT_LENGTH"), c)
      [] c = "SP" -> Go(p, "header_value_content_length_ws")
      [] OTHER -> Fail(EndSpan(p), "INVALID_CONTENT_LENGTH")

HeaderValueContentLength(p, c) ==
    IF c \notin DOMAIN Digits THEN HeaderValueContentLengthWs(p, c)
    ELSE LET q == MulAdd(Go(p, "header_value_content_length"), 10, Digits[c],
                         "INVALID_CONTENT_LENGTH")
         IN IF q.error = "OK" THEN q ELSE EndSpan(q)

HeaderValueTeToken(p, c) ==
    CASE c = "," -> Go(p, "header_value_te_token_ows")
      [] Printable(c) /\ c # "," -> Go(p, "header_value_te_token")
      [] OTHER -> HeaderValue(Header(p, "GENERAL"), c)

HeaderValueTeChunked(p, c) ==
    IF c = "chunked" THEN Go(p, "header_value_te_chunked_last") ELSE HeaderValueTeToken(p, c)

HeaderValueTeTokenOws(p, c) == IF c = "SP" THEN p ELSE HeaderValueTeChunked(p, c)

\* chunked counts only as the last coding.
HeaderValueTeChunkedLast(p, c) ==
    CASE c \in LineEnds -> HeaderValueOtherwise(Header(p, "TRANSFER_ENCODING_CHUNKED"), c)
      [] c = "SP" -> p
      [] OTHER -> HeaderValueTeChunked(p, c)

\* The first character of a value, or of its continuation.
HeaderValueStart(p, c) ==
    LET q == OpenSpan(p, "value") IN
    CASE q.header_state = "CONNECTION" -> HeaderValueConnection(q, c)
      [] q.header_state = "CONTENT_LENGTH" ->
             IF "CONTENT_LENGTH" \in q.flags THEN Fail(q, "UNEXPECTED_CONTENT_LENGTH")
             ELSE HeaderValueContentLength(q, c)
      [] q.header_state = "TRANSFER_ENCODING" ->
             HeaderValueTeChunked([q EXCEPT !.flags = (@ \cup {"TRANSFER_ENCODING"}) \ {"CHUNKED"}], c)
      [] q.header_state = "UPGRADE" ->
             HeaderValue(Header(AddFlag(q, "UPGRADE"), "GENERAL"), c)
      [] OTHER -> HeaderValue(q, c)

\* After the end of a line: a continuation of the value, or the next header.
HeaderValueLws(p, c) ==
    IF c = "SP" THEN HeaderValueStart(p, c) ELSE HeaderFieldStart(TakeHeaderState(p), c)

\* The same before a value has begun: if it does not, it is empty.
HeaderValueDiscardLws(p, c) ==
    IF c = "SP" THEN Go(p, "header_value_discard_ws")
    ELSE IF p.header_state = "CONTENT_LENGTH" THEN Fail(p, "INVALID_CONTENT_LENGTH")
    ELSE HeaderFieldStart(EndSpan(OpenSpan(TakeHeaderState(p), "value")), c)

HeaderValueDiscardWs(p, c) ==
    CASE c = "SP" -> p
      [] c = "LF" -> Go(p, "header_value_discard_lws")
      [] c = "CR" -> Go(p, "header_value_discard_ws_almost_done")
      [] OTHER -> HeaderValueStart(p, c)

----------------------------------------------------------------------------
(* The request line.                                                       *)

UrlWord(c) == Printable(c) /\ c \notin {"SP", "#"}

\* The end of the URL: a space, or, for HTTP/0.9, the end of the line.
UrlEnd(p, c) ==
    CASE c = "SP" -> Go(p, "req_http_start")
      [] c = "LF" -> [p EXCEPT !.major = 0, !.minor = 9, !.st = "header_field_start"]
      [] c = "CR" -> Go(p, "url_skip_lf_to_http09")
      [] OTHER -> Fail(p, "INVALID_URL")

UrlSkipLfToHttp09(p, c) == IF c = "LF" THEN UrlEnd(p, c) ELSE Fail(p, "INVALID_URL")

UrlFragment(p, c) == IF UrlWord(c) \/ c = "#" THEN p ELSE UrlEnd(p, c)

UrlQuery(p, c) ==
    CASE c = "#" -> Go(p, "url_fragment")
      [] UrlWord(c) -> p
      [] OTHER -> UrlEnd(p, c)

UrlQueryOrFragment(p, c) ==
    CASE c = "#" -> Go(p, "url_fragment")
      [] c = "?" -> Go(p, "url_query")
      [] OTHER -> UrlEnd(p, c)

UrlPath(p, c) == IF UrlWord(c) /\ c # "?" THEN Go(p, "url_path") ELSE UrlQueryOrFragment(p, c)

UrlServer(p, c) ==
    CASE c = "/" -> Go(p, "url_path")
      [] c = "?" -> Go(p, "url_query")
      [] c = "@" -> Go(p, "url_server_with_at")
      [] UrlWord(c) /\ c \notin {"/", "?", "@"} -> Go(p, "url_server")
      [] OTHER -> UrlEnd(p, c)

UrlServerWithAt(p, c) == IF c = "@" THEN Fail(p, "INVALID_URL") ELSE UrlServer(p, c)

UrlSchemaDelim(p, c) ==
    IF c # "/" THEN Fail(p, "INVALID_URL")
    ELSE Go(p, IF p.st = "url_schema_delim" THEN "url_schema_delim_1" ELSE "url_server")

UrlSchema(p, c) ==
    CASE c = ":" -> Go(p, "url_schema_delim")
      [] c \in Letters -> Go(p, "url_schema")
      [] OTHER -> Fail(p, "INVALID_URL")

UrlStart(p, c) ==
    CASE c \in {"/", "*"} -> Go(p, "url_path")
      [] c \in Letters -> UrlSchema(p, c)
      [] OTHER -> Fail(p, "INVALID_URL")

ReqSpacesBeforeUrl(p, c) ==
    CASE c = "SP" -> p
      [] c # "SP" /\ p.method = MethodCode.CONNECT -> UrlServer(p, c)
      [] OTHER -> UrlStart(p, c)

ReqFirstSpaceBeforeUrl(p, c) ==
    IF c = "SP" THEN Go(p, "req_spaces_before_url") ELSE Fail(p, "INVALID_METHOD")

StartReq(p, c) ==
    IF c \notin DOMAIN MethodCode THEN Fail(p, "INVALID_METHOD")
    ELSE [p EXCEPT !.method = MethodCode[c], !.st = "req_first_space_before_url"]

\* The methods each protocol takes.
ProtocolMethods == "HTTP/" :> HttpMethods @@ "ICE/" :> IceMethods @@ "RTSP/" :> RtspMethods

ReqHttpStart(p, c) ==
    IF c = "SP" THEN p
    ELSE IF c \in DOMAIN ProtocolMethods /\ p.method \in ProtocolMethods[c]
    THEN Go(p, "req_http_major")
    ELSE Fail(p, "INVALID_CONSTANT")

ReqHttpMajor(p, c) ==
    IF c \in DOMAIN Digits THEN [p EXCEPT !.major = Digits[c], !.st = "req_http_dot"]
    ELSE Fail(p, "INVALID_VERSION")

ReqHttpDot(p, c) == IF c = "." THEN Go(p, "req_http_minor") ELSE Fail(p, "INVALID_VERSION")

ReqHttpMinor(p, c) ==
    IF c \notin DOMAIN Digits THEN Fail(p, "INVALID_VERSION")
    ELSE [p EXCEPT !.minor = Digits[c],
                   !.st = IF p.method = MethodCode.PRI THEN "req_pri_upgrade" ELSE "req_http_complete"]

\* The rest of the HTTP/2 preface is one character here.
ReqPriUpgrade(p, c) == Fail(p, IF c = "SM" THEN "PAUSED_H2_UPGRADE" ELSE "INVALID_VERSION")

ReqHttpComplete(p, c) ==
    CASE c = "LF" -> Go(p, "header_field_start")
      [] c = "CR" /\ p.st = "req_http_complete" -> Go(p, "req_http_complete_1")
      [] OTHER -> Fail(p, "INVALID_VERSION")

----------------------------------------------------------------------------
(* The status line of a response, and the first character of a message.    *)

StartRes(p, c) ==
    IF c = "HTTP/" THEN Go(p, "res_http_major") ELSE Fail(p, "INVALID_CONSTANT")

ResHttpMajor(p, c) ==
    IF c \in DOMAIN Digits THEN [p EXCEPT !.major = Digits[c], !.st = "res_http_dot"]
    ELSE Fail(p, "INVALID_VERSION")

ResHttpDot(p, c) == IF c = "." THEN Go(p, "res_http_minor") ELSE Fail(p, "INVALID_VERSION")

ResHttpMinor(p, c) ==
    IF c \in DOMAIN Digits THEN [p EXCEPT !.minor = Digits[c], !.st = "res_http_end"]
    ELSE Fail(p, "INVALID_VERSION")

ResHttpEnd(p, c) ==
    IF c = "SP" THEN [p EXCEPT !.status = 0, !.st = "res_status_code"] ELSE Fail(p, "INVALID_VERSION")

ResStatusStart(p, c) ==
    CASE c = "LF" -> Go(p, "header_field_start")
      [] c = "CR" -> Go(p, "res_line_almost_done")
      [] OTHER -> Go(p, "res_status")

ResStatusCodeOtherwise(p, c) ==
    CASE c \in LineEnds -> ResStatusStart(p, c)
      [] c = "SP" -> Go(p, "res_status_start")
      [] OTHER -> Fail(p, "INVALID_STATUS")

\* mul_add_status_code: the code is stored before its maximum is enforced.  It
\* had three digits at most, so the 16 bits of its type cannot overflow first.
AddStatusDigit(p, digit) ==
    LET q == [p EXCEPT !.status = @ * 10 + digit]
    IN  IF q.status > 999 THEN Fail(q, "INVALID_STATUS") ELSE q

ResStatusCode(p, c) ==
    IF c \in DOMAIN Digits THEN AddStatusDigit(p, Digits[c]) ELSE ResStatusCodeOtherwise(p, c)

StartReqOrRes(p, c) ==
    CASE c = "HEAD" -> StartReq([p EXCEPT !.type = "REQUEST"], c)
      [] c = "HTTP/" -> StartRes([p EXCEPT !.type = "RESPONSE"], c)
      [] c = "H" -> Fail(p, "INVALID_CONSTANT")
      [] OTHER -> StartReq([p EXCEPT !.type = "REQUEST"], c)

\* Blank lines before a message are skipped.  Its first one tells what the
\* connection carries.
Start(p, c) ==
    CASE c \in LineEnds -> p
      [] c \notin LineEnds /\ p.type = "REQUEST" -> StartReq(p, c)
      [] c \notin LineEnds /\ p.type = "RESPONSE" -> StartRes(p, c)
      [] OTHER -> StartReqOrRes(p, c)

----------------------------------------------------------------------------
(* Bodies.                                                                 *)

ConsumeContentLength1(p) ==
    LET q == [p EXCEPT !.content_length = @ - 1] IN
    IF q.content_length = 0 THEN MessageComplete(q) ELSE q

ChunkSizeOtherwise(p, c) ==
    CASE c = "CR" -> Go(p, "chunk_size_almost_done")
      [] c \in {"SP", ";"} -> Go(p, "chunk_parameters")
      [] OTHER -> Fail(p, "INVALID_CHUNK_SIZE")

ChunkSize(p, c) ==
    IF c \in DOMAIN HexDigits
    THEN MulAdd(Go(p, "chunk_size"), 16, HexDigits[c], "INVALID_CHUNK_SIZE")
    ELSE ChunkSizeOtherwise(p, c)

ChunkSizeDigit(p, c) ==
    IF c \in DOMAIN HexDigits THEN ChunkSize(p, c) ELSE Fail(p, "INVALID_CHUNK_SIZE")

ChunkParameters(p, c) == IF c = "CR" THEN Go(p, "chunk_size_almost_done") ELSE p

\* A chunk of no length is the last: what follows are trailing headers.
ChunkSizeAlmostDone(p) ==
    IF p.content_length = 0 THEN Go(AddFlag(p, "TRAILING"), "header_field_start")
    ELSE Go(p, "consume_content_length")

ConsumeContentLength(p) ==
    LET q == [p EXCEPT !.content_length = @ - 1] IN
    IF q.content_length = 0 THEN Go(q, "chunk_data_almost_done") ELSE q

ChunkDataAlmostDoneSkip(p) == [p EXCEPT !.content_length = 0, !.st = "chunk_size_digit"]

----------------------------------------------------------------------------
(* llhttp_execute.                                                         *)

Step(p, c) ==
    CASE p.st = "start" -> Start(p, c)
      [] p.st = "req_first_space_before_url" -> ReqFirstSpaceBeforeUrl(p, c)
      [] p.st = "req_spaces_before_url" -> ReqSpacesBeforeUrl(p, c)
      [] p.st = "url_schema" -> UrlSchema(p, c)
      [] p.st \in {"url_schema_delim", "url_schema_delim_1"} -> UrlSchemaDelim(p, c)
      [] p.st = "url_server" -> UrlServer(p, c)
      [] p.st = "url_server_with_at" -> UrlServerWithAt(p, c)
      [] p.st = "url_path" -> UrlPath(p, c)
      [] p.st = "url_query" -> UrlQuery(p, c)
      [] p.st = "url_fragment" -> UrlFragment(p, c)
      [] p.st = "url_skip_lf_to_http09" -> UrlSkipLfToHttp09(p, c)
      [] p.st = "req_http_start" -> ReqHttpStart(p, c)
      [] p.st = "req_http_major" -> ReqHttpMajor(p, c)
      [] p.st = "req_http_dot" -> ReqHttpDot(p, c)
      [] p.st = "req_http_minor" -> ReqHttpMinor(p, c)
      [] p.st = "req_pri_upgrade" -> ReqPriUpgrade(p, c)
      [] p.st \in {"req_http_complete", "req_http_complete_1"} -> ReqHttpComplete(p, c)
      [] p.st = "res_http_major" -> ResHttpMajor(p, c)
      [] p.st = "res_http_dot" -> ResHttpDot(p, c)
      [] p.st = "res_http_minor" -> ResHttpMinor(p, c)
      [] p.st = "res_http_end" -> ResHttpEnd(p, c)
      [] p.st = "res_status_code" -> ResStatusCode(p, c)
      [] p.st \in {"res_status_start", "res_status"} -> ResStatusStart(p, c)
      [] p.st = "res_line_almost_done" -> Go(p, "header_field_start")
      [] p.st = "header_field_start" -> HeaderFieldStart(p, c)
      [] p.st = "header_field_colon" -> HeaderFieldColon(p, c)
      [] p.st = "header_field_general" -> HeaderFieldGeneral(p, c)
      [] p.st = "header_value_discard_ws" -> HeaderValueDiscardWs(p, c)
      [] p.st = "header_value_discard_ws_almost_done" -> Go(p, "header_value_discard_lws")
      [] p.st = "header_value_discard_lws" -> HeaderValueDiscardLws(p, c)
      [] p.st = "header_value" -> HeaderValue(p, c)
      [] p.st = "header_value_connection" -> HeaderValueConnection(p, c)
      [] p.st = "header_value_connection_token" -> HeaderValueConnectionToken(p, c)
      [] p.st = "header_value_connection_ws" -> HeaderValueConnectionWs(p, c)
      [] p.st = "header_value_content_length" -> HeaderValueContentLength(p, c)
      [] p.st = "header_value_content_length_ws" -> HeaderValueContentLengthWs(p, c)
      [] p.st = "header_value_te_token" -> HeaderValueTeToken(p, c)
      [] p.st = "header_value_te_token_ows" -> HeaderValueTeTokenOws(p, c)
      [] p.st = "header_value_te_chunked_last" -> HeaderValueTeChunkedLast(p, c)
      [] p.st = "header_value_almost_done" -> HeaderValueAlmostDone(p, c)
      [] p.st = "header_value_lws" -> HeaderValueLws(p, c)
      [] p.st = "headers_almost_done" -> HeadersAlmostDone(p)
      [] p.st = "consume_content_length_1" -> ConsumeContentLength1(p)
      [] p.st = "chunk_size_digit" -> ChunkSizeDigit(p, c)
      [] p.st = "chunk_size" -> ChunkSize(p, c)
      [] p.st = "chunk_parameters" -> ChunkParameters(p, c)
      [] p.st = "chunk_size_almost_done" -> ChunkSizeAlmostDone(p)
      [] p.st = "consume_content_length" -> ConsumeContentLength(p)
      [] p.st = "chunk_data_almost_done" -> Go(p, "chunk_data_almost_done_skip")
      [] p.st = "chunk_data_almost_done_skip" -> ChunkDataAlmostDoneSkip(p)
      [] p.st \in {"eof", "closed"} -> p

\* A span that is open after a character contains it.
InSpan(p, c) ==
    IF p.span = "none" \/ p.error # "OK" THEN p ELSE [p EXCEPT !.piece = Append(@, c)]

Advance(p, c) == IF p.error # "OK" THEN p ELSE InSpan(Step(p, c), c)

\* What the data hold of a span still open goes to its callback at their end.
EndOfData(p) == IF p.error = "OK" THEN [SpanCallback(p) EXCEPT !.piece = <<>>] ELSE p

\* The parser after one character of the data after the other.
Scan(p, data) == FoldLeft(Advance, p, data)

\* Mutated form: an error is forgotten with the data it was found in.
ExecuteForgets(p, data) ==
    EndOfData(Scan([p EXCEPT !.piece = <<>>, !.complete = 0, !.error = "OK"], data))

\* An error stays; a span still open starts anew with the data.
Execute(p, data) == EndOfData(Scan([p EXCEPT !.piece = <<>>, !.complete = 0], data))
=============================================================================
