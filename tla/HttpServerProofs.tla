------------------------- MODULE HttpServerProofs -------------------------
\* Proofs about HttpServer, and about the parser of Llhttp that it runs for each
\* of its connections. They hold for any number of descriptors and of clients.
\*
\* A parser that is given its data in parts (one call of llhttp_execute for
\* each recv) is compared with one that reads all of them alone: the two are
\* Alike. What a parser has in each of its states is Sound; to whom the length
\* it has read belongs is Measured. Inv says of every connection that its
\* parser is alike the one that has read, alone, what was received of the
\* client so far, and that its answers are those of that parser.
\*
\* Two assumptions speak of finitely many texts, which TLC reads: OutcomesAgree,
\* that a parser alone answers each conversation as it deserves, and
\* PlainTrailers, that no text of a conversation has a length among trailers.
EXTENDS HttpServer, FiniteSetTheorems, TLAPS

------------------------------------------------------------------------------
\* Two parsers that are alike.

\* The fields of a parser (llhttp__internal_t and what the callbacks keep).
Fields == DOMAIN NewParser

\* Two parsers that will do the same with the same data: they differ only in the part of a name
\* or value held back (on_header_field and on_header_value get it in pieces), in the headers
\* kept, and by k in the messages completed.
Alike(p, q, k) ==
    /\ DOMAIN p = Fields /\ DOMAIN q = Fields
    /\ p.st = q.st /\ p.error = q.error /\ p.type = q.type
    /\ p.method = q.method /\ p.major = q.major /\ p.minor = q.minor /\ p.status = q.status
    /\ p.flags = q.flags /\ p.content_length = q.content_length /\ p.upgrade = q.upgrade
    /\ p.header_state = q.header_state /\ p.span = q.span
    /\ p.complete \in Nat /\ k \in Nat /\ q.complete = p.complete + k

\* The fields by name, for the provers.
LEMMA FieldsAre ==
    Fields = {"st", "error", "type", "method", "major", "minor", "status", "flags", "content_length",
              "upgrade", "header_state", "span", "piece", "cur_name", "headers", "complete"}
BY DEF Fields, NewParser

\* What alike parsers have in common.
LEMMA AlikeState ==
    ASSUME NEW p, NEW q, NEW k, Alike(p, q, k)
    PROVE  /\ p.st = q.st /\ p.error = q.error /\ p.type = q.type /\ p.method = q.method
           /\ p.flags = q.flags /\ p.content_length = q.content_length /\ p.upgrade = q.upgrade
           /\ p.header_state = q.header_state /\ p.span = q.span
           /\ p.complete \in Nat /\ k \in Nat /\ q.complete = p.complete + k
BY DEF Alike

\* They stay alike after the elementary changes of the code.
LEMMA AlikeSteps ==
    ASSUME NEW p, NEW q, NEW k, Alike(p, q, k)
    PROVE  /\ \A s : Alike(Go(p, s), Go(q, s), k)
           /\ \A e : Alike(Fail(p, e), Fail(q, e), k)
           /\ \A f : Alike(AddFlag(p, f), AddFlag(q, f), k)
           /\ \A h : Alike(Header(p, h), Header(q, h), k)
           /\ \A s : Alike(OpenSpan(p, s), OpenSpan(q, s), k)
<1> USE FieldsAre
<1>1. \A s : Alike(Go(p, s), Go(q, s), k)
  BY DEF Alike, Go
<1>2. \A e : Alike(Fail(p, e), Fail(q, e), k)
  BY DEF Alike, Fail
<1>3. \A f : Alike(AddFlag(p, f), AddFlag(q, f), k)
  BY DEF Alike, AddFlag
<1>4. \A h : Alike(Header(p, h), Header(q, h), k)
  BY DEF Alike, Header
<1>5. \A s : Alike(OpenSpan(p, s), OpenSpan(q, s), k)
  BY DEF Alike, OpenSpan
<1> QED  BY <1>1, <1>2, <1>3, <1>4, <1>5

\* And after a span callback, which sees only the piece.
LEMMA AlikeSpans ==
    ASSUME NEW p, NEW q, NEW k, Alike(p, q, k)
    PROVE  Alike(SpanCallback(p), SpanCallback(q), k) /\ Alike(EndSpan(p), EndSpan(q), k)
<1> USE FieldsAre
<1>1. Alike(SpanCallback(p), SpanCallback(q), k)
  BY DEF Alike, SpanCallback, OnHeaderField, OnHeaderValue
<1> QED  BY <1>1 DEF Alike, EndSpan

\* And after the callbacks and settings of the ends of headers and messages.
LEMMA AlikeEnds ==
    ASSUME NEW p, NEW q, NEW k, Alike(p, q, k)
    PROVE  /\ Alike(OnMessageComplete(p), OnMessageComplete(q), k)
           /\ Alike(AfterMessageComplete(p), AfterMessageComplete(q), k)
           /\ Alike(BeforeHeadersComplete(p), BeforeHeadersComplete(q), k)
           /\ AfterHeadersComplete(p) = AfterHeadersComplete(q)
<1> USE FieldsAre
<1>1. Alike(OnMessageComplete(p), OnMessageComplete(q), k)
  BY DEF Alike, OnMessageComplete
<1>2. NeedsEof(p) = NeedsEof(q)
  BY DEF Alike, NeedsEof
<1>3. Alike(AfterMessageComplete(p), AfterMessageComplete(q), k)
  <2>1. ShouldKeepAlive(p) = ShouldKeepAlive(q)
    BY <1>2 DEF Alike, ShouldKeepAlive
  <2> QED  BY <2>1 DEF Alike, AfterMessageComplete
<1>4. Alike(BeforeHeadersComplete(p), BeforeHeadersComplete(q), k)
  BY DEF Alike, BeforeHeadersComplete
<1>5. AfterHeadersComplete(p) = AfterHeadersComplete(q)
  BY <1>2, AlikeState DEF AfterHeadersComplete
<1> QED  BY <1>1, <1>3, <1>4, <1>5

\* And when a message completes.
LEMMA AlikeMessage ==
    ASSUME NEW p, NEW q, NEW k, Alike(p, q, k)
    PROVE  Alike(MessageComplete(p), MessageComplete(q), k)
<1>1. Alike(OnMessageComplete(p), OnMessageComplete(q), k)
  BY AlikeEnds
<1> QED  BY <1>1, AlikeState, AlikeSteps, AlikeEnds DEF MessageComplete

\* And when its headers do.
LEMMA AlikeHeaders ==
    ASSUME NEW p, NEW q, NEW k, Alike(p, q, k)
    PROVE  Alike(HeadersAlmostDone(p), HeadersAlmostDone(q), k)
<1>1. ASSUME NEW u, NEW v, Alike(u, v, k) PROVE Alike(HeadersComplete(u), HeadersComplete(v), k)
  <2>1. AfterHeadersComplete(u) = AfterHeadersComplete(v)
    BY <1>1, AlikeEnds
  <2>2. Alike(OnMessageComplete(u), OnMessageComplete(v), k)
    BY <1>1, AlikeEnds
  <2>3. Alike(AfterMessageComplete(OnMessageComplete(u)), AfterMessageComplete(OnMessageComplete(v)), k)
    BY <2>2, AlikeEnds
  <2>4. Alike([u EXCEPT !.content_length = 0, !.st = "chunk_size_digit"],
              [v EXCEPT !.content_length = 0, !.st = "chunk_size_digit"], k)
    BY <1>1, FieldsAre DEF Alike
  <2>5. AfterHeadersComplete(u) \in {"restart", "pause", "chunk_size_start", "body_identity", "body_identity_eof", "invalid"}
    BY DEF AfterHeadersComplete
  <2> QED  BY <1>1, <2>1, <2>2, <2>3, <2>4, <2>5, AlikeSteps DEF HeadersComplete
<1>2. Alike(BeforeHeadersComplete(p), BeforeHeadersComplete(q), k)
  BY AlikeEnds
<1> QED  BY <1>1, <1>2, AlikeState, AlikeSteps, AlikeMessage DEF HeadersAlmostDone

\* Two parsers that are alike are so after any line of the request.
LEMMA AlikeUrl ==
    ASSUME NEW p, NEW q, NEW k, Alike(p, q, k), NEW c
    PROVE  /\ Alike(UrlEnd(p, c), UrlEnd(q, c), k)
           /\ Alike(UrlSkipLfToHttp09(p, c), UrlSkipLfToHttp09(q, c), k)
           /\ Alike(UrlFragment(p, c), UrlFragment(q, c), k)
           /\ Alike(UrlQuery(p, c), UrlQuery(q, c), k)
           /\ Alike(UrlPath(p, c), UrlPath(q, c), k)
           /\ Alike(UrlServer(p, c), UrlServer(q, c), k)
           /\ Alike(UrlServerWithAt(p, c), UrlServerWithAt(q, c), k)
           /\ Alike(UrlSchemaDelim(p, c), UrlSchemaDelim(q, c), k)
           /\ Alike(UrlSchema(p, c), UrlSchema(q, c), k)
           /\ Alike(UrlStart(p, c), UrlStart(q, c), k)
<1> USE AlikeSteps, AlikeState
<1>1. Alike(UrlEnd(p, c), UrlEnd(q, c), k)
  <2>1. Alike([p EXCEPT !.major = 0, !.minor = 9, !.st = "header_field_start"],
              [q EXCEPT !.major = 0, !.minor = 9, !.st = "header_field_start"], k)
    BY FieldsAre DEF Alike
  <2> QED  BY <2>1 DEF UrlEnd
<1>2. Alike(UrlSkipLfToHttp09(p, c), UrlSkipLfToHttp09(q, c), k)
  BY <1>1 DEF UrlSkipLfToHttp09
<1>3. Alike(UrlFragment(p, c), UrlFragment(q, c), k)
  BY <1>1 DEF UrlFragment
<1>4. Alike(UrlQuery(p, c), UrlQuery(q, c), k)
  BY <1>1 DEF UrlQuery
<1>5. Alike(UrlPath(p, c), UrlPath(q, c), k)
  BY <1>1 DEF UrlPath, UrlQueryOrFragment
<1>6. Alike(UrlServer(p, c), UrlServer(q, c), k)
  BY <1>1 DEF UrlServer
<1>7. Alike(UrlServerWithAt(p, c), UrlServerWithAt(q, c), k)
  BY <1>6 DEF UrlServerWithAt
<1>8. Alike(UrlSchemaDelim(p, c), UrlSchemaDelim(q, c), k)
  BY DEF UrlSchemaDelim
<1>9. Alike(UrlSchema(p, c), UrlSchema(q, c), k)
  BY DEF UrlSchema
<1>10. Alike(UrlStart(p, c), UrlStart(q, c), k)
  BY <1>9 DEF UrlStart
<1> QED  BY <1>1, <1>2, <1>3, <1>4, <1>5, <1>6, <1>7, <1>8, <1>9, <1>10

\* And after any other part of the line, or of a status line.
LEMMA AlikeLine ==
    ASSUME NEW p, NEW q, NEW k, Alike(p, q, k), NEW c
    PROVE  /\ Alike(Start(p, c), Start(q, c), k)
           /\ Alike(ReqFirstSpaceBeforeUrl(p, c), ReqFirstSpaceBeforeUrl(q, c), k)
           /\ Alike(ReqSpacesBeforeUrl(p, c), ReqSpacesBeforeUrl(q, c), k)
           /\ Alike(ReqHttpStart(p, c), ReqHttpStart(q, c), k)
           /\ Alike(ReqHttpMajor(p, c), ReqHttpMajor(q, c), k)
           /\ Alike(ReqHttpDot(p, c), ReqHttpDot(q, c), k)
           /\ Alike(ReqHttpMinor(p, c), ReqHttpMinor(q, c), k)
           /\ Alike(ReqPriUpgrade(p, c), ReqPriUpgrade(q, c), k)
           /\ Alike(ReqHttpComplete(p, c), ReqHttpComplete(q, c), k)
           /\ Alike(ResHttpMajor(p, c), ResHttpMajor(q, c), k)
           /\ Alike(ResHttpDot(p, c), ResHttpDot(q, c), k)
           /\ Alike(ResHttpMinor(p, c), ResHttpMinor(q, c), k)
           /\ Alike(ResHttpEnd(p, c), ResHttpEnd(q, c), k)
           /\ Alike(ResStatusCode(p, c), ResStatusCode(q, c), k)
           /\ Alike(ResStatusStart(p, c), ResStatusStart(q, c), k)
<1> USE AlikeSteps, AlikeState
<1>1. ASSUME NEW u, NEW v, Alike(u, v, k)
      PROVE  Alike(StartReq(u, c), StartReq(v, c), k) /\ Alike(StartRes(u, c), StartRes(v, c), k)
  <2>1. \A m : Alike([u EXCEPT !.method = m, !.st = "req_first_space_before_url"],
                     [v EXCEPT !.method = m, !.st = "req_first_space_before_url"], k)
    BY <1>1, FieldsAre DEF Alike
  <2> QED  BY <1>1, <2>1 DEF StartReq, StartRes
<1>2. \A t : Alike([p EXCEPT !.type = t], [q EXCEPT !.type = t], k)
  BY FieldsAre DEF Alike
<1>3. Alike(StartReqOrRes(p, c), StartReqOrRes(q, c), k)
  BY <1>1, <1>2 DEF StartReqOrRes
<1>4. Alike(Start(p, c), Start(q, c), k)
  BY <1>1, <1>3 DEF Start
<1>5. Alike(ReqFirstSpaceBeforeUrl(p, c), ReqFirstSpaceBeforeUrl(q, c), k)
  BY DEF ReqFirstSpaceBeforeUrl
<1>6. Alike(ReqSpacesBeforeUrl(p, c), ReqSpacesBeforeUrl(q, c), k)
  BY AlikeUrl DEF ReqSpacesBeforeUrl
<1>7. Alike(ReqHttpStart(p, c), ReqHttpStart(q, c), k) /\ Alike(ReqHttpDot(p, c), ReqHttpDot(q, c), k)
  BY DEF ReqHttpStart, ReqHttpDot
<1>8. \A d, s : /\ Alike([p EXCEPT !.major = d, !.st = s], [q EXCEPT !.major = d, !.st = s], k)
                /\ Alike([p EXCEPT !.minor = d, !.st = s], [q EXCEPT !.minor = d, !.st = s], k)
                /\ Alike([p EXCEPT !.status = d, !.st = s], [q EXCEPT !.status = d, !.st = s], k)
                /\ Alike([p EXCEPT !.status = d], [q EXCEPT !.status = d], k)
  BY FieldsAre DEF Alike
<1>9. Alike(ReqHttpMajor(p, c), ReqHttpMajor(q, c), k) /\ Alike(ReqHttpMinor(p, c), ReqHttpMinor(q, c), k)
  BY <1>8 DEF ReqHttpMajor, ReqHttpMinor
<1>10. Alike(ReqPriUpgrade(p, c), ReqPriUpgrade(q, c), k) /\ Alike(ReqHttpComplete(p, c), ReqHttpComplete(q, c), k)
  BY DEF ReqPriUpgrade, ReqHttpComplete
<1>11. /\ Alike(ResHttpMajor(p, c), ResHttpMajor(q, c), k) /\ Alike(ResHttpDot(p, c), ResHttpDot(q, c), k)
       /\ Alike(ResHttpMinor(p, c), ResHttpMinor(q, c), k) /\ Alike(ResHttpEnd(p, c), ResHttpEnd(q, c), k)
  BY <1>8 DEF ResHttpMajor, ResHttpDot, ResHttpMinor, ResHttpEnd
<1>12. Alike(ResStatusStart(p, c), ResStatusStart(q, c), k)
  BY DEF ResStatusStart
<1>13. Alike(ResStatusCode(p, c), ResStatusCode(q, c), k)
  <2>1. ASSUME NEW d PROVE Alike(AddStatusDigit(p, d), AddStatusDigit(q, d), k)
    <3> DEFINE u == [p EXCEPT !.status = @ * 10 + d]
               v == [q EXCEPT !.status = @ * 10 + d]
    <3>1. Alike(u, v, k) /\ u.status = v.status
      BY FieldsAre DEF Alike
    <3> HIDE DEF u, v
    <3>2. Alike(Fail(u, "INVALID_STATUS"), Fail(v, "INVALID_STATUS"), k)
      BY <3>1, AlikeSteps
    <3> QED  BY <3>1, <3>2 DEF AddStatusDigit, u, v
  <2> QED  BY <1>12, <2>1 DEF ResStatusCode, ResStatusCodeOtherwise
<1> QED  BY <1>4, <1>5, <1>6, <1>7, <1>9, <1>10, <1>11, <1>12, <1>13

\* And after a header's name.
LEMMA AlikeField ==
    ASSUME NEW p, NEW q, NEW k, Alike(p, q, k), NEW c
    PROVE  /\ Alike(HeaderFieldStart(p, c), HeaderFieldStart(q, c), k)
           /\ Alike(HeaderFieldColon(p, c), HeaderFieldColon(q, c), k)
           /\ Alike(HeaderFieldGeneral(p, c), HeaderFieldGeneral(q, c), k)
<1>1. ASSUME NEW u, NEW v, Alike(u, v, k) PROVE Alike(HeaderFieldGeneral(u, c), HeaderFieldGeneral(v, c), k)
  BY <1>1, AlikeSteps, AlikeSpans DEF HeaderFieldGeneral
<1>2. Alike(HeaderFieldColon(p, c), HeaderFieldColon(q, c), k)
  BY <1>1, AlikeSteps, AlikeSpans DEF HeaderFieldColon
<1>3. ASSUME NEW u, NEW v, Alike(u, v, k) PROVE Alike(HeaderField(u, c), HeaderField(v, c), k)
  BY <1>1, <1>3, AlikeSteps DEF HeaderField
<1>4. Alike(HeaderFieldStart(p, c), HeaderFieldStart(q, c), k)
  BY <1>3, AlikeSteps, AlikeHeaders DEF HeaderFieldStart
<1> QED  BY <1>1, <1>2, <1>4

\* And at the end of a value, or on a character that tells nothing of it.
LEMMA AlikeOtherwise ==
    ASSUME NEW p, NEW q, NEW k, Alike(p, q, k), NEW c
    PROVE  /\ Alike(HeaderValueAlmostDone(p, c), HeaderValueAlmostDone(q, c), k)
           /\ Alike(HeaderValueOtherwise(p, c), HeaderValueOtherwise(q, c), k)
           /\ Alike(HeaderValue(p, c), HeaderValue(q, c), k)
           /\ Alike(TakeHeaderState(p), TakeHeaderState(q), k)
<1>1. ASSUME NEW u, NEW v, Alike(u, v, k) PROVE Alike(HeaderValueAlmostDone(u, c), HeaderValueAlmostDone(v, c), k)
  BY <1>1, AlikeSteps DEF HeaderValueAlmostDone
<1>2. Alike(HeaderValueOtherwise(p, c), HeaderValueOtherwise(q, c), k)
  BY <1>1, AlikeSteps, AlikeSpans DEF HeaderValueOtherwise
<1>3. Alike(HeaderValue(p, c), HeaderValue(q, c), k)
  BY <1>2, AlikeSteps DEF HeaderValue
<1>4. Alike(TakeHeaderState(p), TakeHeaderState(q), k)
  <2>1. \A f, h : Alike(Header(AddFlag(p, f), h), Header(AddFlag(q, f), h), k)
    BY AlikeSteps
  <2> QED  BY <2>1, AlikeSteps, AlikeState DEF TakeHeaderState
<1> QED  BY <1>1, <1>2, <1>3, <1>4

\* And after a digit of a length (llhttp__internal__c_mul_add_content_length).
LEMMA AlikeDigits ==
    ASSUME NEW p, NEW q, NEW k, Alike(p, q, k), NEW b, NEW d, NEW e
    PROVE  Alike(MulAdd(p, b, d, e), MulAdd(q, b, d, e), k)
<1> DEFINE u == [p EXCEPT !.content_length = @ * b]
           v == [q EXCEPT !.content_length = @ * b]
<1>1. Alike(u, v, k)
  BY FieldsAre DEF Alike
<1>2. p.content_length = q.content_length /\ u.content_length = v.content_length
  BY FieldsAre DEF Alike
<1> HIDE DEF u, v
<1>3. Alike([u EXCEPT !.content_length = @ + d], [v EXCEPT !.content_length = @ + d], k)
  BY <1>1, FieldsAre DEF Alike
<1>4. Alike(Fail(p, e), Fail(q, e), k) /\ Alike(Fail(u, e), Fail(v, e), k)
  BY <1>1, AlikeSteps
<1> QED  BY <1>2, <1>3, <1>4 DEF MulAdd, u, v

\* And in the values the parser reads itself: Connection, Content-Length and Transfer-Encoding.
LEMMA AlikeValue ==
    ASSUME NEW p, NEW q, NEW k, Alike(p, q, k), NEW c
    PROVE  /\ Alike(HeaderValueConnection(p, c), HeaderValueConnection(q, c), k)
           /\ Alike(HeaderValueConnectionToken(p, c), HeaderValueConnectionToken(q, c), k)
           /\ Alike(HeaderValueConnectionWs(p, c), HeaderValueConnectionWs(q, c), k)
           /\ Alike(HeaderValueContentLength(p, c), HeaderValueContentLength(q, c), k)
           /\ Alike(HeaderValueContentLengthWs(p, c), HeaderValueContentLengthWs(q, c), k)
           /\ Alike(HeaderValueTeToken(p, c), HeaderValueTeToken(q, c), k)
           /\ Alike(HeaderValueTeChunked(p, c), HeaderValueTeChunked(q, c), k)
           /\ Alike(HeaderValueTeTokenOws(p, c), HeaderValueTeTokenOws(q, c), k)
           /\ Alike(HeaderValueTeChunkedLast(p, c), HeaderValueTeChunkedLast(q, c), k)
<1>1. ASSUME NEW u, NEW v, Alike(u, v, k)
      PROVE  Alike(HeaderValueConnectionToken(u, c), HeaderValueConnectionToken(v, c), k)
  BY <1>1, AlikeSteps, AlikeOtherwise DEF HeaderValueConnectionToken
<1>2. Alike(HeaderValueConnectionWs(p, c), HeaderValueConnectionWs(q, c), k)
  <2>1. Alike(HeaderValueConnectionToken(Header(p, "GENERAL"), c), HeaderValueConnectionToken(Header(q, "GENERAL"), c), k)
    BY <1>1, AlikeSteps
  <2>2. Alike(TakeHeaderState(p), TakeHeaderState(q), k)
    BY AlikeOtherwise
  <2>3. Alike(Go(TakeHeaderState(p), "header_value_connection"), Go(TakeHeaderState(q), "header_value_connection"), k)
    BY <2>2, AlikeSteps
  <2>4. Alike(HeaderValueOtherwise(p, c), HeaderValueOtherwise(q, c), k)
    BY AlikeOtherwise
  <2> QED  BY <2>1, <2>3, <2>4 DEF HeaderValueConnectionWs, LineEnds
<1>3. Alike(HeaderValueConnection(p, c), HeaderValueConnection(q, c), k)
  <2>1. \A h, s : Alike(Go(Header(p, h), s), Go(Header(q, h), s), k)
    BY AlikeSteps
  <2> QED  BY <1>1, <2>1, AlikeSteps DEF HeaderValueConnection
<1>4. Alike(HeaderValueContentLengthWs(p, c), HeaderValueContentLengthWs(q, c), k)
  <2>1. Alike(HeaderValueOtherwise(AddFlag(p, "CONTENT_LENGTH"), c), HeaderValueOtherwise(AddFlag(q, "CONTENT_LENGTH"), c), k)
    BY AlikeSteps, AlikeOtherwise
  <2>2. Alike(Fail(EndSpan(p), "INVALID_CONTENT_LENGTH"), Fail(EndSpan(q), "INVALID_CONTENT_LENGTH"), k)
    BY AlikeSteps, AlikeSpans
  <2> QED  BY <2>1, <2>2, AlikeSteps DEF HeaderValueContentLengthWs
<1>5. Alike(HeaderValueContentLength(p, c), HeaderValueContentLength(q, c), k)
  <2> DEFINE u == MulAdd(Go(p, "header_value_content_length"), 10, Digits[c], "INVALID_CONTENT_LENGTH")
             v == MulAdd(Go(q, "header_value_content_length"), 10, Digits[c], "INVALID_CONTENT_LENGTH")
  <2>1. Alike(u, v, k)
    BY AlikeSteps, AlikeDigits
  <2>2. u.error = v.error /\ Alike(EndSpan(u), EndSpan(v), k)
    BY <2>1, AlikeState, AlikeSpans
  <2> QED  BY <1>4, <2>1, <2>2 DEF HeaderValueContentLength
<1>6. Alike(HeaderValueTeToken(p, c), HeaderValueTeToken(q, c), k)
  BY AlikeSteps, AlikeOtherwise DEF HeaderValueTeToken
<1>7. Alike(HeaderValueTeChunked(p, c), HeaderValueTeChunked(q, c), k)
  BY <1>6, AlikeSteps DEF HeaderValueTeChunked
<1>8. Alike(HeaderValueTeTokenOws(p, c), HeaderValueTeTokenOws(q, c), k)
  BY <1>7 DEF HeaderValueTeTokenOws
<1>9. Alike(HeaderValueTeChunkedLast(p, c), HeaderValueTeChunkedLast(q, c), k)
  <2>1. Alike(HeaderValueOtherwise(Header(p, "TRANSFER_ENCODING_CHUNKED"), c),
              HeaderValueOtherwise(Header(q, "TRANSFER_ENCODING_CHUNKED"), c), k)
    BY AlikeSteps, AlikeOtherwise
  <2> QED  BY <1>7, <2>1 DEF HeaderValueTeChunkedLast
<1> QED  BY <1>1, <1>2, <1>3, <1>4, <1>5, <1>6, <1>7, <1>8, <1>9

\* And in the blanks before a value and after its line.
LEMMA AlikeLws ==
    ASSUME NEW p, NEW q, NEW k, Alike(p, q, k), NEW c
    PROVE  /\ Alike(HeaderValueLws(p, c), HeaderValueLws(q, c), k)
           /\ Alike(HeaderValueDiscardLws(p, c), HeaderValueDiscardLws(q, c), k)
           /\ Alike(HeaderValueDiscardWs(p, c), HeaderValueDiscardWs(q, c), k)
<1>1. Alike(HeaderValueStart(p, c), HeaderValueStart(q, c), k)
  <2> DEFINE u == OpenSpan(p, "value")
             v == OpenSpan(q, "value")
  <2>1. Alike(u, v, k)
    BY AlikeSteps
  <2> HIDE DEF u, v
  <2>2. /\ u.header_state = v.header_state /\ u.flags = v.flags
        /\ Alike(HeaderValueConnection(u, c), HeaderValueConnection(v, c), k)
        /\ Alike(HeaderValueContentLength(u, c), HeaderValueContentLength(v, c), k)
        /\ Alike(HeaderValue(u, c), HeaderValue(v, c), k)
        /\ \A e : Alike(Fail(u, e), Fail(v, e), k)
    BY <2>1, AlikeState, AlikeSteps, AlikeOtherwise, AlikeValue
  <2>3. Alike(HeaderValue(Header(AddFlag(u, "UPGRADE"), "GENERAL"), c),
              HeaderValue(Header(AddFlag(v, "UPGRADE"), "GENERAL"), c), k)
    BY <2>1, AlikeSteps, AlikeOtherwise
  <2>4. Alike([u EXCEPT !.flags = (@ \cup {"TRANSFER_ENCODING"}) \ {"CHUNKED"}],
              [v EXCEPT !.flags = (@ \cup {"TRANSFER_ENCODING"}) \ {"CHUNKED"}], k)
    BY <2>1, FieldsAre DEF Alike
  <2>5. Alike(HeaderValueTeChunked([u EXCEPT !.flags = (@ \cup {"TRANSFER_ENCODING"}) \ {"CHUNKED"}], c),
              HeaderValueTeChunked([v EXCEPT !.flags = (@ \cup {"TRANSFER_ENCODING"}) \ {"CHUNKED"}], c), k)
    BY <2>4, AlikeValue
  <2> QED  BY <2>2, <2>3, <2>5 DEF HeaderValueStart, u, v
<1>2. Alike(HeaderValueLws(p, c), HeaderValueLws(q, c), k)
  BY <1>1, AlikeOtherwise, AlikeField DEF HeaderValueLws
<1>3. Alike(HeaderValueDiscardLws(p, c), HeaderValueDiscardLws(q, c), k)
  <2>1. Alike(TakeHeaderState(p), TakeHeaderState(q), k)
    BY AlikeOtherwise
  <2>2. Alike(EndSpan(OpenSpan(TakeHeaderState(p), "value")), EndSpan(OpenSpan(TakeHeaderState(q), "value")), k)
    BY <2>1, AlikeSteps, AlikeSpans
  <2> QED  BY <2>2, AlikeState, AlikeSteps, AlikeField DEF HeaderValueDiscardLws
<1>4. Alike(HeaderValueDiscardWs(p, c), HeaderValueDiscardWs(q, c), k)
  BY <1>1, AlikeSteps DEF HeaderValueDiscardWs
<1> QED  BY <1>2, <1>3, <1>4

\* And in a body.
LEMMA AlikeBody ==
    ASSUME NEW p, NEW q, NEW k, Alike(p, q, k), NEW c
    PROVE  /\ Alike(ConsumeContentLength1(p), ConsumeContentLength1(q), k)
           /\ Alike(ChunkSizeDigit(p, c), ChunkSizeDigit(q, c), k)
           /\ Alike(ChunkSize(p, c), ChunkSize(q, c), k)
           /\ Alike(ChunkParameters(p, c), ChunkParameters(q, c), k)
           /\ Alike(ChunkSizeAlmostDone(p), ChunkSizeAlmostDone(q), k)
           /\ Alike(ConsumeContentLength(p), ConsumeContentLength(q), k)
           /\ Alike(ChunkDataAlmostDoneSkip(p), ChunkDataAlmostDoneSkip(q), k)
<1> USE AlikeSteps, AlikeState
<1>1. Alike([p EXCEPT !.content_length = @ - 1], [q EXCEPT !.content_length = @ - 1], k)
  BY FieldsAre DEF Alike
<1>2. Alike(ConsumeContentLength1(p), ConsumeContentLength1(q), k)
  BY <1>1, AlikeMessage DEF ConsumeContentLength1
<1>3. Alike(ConsumeContentLength(p), ConsumeContentLength(q), k)
  BY <1>1 DEF ConsumeContentLength
<1>4. Alike(ChunkSize(p, c), ChunkSize(q, c), k)
  BY AlikeDigits DEF ChunkSize, ChunkSizeOtherwise
<1>5. Alike(ChunkSizeDigit(p, c), ChunkSizeDigit(q, c), k) /\ Alike(ChunkParameters(p, c), ChunkParameters(q, c), k)
  BY <1>4 DEF ChunkSizeDigit, ChunkParameters
<1>6. Alike(ChunkSizeAlmostDone(p), ChunkSizeAlmostDone(q), k)
  BY DEF ChunkSizeAlmostDone
<1>7. Alike(ChunkDataAlmostDoneSkip(p), ChunkDataAlmostDoneSkip(q), k)
  BY FieldsAre DEF Alike, ChunkDataAlmostDoneSkip
<1> QED  BY <1>2, <1>3, <1>4, <1>5, <1>6, <1>7

\* The states of llhttp_internal__run, by what is being read: the first line,
LineStates ==
    {"start", "req_first_space_before_url", "req_spaces_before_url", "url_schema", "url_schema_delim",
     "url_schema_delim_1", "url_server", "url_server_with_at", "url_path", "url_query", "url_fragment",
     "url_skip_lf_to_http09", "req_http_start", "req_http_major", "req_http_dot", "req_http_minor",
     "req_pri_upgrade", "req_http_complete", "req_http_complete_1", "res_http_major", "res_http_dot",
     "res_http_minor", "res_http_end", "res_status_code", "res_status_start", "res_status",
     "res_line_almost_done"}
\* a header's name,
FieldStates == {"header_field_start", "header_field_colon", "header_field_general"}
\* the blanks before its value,
BlankStates == {"header_value_discard_ws", "header_value_discard_ws_almost_done", "header_value_discard_lws"}
\* the value,
ValueStates ==
    {"header_value", "header_value_connection", "header_value_connection_token", "header_value_connection_ws",
     "header_value_content_length", "header_value_content_length_ws", "header_value_te_token",
     "header_value_te_token_ows", "header_value_te_chunked_last"}
\* the end of its line, and of all the headers,
EndStates == {"header_value_almost_done", "header_value_lws", "headers_almost_done"}
\* a chunked body,
ChunkStates == {"chunk_size_digit", "chunk_size", "chunk_parameters", "chunk_size_almost_done",
                "chunk_data_almost_done", "chunk_data_almost_done_skip"}
\* a body of a known length,
BodyStates == {"consume_content_length_1", "consume_content_length"}
\* and what follows the last message.
LastStates == {"eof", "closed"}
\* All of them.
States == LineStates \cup FieldStates \cup BlankStates \cup ValueStates \cup EndStates
          \cup ChunkStates \cup BodyStates \cup LastStates

\* Alike parsers are alike after a character, in every state.
LEMMA AlikeStep ==
    ASSUME NEW p, NEW q, NEW k, Alike(p, q, k), NEW c, p.st \in States
    PROVE  Alike(Step(p, c), Step(q, c), k)
<1>1. p.st = q.st
  BY AlikeState
<1>2. \A s : Alike(Go(p, s), Go(q, s), k)
  BY AlikeSteps
<1>3. CASE p.st \in LineStates
  BY <1>1, <1>2, <1>3, AlikeUrl, AlikeLine DEF Step, LineStates
<1>4. CASE p.st \in FieldStates \cup BlankStates
  BY <1>1, <1>2, <1>4, AlikeField, AlikeLws DEF Step, FieldStates, BlankStates
<1>5. CASE p.st \in ValueStates
  BY <1>1, <1>2, <1>5, AlikeValue, AlikeOtherwise DEF Step, ValueStates
<1>6. CASE p.st \in EndStates
  BY <1>1, <1>2, <1>6, AlikeLws, AlikeOtherwise, AlikeHeaders DEF Step, EndStates
<1>7. CASE p.st \in ChunkStates \cup BodyStates \cup LastStates
  BY <1>1, <1>2, <1>7, AlikeBody DEF Step, ChunkStates, BodyStates, LastStates
<1> QED  BY <1>3, <1>4, <1>5, <1>6, <1>7 DEF States

\* And when the character finds them in error, where it is skipped.
LEMMA AlikeAdvance ==
    ASSUME NEW p, NEW q, NEW k, Alike(p, q, k), NEW c, p.st \in States
    PROVE  Alike(Advance(p, c), Advance(q, c), k)
<1>1. ASSUME NEW u, NEW v, Alike(u, v, k) PROVE Alike(InSpan(u, c), InSpan(v, c), k)
  <2>1. u.span = v.span /\ u.error = v.error
    BY <1>1, AlikeState
  <2>2. Alike([u EXCEPT !.piece = Append(@, c)], [v EXCEPT !.piece = Append(@, c)], k)
    BY <1>1, FieldsAre DEF Alike
  <2> QED  BY <1>1, <2>1, <2>2 DEF InSpan
<1>2. p.error = q.error
  BY AlikeState
<1> QED  BY <1>1, <1>2, AlikeStep DEF Advance

\* The callback at the end of the data of a call changes only what may differ.
LEMMA AlikeEndOfData ==
    ASSUME NEW p, NEW q, NEW k, Alike(p, q, k)
    PROVE  Alike(EndOfData(p), q, k)
BY FieldsAre DEF Alike, EndOfData, SpanCallback, OnHeaderField, OnHeaderValue

\* The facts of a fold, for the characters that a parser takes one by one.
Scans == INSTANCE FoldFacts WITH Take <- Advance

\* Scan is that fold.
LEMMA ScanIs == ASSUME NEW p, NEW s PROVE Scan(p, s) = Scans!Folded(p, s)
BY DEF Scan, FoldLeft, MapThenFoldSet, Max, Scans!Folded, Scans!Folds, Scans!Greatest

\* No character changes nothing.
LEMMA ScanNothing == ASSUME NEW p PROVE Scan(p, <<>>) = p
BY ScanIs, Scans!FoldedNothing

\* The last character is taken last.
LEMMA ScanAppend ==
    ASSUME NEW p, NEW s \in Seq(STRING), NEW c \in STRING
    PROVE  Scan(p, Append(s, c)) = Advance(Scan(p, s), c)
BY ScanIs, Scans!FoldedAppend

\* What is scanned in two parts is scanned as a whole.
LEMMA ScanJoined ==
    ASSUME NEW p, NEW a \in Seq(STRING), NEW b \in Seq(STRING)
    PROVE  Scan(Scan(p, a), b) = Scan(p, a \o b)
BY ScanIs, Scans!FoldedJoined

\* What holds of a parser, and of it after any character, holds after any.
LEMMA AlikeScan ==
    ASSUME NEW p, NEW q, NEW k, Alike(p, q, k), NEW s \in Seq(STRING),
           \A t \in Seq(STRING) : Scan(q, t).st \in States
    PROVE  Alike(Scan(p, s), Scan(q, s), k)
<1> DEFINE S == {n \in Nat : \A t \in Seq(STRING) : Len(t) = n => Alike(Scan(p, t), Scan(q, t), k)}
<1>1. 0 \in S
  <2>1. \A t \in Seq(STRING) : Len(t) = 0 => t = <<>>
    OBVIOUS
  <2> QED  BY <2>1, ScanNothing
<1>2. ASSUME NEW n \in Nat, n \in S PROVE n + 1 \in S
  <2> SUFFICES ASSUME NEW t \in Seq(STRING), Len(t) = n + 1 PROVE Alike(Scan(p, t), Scan(q, t), k)
    OBVIOUS
  <2> DEFINE r == SubSeq(t, 1, n)
             c == t[n + 1]
  <2>1. r \in Seq(STRING) /\ Len(r) = n /\ c \in STRING /\ t = Append(r, c)
    BY Scans!LastApart, Zenon
  <2> HIDE DEF r, c
  <2>2. Alike(Scan(p, r), Scan(q, r), k)
    BY <1>2, <2>1
  <2>3. Scan(p, r).st \in States
    BY <2>1, <2>2, AlikeState
  <2>4. Alike(Advance(Scan(p, r), c), Advance(Scan(q, r), c), k)
    BY <2>2, <2>3, AlikeAdvance
  <2> QED  BY <2>1, <2>4, ScanAppend
<1> HIDE DEF S
<1>3. Nat \subseteq S
  BY <1>1, <1>2, Scans!NatSetInduction
<1>4. Len(s) \in S
  BY <1>3
<1> QED  BY <1>4 DEF S

\* A parser in error stays as it is (llhttp__internal_execute returns at once).
LEMMA ErrorStays ==
    ASSUME NEW p, p.error # "OK", NEW s \in Seq(STRING)
    PROVE  Scan(p, s) = p
<1> DEFINE S == {n \in Nat : \A t \in Seq(STRING) : Len(t) = n => Scan(p, t) = p}
<1>1. 0 \in S
  <2>1. \A t \in Seq(STRING) : Len(t) = 0 => t = <<>>
    OBVIOUS
  <2> QED  BY <2>1, ScanNothing
<1>2. ASSUME NEW n \in Nat, n \in S PROVE n + 1 \in S
  <2> SUFFICES ASSUME NEW t \in Seq(STRING), Len(t) = n + 1 PROVE Scan(p, t) = p
    OBVIOUS
  <2> DEFINE r == SubSeq(t, 1, n)
             c == t[n + 1]
  <2>1. r \in Seq(STRING) /\ Len(r) = n /\ c \in STRING /\ t = Append(r, c)
    BY Scans!LastApart, Zenon
  <2> HIDE DEF r, c
  <2>2. Scan(p, r) = p
    BY <1>2, <2>1
  <2>3. Advance(p, c) = p
    BY DEF Advance
  <2> QED  BY <2>1, <2>2, <2>3, ScanAppend
<1> HIDE DEF S
<1>3. Nat \subseteq S
  BY <1>1, <1>2, Scans!NatSetInduction
<1>4. Len(s) \in S
  BY <1>3
<1> QED  BY <1>4 DEF S

------------------------------------------------------------------------------
\* The fields and the state of a parser.

\* The states within a header's name, where the span of on_header_field is open.
NameStates == {"header_field_colon", "header_field_general"}

\* Every field in its range.
Ranged(p) ==
    /\ DOMAIN p = Fields
    /\ p.method \in 0 .. 45 /\ p.status \in StoredCodes
    /\ p.content_length \in 0 .. MaxLength /\ p.upgrade \in BOOLEAN /\ p.complete \in Nat

\* The span that is open in a state.
SpanOf(st) == IF st \in NameStates THEN "field" ELSE IF st \in ValueStates THEN "value" ELSE "none"

\* What a parser that goes on has, by its state.
Placed(p) ==
    /\ p.status \in StatusCodes
    /\ p.st \in BodyStates => p.content_length > 0
    /\ p.span = SpanOf(p.st)
    /\ p.st \notin NameStates \cup ValueStates \cup BlankStates => p.cur_name = <<>>
    /\ p.st \in LineStates => p.flags = {} /\ DOMAIN p.headers = {}

\* The range of every field, and what goes with the state.
Sound(p) == Ranged(p) /\ p.st \in States /\ (p.error = "OK" => Placed(p))

\* A parser between the values of its state: on a line, outside of names and
\* values, in a name, in a value, and after a name.
Lined(p)   == /\ Ranged(p) /\ p.st \in States /\ p.error = "OK" /\ p.status \in StatusCodes /\ p.span = "none" /\ p.cur_name = <<>>
              /\ p.flags = {} /\ DOMAIN p.headers = {}
Plain(p)   == Ranged(p) /\ p.st \in States /\ p.error = "OK" /\ p.status \in StatusCodes /\ p.span = "none" /\ p.cur_name = <<>>
Naming(p)  == Ranged(p) /\ p.st \in States /\ p.error = "OK" /\ p.status \in StatusCodes /\ p.span = "field"
Valuing(p) == Ranged(p) /\ p.st \in States /\ p.error = "OK" /\ p.status \in StatusCodes /\ p.span = "value"
Between(p) == Ranged(p) /\ p.st \in States /\ p.error = "OK" /\ p.status \in StatusCodes /\ p.span = "none"

\* A code the parser goes on with can be stored; the first is one.
LEMMA CodesStored == 0 \in StatusCodes /\ \A d \in StatusCodes : d \in StoredCodes
<1>1. 0 \in StatusCodes
  BY DEF StatusCodes
<1>2. ASSUME NEW d \in StatusCodes PROVE d \in StoredCodes
  BY SMT DEF StatusCodes, StoredCodes
<1> QED  BY <1>1, <1>2

\* One more digit makes a code of at most four.
LEMMA CodeStays ==
    ASSUME NEW m \in StatusCodes, NEW d \in 0 .. 9
    PROVE  m * 10 + d \in StoredCodes /\ (m * 10 + d > 999 \/ m * 10 + d \in StatusCodes)
<1>1. m * 10 + d \in StoredCodes
  BY DEF StatusCodes, StoredCodes
<1>2. m * 10 + d > 999 \/ m * 10 + d \in StatusCodes
  BY DEF StatusCodes
<1> QED  BY <1>1, <1>2

\* No state is of two groups.
LEMMA Apart ==
    /\ \A s \in LineStates : s \in States /\ s \notin NameStates \cup ValueStates \cup BlankStates \cup BodyStates
    /\ \A s \in NameStates : s \in States /\ s \notin LineStates \cup ValueStates \cup BlankStates \cup BodyStates
    /\ \A s \in ValueStates : s \in States /\ s \notin LineStates \cup NameStates \cup BlankStates \cup BodyStates
    /\ \A s \in BlankStates : s \in States /\ s \notin LineStates \cup NameStates \cup ValueStates \cup BodyStates
    /\ \A s \in EndStates \cup ChunkStates \cup BodyStates \cup LastStates \cup {"header_field_start"} :
          s \in States /\ s \notin LineStates \cup NameStates \cup ValueStates \cup BlankStates
    /\ \A s \in EndStates \cup ChunkStates \cup LastStates \cup {"header_field_start"} : s \notin BodyStates
BY DEF States, LineStates, NameStates, FieldStates, ValueStates, BlankStates, EndStates, ChunkStates,
       BodyStates, LastStates

\* The states with no span open after the first line.
OtherStates == EndStates \cup ChunkStates \cup LastStates \cup {"header_field_start"}

\* Where a parser may go and be sound.
LEMMA SoundGo ==
    ASSUME NEW p
    PROVE  /\ Lined(p) => \A s \in LineStates : Sound(Go(p, s))
           /\ Plain(p) => \A s \in OtherStates : Sound(Go(p, s))
           /\ Plain(p) /\ p.content_length > 0 => \A s \in BodyStates : Sound(Go(p, s))
           /\ Naming(p) => \A s \in NameStates : Sound(Go(p, s))
           /\ Valuing(p) => \A s \in ValueStates : Sound(Go(p, s))
           /\ Between(p) => \A s \in BlankStates : Sound(Go(p, s))
<1> USE FieldsAre, Apart
<1>1. ASSUME Lined(p), NEW s \in LineStates PROVE Sound(Go(p, s))
  BY <1>1 DEF Lined, Ranged, Sound, Placed, SpanOf, Go
<1>2. ASSUME Plain(p), NEW s \in OtherStates PROVE Sound(Go(p, s))
  BY <1>2 DEF Plain, Ranged, Sound, Placed, SpanOf, Go, OtherStates
<1>3. ASSUME Plain(p), p.content_length > 0, NEW s \in BodyStates PROVE Sound(Go(p, s))
  BY <1>3 DEF Plain, Ranged, Sound, Placed, SpanOf, Go
<1>4. ASSUME Naming(p), NEW s \in NameStates PROVE Sound(Go(p, s))
  BY <1>4 DEF Naming, Ranged, Sound, Placed, SpanOf, Go
<1>5. ASSUME Valuing(p), NEW s \in ValueStates PROVE Sound(Go(p, s))
  BY <1>5 DEF Valuing, Ranged, Sound, Placed, SpanOf, Go
<1>6. ASSUME Between(p), NEW s \in BlankStates PROVE Sound(Go(p, s))
  BY <1>6 DEF Between, Ranged, Sound, Placed, SpanOf, Go
<1> QED  BY <1>1, <1>2, <1>3, <1>4, <1>5, <1>6

\* A parser that fails is sound.
LEMMA SoundFail ==
    ASSUME NEW p, Ranged(p), p.st \in States, NEW e, e # "OK"
    PROVE  Sound(Fail(p, e))
BY FieldsAre DEF Ranged, Sound, Fail

\* The kind of a sound parser, by its state.
LEMMA Kinds ==
    ASSUME NEW p, Sound(p), p.error = "OK"
    PROVE  /\ p.st \in LineStates => Lined(p)
           /\ p.st \in OtherStates \cup BodyStates => Plain(p)
           /\ p.st \in NameStates => Naming(p)
           /\ p.st \in ValueStates => Valuing(p)
           /\ p.st \in BlankStates => Between(p)
<1> USE Apart
<1> USE DEF Sound, Placed, SpanOf
<1>1. p.st \in LineStates => Lined(p)
  BY DEF Lined
<1>2. p.st \in OtherStates \cup BodyStates => Plain(p)
  BY DEF Plain, OtherStates
<1>3. p.st \in NameStates => Naming(p)
  BY DEF Naming
<1>4. p.st \in ValueStates => Valuing(p)
  BY DEF Valuing
<1>5. p.st \in BlankStates => Between(p)
  BY DEF Between
<1> QED  BY <1>1, <1>2, <1>3, <1>4, <1>5

\* How opening and closing a span changes the kind.
LEMMA KindsStay ==
    ASSUME NEW p
    PROVE  /\ Lined(p) => Plain(p)
           /\ Plain(p) => Between(p) /\ Naming(OpenSpan(p, "field"))
           /\ Between(p) => Valuing(OpenSpan(p, "value"))
           /\ Naming(p) => Between(EndSpan(p))
           /\ Valuing(p) => Plain(EndSpan(p))
           /\ Naming(p) \/ Valuing(p) \/ Between(p) =>
                 \A e : e # "OK" => Sound(Fail(p, e)) /\ Sound(Fail(EndSpan(p), e))
<1> USE FieldsAre
<1>1. Lined(p) => Plain(p)
  BY DEF Lined, Plain
<1>2. Plain(p) => Between(p) /\ Naming(OpenSpan(p, "field"))
  BY DEF Plain, Between, Naming, OpenSpan, Ranged
<1>3. Between(p) => Valuing(OpenSpan(p, "value"))
  BY DEF Between, Valuing, OpenSpan, Ranged
<1>4. Naming(p) => Between(EndSpan(p))
  BY DEF Between, Naming, EndSpan, SpanCallback, OnHeaderField, Ranged
<1>5. Valuing(p) => Plain(EndSpan(p))
  <2> SUFFICES ASSUME Valuing(p) PROVE Plain(EndSpan(p))
    OBVIOUS
  <2>1. SpanCallback(p) = OnHeaderValue(p)
    BY DEF Valuing, SpanCallback
  <2> DEFINE q == OnHeaderValue(p)
  <2>2. Ranged(q) /\ q.st \in States /\ q.error = "OK" /\ q.status \in StatusCodes /\ q.cur_name = <<>>
    BY DEF Valuing, OnHeaderValue, Ranged
  <2> HIDE DEF q
  <2>3. Plain([q EXCEPT !.span = "none", !.piece = <<>>])
    BY <2>2 DEF Plain, Ranged
  <2> QED  BY <2>1, <2>3 DEF EndSpan, q
<1>6. Between(p) => Between(EndSpan(p))
  BY DEF Between, EndSpan, SpanCallback, Ranged
<1>7. ASSUME NEW q, Naming(q) \/ Valuing(q) \/ Between(q) PROVE \A e : e # "OK" => Sound(Fail(q, e))
  BY <1>7, SoundFail DEF Naming, Valuing, Between
<1>8. ASSUME Naming(p) \/ Valuing(p) \/ Between(p) PROVE \A e : e # "OK" => Sound(Fail(p, e)) /\ Sound(Fail(EndSpan(p), e))
  <2>1. Between(EndSpan(p)) \/ Plain(EndSpan(p))
    BY <1>4, <1>5, <1>6, <1>8
  <2>2. Between(EndSpan(p))
    BY <2>1 DEF Plain, Between
  <2> QED  BY <1>7, <1>8, <2>2
<1> QED  BY <1>1, <1>2, <1>3, <1>4, <1>5, <1>8

\* A flag or a header state does not.
LEMMA KindsKept ==
    ASSUME NEW p, NEW x
    PROVE  /\ Plain(p) => Plain(AddFlag(p, x)) /\ Plain(Header(p, x))
           /\ Naming(p) => Naming(AddFlag(p, x)) /\ Naming(Header(p, x))
           /\ Valuing(p) => Valuing(AddFlag(p, x)) /\ Valuing(Header(p, x))
           /\ Between(p) => Between(AddFlag(p, x)) /\ Between(Header(p, x))
<1> USE FieldsAre DEF Ranged, AddFlag, Header
<1>1. Plain(p) => Plain(AddFlag(p, x)) /\ Plain(Header(p, x))
  BY DEF Plain
<1>2. Naming(p) => Naming(AddFlag(p, x)) /\ Naming(Header(p, x))
  BY DEF Naming
<1>3. Valuing(p) => Valuing(AddFlag(p, x)) /\ Valuing(Header(p, x))
  BY DEF Valuing
<1>4. Between(p) => Between(AddFlag(p, x)) /\ Between(Header(p, x))
  BY DEF Between
<1> QED  BY <1>1, <1>2, <1>3, <1>4

\* Nor does the header state that is acted on at the end of a value.
LEMMA KindsTaken ==
    ASSUME NEW p
    PROVE  /\ Plain(p) => Plain(TakeHeaderState(p))
           /\ Valuing(p) => Valuing(TakeHeaderState(p))
           /\ Between(p) => Between(TakeHeaderState(p))
<1>1. Plain(p) => Plain(TakeHeaderState(p))
  BY KindsKept DEF TakeHeaderState
<1>2. Valuing(p) => Valuing(TakeHeaderState(p))
  BY KindsKept DEF TakeHeaderState
<1>3. Between(p) => Between(TakeHeaderState(p))
  BY KindsKept DEF TakeHeaderState
<1> QED  BY <1>1, <1>2, <1>3

\* The values of digits and methods are in range.
LEMMA CodesAre ==
    /\ \A c \in DOMAIN Digits : Digits[c] \in 0 .. 9
    /\ \A c \in DOMAIN HexDigits : HexDigits[c] \in 0 .. 10
    /\ \A m \in DOMAIN MethodCode : MethodCode[m] \in 0 .. 45
<1>1. \A c \in DOMAIN Digits : Digits[c] \in 0 .. 9
  BY DEF Digits
<1>2. \A c \in DOMAIN HexDigits : HexDigits[c] \in 0 .. 10
  BY <1>1 DEF HexDigits
<1>3. DOMAIN MethodNames = 1 .. 46
  BY DEF MethodNames
<1>4. \A m \in DOMAIN MethodCode : MethodCode[m] \in 0 .. 45
  BY <1>3, MethodsAgree DEF ToSet
<1> QED  BY <1>1, <1>2, <1>4

\* Where a parser on the first line may go.
LEMMA LineGoes ==
    ASSUME NEW p, Lined(p)
    PROVE  /\ \A s \in LineStates \cup {"header_field_start"} : Sound(Go(p, s))
           /\ \A e : e # "OK" => Sound(Fail(p, e))
           /\ p.st \in LineStates => Sound(p)
<1>1. Plain(p) /\ Between(p)
  BY KindsStay
<1>2. "header_field_start" \in OtherStates
  BY DEF OtherStates
<1>3. p.st \in LineStates => Sound(p)
  BY Apart DEF Lined, Sound, Placed, SpanOf
<1> QED  BY <1>1, <1>2, <1>3, SoundGo, KindsStay

\* The URL keeps a parser sound.
LEMMA SoundUrl ==
    ASSUME NEW p, Lined(p), p.st \in LineStates, NEW c
    PROVE  /\ Sound(UrlEnd(p, c)) /\ Sound(UrlSkipLfToHttp09(p, c)) /\ Sound(UrlFragment(p, c))
           /\ Sound(UrlQuery(p, c)) /\ Sound(UrlPath(p, c)) /\ Sound(UrlServer(p, c))
           /\ Sound(UrlServerWithAt(p, c)) /\ Sound(UrlSchemaDelim(p, c)) /\ Sound(UrlSchema(p, c))
           /\ Sound(UrlStart(p, c))
<1>1. /\ \A s \in LineStates \cup {"header_field_start"} : Sound(Go(p, s))
      /\ \A e : e # "OK" => Sound(Fail(p, e))
      /\ Sound(p)
  BY LineGoes
<1>2. /\ \A s \in {"req_http_start", "url_skip_lf_to_http09", "url_fragment", "url_query", "url_path", "url_server",
                   "url_server_with_at", "url_schema_delim", "url_schema_delim_1", "url_schema"} : Sound(Go(p, s))
      /\ Sound(Fail(p, "INVALID_URL"))
  BY <1>1 DEF LineStates
<1>3. Sound(UrlEnd(p, c))
  <2>1. Sound([p EXCEPT !.major = 0, !.minor = 9, !.st = "header_field_start"])
    BY FieldsAre, Apart DEF Lined, Ranged, Sound, Placed, SpanOf
  <2> QED  BY <1>2, <2>1 DEF UrlEnd
<1>4. Sound(UrlSkipLfToHttp09(p, c)) /\ Sound(UrlFragment(p, c))
  BY <1>1, <1>2, <1>3 DEF UrlSkipLfToHttp09, UrlFragment
<1>5. Sound(UrlQuery(p, c)) /\ Sound(UrlPath(p, c))
  BY <1>1, <1>2, <1>3 DEF UrlQuery, UrlPath, UrlQueryOrFragment
<1>6. Sound(UrlServer(p, c)) /\ Sound(UrlServerWithAt(p, c))
  BY <1>1, <1>2, <1>3 DEF UrlServer, UrlServerWithAt
<1>7. Sound(UrlSchemaDelim(p, c)) /\ Sound(UrlSchema(p, c)) /\ Sound(UrlStart(p, c))
  BY <1>1, <1>2 DEF UrlSchemaDelim, UrlSchema, UrlStart
<1> QED  BY <1>3, <1>4, <1>5, <1>6, <1>7

\* So does the first character of a message.
LEMMA SoundStart ==
    ASSUME NEW p, Lined(p), p.st \in LineStates, NEW c
    PROVE  Sound(Start(p, c))
<1>1. ASSUME NEW q, Lined(q), q.st \in LineStates PROVE Sound(StartReq(q, c)) /\ Sound(StartRes(q, c))
  <2>1. Sound(Fail(q, "INVALID_METHOD")) /\ Sound(Fail(q, "INVALID_CONSTANT")) /\ Sound(Go(q, "res_http_major"))
    BY <1>1, LineGoes DEF LineStates
  <2>2. \A m \in 0 .. 45 : Sound([q EXCEPT !.method = m, !.st = "req_first_space_before_url"])
    BY <1>1, FieldsAre, Apart DEF Lined, Ranged, Sound, Placed, SpanOf, LineStates
  <2> QED  BY <2>1, <2>2, CodesAre DEF StartReq, StartRes
<1>2. \A t : Lined([p EXCEPT !.type = t]) /\ [p EXCEPT !.type = t].st = p.st
  BY FieldsAre DEF Lined, Ranged
<1>3. Sound(p) /\ Sound(Fail(p, "INVALID_CONSTANT"))
  BY LineGoes
<1>4. Sound(StartReqOrRes(p, c))
  <2>1. Sound(StartReq([p EXCEPT !.type = "REQUEST"], c))
    BY <1>1, <1>2, Zenon
  <2>2. Sound(StartRes([p EXCEPT !.type = "RESPONSE"], c))
    BY <1>1, <1>2, Zenon
  <2> QED  BY <1>3, <2>1, <2>2 DEF StartReqOrRes
<1> QED  BY <1>1, <1>3, <1>4 DEF Start

\* So does the rest of the first line, of a request or of a response.
LEMMA SoundLine ==
    ASSUME NEW p, Lined(p), p.st \in LineStates, NEW c
    PROVE  /\ Sound(ReqFirstSpaceBeforeUrl(p, c)) /\ Sound(ReqSpacesBeforeUrl(p, c)) /\ Sound(ReqHttpStart(p, c))
           /\ Sound(ReqHttpMajor(p, c)) /\ Sound(ReqHttpDot(p, c)) /\ Sound(ReqHttpMinor(p, c))
           /\ Sound(ReqPriUpgrade(p, c)) /\ Sound(ReqHttpComplete(p, c))
           /\ Sound(ResHttpMajor(p, c)) /\ Sound(ResHttpDot(p, c)) /\ Sound(ResHttpMinor(p, c))
           /\ Sound(ResHttpEnd(p, c)) /\ Sound(ResStatusCode(p, c)) /\ Sound(ResStatusStart(p, c))
<1>1. /\ \A s \in LineStates \cup {"header_field_start"} : Sound(Go(p, s))
      /\ \A e : e # "OK" => Sound(Fail(p, e))
      /\ Sound(p)
  BY LineGoes
<1>2. /\ \A d : \A s \in LineStates : Sound([p EXCEPT !.major = d, !.st = s]) /\ Sound([p EXCEPT !.minor = d, !.st = s])
      /\ Sound([p EXCEPT !.status = 0, !.st = "res_status_code"])
      /\ \A d \in StatusCodes : Sound([p EXCEPT !.status = d])
      /\ \A d \in StoredCodes : Sound(Fail([p EXCEPT !.status = d], "INVALID_STATUS"))
  <2>1. "res_status_code" \in LineStates
    BY DEF LineStates
  <2> USE FieldsAre, Apart DEF Lined, Ranged, Sound, Placed, SpanOf
  <2>2. \A d : \A s \in LineStates : Sound([p EXCEPT !.major = d, !.st = s]) /\ Sound([p EXCEPT !.minor = d, !.st = s])
    OBVIOUS
  <2>3. Sound([p EXCEPT !.status = 0, !.st = "res_status_code"])
    BY <2>1, CodesStored
  <2>4. \A d \in StatusCodes : Sound([p EXCEPT !.status = d])
    BY CodesStored
  <2>5. \A d \in StoredCodes : Sound(Fail([p EXCEPT !.status = d], "INVALID_STATUS"))
    BY DEF Fail
  <2> QED  BY <2>2, <2>3, <2>4, <2>5
<1>3. Sound(ReqFirstSpaceBeforeUrl(p, c)) /\ Sound(ReqSpacesBeforeUrl(p, c)) /\ Sound(ReqHttpStart(p, c))
  BY <1>1, SoundUrl DEF ReqFirstSpaceBeforeUrl, ReqSpacesBeforeUrl, ReqHttpStart, LineStates
<1>4. Sound(ReqHttpMajor(p, c)) /\ Sound(ReqHttpDot(p, c)) /\ Sound(ReqHttpMinor(p, c))
  BY <1>1, <1>2 DEF ReqHttpMajor, ReqHttpDot, ReqHttpMinor, LineStates
<1>5. Sound(ReqPriUpgrade(p, c)) /\ Sound(ReqHttpComplete(p, c))
  BY <1>1 DEF ReqPriUpgrade, ReqHttpComplete, LineStates
<1>6. Sound(ResHttpMajor(p, c)) /\ Sound(ResHttpDot(p, c)) /\ Sound(ResHttpMinor(p, c))
  BY <1>1, <1>2 DEF ResHttpMajor, ResHttpDot, ResHttpMinor, LineStates
<1>7. Sound(ResHttpEnd(p, c)) /\ Sound(ResStatusStart(p, c))
  BY <1>1, <1>2 DEF ResHttpEnd, ResStatusStart, LineStates
<1>8. Sound(ResStatusCode(p, c))
  <2>1. Sound(ResStatusCodeOtherwise(p, c))
    BY <1>1, <1>7 DEF ResStatusCodeOtherwise, LineStates
  <2>2. ASSUME NEW d \in 0 .. 9 PROVE Sound(AddStatusDigit(p, d))
    <3> DEFINE n == p.status * 10 + d
               q == [p EXCEPT !.status = @ * 10 + d]
    <3>1. p.status \in StatusCodes /\ DOMAIN p = Fields
      BY DEF Lined, Ranged
    <3>2. n \in StoredCodes /\ (n > 999 \/ n \in StatusCodes)
      BY <3>1, CodeStays
    <3>3. q = [p EXCEPT !.status = n] /\ q.status = n
      BY <3>1, FieldsAre
    <3> HIDE DEF n, q
    <3>4. CASE n > 999
      <4>1. Sound(Fail([p EXCEPT !.status = n], "INVALID_STATUS"))
        BY <1>2, <3>2
      <4>2. AddStatusDigit(p, d) = Fail(q, "INVALID_STATUS")
        BY <3>3, <3>4 DEF AddStatusDigit, q
      <4> QED  BY <3>3, <4>1, <4>2
    <3>5. CASE ~(n > 999)
      <4>1. Sound([p EXCEPT !.status = n])
        BY <1>2, <3>2, <3>5
      <4>2. AddStatusDigit(p, d) = q
        BY <3>3, <3>5 DEF AddStatusDigit, q
      <4> QED  BY <3>3, <4>1, <4>2
    <3> QED  BY <3>4, <3>5
  <2> QED  BY <2>1, <2>2, CodesAre DEF ResStatusCode
<1> QED  BY <1>3, <1>4, <1>5, <1>6, <1>7, <1>8

\* Where a parser may go from outside names and values.
LEMMA PlainGoes ==
    ASSUME NEW p, Plain(p)
    PROVE  /\ \A s \in OtherStates : Sound(Go(p, s))
           /\ \A e : e # "OK" => Sound(Fail(p, e))
           /\ p.st \in OtherStates => Sound(p)
<1>1. Between(p)
  BY KindsStay
<1>2. p.st \in OtherStates => Sound(p)
  BY Apart DEF Plain, Sound, Placed, SpanOf, OtherStates
<1> QED  BY <1>1, <1>2, SoundGo, KindsStay

\* The end of a message keeps a parser sound.
LEMMA SoundMessage ==
    ASSUME NEW p, Plain(p)
    PROVE  Sound(MessageComplete(p)) /\ Sound(Fail(OnMessageComplete(p), "PAUSED_UPGRADE"))
           /\ Sound(AfterMessageComplete(OnMessageComplete(p)))
<1> DEFINE q == OnMessageComplete(p)
<1>1. Plain(q) /\ DOMAIN q.headers = {}
  BY FieldsAre DEF Plain, Ranged, OnMessageComplete
<1> HIDE DEF q
<1>2. Sound(Fail(q, "PAUSED_UPGRADE"))
  BY <1>1, PlainGoes
<1>3. \A s \in {"start", "closed"} : Sound([q EXCEPT !.st = s, !.flags = {}])
  <2>1. "start" \in LineStates /\ "closed" \in OtherStates
    BY DEF LineStates, OtherStates, LastStates
  <2> QED  BY <1>1, <2>1, FieldsAre, Apart DEF Plain, Ranged, Sound, Placed, SpanOf, OtherStates
<1>4. Sound(AfterMessageComplete(q))
  BY <1>3 DEF AfterMessageComplete
<1> QED  BY <1>2, <1>4 DEF MessageComplete, q

\* So does the end of the headers.
LEMMA SoundHeaders ==
    ASSUME NEW p, Plain(p)
    PROVE  Sound(HeadersAlmostDone(p))
<1>1. Plain(BeforeHeadersComplete(p))
  <2>1. \A b \in BOOLEAN : Plain([p EXCEPT !.upgrade = b])
    BY FieldsAre DEF Plain, Ranged
  <2>2. ASSUME NEW a, NEW b \in BOOLEAN, NEW d \in BOOLEAN PROVE (IF a THEN b ELSE d) \in BOOLEAN
    BY Zenon
  <2> QED  BY <2>1, <2>2, Zenon DEF BeforeHeadersComplete
<1>2. ASSUME NEW q, Plain(q) PROVE Sound(HeadersComplete(q))
  <2>1. AfterHeadersComplete(q) = "body_identity" => q.content_length > 0
    BY DEF AfterHeadersComplete
  <2>2. Sound([q EXCEPT !.content_length = 0, !.st = "chunk_size_digit"])
    <3>1. "chunk_size_digit" \in OtherStates
      BY DEF OtherStates, ChunkStates
    <3> QED  BY <1>2, <3>1, FieldsAre, Apart, LengthAssumption DEF Plain, Ranged, Sound, Placed, SpanOf, OtherStates
  <2>3. q.content_length > 0 => Sound(Go(q, "consume_content_length_1"))
    BY <1>2, SoundGo DEF BodyStates
  <2>4. Sound(Go(q, "eof")) /\ Sound(Fail(q, "INVALID_TRANSFER_ENCODING"))
    BY <1>2, PlainGoes DEF OtherStates, LastStates
  <2>5. Sound(Fail(OnMessageComplete(q), "PAUSED_UPGRADE")) /\ Sound(AfterMessageComplete(OnMessageComplete(q)))
    BY <1>2, SoundMessage
  <2>6. AfterHeadersComplete(q) \in {"restart", "pause", "chunk_size_start", "body_identity", "body_identity_eof", "invalid"}
    BY DEF AfterHeadersComplete
  <2> QED  BY <2>1, <2>2, <2>3, <2>4, <2>5, <2>6 DEF HeadersComplete
<1>3. Sound(MessageComplete(p)) /\ Sound(Fail(p, "UNEXPECTED_CONTENT_LENGTH"))
  BY SoundMessage, PlainGoes
<1> QED  BY <1>1, <1>2, <1>3 DEF HeadersAlmostDone

\* So does a character of a name.
LEMMA SoundName ==
    ASSUME NEW p, Naming(p), NEW c
    PROVE  /\ Sound(HeaderFieldGeneral(p, c))
           /\ Sound(HeaderField(p, c))
           /\ p.st \in NameStates => Sound(HeaderFieldColon(p, c))
<1>1. ASSUME NEW q, Naming(q)
      PROVE  /\ Sound(Go(EndSpan(q), "header_value_discard_ws")) /\ Sound(Fail(q, "INVALID_HEADER_TOKEN"))
             /\ Sound(Go(q, "header_field_general")) /\ Sound(Go(q, "header_field_colon"))
  <2>1. Between(EndSpan(q)) /\ Sound(Fail(q, "INVALID_HEADER_TOKEN"))
    BY <1>1, KindsStay
  <2> QED  BY <1>1, <2>1, SoundGo DEF BlankStates, NameStates
<1>2. ASSUME NEW q, Naming(q) PROVE Sound(HeaderFieldGeneral(q, c))
  BY <1>1, <1>2 DEF HeaderFieldGeneral
<1>3. \A h : Naming(Header(p, h))
  BY KindsKept
<1>4. Sound(HeaderField(p, c))
  BY <1>1, <1>2, <1>3 DEF HeaderField
<1>5. p.st \in NameStates => Sound(p)
  BY Apart DEF Naming, Sound, Placed, SpanOf
<1>6. p.st \in NameStates => Sound(HeaderFieldColon(p, c))
  BY <1>1, <1>2, <1>3, <1>5 DEF HeaderFieldColon
<1> QED  BY <1>2, <1>4, <1>6

\* So does the first character of a name, or of the end of the headers.
LEMMA SoundFieldStart ==
    ASSUME NEW p, Plain(p), NEW c
    PROVE  Sound(HeaderFieldStart(p, c))
<1>1. Naming(OpenSpan(p, "field"))
  BY KindsStay
<1>2. Sound(HeaderField(OpenSpan(p, "field"), c))
  BY <1>1, SoundName
<1>3. Sound(Go(p, "headers_almost_done"))
  BY PlainGoes DEF OtherStates, EndStates
<1> QED  BY <1>2, <1>3, SoundHeaders DEF HeaderFieldStart

\* So does a character of a value that is only kept.
LEMMA SoundOtherwise ==
    ASSUME NEW p, Valuing(p), NEW c
    PROVE  Sound(HeaderValueOtherwise(p, c)) /\ Sound(HeaderValue(p, c))
<1>1. Plain(EndSpan(p)) /\ Sound(Fail(p, "INVALID_HEADER_TOKEN"))
  BY KindsStay
<1>2. Sound(HeaderValueAlmostDone(EndSpan(p), c)) /\ Sound(Go(EndSpan(p), "header_value_almost_done"))
  BY <1>1, PlainGoes DEF HeaderValueAlmostDone, OtherStates, EndStates
<1>3. Sound(HeaderValueOtherwise(p, c))
  BY <1>1, <1>2 DEF HeaderValueOtherwise
<1>4. Sound(Go(p, "header_value"))
  BY SoundGo DEF ValueStates
<1> QED  BY <1>3, <1>4 DEF HeaderValue

\* Where a parser in a value may go.
LEMMA ValueGoes ==
    ASSUME NEW p, Valuing(p)
    PROVE  /\ \A s \in ValueStates : Sound(Go(p, s)) /\ Valuing(Go(p, s))
           /\ \A e : e # "OK" => Sound(Fail(p, e)) /\ Sound(Fail(EndSpan(p), e))
           /\ p.st \in ValueStates => Sound(p)
<1>1. \A s \in ValueStates : Valuing(Go(p, s))
  BY FieldsAre, Apart DEF Valuing, Ranged, Go
<1>2. p.st \in ValueStates => Sound(p)
  BY Apart DEF Valuing, Sound, Placed, SpanOf
<1> QED  BY <1>1, <1>2, SoundGo, KindsStay

\* The value of Connection keeps a parser sound.
LEMMA SoundConnection ==
    ASSUME NEW p, Valuing(p), NEW c
    PROVE  /\ Sound(HeaderValueConnection(p, c)) /\ Sound(HeaderValueConnectionToken(p, c))
           /\ p.st \in ValueStates => Sound(HeaderValueConnectionWs(p, c))
<1>1. ASSUME NEW q, Valuing(q)
      PROVE  /\ Sound(HeaderValueConnectionToken(q, c)) /\ Sound(Go(q, "header_value_connection"))
             /\ Sound(Go(q, "header_value_connection_ws"))
  <2>1. \A s \in {"header_value_connection", "header_value_connection_ws", "header_value_connection_token"} : Sound(Go(q, s))
    BY <1>1, ValueGoes DEF ValueStates
  <2> QED  BY <1>1, <2>1, SoundOtherwise DEF HeaderValueConnectionToken
<1>2. \A h : Valuing(Header(p, h))
  BY KindsKept
<1>3. Sound(HeaderValueConnection(p, c))
  BY <1>1, <1>2 DEF HeaderValueConnection
<1>4. ASSUME p.st \in ValueStates PROVE Sound(HeaderValueConnectionWs(p, c))
  <2>1. Sound(p) /\ Valuing(TakeHeaderState(p)) /\ Sound(HeaderValueOtherwise(p, c))
    BY <1>4, ValueGoes, KindsTaken, SoundOtherwise
  <2>2. Sound(Go(TakeHeaderState(p), "header_value_connection")) /\ Sound(HeaderValueConnectionToken(Header(p, "GENERAL"), c))
    BY <1>1, <1>2, <2>1
  <2> QED  BY <2>1, <2>2 DEF HeaderValueConnectionWs
<1> QED  BY <1>1, <1>3, <1>4

\* The check before a digit is added keeps a length within 64 bits.
LEMMA LengthStays ==
    ASSUME NEW n \in 0 .. MaxLength, NEW base \in {10, 16}, NEW digit \in 0 .. 10,
           ~(n * base > MaxLength - digit)
    PROVE  n * base + digit \in 0 .. MaxLength
BY LengthAssumption

\* So does the check before it is multiplied: its product may be stored.
LEMMA ProductStays ==
    ASSUME NEW n \in 0 .. MaxLength, NEW base \in {10, 16}, ~(n > MaxLength \div base)
    PROVE  n * base \in 0 .. MaxLength
<1>1. CASE base = 10
  BY <1>1, LengthAssumption
<1>2. CASE base = 16
  BY <1>2, LengthAssumption
<1> QED  BY <1>1, <1>2

\* A parser with another length.
Resized(p, n) == [p EXCEPT !.content_length = n]

\* A digit makes a length in range, or an error, after which a product in range
\* may be left.
LEMMA SoundMulAdd ==
    ASSUME NEW p, Ranged(p), NEW base \in {10, 16}, NEW digit \in 0 .. 10, NEW e
    PROVE  \/ MulAdd(p, base, digit, e) = Fail(p, e)
           \/ \E n \in 0 .. MaxLength : MulAdd(p, base, digit, e) = Fail(Resized(p, n), e)
           \/ \E n \in 0 .. MaxLength : MulAdd(p, base, digit, e) = Resized(p, n)
<1> DEFINE m == p.content_length * base
           q == [p EXCEPT !.content_length = @ * base]
<1>1. q = Resized(p, m) /\ q.content_length = m
  BY FieldsAre DEF Ranged, Resized
<1>2. [q EXCEPT !.content_length = @ + digit] = Resized(p, m + digit)
  BY FieldsAre DEF Ranged, Resized
<1>3. CASE p.content_length > MaxLength \div base
  BY <1>3 DEF MulAdd
<1>4. CASE ~(p.content_length > MaxLength \div base) /\ m > MaxLength - digit
  <2>1. m \in 0 .. MaxLength
    BY <1>4, ProductStays DEF Ranged
  <2>2. MulAdd(p, base, digit, e) = Fail(q, e)
    BY <1>1, <1>4 DEF MulAdd
  <2> QED  BY <1>1, <2>1, <2>2
<1>5. CASE ~(p.content_length > MaxLength \div base) /\ ~(m > MaxLength - digit)
  <2>1. m + digit \in 0 .. MaxLength
    BY <1>5, LengthStays DEF Ranged
  <2>2. MulAdd(p, base, digit, e) = [q EXCEPT !.content_length = @ + digit]
    BY <1>1, <1>5 DEF MulAdd
  <2> QED  BY <1>2, <2>1, <2>2
<1> QED  BY <1>3, <1>4, <1>5

\* The value of Content-Length keeps a parser sound.
LEMMA SoundLength ==
    ASSUME NEW p, Valuing(p), NEW c
    PROVE  Sound(HeaderValueContentLength(p, c)) /\ Sound(HeaderValueContentLengthWs(p, c))
<1>1. Sound(HeaderValueContentLengthWs(p, c))
  <2>1. Valuing(AddFlag(p, "CONTENT_LENGTH"))
    BY KindsKept
  <2>2. Sound(HeaderValueOtherwise(AddFlag(p, "CONTENT_LENGTH"), c))
    BY <2>1, SoundOtherwise
  <2>3. Sound(Go(p, "header_value_content_length_ws")) /\ Sound(Fail(EndSpan(p), "INVALID_CONTENT_LENGTH"))
    BY ValueGoes DEF ValueStates
  <2> QED  BY <2>2, <2>3 DEF HeaderValueContentLengthWs
<1>2. ASSUME c \in DOMAIN Digits PROVE Sound(HeaderValueContentLength(p, c))
  <2> DEFINE g == Go(p, "header_value_content_length")
             q == MulAdd(g, 10, Digits[c], "INVALID_CONTENT_LENGTH")
  <2>1. Valuing(g) /\ g.st = "header_value_content_length" /\ g.st \in ValueStates
    <3>1. "header_value_content_length" \in ValueStates
      BY DEF ValueStates
    <3>2. DOMAIN p = Fields
      BY DEF Valuing, Ranged
    <3> QED  BY <3>1, <3>2, ValueGoes, FieldsAre DEF Go
  <2>2. Digits[c] \in 0 .. 10
    BY <1>2, CodesAre
  <2> HIDE DEF g
  <2>3. \/ q = Fail(g, "INVALID_CONTENT_LENGTH")
        \/ \E n \in 0 .. MaxLength : q = Fail(Resized(g, n), "INVALID_CONTENT_LENGTH")
        \/ \E n \in 0 .. MaxLength : q = Resized(g, n)
    <3>1. Ranged(g)
      BY <2>1 DEF Valuing
    <3>2. \A d \in 0 .. 10 :
              \/ MulAdd(g, 10, d, "INVALID_CONTENT_LENGTH") = Fail(g, "INVALID_CONTENT_LENGTH")
              \/ \E n \in 0 .. MaxLength :
                    MulAdd(g, 10, d, "INVALID_CONTENT_LENGTH") = Fail(Resized(g, n), "INVALID_CONTENT_LENGTH")
              \/ \E n \in 0 .. MaxLength :
                    MulAdd(g, 10, d, "INVALID_CONTENT_LENGTH") = Resized(g, n)
      <4>1. 10 \in {10, 16}
        OBVIOUS
      <4> QED  BY <3>1, <4>1, SoundMulAdd, Zenon
    <3> QED  BY <2>2, <3>2
  <2> HIDE DEF q
  <2>4. HeaderValueContentLength(p, c) = IF q.error = "OK" THEN q ELSE EndSpan(q)
    BY <1>2 DEF HeaderValueContentLength, q, g
  <2>5. CASE \/ q = Fail(g, "INVALID_CONTENT_LENGTH")
             \/ \E n \in 0 .. MaxLength : q = Fail(Resized(g, n), "INVALID_CONTENT_LENGTH")
    <3>1. q.error = "INVALID_CONTENT_LENGTH" /\ Ranged(q) /\ q.st \in States
      BY <2>1, <2>5, FieldsAre DEF Fail, Resized, Valuing, Ranged
    <3>2. Sound(EndSpan(q))
      <4> DEFINE r == SpanCallback(q)
      <4>2. Ranged(r) /\ r.st \in States /\ r.error # "OK"
        BY <3>1, FieldsAre DEF Ranged, SpanCallback, OnHeaderField, OnHeaderValue
      <4> HIDE DEF r
      <4>3. Sound([r EXCEPT !.span = "none", !.piece = <<>>])
        BY <4>2, FieldsAre DEF Ranged, Sound
      <4> QED  BY <4>3 DEF EndSpan, r
    <3> QED  BY <2>4, <3>1, <3>2
  <2>6. CASE \E n \in 0 .. MaxLength : q = Resized(g, n)
    <3>1. PICK n \in 0 .. MaxLength : q = Resized(g, n)
      BY <2>6
    <3>2. Valuing(q) /\ q.st \in ValueStates
      BY <2>1, <3>1, FieldsAre DEF Resized, Valuing, Ranged
    <3>3. Sound(q) /\ q.error = "OK"
      BY <3>2, ValueGoes DEF Valuing
    <3> QED  BY <2>4, <3>3
  <2> QED  BY <2>3, <2>5, <2>6
<1> QED  BY <1>1, <1>2 DEF HeaderValueContentLength

\* So does the value of Transfer-Encoding.
LEMMA SoundCoding ==
    ASSUME NEW p, Valuing(p), NEW c
    PROVE  /\ Sound(HeaderValueTeToken(p, c)) /\ Sound(HeaderValueTeChunked(p, c))
           /\ p.st \in ValueStates => Sound(HeaderValueTeTokenOws(p, c)) /\ Sound(HeaderValueTeChunkedLast(p, c))
<1>1. \A s \in {"header_value_te_token_ows", "header_value_te_token", "header_value_te_chunked_last"} : Sound(Go(p, s))
  BY ValueGoes DEF ValueStates
<1>2. \A h : Valuing(Header(p, h))
  BY KindsKept
<1>3. Sound(HeaderValueTeToken(p, c)) /\ Sound(HeaderValueTeChunked(p, c))
  BY <1>1, <1>2, SoundOtherwise DEF HeaderValueTeToken, HeaderValueTeChunked
<1>4. ASSUME p.st \in ValueStates PROVE Sound(HeaderValueTeTokenOws(p, c)) /\ Sound(HeaderValueTeChunkedLast(p, c))
  <2>1. Sound(p) /\ Sound(HeaderValueOtherwise(Header(p, "TRANSFER_ENCODING_CHUNKED"), c))
    BY <1>2, <1>4, ValueGoes, SoundOtherwise
  <2> QED  BY <1>3, <2>1 DEF HeaderValueTeTokenOws, HeaderValueTeChunkedLast
<1> QED  BY <1>3, <1>4

\* So does the first character of a value.
LEMMA SoundValueStart ==
    ASSUME NEW p, Between(p), NEW c
    PROVE  Sound(HeaderValueStart(p, c))
<1> DEFINE q == OpenSpan(p, "value")
<1>1. Valuing(q)
  BY KindsStay
<1> HIDE DEF q
<1>2. /\ Sound(HeaderValueConnection(q, c)) /\ Sound(HeaderValueContentLength(q, c)) /\ Sound(HeaderValue(q, c))
      /\ Sound(Fail(q, "UNEXPECTED_CONTENT_LENGTH"))
  BY <1>1, SoundConnection, SoundLength, SoundOtherwise, ValueGoes
<1>3. Sound(HeaderValue(Header(AddFlag(q, "UPGRADE"), "GENERAL"), c))
  <2>1. Valuing(AddFlag(q, "UPGRADE"))
    BY <1>1, KindsKept
  <2>2. Valuing(Header(AddFlag(q, "UPGRADE"), "GENERAL"))
    BY <2>1, KindsKept
  <2> QED  BY <2>2, SoundOtherwise
<1>4. Sound(HeaderValueTeChunked([q EXCEPT !.flags = (@ \cup {"TRANSFER_ENCODING"}) \ {"CHUNKED"}], c))
  <2>1. Valuing([q EXCEPT !.flags = (@ \cup {"TRANSFER_ENCODING"}) \ {"CHUNKED"}])
    BY <1>1, FieldsAre DEF Valuing, Ranged
  <2> QED  BY <2>1, SoundCoding
<1> QED  BY <1>2, <1>3, <1>4 DEF HeaderValueStart, q

\* So do the blanks before a value.
LEMMA SoundBlank ==
    ASSUME NEW p, Between(p), NEW c
    PROVE  /\ Sound(HeaderValueDiscardLws(p, c))
           /\ p.st \in BlankStates => Sound(HeaderValueDiscardWs(p, c))
<1>1. \A s \in {"header_value_discard_ws", "header_value_discard_lws", "header_value_discard_ws_almost_done"} : Sound(Go(p, s))
  BY SoundGo DEF BlankStates
<1>2. Sound(HeaderFieldStart(EndSpan(OpenSpan(TakeHeaderState(p), "value")), c))
  <2>1. Between(TakeHeaderState(p))
    BY KindsTaken
  <2>2. Valuing(OpenSpan(TakeHeaderState(p), "value"))
    BY <2>1, KindsStay
  <2>3. Plain(EndSpan(OpenSpan(TakeHeaderState(p), "value")))
    BY <2>2, KindsStay
  <2> QED  BY <2>3, SoundFieldStart
<1>3. Sound(Fail(p, "INVALID_CONTENT_LENGTH"))
  BY KindsStay
<1>4. p.st \in BlankStates => Sound(p)
  BY Apart DEF Between, Sound, Placed, SpanOf
<1> QED  BY <1>1, <1>2, <1>3, <1>4, SoundValueStart DEF HeaderValueDiscardLws, HeaderValueDiscardWs

\* So does the character after a header's line.
LEMMA SoundLws ==
    ASSUME NEW p, Plain(p), NEW c
    PROVE  Sound(HeaderValueLws(p, c))
<1>1. Between(p) /\ Plain(TakeHeaderState(p))
  BY KindsStay, KindsTaken
<1> QED  BY <1>1, SoundValueStart, SoundFieldStart DEF HeaderValueLws

\* So does a chunked body.
LEMMA SoundChunk ==
    ASSUME NEW p, Plain(p), p.st \in OtherStates, NEW c
    PROVE  /\ Sound(ChunkSizeDigit(p, c)) /\ Sound(ChunkSize(p, c)) /\ Sound(ChunkParameters(p, c))
           /\ Sound(ChunkSizeAlmostDone(p)) /\ Sound(ChunkDataAlmostDoneSkip(p))
<1>1. Sound(p) /\ \A s \in ChunkStates : Sound(Go(p, s)) /\ Plain(Go(p, s))
  <2>1. \A s \in ChunkStates : s \in OtherStates /\ s \in States
    BY DEF OtherStates, States
  <2>2. \A s \in ChunkStates : Plain(Go(p, s))
    BY <2>1, FieldsAre DEF Plain, Ranged, Go
  <2> QED  BY <2>1, <2>2, PlainGoes
<1>2. Sound(Fail(p, "INVALID_CHUNK_SIZE"))
  BY PlainGoes
<1>3. Sound(ChunkSize(p, c))
  <2>1. Sound(ChunkSizeOtherwise(p, c))
    BY <1>1, <1>2 DEF ChunkSizeOtherwise, ChunkStates
  <2>2. ASSUME c \in DOMAIN HexDigits PROVE Sound(MulAdd(Go(p, "chunk_size"), 16, HexDigits[c], "INVALID_CHUNK_SIZE"))
    <3> DEFINE g == Go(p, "chunk_size")
    <3>1. Plain(g) /\ g.st = "chunk_size" /\ g.st \in OtherStates
      <4>1. "chunk_size" \in ChunkStates /\ "chunk_size" \in OtherStates /\ DOMAIN p = Fields
        BY DEF ChunkStates, OtherStates, Plain, Ranged
      <4> QED  BY <1>1, <4>1, FieldsAre DEF Go
    <3>2. HexDigits[c] \in 0 .. 10
      BY <2>2, CodesAre
    <3> HIDE DEF g
    <3>3. /\ Sound(Fail(g, "INVALID_CHUNK_SIZE"))
          /\ \A n \in 0 .. MaxLength : Sound(Fail(Resized(g, n), "INVALID_CHUNK_SIZE"))
      BY <3>1, FieldsAre DEF Sound, Plain, Ranged, Fail, Resized
    <3>4. \A n \in 0 .. MaxLength : Sound(Resized(g, n))
      <4>1. "chunk_size" \notin BodyStates
        BY DEF BodyStates
      <4>2. Sound(g)
        BY <3>1, PlainGoes
      <4> QED  BY <3>1, <4>1, <4>2, FieldsAre DEF Sound, Ranged, Placed, Resized
    <3>5. Ranged(g)
      BY <3>1 DEF Plain
    <3>6. \A d \in 0 .. 10 :
              \/ MulAdd(g, 16, d, "INVALID_CHUNK_SIZE") = Fail(g, "INVALID_CHUNK_SIZE")
              \/ \E n \in 0 .. MaxLength :
                    MulAdd(g, 16, d, "INVALID_CHUNK_SIZE") = Fail(Resized(g, n), "INVALID_CHUNK_SIZE")
              \/ \E n \in 0 .. MaxLength :
                    MulAdd(g, 16, d, "INVALID_CHUNK_SIZE") = Resized(g, n)
      <4>1. 16 \in {10, 16}
        OBVIOUS
      <4> QED  BY <3>5, <4>1, SoundMulAdd, Zenon
    <3>7. \A d \in 0 .. 10 : Sound(MulAdd(g, 16, d, "INVALID_CHUNK_SIZE"))
      BY <3>3, <3>4, <3>6
    <3> QED  BY <3>2, <3>7 DEF g
  <2> QED  BY <2>1, <2>2 DEF ChunkSize
<1>4. Sound(ChunkSizeDigit(p, c)) /\ Sound(ChunkParameters(p, c))
  BY <1>1, <1>2, <1>3 DEF ChunkSizeDigit, ChunkParameters, ChunkStates
<1>5. Sound(ChunkSizeAlmostDone(p))
  <2>1. Plain(AddFlag(p, "TRAILING"))
    BY KindsKept
  <2>2. Sound(Go(AddFlag(p, "TRAILING"), "header_field_start"))
    BY <2>1, PlainGoes DEF OtherStates
  <2>3. p.content_length # 0 => Sound(Go(p, "consume_content_length"))
    <3>1. p.content_length # 0 => p.content_length > 0
      BY LengthAssumption DEF Plain, Ranged
    <3> QED  BY <3>1, SoundGo DEF BodyStates
  <2> QED  BY <2>2, <2>3 DEF ChunkSizeAlmostDone
<1>6. Sound(ChunkDataAlmostDoneSkip(p))
  <2>1. "chunk_size_digit" \in OtherStates
    BY DEF OtherStates, ChunkStates
  <2>2. Sound([p EXCEPT !.content_length = 0, !.st = "chunk_size_digit"])
    BY <2>1, FieldsAre, Apart, LengthAssumption DEF Plain, Ranged, Sound, Placed, SpanOf, OtherStates
  <2> QED  BY <2>2 DEF ChunkDataAlmostDoneSkip
<1> QED  BY <1>3, <1>4, <1>5, <1>6

\* So does a body of a known length: it is not empty.
LEMMA SoundBody ==
    ASSUME NEW p, Plain(p), p.st \in BodyStates, p.content_length > 0
    PROVE  Sound(ConsumeContentLength1(p)) /\ Sound(ConsumeContentLength(p))
<1> DEFINE q == [p EXCEPT !.content_length = @ - 1]
<1>1. Plain(q) /\ q.st = p.st /\ q.content_length \in 0 .. MaxLength
  BY FieldsAre, LengthAssumption DEF Plain, Ranged
<1> HIDE DEF q
<1>2. q.content_length # 0 => Sound(q)
  <2>1. q.content_length # 0 => q.content_length > 0
    BY <1>1, LengthAssumption
  <2>2. q.st \notin LineStates \cup NameStates \cup ValueStates \cup BlankStates
    BY <1>1, Apart
  <2> QED  BY <1>1, <2>1, <2>2 DEF Plain, Sound, Placed, SpanOf
<1>3. Sound(MessageComplete(q)) /\ Sound(Go(q, "chunk_data_almost_done"))
  BY <1>1, SoundMessage, PlainGoes DEF OtherStates, ChunkStates
<1> QED  BY <1>2, <1>3 DEF ConsumeContentLength1, ConsumeContentLength, q

\* Every character keeps a parser sound, in every state.
LEMMA SoundStep ==
    ASSUME NEW p, Sound(p), p.error = "OK", NEW c
    PROVE  Sound(Step(p, c))
<1>1. CASE p.st \in LineStates
  <2>1. Lined(p) /\ Sound(Go(p, "header_field_start"))
    BY <1>1, Kinds, LineGoes
  <2> QED  BY <1>1, <2>1, SoundStart, SoundUrl, SoundLine DEF Step, LineStates
<1>2. CASE p.st \in NameStates
  <2>1. Naming(p)
    BY <1>2, Kinds
  <2> QED  BY <1>2, <2>1, SoundName DEF Step, NameStates
<1>3. CASE p.st \in BlankStates
  <2>1. Between(p) /\ Sound(Go(p, "header_value_discard_lws"))
    BY <1>3, Kinds, SoundGo DEF BlankStates
  <2> QED  BY <1>3, <2>1, SoundBlank DEF Step, BlankStates
<1>4. CASE p.st \in ValueStates
  <2>1. Valuing(p)
    BY <1>4, Kinds
  <2> QED  BY <1>4, <2>1, SoundOtherwise, SoundConnection, SoundLength, SoundCoding DEF Step, ValueStates
<1>5. CASE p.st \in EndStates \cup {"header_field_start"}
  <2>1. Plain(p)
    BY <1>5, Kinds DEF OtherStates
  <2>2. Sound(HeaderValueAlmostDone(p, c))
    BY <2>1, PlainGoes DEF HeaderValueAlmostDone, OtherStates, EndStates
  <2> QED  BY <1>5, <2>1, <2>2, SoundFieldStart, SoundHeaders, SoundLws DEF Step, EndStates
<1>6. CASE p.st \in ChunkStates \cup LastStates
  <2>1. Plain(p) /\ p.st \in OtherStates
    BY <1>6, Kinds DEF OtherStates
  <2>2. Sound(Go(p, "chunk_data_almost_done_skip"))
    BY <2>1, PlainGoes DEF OtherStates, ChunkStates
  <2> QED  BY <1>6, <2>1, <2>2, SoundChunk DEF Step, ChunkStates, LastStates
<1>7. CASE p.st \in BodyStates
  <2>1. Plain(p) /\ p.content_length > 0
    BY <1>7, Kinds DEF Sound, Placed
  <2> QED  BY <1>7, <2>1, SoundBody DEF Step, BodyStates
<1>8. p.st \in States
  BY DEF Sound
<1> QED  BY <1>1, <1>2, <1>3, <1>4, <1>5, <1>6, <1>7, <1>8 DEF States, FieldStates, NameStates

\* And so when it is in error.
LEMMA SoundAdvance ==
    ASSUME NEW p, Sound(p), NEW c
    PROVE  Sound(Advance(p, c))
<1>1. ASSUME NEW q, Sound(q) PROVE Sound(InSpan(q, c))
  <2>1. Sound([q EXCEPT !.piece = Append(@, c)])
    BY <1>1, FieldsAre DEF Sound, Ranged, Placed
  <2> QED  BY <1>1, <2>1 DEF InSpan
<1> QED  BY <1>1, SoundStep DEF Advance

\* A parser that starts on new data, and at their end.
LEMMA SoundRests ==
    ASSUME NEW p, Sound(p)
    PROVE  /\ Sound([p EXCEPT !.piece = <<>>, !.complete = 0])
           /\ Sound([p EXCEPT !.complete = 0])
           /\ Sound(EndOfData(p))
<1>1. Sound([p EXCEPT !.piece = <<>>, !.complete = 0]) /\ Sound([p EXCEPT !.complete = 0])
  BY FieldsAre DEF Sound, Ranged, Placed
<1>2. ASSUME p.error = "OK" PROVE Sound(EndOfData(p))
  <2> DEFINE q == SpanCallback(p)
  <2>1. Sound(q)
    <3>1. CASE p.span = "field"
      <4>1. p.st \in NameStates
        BY <1>2, <3>1 DEF Sound, Placed, SpanOf
      <4>2. q = OnHeaderField(p)
        BY <3>1 DEF SpanCallback
      <4> QED  BY <1>2, <4>1, <4>2, FieldsAre, Apart DEF Sound, Ranged, Placed, OnHeaderField
    <3>2. CASE p.span = "value"
      <4>1. p.st \in ValueStates
        BY <1>2, <3>2 DEF Sound, Placed, SpanOf
      <4>2. q = OnHeaderValue(p)
        BY <3>2 DEF SpanCallback
      <4> QED  BY <1>2, <4>1, <4>2, FieldsAre, Apart DEF Sound, Ranged, Placed, OnHeaderValue
    <3>3. CASE p.span \notin {"field", "value"}
      BY <3>3 DEF SpanCallback
    <3> QED  BY <3>1, <3>2, <3>3
  <2> HIDE DEF q
  <2>2. Sound([q EXCEPT !.piece = <<>>])
    BY <2>1, FieldsAre DEF Sound, Ranged, Placed
  <2> QED  BY <1>2, <2>2 DEF EndOfData, q
<1>3. p.error # "OK" => EndOfData(p) = p
  BY DEF EndOfData
<1> QED  BY <1>1, <1>2, <1>3

\* So does any data.
LEMMA SoundScan ==
    ASSUME NEW p, Sound(p), NEW s \in Seq(STRING)
    PROVE  Sound(Scan(p, s))
<1> DEFINE S == {n \in Nat : \A t \in Seq(STRING) : Len(t) = n => Sound(Scan(p, t))}
<1>1. 0 \in S
  <2>1. \A t \in Seq(STRING) : Len(t) = 0 => t = <<>>
    OBVIOUS
  <2> QED  BY <2>1, ScanNothing
<1>2. ASSUME NEW n \in Nat, n \in S PROVE n + 1 \in S
  <2> SUFFICES ASSUME NEW t \in Seq(STRING), Len(t) = n + 1 PROVE Sound(Scan(p, t))
    OBVIOUS
  <2> DEFINE r == SubSeq(t, 1, n)
             c == t[n + 1]
  <2>1. r \in Seq(STRING) /\ Len(r) = n /\ c \in STRING /\ t = Append(r, c)
    BY Scans!LastApart, Zenon
  <2> HIDE DEF r, c
  <2>2. Sound(Scan(p, r))
    BY <1>2, <2>1
  <2>3. Sound(Advance(Scan(p, r), c))
    BY <2>2, SoundAdvance
  <2> QED  BY <2>1, <2>3, ScanAppend
<1> HIDE DEF S
<1>3. Nat \subseteq S
  BY <1>1, <1>2, Scans!NatSetInduction
<1>4. Len(s) \in S
  BY <1>3
<1> QED  BY <1>4 DEF S

\* A new parser is sound.
LEMMA NewIsSound == Sound(NewParser) /\ NewParser.error = "OK" /\ NewParser.complete = 0
<1>1. DOMAIN NewParser = Fields
  BY DEF Fields
<1>2. "start" \in LineStates
  BY DEF LineStates
<1>3. /\ NewParser.st = "start" /\ NewParser.error = "OK" /\ NewParser.method = 0 /\ NewParser.status = 0
      /\ NewParser.content_length = 0 /\ NewParser.upgrade = FALSE /\ NewParser.complete = 0
      /\ NewParser.span = "none" /\ NewParser.cur_name = <<>> /\ NewParser.flags = {} /\ DOMAIN NewParser.headers = {}
  BY DEF NewParser
<1>4. Ranged(NewParser)
  <2>1. NewParser.upgrade \in BOOLEAN
    BY <1>3, Zenon
  <2>2. NewParser.method \in 0 .. 45 /\ NewParser.status \in StoredCodes /\ NewParser.complete \in Nat
    BY <1>3, CodesStored
  <2>3. NewParser.content_length \in 0 .. MaxLength
    BY <1>3, LengthAssumption
  <2> QED  BY <1>1, <2>1, <2>2, <2>3, Zenon DEF Ranged
<1>5. Placed(NewParser) /\ NewParser.st \in States
  BY <1>2, <1>3, Apart, CodesStored DEF Placed, SpanOf
<1> QED  BY <1>3, <1>4, <1>5 DEF Sound

\* The same call: what a cut changes.
LEMMA ExecuteAlike ==
    ASSUME NEW p, NEW q, NEW k, Alike(p, q, k), Sound(q), NEW s \in Seq(STRING)
    PROVE  /\ Alike(Execute(p, s), Scan(q, s), q.complete)
<1> DEFINE a == [p EXCEPT !.piece = <<>>, !.complete = 0]
<1>1. Alike(a, q, q.complete)
  BY FieldsAre DEF Alike, Sound, Ranged
<1> HIDE DEF a
<1>2. \A t \in Seq(STRING) : Scan(q, t).st \in States
  BY SoundScan DEF Sound
<1>3. Alike(Scan(a, s), Scan(q, s), q.complete)
  BY <1>1, <1>2, AlikeScan
<1>4. Alike(EndOfData(Scan(a, s)), Scan(q, s), q.complete)
  BY <1>3, AlikeEndOfData
<1> QED  BY <1>4 DEF Execute, a

\* However the data of a connection are cut into calls of llhttp_execute (by recv,
\* http_interface.cpp on_data), the messages the parser completes, the error it ends in and its
\* state are the same.
THEOREM CutAnywhere ==
    ASSUME NEW p, Sound(p), NEW s \in Seq(STRING), NEW t \in Seq(STRING)
    PROVE  LET first == Execute(p, s)
               second == Execute(first, t)
               whole == Execute(p, s \o t)
           IN /\ first.complete + second.complete = whole.complete
              /\ second.error = whole.error /\ second.st = whole.st
<1> DEFINE first == Execute(p, s)
           second == Execute(first, t)
           whole == Execute(p, s \o t)
           q == Scan(p, s)
           r == Scan(p, s \o t)
<1>1. Alike(p, p, 0)
  BY DEF Alike, Sound, Ranged
<1>2. Alike(first, q, p.complete) /\ Alike(whole, r, p.complete)
  <2>1. s \o t \in Seq(STRING)
    OBVIOUS
  <2> QED  BY <1>1, <2>1, ExecuteAlike
<1>3. Alike(second, r, q.complete)
  <2>1. Sound(q) /\ Scan(q, t) = r
    BY SoundScan, ScanJoined
  <2> HIDE DEF first, q, r
  <2>2. Alike(Execute(first, t), Scan(q, t), q.complete)
    BY <1>2, <2>1, ExecuteAlike
  <2> QED  BY <2>1, <2>2
<1>4. p.complete \in Nat
  BY DEF Sound, Ranged
<1> HIDE DEF first, second, whole, q, r
<1>5. first.complete + second.complete = whole.complete
  <2>1. /\ first.complete \in Nat /\ second.complete \in Nat /\ whole.complete \in Nat
        /\ q.complete = first.complete + p.complete /\ r.complete = whole.complete + p.complete
        /\ r.complete = second.complete + q.complete
    BY <1>2, <1>3, AlikeState
  <2>2. PICK a \in Nat, b \in Nat, w \in Nat, n \in Nat :
           a = first.complete /\ b = second.complete /\ w = whole.complete /\ n = p.complete
    BY <1>4, <2>1
  <2>3. w + n = b + (a + n)
    BY <2>1, <2>2
  <2>4. a + b = w
    BY <2>3
  <2> QED  BY <2>2, <2>4
<1>6. second.error = whole.error /\ second.st = whole.st
  BY <1>2, <1>3, AlikeState
<1> QED  BY <1>5, <1>6 DEF first, second, whole

------------------------------------------------------------------------------
\* The length of a body.

\* The states of the headers,
HeaderStates == FieldStates \cup BlankStates \cup ValueStates \cup EndStates
\* those of a Content-Length,
LengthStates == {"header_value_content_length", "header_value_content_length_ws"}
\* and those where nothing is known of the length read so far.
QuietStates == ChunkStates \cup BodyStates \cup LastStates \cup {"header_value_content_length"}

\* No length is left when the trailers of a chunked body begin.
Halved(p) == DOMAIN p = Fields /\ ("TRAILING" \in p.flags => p.content_length = 0)
\* A length is that of a Content-Length read in these headers.
Told(p) == Halved(p) /\ ("TRAILING" \notin p.flags /\ p.content_length # 0 => "CONTENT_LENGTH" \in p.flags)
\* No length has been read, and no upgrade asked for.
Unused(p) == DOMAIN p = Fields /\ p.content_length = 0 /\ p.upgrade = FALSE

\* What the length read so far belongs to.
Measured(p) ==
    p.error = "OK" =>
        /\ p.st \in LineStates => Unused(p)
        /\ p.st \in HeaderStates \ LengthStates => Told(p)
        /\ p.st = "header_value_content_length_ws" => Halved(p)

\* No state is of two groups.
LEMMA StatesApart ==
    /\ \A s \in LineStates : s \notin HeaderStates
    /\ \A s \in HeaderStates : s \notin LineStates
    /\ \A s \in QuietStates :
          s \notin LineStates /\ s \notin HeaderStates \ LengthStates /\ s # "header_value_content_length_ws"
BY DEF LineStates, HeaderStates, QuietStates, LengthStates, FieldStates, ValueStates, BlankStates,
       EndStates, ChunkStates, BodyStates, LastStates

\* Where a parser may go and be measured.
LEMMA MeasuredGo ==
    ASSUME NEW p, DOMAIN p = Fields
    PROVE  /\ \A s \in QuietStates : Measured(Go(p, s))
           /\ \A e : e # "OK" => Measured(Fail(p, e))
           /\ Told(p) => \A s \in HeaderStates : Measured(Go(p, s))
           /\ Halved(p) => Measured(Go(p, "header_value_content_length_ws"))
           /\ Unused(p) => \A s \in LineStates \cup {"header_field_start"} : Measured(Go(p, s))
<1> USE FieldsAre, StatesApart
<1>1. \A s \in QuietStates : Measured(Go(p, s))
  BY DEF Measured, Go
<1>2. \A e : e # "OK" => Measured(Fail(p, e))
  BY DEF Measured, Fail
<1>3. Told(p) => \A s \in HeaderStates : Measured(Go(p, s))
  BY DEF Measured, Go, Told, Halved
<1>4. Halved(p) => Measured(Go(p, "header_value_content_length_ws"))
  <2>1. "header_value_content_length_ws" \in HeaderStates \cap LengthStates
    BY DEF HeaderStates, LengthStates, ValueStates
  <2> QED  BY <2>1 DEF Measured, Go, Halved
<1>5. Unused(p) => \A s \in LineStates \cup {"header_field_start"} : Measured(Go(p, s))
  <2>1. "header_field_start" \in HeaderStates
    BY DEF HeaderStates, FieldStates
  <2> QED  BY <2>1 DEF Measured, Go, Unused, Told, Halved
<1> QED  BY <1>1, <1>2, <1>3, <1>4, <1>5

\* The elementary changes that keep what is known of the length.
LEMMA ToldStays ==
    ASSUME NEW p
    PROVE  /\ Told(p) => Halved(p)
           /\ Told(p) => Told(EndSpan(p)) /\ Told(TakeHeaderState(p))
           /\ \A h : (Told(p) => Told(Header(p, h)) /\ Told(OpenSpan(p, h))) /\ (Halved(p) => Halved(Header(p, h)))
           /\ \A f : Told(p) /\ f # "TRAILING" => Told(AddFlag(p, f))
           /\ Halved(p) => Told(AddFlag(p, "CONTENT_LENGTH"))
           /\ Told(p) => Told([p EXCEPT !.flags = (@ \cup {"TRANSFER_ENCODING"}) \ {"CHUNKED"}])
<1> USE FieldsAre DEF Told, Halved
<1>1. Told(p) => Told(EndSpan(p))
  BY DEF EndSpan, SpanCallback, OnHeaderField, OnHeaderValue
<1>2. ASSUME NEW q PROVE \A h : (Told(q) => Told(Header(q, h)) /\ Told(OpenSpan(q, h))) /\ (Halved(q) => Halved(Header(q, h)))
  BY DEF Header, OpenSpan
<1>3. \A f : Told(p) /\ f # "TRAILING" => Told(AddFlag(p, f))
  BY DEF AddFlag
<1>4. Halved(p) => Told(AddFlag(p, "CONTENT_LENGTH"))
  BY DEF AddFlag
<1>5. Told(p) => Told([p EXCEPT !.flags = (@ \cup {"TRANSFER_ENCODING"}) \ {"CHUNKED"}])
  OBVIOUS
<1>6. Told(p) => Told(TakeHeaderState(p))
  <2> HIDE DEF Told
  <2>1. \A h \in DOMAIN FlagOf : FlagOf[h] # "TRAILING"
    BY DEF FlagOf
  <2> QED  BY <1>2, <1>3, <2>1 DEF TakeHeaderState
<1> QED  BY <1>1, <1>2, <1>3, <1>4, <1>5, <1>6

\* The end of a message keeps a parser measured when no length is left.
LEMMA MeasuredMessage ==
    ASSUME NEW p, DOMAIN p = Fields, p.error = "OK", p.content_length = 0
    PROVE  /\ p.upgrade \in BOOLEAN => Measured(MessageComplete(p))
           /\ p.upgrade = FALSE => Measured(AfterMessageComplete(OnMessageComplete(p)))
           /\ Measured(Fail(OnMessageComplete(p), "PAUSED_UPGRADE"))
<1> DEFINE q == OnMessageComplete(p)
<1>1. DOMAIN q = Fields /\ q.content_length = 0 /\ q.upgrade = p.upgrade
  BY FieldsAre DEF OnMessageComplete
<1> HIDE DEF q
<1>2. Measured(Fail(q, "PAUSED_UPGRADE"))
  BY <1>1, MeasuredGo
<1>3. q.upgrade = FALSE => \A s \in {"start", "closed"} : Measured([q EXCEPT !.st = s, !.flags = {}])
  <2>1. "start" \in LineStates /\ "closed" \in QuietStates
    BY DEF LineStates, QuietStates, LastStates
  <2> QED  BY <1>1, <2>1, FieldsAre, StatesApart DEF Measured, Unused
<1>4. q.upgrade = FALSE => Measured(AfterMessageComplete(q))
  BY <1>3 DEF AfterMessageComplete
<1> QED  BY <1>1, <1>2, <1>4 DEF MessageComplete, q

\* So does the end of the headers: a length that is not told is none.
LEMMA MeasuredHeaders ==
    ASSUME NEW p, Plain(p), Told(p)
    PROVE  Measured(HeadersAlmostDone(p))
<1>1. CASE "TRAILING" \in p.flags
  <2>1. p.content_length = 0 /\ p.upgrade \in BOOLEAN /\ DOMAIN p = Fields /\ p.error = "OK"
    BY <1>1 DEF Told, Halved, Plain, Ranged
  <2>2. Measured(MessageComplete(p))
    BY <2>1, MeasuredMessage
  <2> QED  BY <1>1, <2>2 DEF HeadersAlmostDone
<1>2. CASE "TRAILING" \notin p.flags
  <2> DEFINE q == BeforeHeadersComplete(p)
  <2>1. /\ DOMAIN q = Fields /\ q.error = "OK" /\ q.flags = p.flags /\ q.content_length = p.content_length
        /\ q.content_length # 0 => "CONTENT_LENGTH" \in q.flags
    BY <1>2, FieldsAre DEF Plain, Ranged, Told, BeforeHeadersComplete
  <2>2. q.upgrade \in BOOLEAN /\ q.content_length \in 0 .. MaxLength
    <3>1. Ranged(q)
      <4>1. \A b \in BOOLEAN : Ranged([p EXCEPT !.upgrade = b])
        BY FieldsAre DEF Plain, Ranged
      <4>2. ASSUME NEW a, NEW b \in BOOLEAN, NEW d \in BOOLEAN PROVE (IF a THEN b ELSE d) \in BOOLEAN
        BY Zenon
      <4> QED  BY <4>1, <4>2, Zenon DEF BeforeHeadersComplete
    <3> QED  BY <3>1 DEF Ranged
  <2> HIDE DEF q
  <2>3. AfterHeadersComplete(q) = "restart" => q.content_length = 0 /\ q.upgrade = FALSE
    <3> SUFFICES ASSUME AfterHeadersComplete(q) = "restart" PROVE q.content_length = 0 /\ q.upgrade = FALSE
      OBVIOUS
    <3> DEFINE hasBody == "CHUNKED" \in q.flags \/ q.content_length > 0
               noMessage == q.upgrade /\ (q.method = MethodCode.CONNECT \/ ~hasBody)
    <3>1. ~noMessage /\ "CHUNKED" \notin q.flags /\ ~("CONTENT_LENGTH" \in q.flags /\ q.content_length > 0)
      BY DEF AfterHeadersComplete
    <3>2. q.content_length = 0
      BY <2>1, <2>2, <3>1, LengthAssumption
    <3>3. ~hasBody
      BY <3>1, <3>2
    <3> HIDE DEF hasBody
    <3>4. ~q.upgrade
      BY <3>1, <3>3
    <3> QED  BY <2>2, <3>2, <3>4, Zenon
  <2>4. AfterHeadersComplete(q) = "pause" => Measured(Fail(OnMessageComplete(q), "PAUSED_UPGRADE"))
    <3>1. DOMAIN OnMessageComplete(q) = Fields
      BY <2>1, FieldsAre DEF OnMessageComplete
    <3> QED  BY <3>1, MeasuredGo
  <2>5. AfterHeadersComplete(q) = "restart" => Measured(AfterMessageComplete(OnMessageComplete(q)))
    BY <2>1, <2>3, MeasuredMessage
  <2>6. /\ Measured(Go(q, "consume_content_length_1")) /\ Measured(Go(q, "eof"))
        /\ Measured(Fail(q, "INVALID_TRANSFER_ENCODING")) /\ Measured(Fail(p, "UNEXPECTED_CONTENT_LENGTH"))
    <3>1. {"consume_content_length_1", "eof"} \subseteq QuietStates /\ DOMAIN p = Fields
      BY DEF QuietStates, BodyStates, LastStates, Plain, Ranged
    <3> QED  BY <2>1, <3>1, MeasuredGo
  <2>7. Measured([q EXCEPT !.content_length = 0, !.st = "chunk_size_digit"])
    <3>1. "chunk_size_digit" \in QuietStates
      BY DEF QuietStates, ChunkStates
    <3> QED  BY <2>1, <3>1, FieldsAre, StatesApart DEF Measured
  <2>8. AfterHeadersComplete(q) \in {"restart", "pause", "chunk_size_start", "body_identity", "body_identity_eof", "invalid"}
    BY DEF AfterHeadersComplete
  <2>9. Measured(HeadersComplete(q))
    BY <2>4, <2>5, <2>6, <2>7, <2>8 DEF HeadersComplete
  <2> QED  BY <1>2, <2>6, <2>9 DEF HeadersAlmostDone, q
<1> QED  BY <1>1, <1>2

\* So does the first line.
LEMMA MeasuredLine ==
    ASSUME NEW p, Unused(p), p.st \in LineStates, NEW c
    PROVE  Measured(Step(p, c))
<1>2. \A s \in LineStates : s \in LineStates \cup {"header_field_start"} /\ s \notin HeaderStates /\ s # "header_value_content_length_ws"
  BY StatesApart DEF LineStates
<1>1. /\ \A s \in LineStates \cup {"header_field_start"} : Measured(Go(p, s))
      /\ \A e : e # "OK" => Measured(Fail(p, e))
      /\ Measured(p)
  <2>1. Measured(p)
    BY <1>2 DEF Measured
  <2> QED  BY <2>1, MeasuredGo DEF Unused
<1>3. /\ \A d : \A s \in LineStates : /\ Measured([p EXCEPT !.major = d, !.st = s])
                                      /\ Measured([p EXCEPT !.minor = d, !.st = s])
                                      /\ Measured([p EXCEPT !.status = d, !.st = s])
                                      /\ Measured([p EXCEPT !.method = d, !.st = s])
      /\ \A d : Measured([p EXCEPT !.status = d])
      /\ \A t : LET q == [p EXCEPT !.type = t] IN Unused(q) /\ q.st \in LineStates
      /\ Measured([p EXCEPT !.major = 0, !.minor = 9, !.st = "header_field_start"])
  <2> USE FieldsAre, StatesApart DEF Unused
  <2>1. \A d : \A s \in LineStates : /\ Measured([p EXCEPT !.major = d, !.st = s])
                                      /\ Measured([p EXCEPT !.minor = d, !.st = s])
                                      /\ Measured([p EXCEPT !.status = d, !.st = s])
                                      /\ Measured([p EXCEPT !.method = d, !.st = s])
    BY <1>2 DEF Measured
  <2>2. \A d : Measured([p EXCEPT !.status = d])
    BY <1>2 DEF Measured
  <2>3. \A t : LET q == [p EXCEPT !.type = t] IN Unused(q) /\ q.st \in LineStates
    OBVIOUS
  <2>4. Measured([p EXCEPT !.major = 0, !.minor = 9, !.st = "header_field_start"])
    <3>1. "header_field_start" \in HeaderStates
      BY DEF HeaderStates, FieldStates
    <3> QED  BY <3>1 DEF Measured, Told, Halved
  <2> QED  BY <2>1, <2>2, <2>3, <2>4
<1>4. /\ Measured(UrlEnd(p, c)) /\ Measured(UrlSkipLfToHttp09(p, c)) /\ Measured(UrlFragment(p, c))
      /\ Measured(UrlQuery(p, c)) /\ Measured(UrlPath(p, c)) /\ Measured(UrlServer(p, c))
      /\ Measured(UrlServerWithAt(p, c)) /\ Measured(UrlSchemaDelim(p, c)) /\ Measured(UrlSchema(p, c))
      /\ Measured(UrlStart(p, c))
  <2>1. /\ \A s \in {"req_http_start", "url_skip_lf_to_http09", "url_fragment", "url_query", "url_path", "url_server",
                     "url_server_with_at", "url_schema_delim", "url_schema_delim_1", "url_schema"} : Measured(Go(p, s))
        /\ Measured(Fail(p, "INVALID_URL"))
    BY <1>1 DEF LineStates
  <2>2. Measured(UrlEnd(p, c))
    BY <1>3, <2>1 DEF UrlEnd
  <2>3. Measured(UrlSkipLfToHttp09(p, c)) /\ Measured(UrlFragment(p, c))
    BY <1>1, <2>1, <2>2 DEF UrlSkipLfToHttp09, UrlFragment
  <2>4. Measured(UrlQuery(p, c)) /\ Measured(UrlPath(p, c))
    BY <1>1, <2>1, <2>2 DEF UrlQuery, UrlPath, UrlQueryOrFragment
  <2>5. Measured(UrlServer(p, c)) /\ Measured(UrlServerWithAt(p, c))
    BY <1>1, <2>1, <2>2 DEF UrlServer, UrlServerWithAt
  <2>6. Measured(UrlSchemaDelim(p, c)) /\ Measured(UrlSchema(p, c)) /\ Measured(UrlStart(p, c))
    BY <2>1 DEF UrlSchemaDelim, UrlSchema, UrlStart
  <2> QED  BY <2>2, <2>3, <2>4, <2>5, <2>6
<1>5. Measured(Start(p, c))
  <2>1. ASSUME NEW q, Unused(q), q.st \in LineStates PROVE Measured(StartReq(q, c)) /\ Measured(StartRes(q, c))
    <3>1. Measured(Fail(q, "INVALID_METHOD")) /\ Measured(Fail(q, "INVALID_CONSTANT"))
      BY <2>1, MeasuredGo DEF Unused
    <3>2. Measured(Go(q, "res_http_major"))
      BY <2>1, MeasuredGo DEF Unused, LineStates
    <3>3. \A m : Measured([q EXCEPT !.method = m, !.st = "req_first_space_before_url"])
      <4>1. "req_first_space_before_url" \in LineStates
        BY DEF LineStates
      <4> QED  BY <1>2, <2>1, <4>1, FieldsAre DEF Measured, Unused
    <3> QED  BY <3>1, <3>2, <3>3 DEF StartReq, StartRes
  <2>2. Measured(StartReq([p EXCEPT !.type = "REQUEST"], c)) /\ Measured(StartRes([p EXCEPT !.type = "RESPONSE"], c))
    BY <1>3, <2>1
  <2>3. Measured(Fail(p, "INVALID_CONSTANT"))
    BY <1>1
  <2>4. Measured(StartReqOrRes(p, c))
    BY <2>2, <2>3 DEF StartReqOrRes
  <2> QED  BY <1>1, <2>1, <2>4 DEF Start
<1>6. Measured(ReqFirstSpaceBeforeUrl(p, c)) /\ Measured(ReqSpacesBeforeUrl(p, c)) /\ Measured(ReqHttpStart(p, c))
  BY <1>1, <1>4 DEF ReqFirstSpaceBeforeUrl, ReqSpacesBeforeUrl, ReqHttpStart, LineStates
<1>7. Measured(ReqHttpMajor(p, c)) /\ Measured(ReqHttpDot(p, c)) /\ Measured(ReqHttpMinor(p, c))
  BY <1>1, <1>3 DEF ReqHttpMajor, ReqHttpDot, ReqHttpMinor, LineStates
<1>8. Measured(ReqPriUpgrade(p, c)) /\ Measured(ReqHttpComplete(p, c))
  BY <1>1 DEF ReqPriUpgrade, ReqHttpComplete, LineStates
<1>9. Measured(ResHttpMajor(p, c)) /\ Measured(ResHttpDot(p, c)) /\ Measured(ResHttpMinor(p, c))
  BY <1>1, <1>3 DEF ResHttpMajor, ResHttpDot, ResHttpMinor, LineStates
<1>10. Measured(ResHttpEnd(p, c)) /\ Measured(ResStatusStart(p, c))
  BY <1>1, <1>3 DEF ResHttpEnd, ResStatusStart, LineStates
<1>11. Measured(ResStatusCode(p, c))
  <2>1. Measured(ResStatusCodeOtherwise(p, c))
    BY <1>1, <1>10 DEF ResStatusCodeOtherwise, LineStates
  <2>2. ASSUME NEW d PROVE Measured(AddStatusDigit(p, d))
    <3> DEFINE q == [p EXCEPT !.status = @ * 10 + d]
    <3>1. Measured(q) /\ DOMAIN q = Fields
      BY <1>3, FieldsAre DEF Unused
    <3> HIDE DEF q
    <3>2. Measured(Fail(q, "INVALID_STATUS"))
      BY <3>1, MeasuredGo
    <3> QED  BY <3>1, <3>2 DEF AddStatusDigit, q
  <2> QED  BY <2>1, <2>2 DEF ResStatusCode
<1> QED  BY <1>1, <1>4, <1>5, <1>6, <1>7, <1>8, <1>9, <1>10, <1>11 DEF Step, LineStates

\* So does a name.
LEMMA MeasuredName ==
    ASSUME NEW p, Told(p), NEW c
    PROVE  /\ Measured(HeaderFieldGeneral(p, c)) /\ Measured(HeaderField(p, c))
           /\ p.st \in NameStates => Measured(HeaderFieldColon(p, c))
<1>1. ASSUME NEW q, Told(q)
      PROVE  /\ Measured(Go(EndSpan(q), "header_value_discard_ws")) /\ Measured(Fail(q, "INVALID_HEADER_TOKEN"))
             /\ Measured(Go(q, "header_field_general")) /\ Measured(Go(q, "header_field_colon"))
  <2>1. Told(EndSpan(q)) /\ DOMAIN q = Fields /\ DOMAIN EndSpan(q) = Fields
    BY <1>1, ToldStays DEF Told, Halved
  <2>2. {"header_value_discard_ws", "header_field_general", "header_field_colon"} \subseteq HeaderStates
    BY DEF HeaderStates, BlankStates, FieldStates
  <2> QED  BY <1>1, <2>1, <2>2, MeasuredGo
<1>2. ASSUME NEW q, Told(q) PROVE Measured(HeaderFieldGeneral(q, c))
  BY <1>1, <1>2 DEF HeaderFieldGeneral
<1>3. \A h : Told(Header(p, h))
  BY ToldStays
<1>4. Measured(HeaderField(p, c))
  BY <1>1, <1>2, <1>3 DEF HeaderField
<1>5. p.st \in NameStates => Measured(p)
  <2>1. \A s \in NameStates : s \in HeaderStates /\ s # "header_value_content_length_ws"
    BY DEF NameStates, HeaderStates, FieldStates
  <2> QED  BY <2>1, StatesApart DEF Measured
<1>6. p.st \in NameStates => Measured(HeaderFieldColon(p, c))
  BY <1>1, <1>2, <1>3, <1>5 DEF HeaderFieldColon
<1> QED  BY <1>2, <1>4, <1>6

\* So does the first character of a name, or of the end of the headers.
LEMMA MeasuredFieldStart ==
    ASSUME NEW p, Plain(p), Told(p), NEW c
    PROVE  Measured(HeaderFieldStart(p, c))
<1>1. Told(OpenSpan(p, "field"))
  BY ToldStays
<1>2. Measured(HeaderField(OpenSpan(p, "field"), c))
  BY <1>1, MeasuredName
<1>3. Measured(Go(p, "headers_almost_done"))
  <2>1. "headers_almost_done" \in HeaderStates /\ DOMAIN p = Fields
    BY DEF HeaderStates, EndStates, Told, Halved
  <2> QED  BY <2>1, MeasuredGo
<1> QED  BY <1>2, <1>3, MeasuredHeaders DEF HeaderFieldStart

\* So does a character of a value that is only kept.
LEMMA MeasuredOtherwise ==
    ASSUME NEW p, Told(p), NEW c
    PROVE  Measured(HeaderValueOtherwise(p, c)) /\ Measured(HeaderValue(p, c)) /\ Measured(HeaderValueAlmostDone(p, c))
<1>1. ASSUME NEW q, Told(q)
      PROVE  /\ Measured(HeaderValueAlmostDone(q, c)) /\ Measured(Go(q, "header_value_almost_done"))
             /\ Measured(Fail(q, "INVALID_HEADER_TOKEN")) /\ Measured(Go(q, "header_value"))
  <2>1. {"header_value_almost_done", "header_value_lws", "header_value"} \subseteq HeaderStates /\ DOMAIN q = Fields
    BY <1>1 DEF HeaderStates, EndStates, ValueStates, Told, Halved
  <2> QED  BY <1>1, <2>1, MeasuredGo DEF HeaderValueAlmostDone
<1>2. Told(EndSpan(p))
  BY ToldStays
<1>3. Measured(HeaderValueOtherwise(p, c))
  BY <1>1, <1>2 DEF HeaderValueOtherwise
<1> QED  BY <1>1, <1>3 DEF HeaderValue

\* Where nothing is asked of the length, or all that is known of it will do.
LEMMA MeasuredQuiet ==
    ASSUME NEW p, DOMAIN p = Fields
    PROVE  /\ p.st \in QuietStates => Measured(p)
           /\ p.error # "OK" => Measured(p) /\ Measured(EndSpan(p))
           /\ Told(p) /\ p.st \in HeaderStates => Measured(p)
<1>1. p.st \in QuietStates => Measured(p)
  BY StatesApart DEF Measured
<1>2. EndSpan(p).error = p.error
  BY FieldsAre DEF EndSpan, SpanCallback, OnHeaderField, OnHeaderValue
<1>3. Told(p) /\ p.st \in HeaderStates => Measured(p)
  BY StatesApart DEF Measured, Told
<1> QED  BY <1>1, <1>2, <1>3 DEF Measured

\* So does the value of Connection.
LEMMA MeasuredConnection ==
    ASSUME NEW p, Told(p), NEW c
    PROVE  /\ Measured(HeaderValueConnection(p, c)) /\ Measured(HeaderValueConnectionToken(p, c))
           /\ p.st \in HeaderStates => Measured(HeaderValueConnectionWs(p, c))
<1>1. ASSUME NEW q, Told(q)
      PROVE  /\ Measured(HeaderValueConnectionToken(q, c)) /\ Measured(Go(q, "header_value_connection"))
             /\ Measured(Go(q, "header_value_connection_ws"))
  <2>1. \A s \in {"header_value_connection", "header_value_connection_ws", "header_value_connection_token"} : Measured(Go(q, s))
    <3>1. {"header_value_connection", "header_value_connection_ws", "header_value_connection_token"} \subseteq HeaderStates
          /\ DOMAIN q = Fields
      BY <1>1 DEF HeaderStates, ValueStates, Told, Halved
    <3> QED  BY <1>1, <3>1, MeasuredGo
  <2> QED  BY <1>1, <2>1, MeasuredOtherwise DEF HeaderValueConnectionToken
<1>2. \A h : Told(Header(p, h))
  BY ToldStays
<1>3. Measured(HeaderValueConnection(p, c))
  BY <1>1, <1>2 DEF HeaderValueConnection
<1>4. ASSUME p.st \in HeaderStates PROVE Measured(HeaderValueConnectionWs(p, c))
  <2>1. Measured(p) /\ Told(TakeHeaderState(p)) /\ Measured(HeaderValueOtherwise(p, c))
    BY <1>4, MeasuredQuiet, ToldStays, MeasuredOtherwise DEF Told, Halved
  <2>2. Measured(Go(TakeHeaderState(p), "header_value_connection")) /\ Measured(HeaderValueConnectionToken(Header(p, "GENERAL"), c))
    BY <1>1, <1>2, <2>1
  <2> QED  BY <2>1, <2>2 DEF HeaderValueConnectionWs
<1> QED  BY <1>1, <1>3, <1>4

\* So does a digit.
LEMMA MeasuredMulAdd ==
    ASSUME NEW g, DOMAIN g = Fields, g.st \in QuietStates, NEW base, NEW digit, NEW e, e # "OK"
    PROVE  LET q == MulAdd(g, base, digit, e) IN
           DOMAIN q = Fields /\ Measured(q)
<1>1. ASSUME NEW n PROVE LET q == [g EXCEPT !.content_length = n] IN DOMAIN q = Fields /\ Measured(q) /\ q.st \in QuietStates
  BY FieldsAre, MeasuredQuiet
<1>2. ASSUME NEW h, DOMAIN h = Fields PROVE LET q == Fail(h, e) IN DOMAIN q = Fields /\ Measured(q)
  BY <1>2, FieldsAre, MeasuredGo DEF Fail
<1> DEFINE h == [g EXCEPT !.content_length = @ * base]
<1>3. DOMAIN h = Fields /\ h.st \in QuietStates
  BY <1>1
<1> HIDE DEF h
<1>4. LET q == [h EXCEPT !.content_length = @ + digit] IN DOMAIN q = Fields /\ Measured(q)
  BY <1>3, FieldsAre, MeasuredQuiet
<1>5. MulAdd(g, base, digit, e) \in {Fail(g, e), Fail(h, e), [h EXCEPT !.content_length = @ + digit]}
  BY DEF MulAdd, h
<1> QED  BY <1>2, <1>3, <1>4, <1>5

\* So does the value of Content-Length, which sets its flag at the end.
LEMMA MeasuredLength ==
    ASSUME NEW p, Halved(p), NEW c
    PROVE  Measured(HeaderValueContentLength(p, c)) /\ Measured(HeaderValueContentLengthWs(p, c))
<1>1. Measured(HeaderValueContentLengthWs(p, c))
  <2>1. Told(AddFlag(p, "CONTENT_LENGTH"))
    BY ToldStays
  <2>2. Measured(HeaderValueOtherwise(AddFlag(p, "CONTENT_LENGTH"), c))
    BY <2>1, MeasuredOtherwise
  <2>3. Measured(Go(p, "header_value_content_length_ws"))
    BY MeasuredGo DEF Halved
  <2>4. Measured(Fail(EndSpan(p), "INVALID_CONTENT_LENGTH"))
    <3>1. DOMAIN EndSpan(p) = Fields
      BY FieldsAre DEF Halved, EndSpan, SpanCallback, OnHeaderField, OnHeaderValue
    <3> QED  BY <3>1, MeasuredGo
  <2> QED  BY <2>2, <2>3, <2>4 DEF HeaderValueContentLengthWs
<1>2. ASSUME c \in DOMAIN Digits PROVE Measured(HeaderValueContentLength(p, c))
  <2> DEFINE g == Go(p, "header_value_content_length")
             q == MulAdd(g, 10, Digits[c], "INVALID_CONTENT_LENGTH")
  <2>1. DOMAIN g = Fields /\ g.st \in QuietStates
    BY FieldsAre DEF Halved, Go, QuietStates
  <2> HIDE DEF g
  <2>2. DOMAIN q = Fields /\ Measured(q)
    BY <2>1, MeasuredMulAdd
  <2> HIDE DEF q
  <2>3. HeaderValueContentLength(p, c) = IF q.error = "OK" THEN q ELSE EndSpan(q)
    BY <1>2 DEF HeaderValueContentLength, q, g
  <2> QED  BY <2>2, <2>3, MeasuredQuiet
<1> QED  BY <1>1, <1>2 DEF HeaderValueContentLength

\* So does the value of Transfer-Encoding.
LEMMA MeasuredCoding ==
    ASSUME NEW p, Told(p), NEW c
    PROVE  /\ Measured(HeaderValueTeToken(p, c)) /\ Measured(HeaderValueTeChunked(p, c))
           /\ p.st \in HeaderStates => Measured(HeaderValueTeTokenOws(p, c)) /\ Measured(HeaderValueTeChunkedLast(p, c))
<1>1. \A s \in {"header_value_te_token_ows", "header_value_te_token", "header_value_te_chunked_last"} : Measured(Go(p, s))
  <2>1. {"header_value_te_token_ows", "header_value_te_token", "header_value_te_chunked_last"} \subseteq HeaderStates
        /\ DOMAIN p = Fields
    BY DEF HeaderStates, ValueStates, Told, Halved
  <2> QED  BY <2>1, MeasuredGo
<1>2. \A h : Told(Header(p, h))
  BY ToldStays
<1>3. Measured(HeaderValueTeToken(p, c)) /\ Measured(HeaderValueTeChunked(p, c))
  BY <1>1, <1>2, MeasuredOtherwise DEF HeaderValueTeToken, HeaderValueTeChunked
<1>4. ASSUME p.st \in HeaderStates PROVE Measured(HeaderValueTeTokenOws(p, c)) /\ Measured(HeaderValueTeChunkedLast(p, c))
  <2>1. Measured(p) /\ Measured(HeaderValueOtherwise(Header(p, "TRANSFER_ENCODING_CHUNKED"), c))
    BY <1>2, <1>4, MeasuredQuiet, MeasuredOtherwise DEF Told, Halved
  <2> QED  BY <1>3, <2>1 DEF HeaderValueTeTokenOws, HeaderValueTeChunkedLast
<1> QED  BY <1>3, <1>4

\* So does the first character of a value.
LEMMA MeasuredValueStart ==
    ASSUME NEW p, Told(p), NEW c
    PROVE  Measured(HeaderValueStart(p, c))
<1> DEFINE q == OpenSpan(p, "value")
<1>1. Told(q)
  BY ToldStays
<1> HIDE DEF q
<1>2. /\ Measured(HeaderValueConnection(q, c)) /\ Measured(HeaderValueContentLength(q, c)) /\ Measured(HeaderValue(q, c))
      /\ Measured(Fail(q, "UNEXPECTED_CONTENT_LENGTH"))
  <2>1. Halved(q) /\ DOMAIN q = Fields
    BY <1>1 DEF Told, Halved
  <2> QED  BY <1>1, <2>1, MeasuredConnection, MeasuredLength, MeasuredOtherwise, MeasuredGo
<1>3. Measured(HeaderValue(Header(AddFlag(q, "UPGRADE"), "GENERAL"), c))
  <2>1. Told(AddFlag(q, "UPGRADE"))
    BY <1>1, ToldStays
  <2>2. Told(Header(AddFlag(q, "UPGRADE"), "GENERAL"))
    BY <2>1, ToldStays
  <2> QED  BY <2>2, MeasuredOtherwise
<1>4. Measured(HeaderValueTeChunked([q EXCEPT !.flags = (@ \cup {"TRANSFER_ENCODING"}) \ {"CHUNKED"}], c))
  BY <1>1, ToldStays, MeasuredCoding
<1> QED  BY <1>2, <1>3, <1>4 DEF HeaderValueStart, q

\* So do blanks.
LEMMA MeasuredBlank ==
    ASSUME NEW p, Told(p), NEW c
    PROVE  /\ Between(p) => Measured(HeaderValueDiscardLws(p, c))
           /\ Plain(p) => Measured(HeaderValueLws(p, c))
           /\ p.st \in BlankStates => Measured(HeaderValueDiscardWs(p, c))
<1>1. \A s \in BlankStates : Measured(Go(p, s)) /\ s \in HeaderStates
  BY MeasuredGo DEF HeaderStates, Told, Halved
<1>2. Between(p) => Measured(HeaderFieldStart(EndSpan(OpenSpan(TakeHeaderState(p), "value")), c))
  <2> DEFINE q == TakeHeaderState(p)
             r == OpenSpan(q, "value")
  <2>1. Told(q) /\ Told(r) /\ Told(EndSpan(r))
    <3>1. Told(q)
      BY ToldStays
    <3> HIDE DEF q
    <3>2. Told(r)
      BY <3>1, ToldStays
    <3> HIDE DEF r
    <3>3. Told(EndSpan(r))
      BY <3>2, ToldStays
    <3> QED  BY <3>1, <3>2, <3>3
  <2>2. Between(p) => Plain(EndSpan(r))
    <3>1. Between(p) => Between(q)
      BY KindsTaken
    <3> HIDE DEF q
    <3>2. Between(q) => Valuing(r)
      BY KindsStay
    <3> HIDE DEF r
    <3>3. Valuing(r) => Plain(EndSpan(r))
      BY KindsStay
    <3> QED  BY <3>1, <3>2, <3>3
  <2> HIDE DEF r
  <2>3. Between(p) => Measured(HeaderFieldStart(EndSpan(r), c))
    BY <2>1, <2>2, MeasuredFieldStart
  <2> QED  BY <2>3 DEF r
<1>3. Measured(Fail(p, "INVALID_CONTENT_LENGTH")) /\ Measured(HeaderValueStart(p, c))
  BY MeasuredGo, MeasuredValueStart DEF Told, Halved
<1>4. Between(p) => Measured(HeaderValueDiscardLws(p, c))
  BY <1>1, <1>2, <1>3 DEF HeaderValueDiscardLws, BlankStates
<1>5. Plain(p) => Measured(HeaderFieldStart(TakeHeaderState(p), c))
  <2>1. Told(TakeHeaderState(p)) /\ (Plain(p) => Plain(TakeHeaderState(p)))
    BY ToldStays, KindsTaken
  <2> QED  BY <2>1, MeasuredFieldStart
<1>6. Plain(p) => Measured(HeaderValueLws(p, c))
  BY <1>3, <1>5 DEF HeaderValueLws
<1>7. p.st \in BlankStates => Measured(p)
  BY <1>1, MeasuredQuiet DEF Told, Halved
<1>8. p.st \in BlankStates => Measured(HeaderValueDiscardWs(p, c))
  BY <1>1, <1>3, <1>7 DEF HeaderValueDiscardWs, BlankStates
<1> QED  BY <1>4, <1>6, <1>8

\* So does a body: a chunk's size is used up with the chunk.
LEMMA MeasuredChunk ==
    ASSUME NEW p, Plain(p), p.st \in ChunkStates \cup BodyStates \cup LastStates, NEW c
    PROVE  Measured(Step(p, c))
<1>1. DOMAIN p = Fields /\ Measured(p) /\ p.st \in QuietStates
      /\ Measured(Fail(p, "INVALID_CHUNK_SIZE"))
      /\ \A s \in ChunkStates \cup BodyStates : Measured(Go(p, s))
  <2>1. DOMAIN p = Fields /\ p.st \in QuietStates /\ \A s \in ChunkStates \cup BodyStates : s \in QuietStates
    BY DEF Plain, Ranged, QuietStates
  <2> QED  BY <2>1, MeasuredQuiet, MeasuredGo
<1>2. Measured(ChunkSize(p, c))
  <2>1. Measured(ChunkSizeOtherwise(p, c))
    BY <1>1 DEF ChunkSizeOtherwise, ChunkStates
  <2>2. \A d : Measured(MulAdd(Go(p, "chunk_size"), 16, d, "INVALID_CHUNK_SIZE"))
    <3> DEFINE g == Go(p, "chunk_size")
    <3>1. DOMAIN g = Fields /\ g.st \in QuietStates
      BY <1>1, FieldsAre DEF Go, QuietStates, ChunkStates
    <3> HIDE DEF g
    <3>2. \A d : Measured(MulAdd(g, 16, d, "INVALID_CHUNK_SIZE"))
      BY <3>1, MeasuredMulAdd
    <3> QED  BY <3>2 DEF g
  <2> QED  BY <2>1, <2>2 DEF ChunkSize
<1>3. Measured(ChunkSizeDigit(p, c)) /\ Measured(ChunkParameters(p, c)) /\ Measured(Go(p, "chunk_data_almost_done_skip"))
  BY <1>1, <1>2 DEF ChunkSizeDigit, ChunkParameters, ChunkStates
<1>4. Measured(ChunkSizeAlmostDone(p))
  <2>1. p.content_length = 0 => Told(AddFlag(p, "TRAILING"))
    BY <1>1, FieldsAre DEF Told, Halved, AddFlag
  <2>2. "header_field_start" \in HeaderStates
    BY DEF HeaderStates, FieldStates
  <2>3. p.content_length = 0 => Measured(Go(AddFlag(p, "TRAILING"), "header_field_start"))
    BY <2>1, <2>2, MeasuredGo DEF Told, Halved
  <2> QED  BY <1>1, <2>3 DEF ChunkSizeAlmostDone, BodyStates
<1>5. Measured(ChunkDataAlmostDoneSkip(p))
  <2>1. "chunk_size_digit" \in QuietStates
    BY DEF QuietStates, ChunkStates
  <2> QED  BY <1>1, <2>1, FieldsAre, MeasuredQuiet DEF ChunkDataAlmostDoneSkip
<1>6. ASSUME p.st \in BodyStates PROVE Measured(ConsumeContentLength1(p)) /\ Measured(ConsumeContentLength(p))
  <2> DEFINE q == [p EXCEPT !.content_length = @ - 1]
  <2>1. DOMAIN q = Fields /\ q.error = "OK" /\ q.upgrade \in BOOLEAN /\ q.st \in QuietStates
    BY <1>1, FieldsAre DEF Plain, Ranged
  <2> HIDE DEF q
  <2>2. q.content_length = 0 => Measured(MessageComplete(q))
    BY <2>1, MeasuredMessage
  <2>3. Measured(q) /\ Measured(Go(q, "chunk_data_almost_done"))
    <3>1. "chunk_data_almost_done" \in QuietStates
      BY DEF QuietStates, ChunkStates
    <3> QED  BY <2>1, <3>1, MeasuredQuiet, MeasuredGo
  <2> QED  BY <2>2, <2>3 DEF ConsumeContentLength1, ConsumeContentLength, q
<1> QED  BY <1>1, <1>2, <1>3, <1>4, <1>5, <1>6 DEF Step, ChunkStates, BodyStates, LastStates

\* Only a Content-Length among trailing headers is not accounted for.
TrailsNoLength(p) ==
    ~(p.error = "OK" /\ p.st = "header_value_content_length" /\ "TRAILING" \in p.flags)

\* Every character does, if it is not of a length among trailers.
LEMMA MeasuredStep ==
    ASSUME NEW p, Sound(p), Measured(p), TrailsNoLength(p), p.error = "OK", NEW c
    PROVE  Measured(Step(p, c))
<1>0. DOMAIN p = Fields
  BY DEF Sound, Ranged
<1>1. CASE p.st \in LineStates
  BY <1>1, MeasuredLine DEF Measured
<1>2. CASE p.st \in NameStates
  <2>1. Told(p)
    <3>1. \A s \in NameStates : s \in HeaderStates \ LengthStates
      BY DEF NameStates, HeaderStates, LengthStates, FieldStates
    <3> QED  BY <1>2, <3>1 DEF Measured
  <2> QED  BY <1>2, <2>1, MeasuredName DEF Step, NameStates
<1>3. CASE p.st \in BlankStates
  <2>1. Told(p)
    <3>1. \A s \in BlankStates : s \in HeaderStates \ LengthStates
      BY DEF BlankStates, HeaderStates, LengthStates
    <3> QED  BY <1>3, <3>1 DEF Measured
  <2>2. Between(p)
    BY <1>3, Kinds
  <2>3. Measured(Go(p, "header_value_discard_lws"))
    BY <2>1, MeasuredGo DEF Told, Halved, HeaderStates, BlankStates
  <2> QED  BY <1>3, <2>1, <2>2, <2>3, MeasuredBlank DEF Step, BlankStates
<1>4. CASE p.st \in ValueStates \ LengthStates
  <2>1. Told(p) /\ p.st \in HeaderStates
    <3>1. \A s \in ValueStates \ LengthStates : s \in HeaderStates \ LengthStates
      BY DEF HeaderStates
    <3> QED  BY <1>4, <3>1 DEF Measured
  <2> QED  BY <1>4, <2>1, MeasuredConnection, MeasuredCoding, MeasuredOtherwise DEF Step, ValueStates, LengthStates
<1>5. CASE p.st \in LengthStates
  <2>1. Halved(p)
    BY <1>0, <1>5 DEF Measured, LengthStates, Halved, TrailsNoLength
  <2> QED  BY <1>5, <2>1, MeasuredLength DEF Step, LengthStates
<1>6. CASE p.st \in EndStates \cup {"header_field_start"}
  <2>1. Told(p)
    <3>1. \A s \in EndStates \cup {"header_field_start"} : s \in HeaderStates \ LengthStates
      BY DEF EndStates, HeaderStates, LengthStates, FieldStates
    <3> QED  BY <1>6, <3>1 DEF Measured
  <2>2. Plain(p)
    BY <1>6, Kinds DEF OtherStates
  <2>3. Measured(HeadersAlmostDone(p)) /\ Measured(HeaderFieldStart(p, c)) /\ Measured(HeaderValueLws(p, c))
        /\ Measured(HeaderValueAlmostDone(p, c))
    BY <2>1, <2>2, MeasuredHeaders, MeasuredFieldStart, MeasuredBlank, MeasuredOtherwise
  <2> QED  BY <1>6, <2>3 DEF Step, EndStates
<1>7. CASE p.st \in ChunkStates \cup BodyStates \cup LastStates
  <2>1. Plain(p)
    BY <1>7, Kinds DEF OtherStates
  <2> QED  BY <1>7, <2>1, MeasuredChunk
<1>8. p.st \in States
  BY DEF Sound
<1> QED  BY <1>1, <1>2, <1>3, <1>4, <1>5, <1>6, <1>7, <1>8 DEF States, FieldStates, NameStates

\* And so when the parser is in error.
LEMMA MeasuredAdvance ==
    ASSUME NEW p, Sound(p), Measured(p), TrailsNoLength(p), NEW c
    PROVE  Measured(Advance(p, c))
<1>1. ASSUME NEW q, DOMAIN q = Fields, Measured(q) PROVE Measured(InSpan(q, c))
  <2>1. Measured([q EXCEPT !.piece = Append(@, c)])
    BY <1>1, FieldsAre DEF Measured, Told, Halved, Unused
  <2> QED  BY <1>1, <2>1 DEF InSpan
<1>2. CASE p.error = "OK"
  <2>1. DOMAIN Step(p, c) = Fields
    BY <1>2, SoundStep DEF Sound, Ranged
  <2> QED  BY <1>1, <1>2, <2>1, MeasuredStep DEF Advance
<1>3. CASE p.error # "OK"
  BY <1>3 DEF Advance
<1> QED  BY <1>2, <1>3

\* A measured parser that waits for a message has nothing of the last one: ParserFresh.
LEMMA StartIsFresh ==
    ASSUME NEW p, Sound(p), Measured(p), p.error = "OK", p.st = "start"
    PROVE  /\ p.flags = {} /\ p.content_length = 0 /\ ~p.upgrade
           /\ DOMAIN p.headers = {} /\ p.span = "none" /\ p.cur_name = <<>>
<1>1. "start" \in LineStates
  BY DEF LineStates
<1>2. Lined(p)
  BY <1>1, Kinds
<1>3. Unused(p)
  BY <1>1 DEF Measured
<1> QED  BY <1>2, <1>3 DEF Lined, Unused

\* A new parser is measured.
LEMMA NewIsMeasured == Measured(NewParser)
BY StatesApart DEF NewParser, Measured, Unused, Fields, LineStates, HeaderStates

\* A parser that has read a part of some data whose trailers are plain.
LEMMA MeasuredScan ==
    ASSUME NEW s \in Seq(STRING), \A n \in 0 .. Len(s) : TrailsNoLength(Scan(NewParser, SubSeq(s, 1, n)))
    PROVE  \A n \in 0 .. Len(s) : Measured(Scan(NewParser, SubSeq(s, 1, n)))
<1> DEFINE S == {n \in Nat : n <= Len(s) => Measured(Scan(NewParser, SubSeq(s, 1, n)))}
<1>1. 0 \in S
  <2>1. SubSeq(s, 1, 0) = <<>>
    OBVIOUS
  <2> QED  BY <2>1, ScanNothing, NewIsMeasured
<1>2. ASSUME NEW n \in Nat, n \in S PROVE n + 1 \in S
  <2> SUFFICES ASSUME n + 1 <= Len(s) PROVE Measured(Scan(NewParser, SubSeq(s, 1, n + 1)))
    OBVIOUS
  <2> DEFINE r == SubSeq(s, 1, n)
             c == s[n + 1]
  <2>1. r \in Seq(STRING) /\ c \in STRING /\ SubSeq(s, 1, n + 1) = Append(r, c) /\ n \in 0 .. Len(s)
    OBVIOUS
  <2>2. Measured(Scan(NewParser, r)) /\ TrailsNoLength(Scan(NewParser, r))
    BY <1>2, <2>1
  <2> HIDE DEF r, c
  <2>3. Sound(Scan(NewParser, r))
    BY <2>1, NewIsSound, SoundScan
  <2>4. Measured(Advance(Scan(NewParser, r), c))
    BY <2>2, <2>3, MeasuredAdvance
  <2> QED  BY <2>1, <2>4, ScanAppend
<1> HIDE DEF S
<1>3. Nat \subseteq S
  BY <1>1, <1>2, Scans!NatSetInduction
<1> QED  BY <1>3 DEF S

----------------------------------------------------------------------------

\* The facts of a fold, for the messages of a conversation.
Texts == INSTANCE FoldFacts WITH Take <- Joined

\* The messages a client may send.
Messages == DOMAIN Outcome

\* Text is that fold.
LEMMA TextIs == ASSUME NEW s PROVE Text(s) = Texts!Folded(<<>>, s)
BY DEF Text, FoldLeft, MapThenFoldSet, Max, Texts!Folded, Texts!Folds, Texts!Greatest

\* No message is no text.
LEMMA TextNothing == Text(<<>>) = <<>>
BY TextIs, Texts!FoldedNothing

\* The last message is the end of the text.
LEMMA TextAppend ==
    ASSUME NEW s \in Seq(Messages), NEW m \in Messages
    PROVE  Text(Append(s, m)) = Text(s) \o Wire[m]
BY TextIs, Texts!FoldedAppend DEF Joined

\* A message is one or more characters.
LEMMA WireIs == \A m \in Messages : Wire[m] \in Seq(STRING) /\ Len(Wire[m]) > 0
<1>1. \A m \in Messages : Wire[m] \in Seq(STRING) /\ Wire[m] # <<>>
  BY HttpAssumption DEF Messages
<1> QED  BY <1>1

\* A text is a sequence of characters.
LEMMA TextType == ASSUME NEW s \in Seq(Messages) PROVE Text(s) \in Seq(STRING)
<1> DEFINE S == {n \in Nat : \A t \in Seq(Messages) : Len(t) = n => Text(t) \in Seq(STRING)}
<1>1. 0 \in S
  <2>1. \A t \in Seq(Messages) : Len(t) = 0 => t = <<>>
    OBVIOUS
  <2> QED  BY <2>1, TextNothing
<1>2. ASSUME NEW n \in Nat, n \in S PROVE n + 1 \in S
  <2> SUFFICES ASSUME NEW t \in Seq(Messages), Len(t) = n + 1 PROVE Text(t) \in Seq(STRING)
    OBVIOUS
  <2> DEFINE r == SubSeq(t, 1, n)
             m == t[n + 1]
  <2>1. r \in Seq(Messages) /\ Len(r) = n /\ m \in Messages /\ t = Append(r, m)
    BY Scans!LastApart, Zenon
  <2> HIDE DEF r, m
  <2>2. Text(r) \in Seq(STRING) /\ Wire[m] \in Seq(STRING)
    BY <1>2, <2>1, WireIs
  <2>3. Text(t) = Text(r) \o Wire[m]
    BY <2>1, TextAppend
  <2> QED  BY <2>2, <2>3
<1> HIDE DEF S
<1>3. Nat \subseteq S
  BY <1>1, <1>2, Scans!NatSetInduction
<1>4. Len(s) \in S
  BY <1>3
<1> QED  BY <1>4 DEF S

\* A conversation is a sequence of messages, of bounded length.
LEMMA ConversationsAre ==
    ASSUME NEW s \in Conversations
    PROVE  s \in Seq(Messages) /\ Len(s) <= MaxSent
<1>1. PICK n \in 0 .. MaxSent : s \in [1 .. n -> Messages]
  BY DEF Conversations, Messages
<1>2. MaxSent \in Nat
  BY HttpAssumption
<1> QED  BY <1>1, <1>2

\* A message that may follow makes a conversation.
LEMMA ConversationsGrow ==
    ASSUME NEW s \in Conversations, Len(s) < MaxSent, NEW m \in Messages,
           s # <<>> => m \in Followers[Last(s)]
    PROVE  Append(s, m) \in Conversations
<1> DEFINE t == Append(s, m)
           n == Len(s) + 1
<1>1. s \in Seq(Messages) /\ Len(s) <= MaxSent /\ MaxSent \in Nat
  BY ConversationsAre, HttpAssumption
<1>2. t \in [1 .. n -> Messages] /\ n \in 0 .. MaxSent /\ Len(t) = n
  <2>1. t \in Seq(Messages) /\ Len(t) = n
    BY <1>1
  <2>2. n \in 0 .. MaxSent
    BY <1>1
  <2>3. \A q \in Seq(Messages) : q \in [1 .. Len(q) -> Messages]
    OBVIOUS
  <2>4. t \in [1 .. Len(t) -> Messages]
    BY <2>1, <2>3
  <2> HIDE DEF t, n
  <2> QED  BY <2>1, <2>2, <2>4
<1>3. \A i \in 2 .. Len(t) : t[i] \in Followers[t[i - 1]]
  <2> SUFFICES ASSUME NEW i \in 2 .. Len(t) PROVE t[i] \in Followers[t[i - 1]]
    OBVIOUS
  <2>1. CASE i <= Len(s)
    <3>1. t[i] = s[i] /\ t[i - 1] = s[i - 1]
      BY <1>1, <2>1
    <3>2. \A j \in 2 .. Len(s) : s[j] \in Followers[s[j - 1]]
      BY DEF Conversations
    <3> QED  BY <1>1, <2>1, <3>1, <3>2
  <2>2. CASE i = n
    <3>1. t[i] = m /\ t[i - 1] = s[Len(s)] /\ s # <<>>
      BY <1>1, <2>2
    <3> QED  BY <3>1 DEF Last
  <2> QED  BY <1>1, <1>2, <2>1, <2>2
<1> QED  BY <1>2, <1>3 DEF Conversations, Messages

\* Nothing is a conversation.
LEMMA NothingIsSaid == <<>> \in Conversations
<1>1. <<>> \in [1 .. 0 -> DOMAIN Outcome] /\ 0 \in 0 .. MaxSent /\ Len(<<>>) = 0
  BY HttpAssumption
<1> QED  BY <1>1 DEF Conversations

----------------------------------------------------------------------------

\* The sockets.
SocksHeld ==
    /\ sock \in [Fds -> Conns \cup {Listener, None}] /\ sock[Main] = Listener
    /\ \A f, g \in Fds : sock[f] \in Conns /\ sock[f] = sock[g] => f = g
    /\ backlog \in [Fds -> SUBSET Clients] /\ \A f \in Fds : f # Main => backlog[f] = {}
    /\ peer \in [Conns -> {"idle", "open", "fin", "rst", "gone"}]
    /\ \A c \in Conns : \A f \in Fds : peer[c] = "idle" => sock[f] # c /\ c \notin backlog[f]
    /\ \A f, g \in Fds : sock[f] \notin backlog[g]

\* Links and parsers.
LinksHeld ==
    /\ linked \in [Fds \cup {BadFd} -> Fds \cup {None, Elsewhere}]
    /\ \A f \in Fds : /\ linked[f] = Main <=> sock[f] \in Clients
                      /\ linked[f] = Elsewhere <=> sock[f] \in Others
    /\ DOMAIN parsers = {f \in Fds \cup {BadFd} : linked[f] = Main}
    /\ BadFd \in DOMAIN parsers => parsers[BadFd] = NewParser

\* The answers written for a connection (on_data: send_response).
Replies == Seq({"OK", "BAD"})

\* What is on its way.
QueuesHeld ==
    /\ DOMAIN writeq = Fds
    /\ \A f \in Fds : /\ sock[f] = None => writeq[f] = <<>>
                      /\ sock[f] \in Clients => writeq[f] \in Replies
    /\ heard \in [Clients -> Replies]
    /\ sent \in [Clients -> Conversations]
    /\ DOMAIN rx = Conns
    /\ \A c \in Clients :
          /\ rx[c] \in Seq(STRING)
          /\ peer[c] = "idle" => rx[c] = <<>> /\ sent[c] = <<>> /\ heard[c] = <<>>
          /\ c \in backlog[Main] => heard[c] = <<>> /\ rx[c] = Text(sent[c])

\* A parser p that, alone, has read t.
Has(p, t) ==
    LET q == Scan(NewParser, t) IN
    /\ Sound(p) /\ p.complete = 0 /\ Alike(p, q, q.complete)
    /\ t = <<>> => p = NewParser

\* Answers that are OK up to the kth and BAD after it.
OkUpTo(a, k) == \A i \in 1 .. Len(a) : a[i] = IF i <= k THEN "OK" ELSE "BAD"

\* The answers to t.
Answering(a, t) ==
    LET q == Scan(NewParser, t) IN
    /\ OkUpTo(a, q.complete)
    /\ Len(a) >= q.complete
    /\ Len(a) > q.complete <=> q.error # "OK"

\* The part of the text s that is read when r is left.
Before(s, r) == SubSeq(s, 1, Len(s) - Len(r))

\* A parser p of a connection in the state o, that has sent the messages s of
\* which the characters r are left, and has been given the answers a.
Feeds(p, s, r, o, a) ==
    LET t == Before(Text(s), r) IN
    /\ Len(r) <= Len(Text(s)) /\ Text(s) = t \o r
    /\ Has(p, t)
    /\ o = "open" => Answering(a, t)

\* The parser of every connected client.
FedHeld ==
    \A f \in Fds : sock[f] \in Clients =>
        Feeds(parsers[f], sent[sock[f]], rx[sock[f]], peer[sock[f]], heard[sock[f]] \o writeq[f])

\* The inductive invariant: sockets, links, what is on its way, and each parser with what it has
\* read and answered.
Inv == SocksHeld /\ LinksHeld /\ QueuesHeld /\ FedHeld

\* When all is left, nothing has been read.
LEMMA NothingBefore == ASSUME NEW x \in Seq(STRING) PROVE Before(x, x) = <<>>
BY DEF Before

\* The parser of a new connection has read nothing.
LEMMA FeedsStart ==
    ASSUME NEW s \in Seq(Messages), NEW o
    PROVE  Feeds(NewParser, s, Text(s), o, <<>>)
<1> DEFINE x == Text(s)
<1>1. x \in Seq(STRING)
  BY TextType
<1>2. Before(x, x) = <<>>
  BY <1>1, NothingBefore
<1>3. Len(x) <= Len(x) /\ x = <<>> \o x
  BY <1>1
<1>4. Has(NewParser, <<>>)
  BY NewIsSound, ScanNothing DEF Has, Alike, Fields
<1>5. Answering(<<>>, <<>>)
  BY NewIsSound, ScanNothing DEF Answering, OkUpTo
<1> HIDE DEF x
<1> QED  BY <1>2, <1>3, <1>4, <1>5 DEF Feeds, x

\* Of a client that has left, the answers no longer matter.
LEMMA FeedsClosed ==
    ASSUME NEW p, NEW s, NEW r, NEW o, NEW a, Feeds(p, s, r, o, a), NEW w, w # "open", NEW b
    PROVE  Feeds(p, s, r, w, b)
BY DEF Feeds

\* What is sent later does not change what has been read.
LEMMA BeforeStays ==
    ASSUME NEW x \in Seq(STRING), NEW r \in Seq(STRING), NEW w \in Seq(STRING), Len(r) <= Len(x)
    PROVE  /\ Before(x \o w, r \o w) = Before(x, r)
           /\ x = Before(x, r) \o r => x \o w = Before(x, r) \o (r \o w)
           /\ Before(x, r) \in Seq(STRING)
<1> DEFINE k == Len(x) - Len(r)
           a == SubSeq(x \o w, 1, k)
           b == SubSeq(x, 1, k)
<1>1. k \in Nat /\ k <= Len(x) /\ Len(x \o w) - Len(r \o w) = k
  OBVIOUS
<1>2. a \in Seq(STRING) /\ b \in Seq(STRING) /\ Len(a) = k /\ Len(b) = k /\ \A i \in 1 .. k : a[i] = b[i]
  BY <1>1
<1>3. a = b
  <2> HIDE DEF a, b, k
  <2> QED  BY <1>2, Scans!SameSequence
<1>4. \A c \in Seq(STRING) : (c \o r) \o w = c \o (r \o w)
  OBVIOUS
<1> QED  BY <1>1, <1>2, <1>3, <1>4 DEF Before

\* A parser is as it was when its client sends one more message.
LEMMA FeedsMore ==
    ASSUME NEW p, NEW s \in Seq(Messages), NEW r \in Seq(STRING), NEW o, NEW a, Feeds(p, s, r, o, a),
           NEW m \in Messages
    PROVE  Feeds(p, Append(s, m), r \o Wire[m], o, a)
<1> DEFINE x == Text(s)
           w == Wire[m]
<1>1. x \in Seq(STRING) /\ w \in Seq(STRING) /\ Text(Append(s, m)) = x \o w
  BY TextType, TextAppend, WireIs
<1>2. Len(r) <= Len(x) /\ x = Before(x, r) \o r
  BY DEF Feeds
<1> HIDE DEF x, w
<1>3. Before(x \o w, r \o w) = Before(x, r) /\ x \o w = Before(x, r) \o (r \o w)
  BY <1>1, <1>2, BeforeStays, ZenonT(60)
<1>4. Len(r \o w) <= Len(x \o w)
  BY <1>1, <1>2
<1> QED  BY <1>1, <1>3, <1>4 DEF Feeds, x, w

\* The two parts of a sequence.
LEMMA CutIs ==
    ASSUME NEW T, NEW x \in Seq(T), NEW k \in Nat, k <= Len(x)
    PROVE  /\ SubSeq(x, 1, k) \in Seq(T) /\ Len(SubSeq(x, 1, k)) = k
           /\ \A i \in 1 .. k : SubSeq(x, 1, k)[i] = x[i]
           /\ SubSeq(x, k + 1, Len(x)) \in Seq(T) /\ Len(SubSeq(x, k + 1, Len(x))) = Len(x) - k
           /\ \A i \in 1 .. Len(x) - k : SubSeq(x, k + 1, Len(x))[i] = x[k + i]
OBVIOUS

\* Two sequences joined.
LEMMA JoinIs ==
    ASSUME NEW T, NEW a \in Seq(T), NEW b \in Seq(T)
    PROVE  /\ a \o b \in Seq(T) /\ Len(a \o b) = Len(a) + Len(b)
           /\ \A i \in 1 .. Len(a) + Len(b) : (a \o b)[i] = IF i <= Len(a) THEN a[i] ELSE b[i - Len(a)]
OBVIOUS

\* A sequence in three parts, joined from the left and from the right.
LEMMA ThreeParts ==
    ASSUME NEW T, NEW t \in Seq(T), NEW r \in Seq(T), NEW n \in 0 .. Len(r)
    PROVE  LET u == SubSeq(r, 1, n)
               w == SubSeq(r, n + 1, Len(r))
           IN u \o w = r /\ (t \o u) \o w = t \o r
<1> DEFINE u == SubSeq(r, 1, n)
           w == SubSeq(r, n + 1, Len(r))
<1>1. u \in Seq(T) /\ w \in Seq(T) /\ Len(u) = n /\ Len(w) = Len(r) - n
  BY CutIs
<1>2. u \o w = r
  <2>1. \A i \in 1 .. Len(r) : (u \o w)[i] = r[i]
    <3>1. \A i \in 1 .. n : u[i] = r[i]
      BY CutIs
    <3>2. \A i \in 1 .. Len(r) - n : w[i] = r[n + i]
      BY CutIs
    <3> HIDE DEF u, w
    <3> SUFFICES ASSUME NEW i \in 1 .. Len(r) PROVE (u \o w)[i] = r[i]
      OBVIOUS
    <3>3. (u \o w)[i] = IF i <= n THEN u[i] ELSE w[i - n]
      BY <1>1, JoinIs
    <3>4. i > n => i - n \in 1 .. Len(r) - n /\ n + (i - n) = i
      OBVIOUS
    <3> QED  BY <3>1, <3>2, <3>3, <3>4
  <2>2. u \o w \in Seq(T) /\ Len(u \o w) = Len(r)
    <3> HIDE DEF u, w
    <3> QED  BY <1>1
  <2> HIDE DEF u, w
  <2> QED  BY <2>1, <2>2, Scans!SameSequence
<1> HIDE DEF u, w
<1>3. \A a, b, c \in Seq(T) : (a \o b) \o c = a \o (b \o c)
  BY SMTT(30)
<1>4. (t \o u) \o w = t \o r
  BY <1>1, <1>2, <1>3
<1> QED  BY <1>2, <1>4 DEF u, w

\* What is read next is read after what has been.
LEMMA BeforeGoes ==
    ASSUME NEW x \in Seq(STRING), NEW r \in Seq(STRING), Len(r) <= Len(x), x = Before(x, r) \o r,
           NEW n \in 0 .. Len(r)
    PROVE  LET rest == SubSeq(r, n + 1, Len(r)) IN
           /\ Before(x, rest) = Before(x, r) \o SubSeq(r, 1, n)
           /\ x = Before(x, rest) \o rest
           /\ rest \in Seq(STRING) /\ Len(rest) = Len(r) - n
<1> DEFINE rest == SubSeq(r, n + 1, Len(r))
           u == SubSeq(r, 1, n)
           t == Before(x, r)
<1>1. rest \in Seq(STRING) /\ Len(rest) = Len(r) - n /\ u \in Seq(STRING) /\ Len(u) = n
  BY CutIs
<1>2. PICK k \in Nat : k = Len(x) - Len(r)
  OBVIOUS
<1>3. t \in Seq(STRING) /\ Len(t) = k
  BY <1>2, CutIs DEF Before
<1>4. (t \o u) \o rest = x
  BY <1>3, ThreeParts
<1> HIDE DEF t, u, rest
<1>5. t \o u \in Seq(STRING) /\ Len(t \o u) = k + n /\ Len(x) - Len(rest) = k + n
  <2>1. t \o u \in Seq(STRING) /\ Len(t \o u) = k + n
    <3>1. \A a, b \in Seq(STRING) : a \o b \in Seq(STRING) /\ Len(a \o b) = Len(a) + Len(b)
      OBVIOUS
    <3> QED  BY <1>1, <1>3, <3>1
  <2>2. Len(x) \in Nat /\ Len(r) \in Nat /\ n \in Nat
    OBVIOUS
  <2>3. Len(x) - Len(rest) = k + n
    BY <1>1, <1>2, <2>2
  <2> QED  BY <2>1, <2>3
<1>6. \A a, b \in Seq(STRING) : SubSeq(a \o b, 1, Len(a)) = a
  OBVIOUS
<1>7. SubSeq(x, 1, k + n) = t \o u
  BY <1>1, <1>4, <1>5, <1>6
<1>8. Before(x, rest) = t \o u
  BY <1>5, <1>7 DEF Before
<1> QED  BY <1>1, <1>4, <1>8 DEF t, u, rest

\* The answers on_data writes for a call: one for each message completed, and one for an error.
LEMMA AnswersAre ==
    ASSUME NEW q, q.complete \in Nat
    PROVE  LET b == Answers(q) IN
           /\ b \in Replies
           /\ Len(b) = q.complete + IF q.error = "OK" THEN 0 ELSE 1
           /\ OkUpTo(b, q.complete)
<1> USE DEF OkUpTo
<1> PICK d \in Nat : d = q.complete
  OBVIOUS
<1> DEFINE x == [i \in 1 .. d |-> "OK"]
           y == IF q.error = "OK" THEN <<>> ELSE <<"BAD">>
<1>1. x \in Replies /\ Len(x) = d /\ \A i \in 1 .. d : x[i] = "OK"
  BY DEF Replies
<1>2. CASE q.error = "OK"
  <2>1. x \o <<>> = x
    BY <1>1
  <2> QED  BY <1>1, <1>2, <2>1 DEF Answers
<1>3. CASE q.error # "OK"
  <2> HIDE DEF x
  <2>1. x \o <<"BAD">> \in Replies /\ Len(x \o <<"BAD">>) = d + 1
        /\ \A i \in 1 .. d + 1 : (x \o <<"BAD">>)[i] = IF i <= d THEN "OK" ELSE "BAD"
    BY <1>1 DEF Replies
  <2> QED  BY <1>3, <2>1 DEF Answers, x
<1> QED  BY <1>2, <1>3

\* Answers to what has been read, and to what is read next.
LEMMA AnswersJoin ==
    ASSUME NEW a \in Replies, NEW b \in Replies, NEW k \in Nat, NEW d \in Nat, NEW x \in {0, 1}, NEW y \in {0, 1},
           OkUpTo(a, k), Len(a) >= k, Len(a) > k <=> x = 1, x = 1 => d = 0 /\ y = 1,
           Len(b) = d + y, OkUpTo(b, d)
    PROVE  /\ OkUpTo(a \o b, k + d)
           /\ Len(a \o b) >= k + d /\ (Len(a \o b) > k + d <=> y = 1)
           /\ a \o b \in Replies
<1> USE DEF OkUpTo
<1>1. a \o b \in Replies /\ Len(a \o b) = Len(a) + Len(b) /\ DOMAIN (a \o b) = 1 .. Len(a) + Len(b)
      /\ Len(a) \in Nat /\ Len(b) \in Nat
  BY DEF Replies
<1>2. \A i \in 1 .. Len(a) + Len(b) : (a \o b)[i] = IF i <= Len(a) THEN a[i] ELSE b[i - Len(a)]
  BY DEF Replies
<1>3. \A i \in 1 .. Len(a) + Len(b) : (a \o b)[i] = IF i <= k + d THEN "OK" ELSE "BAD"
  <2> SUFFICES ASSUME NEW i \in 1 .. Len(a) + Len(b) PROVE (a \o b)[i] = IF i <= k + d THEN "OK" ELSE "BAD"
    OBVIOUS
  <2>1. CASE i <= Len(a)
    <3>1. (a \o b)[i] = a[i] /\ i \in 1 .. Len(a)
      BY <1>1, <1>2, <2>1
    <3>2. i <= k <=> i <= k + d
      BY <1>1, <2>1
    <3> QED  BY <3>1, <3>2
  <2>2. CASE i > Len(a)
    <3> DEFINE j == i - Len(a)
    <3>1. (a \o b)[i] = b[j] /\ j \in 1 .. Len(b)
      BY <1>1, <1>2, <2>2
    <3>2. j <= d <=> i <= k + d
      BY <1>1, <2>2
    <3> HIDE DEF j
    <3> QED  BY <3>1, <3>2
  <2> QED  BY <1>1, <2>1, <2>2
<1> QED  BY <1>1, <1>3

\* Answers may be joined,
LEMMA RepliesJoin ==
    /\ \A a, b \in Replies : a \o b \in Replies
    /\ \A a, b, c \in Replies : (a \o b) \o c = a \o (b \o c)
<1>1. ASSUME NEW a \in Replies, NEW b \in Replies PROVE a \o b \in Replies
  <2>1. \A T : \A x, y \in Seq(T) : x \o y \in Seq(T)
    OBVIOUS
  <2> QED  BY <2>1 DEF Replies
<1>2. \A T : \A x, y, z \in Seq(T) : (x \o y) \o z = x \o (y \o z)
  OBVIOUS
<1> QED  BY <1>1, <1>2 DEF Replies

\* and cut.
LEMMA RepliesCut ==
    ASSUME NEW x \in Replies, NEW n \in 0 .. Len(x)
    PROVE  /\ SubSeq(x, 1, n) \in Replies /\ SubSeq(x, n + 1, Len(x)) \in Replies
           /\ SubSeq(x, 1, n) \o SubSeq(x, n + 1, Len(x)) = x
<1>1. x \in Seq({"OK", "BAD"}) /\ <<>> \in Seq({"OK", "BAD"})
  BY DEF Replies
<1>2. SubSeq(x, 1, n) \in Seq({"OK", "BAD"}) /\ SubSeq(x, n + 1, Len(x)) \in Seq({"OK", "BAD"})
  BY <1>1, CutIs
<1>3. SubSeq(x, 1, n) \o SubSeq(x, n + 1, Len(x)) = x
  BY <1>1, ThreeParts
<1> QED  BY <1>2, <1>3 DEF Replies

\* A parser is given nothing, or more.
LEMMA ExecuteNothing == [Execute(NewParser, <<>>) EXCEPT !.complete = 0] = NewParser
<1>1. /\ NewParser = [x \in DOMAIN NewParser |-> NewParser[x]]
      /\ NewParser.piece = <<>> /\ NewParser.complete = 0 /\ NewParser.error = "OK" /\ NewParser.span = "none"
  BY DEF NewParser
<1>2. ASSUME NEW f, f = [x \in DOMAIN f |-> f[x]], f.piece = <<>>, f.complete = 0
      PROVE  [f EXCEPT !.piece = <<>>] = f /\ [f EXCEPT !.complete = 0] = f
  BY <1>2
<1>3. [NewParser EXCEPT !.piece = <<>>] = NewParser /\ [NewParser EXCEPT !.complete = 0] = NewParser
  BY <1>1, <1>2
<1>4. EndOfData(NewParser) = NewParser
  BY <1>1, <1>3 DEF EndOfData, SpanCallback
<1>5. Scan([NewParser EXCEPT !.piece = <<>>, !.complete = 0], <<>>) = NewParser
  BY <1>3, ScanNothing
<1> QED  BY <1>3, <1>4, <1>5 DEF Execute

\* A call keeps a parser sound.
LEMMA ExecuteIsSound ==
    ASSUME NEW p, Sound(p), NEW u \in Seq(STRING)
    PROVE  LET e == Execute(p, u) IN Sound(e) /\ Sound([e EXCEPT !.complete = 0]) /\ e.complete \in Nat
<1> DEFINE a == [p EXCEPT !.piece = <<>>, !.complete = 0]
           b == Scan(a, u)
           e == EndOfData(b)
<1>1. Sound(a)
  BY SoundRests
<1> HIDE DEF a
<1>2. Sound(b)
  BY <1>1, SoundScan
<1> HIDE DEF b
<1>3. Sound(e)
  BY <1>2, SoundRests
<1> HIDE DEF e
<1>4. Sound([e EXCEPT !.complete = 0]) /\ e.complete \in Nat
  <2>1. Sound([e EXCEPT !.complete = 0])
    BY <1>3, SoundRests
  <2>2. e.complete \in Nat
    BY <1>3 DEF Sound, Ranged
  <2> QED  BY <2>1, <2>2
<1> QED  BY <1>3, <1>4 DEF Execute, e, b, a

\* The step on_data makes: it gives the parser what has been received, however the network has
\* cut it, and the answers it writes continue those written before.
LEMMA FeedsOn ==
    ASSUME NEW p, NEW s \in Seq(Messages), NEW r \in Seq(STRING), NEW o, NEW a \in Replies,
           Feeds(p, s, r, o, a), NEW n \in 0 .. Len(r)
    PROVE  LET e == Execute(p, SubSeq(r, 1, n))
           IN Feeds([e EXCEPT !.complete = 0], s, SubSeq(r, n + 1, Len(r)), o, a \o Answers(e))
<1> DEFINE u == SubSeq(r, 1, n)
           rest == SubSeq(r, n + 1, Len(r))
           x == Text(s)
           t == Before(x, r)
           e == Execute(p, u)
           q == Scan(NewParser, t)
           z == Scan(NewParser, t \o u)
           p1 == [e EXCEPT !.complete = 0]
<1>1. x \in Seq(STRING) /\ Len(r) <= Len(x) /\ x = t \o r
  BY TextType DEF Feeds
<1>2. u \in Seq(STRING) /\ Len(u) = n /\ rest \in Seq(STRING) /\ t \in Seq(STRING) /\ t \o u \in Seq(STRING)
  <2>1. u \in Seq(STRING) /\ Len(u) = n /\ rest \in Seq(STRING)
    BY CutIs
  <2>2. t \in Seq(STRING)
    <3> HIDE DEF x
    <3> QED  BY <1>1, BeforeStays, WireIs
  <2> HIDE DEF u, t
  <2> QED  BY <2>1, <2>2
<1>3. Before(x, rest) = t \o u /\ x = (t \o u) \o rest /\ Len(rest) <= Len(x)
  <2>1. Before(x, rest) = t \o u /\ x = Before(x, rest) \o rest /\ Len(rest) = Len(r) - n
    <3> HIDE DEF x
    <3> QED  BY <1>1, BeforeGoes
  <2>2. Len(rest) <= Len(r)
    BY <2>1
  <2> HIDE DEF x, rest, t, u
  <2>3. Len(rest) <= Len(x)
    <3>1. Len(rest) \in Nat /\ Len(r) \in Nat /\ Len(x) \in Nat
      BY <1>1, <1>2
    <3> QED  BY <1>1, <2>2, <3>1
  <2>4. x = (t \o u) \o rest
    BY <2>1, Zenon
  <2> QED  BY <2>1, <2>3, <2>4, Zenon
<1>4. Has(p, t) /\ (o = "open" => Answering(a, t))
  BY DEF Feeds
<1> HIDE DEF x, t, u, rest
<1>5. Sound(p) /\ p.complete = 0 /\ Alike(p, q, q.complete) /\ (t = <<>> => p = NewParser)
  BY <1>4 DEF Has
<1>6. Sound(q) /\ z = Scan(q, u) /\ Sound(z)
  BY <1>2, NewIsSound, SoundScan, ScanJoined
<1>7. Sound(e) /\ Sound(p1) /\ e.complete \in Nat
  BY <1>2, <1>5, ExecuteIsSound
<1> HIDE DEF q, z
<1>8. Alike(e, z, q.complete)
  BY <1>2, <1>5, <1>6, ExecuteAlike
<1> HIDE DEF e
<1>9. q.complete \in Nat /\ z.complete = e.complete + q.complete /\ z.complete \in Nat /\ e.error = z.error /\ DOMAIN e = Fields
  BY <1>6, <1>7, <1>8, AlikeState DEF Sound, Ranged
<1>10. Alike(p1, z, z.complete) /\ p1.complete = 0
  BY <1>8, <1>9, FieldsAre DEF Alike
<1>11. t \o u = <<>> => p1 = NewParser
  <2>1. t \o u = <<>> => t = <<>> /\ u = <<>>
    BY <1>2
  <2> QED  BY <1>5, <2>1, ExecuteNothing DEF e
<1>12. Has(p1, t \o u)
  BY <1>7, <1>10, <1>11 DEF Has, z
<1>13. o = "open" => Answering(a \o Answers(e), t \o u)
  <2> SUFFICES ASSUME o = "open" PROVE Answering(a \o Answers(e), t \o u)
    OBVIOUS
  <2>1. /\ OkUpTo(a, q.complete)
        /\ Len(a) >= q.complete /\ (Len(a) > q.complete <=> q.error # "OK")
    BY <1>4 DEF Answering, q
  <2>2. q.error # "OK" => e.error # "OK" /\ e.complete = 0
    <3>1. q.error # "OK" => z = q
      BY <1>2, <1>6, ErrorStays
    <3>2. PICK k \in Nat, d \in Nat : k = q.complete /\ d = e.complete
      BY <1>7, <1>9
    <3>3. z.complete = q.complete => d + k = k
      BY <1>9, <3>2
    <3>4. d + k = k => d = 0
      OBVIOUS
    <3> QED  BY <1>9, <3>1, <3>2, <3>3, <3>4
  <2> DEFINE more == Answers(e)
             was == IF q.error = "OK" THEN 0 ELSE 1
             now == IF e.error = "OK" THEN 0 ELSE 1
  <2> PICK k \in Nat, d \in Nat : k = q.complete /\ d = e.complete
    BY <1>7, <1>9
  <2>3. more \in Replies /\ Len(more) = d + now /\ OkUpTo(more, d)
    BY <1>7, AnswersAre
  <2>5. was \in {0, 1} /\ now \in {0, 1} /\ (Len(a) > k <=> was = 1) /\ (was = 1 => d = 0 /\ now = 1) /\ (now = 1 <=> z.error # "OK")
    BY <1>9, <2>1, <2>2
  <2> HIDE DEF more, was, now
  <2>6. /\ OkUpTo(a \o more, k + d)
        /\ Len(a \o more) >= k + d /\ (Len(a \o more) > k + d <=> now = 1)
    <3>1. OkUpTo(a, k) /\ Len(a) >= k
      BY <2>1
    <3>2. a \in Replies /\ more \in Replies /\ was \in {0, 1} /\ now \in {0, 1} /\ (Len(a) > k <=> was = 1) /\ (was = 1 => d = 0 /\ now = 1)
      BY <2>3, <2>5
    <3>3. Len(more) = d + now /\ OkUpTo(more, d)
      BY <2>3
    <3> QED  BY <3>1, <3>2, <3>3, AnswersJoin
  <2>7. k + d = z.complete
    BY <1>9
  <2>8. Answering(a \o more, t \o u)
    BY <2>5, <2>6, <2>7 DEF Answering, z
  <2> QED  BY <2>8 DEF more
<1> HIDE DEF p1
<1>14. Feeds(p1, s, rest, o, a \o Answers(e))
  BY <1>3, <1>12, <1>13 DEF Feeds, x
<1> QED  BY <1>14 DEF p1, rest, e, u

------------------------------------------------------------------------------
\* The actions of the HTTP interface.

\* The constants, told apart.
LEMMA Names ==
    /\ Clients \subseteq Conns /\ Others \subseteq Conns /\ Clients \cap Others = {} /\ Conns = Clients \cup Others
    /\ Elsewhere \notin Fds /\ Elsewhere # None /\ Main \in Fds /\ Main # None /\ BadFd \notin Fds /\ BadFd # None
    /\ Listener \notin Conns /\ None \notin Conns /\ Listener # None /\ None \notin Fds
BY HttpAssumption, LoopAssumption

\* What the invariant is about.
heldVars == <<netVars, linked, writeq, parsers, httpVars>>

\* A step that changes nothing of this keeps the invariant.
LEMMA UnchangedHolds == ASSUME Inv, UNCHANGED heldVars PROVE Inv'
<1> USE DEF heldVars, netVars, httpVars
<1>1. SocksHeld'
  BY DEF Inv, SocksHeld
<1>2. LinksHeld'
  BY DEF Inv, LinksHeld
<1>3. QueuesHeld'
  BY DEF Inv, QueuesHeld
<1>4. FedHeld'
  BY DEF Inv, FedHeld
<1> QED  BY <1>1, <1>2, <1>3, <1>4 DEF Inv

\* The parts of a connection that a step leaves alone.
Same(c, f) ==
    /\ sent'[c] = sent[c] /\ rx'[c] = rx[c] /\ peer'[c] = peer[c] /\ heard'[c] = heard[c]
    /\ parsers'[f] = parsers[f] /\ writeq'[f] = writeq[f]

\* So does one that leaves the connection of a client alone, for that client.
LEMMA SameFed ==
    ASSUME FedHeld, NEW f \in Fds, sock[f] \in Clients, sock'[f] = sock[f], Same(sock[f], f)
    PROVE  Feeds(parsers'[f], sent'[sock'[f]], rx'[sock'[f]], peer'[sock'[f]], heard'[sock'[f]] \o writeq'[f])
BY DEF FedHeld, Same

\* The last part of the invariant, in the next state.
LEMMA FedPrime ==
    ASSUME \A f \in Fds : sock'[f] \in Clients =>
               Feeds(parsers'[f], sent'[sock'[f]], rx'[sock'[f]], peer'[sock'[f]], heard'[sock'[f]] \o writeq'[f])
    PROVE  FedHeld'
BY DEF FedHeld

\* The invariant holds when the server starts.
LEMMA InitHolds == Init => Inv
<1> SUFFICES ASSUME Init PROVE Inv
  OBVIOUS
<1> USE Names DEF Init, LoopInit
<1>1. SocksHeld
  <2>1. sock \in [Fds -> Conns \cup {Listener, None}] /\ sock[Main] = Listener /\ \A f \in Fds : sock[f] \notin Conns
    OBVIOUS
  <2>2. backlog \in [Fds -> SUBSET Clients] /\ \A f \in Fds : backlog[f] = {}
    OBVIOUS
  <2>3. peer \in [Conns -> {"idle", "open", "fin", "rst", "gone"}]
    OBVIOUS
  <2> QED  BY <2>1, <2>2, <2>3, Zenon DEF SocksHeld
<1>2. LinksHeld
  BY DEF LinksHeld
<1>3. QueuesHeld
  BY NothingIsSaid, TextNothing DEF QueuesHeld, Replies
<1>4. FedHeld
  BY DEF FedHeld
<1> QED  BY <1>1, <1>2, <1>3, <1>4 DEF Inv

\* on_connect (http_interface.cpp) keeps it: the client gets a parser of its own.
LEMMA AcceptClientHolds == ASSUME Inv, AcceptClient PROVE Inv'
<1>1. PICK c \in Clients, f \in Fds : Accepted(Main, c, f, "CAPTURE", TRUE) /\ KeepParser(f)
  BY DEF AcceptClient
<1>2. /\ c \in backlog[Main] /\ sock[f] = None
      /\ sock' = [sock EXCEPT ![f] = c] /\ backlog' = [backlog EXCEPT ![Main] = @ \ {c}]
      /\ linked' = [linked EXCEPT ![f] = Main]
      /\ peer' = peer /\ rx' = rx /\ writeq' = writeq /\ sent' = sent /\ heard' = heard
      /\ parsers' = [g \in DOMAIN parsers \cup {f} |-> IF g = f THEN NewParser ELSE parsers[g]]
  BY <1>1 DEF AcceptClient, Accepted, NewFd, FreeFds, KeepParser, httpVars
<1>3. f # Main
  BY <1>2, Names DEF Inv, SocksHeld
<1>4. SocksHeld'
  BY <1>2, <1>3, Names DEF Inv, SocksHeld
<1>5. LinksHeld'
  BY <1>2, <1>3, Names DEF Inv, LinksHeld, SocksHeld
<1>6. QueuesHeld'
  <2>1. writeq[f] = <<>> /\ <<>> \in Replies
    BY <1>2 DEF Inv, QueuesHeld, Replies
  <2> QED  BY <1>2, <1>3, <2>1, Names DEF Inv, QueuesHeld, SocksHeld
<1>7. FedHeld'
  <2>1. ASSUME NEW g \in Fds, sock'[g] \in Clients, g # f
        PROVE  Feeds(parsers'[g], sent'[sock'[g]], rx'[sock'[g]], peer'[sock'[g]], heard'[sock'[g]] \o writeq'[g])
    <3>1. sock'[g] = sock[g]
      BY <1>2, <2>1 DEF Inv, SocksHeld
    <3>2. g \in DOMAIN parsers
      BY <2>1, <3>1 DEF Inv, LinksHeld
    <3>3. Same(sock[g], g)
      BY <1>2, <2>1, <3>2 DEF Same
    <3> QED  BY <2>1, <3>1, <3>3, SameFed DEF Inv
  <2>2. Feeds(parsers'[f], sent'[sock'[f]], rx'[sock'[f]], peer'[sock'[f]], heard'[sock'[f]] \o writeq'[f])
    <3>1. parsers'[f] = NewParser /\ sock'[f] = c /\ writeq[f] = <<>>
      BY <1>2 DEF Inv, QueuesHeld, SocksHeld
    <3>2. heard[c] = <<>> /\ rx[c] = Text(sent[c]) /\ sent[c] \in Seq(Messages)
      BY <1>2, ConversationsAre DEF Inv, QueuesHeld
    <3>3. heard[c] \o writeq[f] = <<>>
      BY <3>1, <3>2
    <3>4. Feeds(NewParser, sent[c], Text(sent[c]), peer[c], <<>>)
      BY <3>2, FeedsStart
    <3> QED  BY <1>2, <3>1, <3>2, <3>3, <3>4
  <2> QED  BY <2>1, <2>2, FedPrime
<1> QED  BY <1>4, <1>5, <1>6, <1>7 DEF Inv

\* So does an accept that fails, whose parser is kept under -1.
LEMMA AcceptClientFailsHolds == ASSUME Inv, AcceptClientFails PROVE Inv'
<1>1. /\ sock' = sock /\ backlog' = backlog /\ peer' = peer /\ rx' = rx
      /\ linked' = [linked EXCEPT ![BadFd] = Main] /\ writeq' = writeq /\ sent' = sent /\ heard' = heard
      /\ parsers' = [g \in DOMAIN parsers \cup {BadFd} |-> IF g = BadFd THEN NewParser ELSE parsers[g]]
  BY DEF AcceptClientFails, AcceptFailed, KeepParser, httpVars, netVars
<1>2. SocksHeld'
  BY <1>1 DEF Inv, SocksHeld
<1>3. LinksHeld'
  BY <1>1, Names DEF Inv, LinksHeld
<1>4. QueuesHeld'
  BY <1>1 DEF Inv, QueuesHeld
<1>5. FedHeld'
  <2>1. ASSUME NEW g \in Fds, sock[g] \in Clients PROVE Same(sock[g], g)
    <3>1. g \in DOMAIN parsers /\ g # BadFd
      BY <2>1, Names DEF Inv, LinksHeld
    <3> QED  BY <1>1, <3>1 DEF Same
  <2> QED  BY <1>1, <2>1, SameFed, FedPrime DEF Inv
<1> QED  BY <1>2, <1>3, <1>4, <1>5 DEF Inv

\* Closing the connection of one descriptor.
LEMMA CloseOne ==
    ASSUME Inv, NEW f \in Fds, sock[f] \in Conns, CloseAll({f}, rx, readq, writeq, interest)
    PROVE  /\ f # Main
           /\ sock' = [g \in Fds |-> IF g = f THEN None ELSE sock[g]]
           /\ backlog' = backlog
           /\ peer' = [c \in Conns |-> IF c = sock[f] THEN "gone" ELSE peer[c]]
           /\ rx' = [c \in Conns |-> IF c = sock[f] THEN <<>> ELSE rx[c]]
           /\ linked' = [g \in Fds \cup {BadFd} |-> IF g = f THEN None ELSE linked[g]]
           /\ writeq' = [g \in Fds |-> IF g = f THEN <<>> ELSE writeq[g]]
<1>1. f # Main /\ backlog[f] = {}
  BY Names DEF Inv, SocksHeld
<1> DEFINE lost == {c \in Conns : \E g \in {f} \cap Fds : c = sock[g] \/ c \in backlog[g]}
<1>2. lost = {sock[f]}
  BY <1>1
<1>3. \A c \in Conns : c \in lost <=> c = sock[f]
  BY <1>2
<1>4. /\ sock' = [g \in Fds |-> IF g \in {f} THEN None ELSE sock[g]]
      /\ backlog' = [g \in Fds |-> IF g \in {f} THEN {} ELSE backlog[g]]
      /\ peer' = [c \in Conns |-> IF c \in lost THEN "gone" ELSE peer[c]]
      /\ rx' = [c \in Conns |-> IF c \in lost THEN <<>> ELSE rx[c]]
      /\ linked' = [g \in Fds \cup {BadFd} |-> IF g \in {f} THEN None ELSE linked[g]]
      /\ writeq' = [g \in Fds |-> IF g \in {f} THEN <<>> ELSE writeq[g]]
  BY DEF CloseAll
<1> HIDE DEF lost
<1>5. backlog' = backlog
  <2>1. backlog = [g \in Fds |-> backlog[g]]
    BY DEF Inv, SocksHeld
  <2> QED  BY <1>1, <1>4, <2>1
<1>6. peer' = [c \in Conns |-> IF c = sock[f] THEN "gone" ELSE peer[c]]
  BY <1>3, <1>4
<1>7. rx' = [c \in Conns |-> IF c = sock[f] THEN <<>> ELSE rx[c]]
  BY <1>3, <1>4
<1> QED  BY <1>1, <1>4, <1>5, <1>6, <1>7

\* It leaves the others as they are.
LEMMA CloseOneHolds ==
    ASSUME Inv, NEW f \in Fds, sock[f] \in Conns, CloseAll({f}, rx, readq, writeq, interest),
           sent' = sent, heard' = heard,
           DOMAIN parsers' = DOMAIN parsers \ {f}, \A g \in DOMAIN parsers' : parsers'[g] = parsers[g]
    PROVE  Inv'
<1>1. /\ f # Main
      /\ sock' = [g \in Fds |-> IF g = f THEN None ELSE sock[g]]
      /\ backlog' = backlog
      /\ peer' = [c \in Conns |-> IF c = sock[f] THEN "gone" ELSE peer[c]]
      /\ rx' = [c \in Conns |-> IF c = sock[f] THEN <<>> ELSE rx[c]]
      /\ linked' = [g \in Fds \cup {BadFd} |-> IF g = f THEN None ELSE linked[g]]
      /\ writeq' = [g \in Fds |-> IF g = f THEN <<>> ELSE writeq[g]]
  BY CloseOne
<1>2. sock[f] \notin backlog[Main] /\ \A g \in Fds : g # f => sock[g] # sock[f]
  BY Names DEF Inv, SocksHeld
<1>3. SocksHeld'
  <2> USE DEF Inv, SocksHeld
  <2>1. sock' \in [Fds -> Conns \cup {Listener, None}] /\ sock'[Main] = Listener
    BY <1>1, Names
  <2>2. \A g, h \in Fds : sock'[g] \in Conns /\ sock'[g] = sock'[h] => g = h
    BY <1>1, Names
  <2>3. backlog' \in [Fds -> SUBSET Clients] /\ \A g \in Fds : g # Main => backlog'[g] = {}
    BY <1>1
  <2>4. peer' \in [Conns -> {"idle", "open", "fin", "rst", "gone"}]
    BY <1>1
  <2>5. \A c \in Conns : \A g \in Fds : peer'[c] = "idle" => sock'[g] # c /\ c \notin backlog'[g]
    BY <1>1, Names
  <2>6. \A g, h \in Fds : sock'[g] \notin backlog'[h]
    BY <1>1, Names
  <2> QED  BY <2>1, <2>2, <2>3, <2>4, <2>5, <2>6
<1>4. LinksHeld'
  BY <1>1, <1>2, Names DEF Inv, LinksHeld, SocksHeld
<1>5. QueuesHeld'
  <2>1. DOMAIN rx' = Conns /\ \A d \in Clients : rx'[d] \in Seq(STRING)
    <3>1. <<>> \in Seq(STRING)
      OBVIOUS
    <3> QED  BY <1>1, <3>1, Names DEF Inv, QueuesHeld
  <2>2. \A c \in Clients : c # sock[f] => rx'[c] = rx[c] /\ peer'[c] = peer[c]
    BY <1>1, Names
  <2>3. peer'[sock[f]] = "gone"
    BY <1>1
  <2>4. \A c \in Clients : /\ peer'[c] = "idle" => rx'[c] = <<>> /\ sent[c] = <<>> /\ heard[c] = <<>>
                           /\ c \in backlog[Main] => heard[c] = <<>> /\ rx'[c] = Text(sent[c])
    BY <1>2, <2>2, <2>3 DEF Inv, QueuesHeld
  <2> QED  BY <1>1, <2>1, <2>4, Names DEF Inv, QueuesHeld
<1>6. FedHeld'
  <2>1. ASSUME NEW g \in Fds, sock'[g] \in Clients
        PROVE  Feeds(parsers'[g], sent'[sock'[g]], rx'[sock'[g]], peer'[sock'[g]], heard'[sock'[g]] \o writeq'[g])
    <3>1. g # f /\ sock'[g] = sock[g] /\ g \in DOMAIN parsers /\ g \in DOMAIN parsers'
      BY <1>1, <2>1, Names DEF Inv, LinksHeld
    <3>2. sock[g] # sock[f] /\ sock[g] \in Conns
      BY <1>2, <2>1, <3>1, Names
    <3>3. Same(sock[g], g)
      BY <1>1, <3>1, <3>2 DEF Same
    <3> QED  BY <2>1, <3>1, <3>3, SameFed DEF Inv
  <2> QED  BY <2>1, FedPrime
<1> QED  BY <1>3, <1>4, <1>5, <1>6 DEF Inv

\* So does a hangup, which discards what is queued and what is left.
LEMMA HangUpHolds == ASSUME Inv, NEW f \in Fds, HangUp(f) PROVE Inv'
<1>1. sock[f] \in Conns
  BY Names DEF HangUp, Inv, LinksHeld
<1> QED  BY <1>1, CloseOneHolds DEF HangUp, ForgetParser, httpVars

\* So does the end of a connection of another listener.
LEMMA OtherClosedHolds == ASSUME Inv, NEW f \in Fds, OtherClosed(f) PROVE Inv'
<1>1. sock[f] \in Conns /\ f \notin DOMAIN parsers
  BY Names DEF OtherClosed, Inv, LinksHeld
<1> QED  BY <1>1, CloseOneHolds DEF OtherClosed, httpVars

\* A step that changes rx or writeq of one connection, or the state of one peer, and no socket.
LEMMA FedHolds ==
    ASSUME Inv, NEW f \in Fds, NEW n, Capture(f), n \in 0 .. Len(rx[sock[f]]), Feed(f, n),
           n = 0 => rx[sock[f]] = <<>>
    PROVE  Inv'
<1> DEFINE c == sock[f]
           r == rx[c]
           e == Execute(parsers[f], SubSeq(r, 1, n))
<1>1. c \in Clients /\ c \in Conns /\ f # Main /\ f \in DOMAIN parsers /\ f # BadFd
  BY Names DEF Capture
<1>2. /\ parsers' = [parsers EXCEPT ![f] = [e EXCEPT !.complete = 0]]
      /\ rx' = [rx EXCEPT ![c] = SubSeq(r, n + 1, Len(r))]
      /\ writeq' = [writeq EXCEPT ![f] = writeq[f] \o Answers(e)]
      /\ sock' = sock /\ backlog' = backlog /\ peer' = peer /\ linked' = linked /\ sent' = sent /\ heard' = heard
  <2>1. rx' = [rx EXCEPT ![c] = SubSeq(@, n + 1, Len(@))] /\ writeq' = [writeq EXCEPT ![f] = @ \o Answers(e)]
    BY DEF Feed, Fed
  <2>2. DOMAIN rx = Conns /\ DOMAIN writeq = Fds
    BY DEF Inv, QueuesHeld
  <2> QED  BY <1>1, <2>1, <2>2 DEF Feed, Fed, tableVars, httpVars
<1>3. /\ r \in Seq(STRING) /\ writeq[f] \in Replies /\ heard[c] \in Replies /\ sent[c] \in Seq(Messages)
      /\ DOMAIN writeq = Fds /\ DOMAIN rx = Conns
  BY <1>1, ConversationsAre DEF Inv, QueuesHeld
<1>4. Feeds(parsers[f], sent[c], r, peer[c], heard[c] \o writeq[f])
  BY <1>1 DEF Inv, FedHeld
<1> HIDE DEF e
<1>5. e.complete \in Nat /\ Answers(e) \in Replies /\ SubSeq(r, n + 1, Len(r)) \in Seq(STRING)
  <2>1. SubSeq(r, 1, n) \in Seq(STRING) /\ SubSeq(r, n + 1, Len(r)) \in Seq(STRING)
    BY <1>3, CutIs
  <2>2. Sound(parsers[f])
    BY <1>4 DEF Feeds, Has
  <2>3. e.complete \in Nat
    BY <2>1, <2>2, ExecuteIsSound DEF e
  <2> QED  BY <2>1, <2>3, AnswersAre
<1>6. SocksHeld'
  BY <1>2 DEF Inv, SocksHeld
<1>7. LinksHeld'
  <2>1. DOMAIN parsers' = DOMAIN parsers /\ (BadFd \in DOMAIN parsers => parsers'[BadFd] = parsers[BadFd])
    BY <1>1, <1>2
  <2> QED  BY <1>2, <2>1 DEF Inv, LinksHeld
<1>8. QueuesHeld'
  <2>1. DOMAIN rx' = Conns /\ \A d \in Clients : rx'[d] \in Seq(STRING)
    <3>1. DOMAIN rx' = Conns /\ \A d \in Clients : d # c => rx'[d] = rx[d]
      BY <1>2 DEF Inv, QueuesHeld
    <3>2. \A d \in Clients : rx'[d] \in Seq(STRING)
      BY <1>1, <1>2, <1>5, <3>1 DEF Inv, QueuesHeld
    <3> QED  BY <3>1, <3>2
  <2>2. writeq[f] \o Answers(e) \in Replies
    BY <1>3, <1>5, RepliesJoin
  <2>3. sock[f] # None /\ peer[c] # "idle" /\ c \notin backlog[Main]
    BY <1>1, Names DEF Inv, SocksHeld
  <2>4. \A d \in Clients : d # c => rx'[d] = rx[d]
    BY <1>2
  <2>5. \A d \in Clients : /\ peer[d] = "idle" => rx'[d] = <<>> /\ sent[d] = <<>> /\ heard[d] = <<>>
                           /\ d \in backlog[Main] => heard[d] = <<>> /\ rx'[d] = Text(sent[d])
    BY <2>3, <2>4 DEF Inv, QueuesHeld
  <2>6. /\ DOMAIN writeq' = Fds
        /\ \A g \in Fds : /\ sock[g] = None => writeq'[g] = <<>>
                          /\ sock[g] \in Clients => writeq'[g] \in Replies
    BY <1>2, <1>3, <2>2, <2>3 DEF Inv, QueuesHeld
  <2> QED  BY <1>2, <2>1, <2>5, <2>6 DEF Inv, QueuesHeld
<1>9. FedHeld'
  <2>1. ASSUME NEW g \in Fds, sock'[g] \in Clients, g # f
        PROVE  Feeds(parsers'[g], sent'[sock'[g]], rx'[sock'[g]], peer'[sock'[g]], heard'[sock'[g]] \o writeq'[g])
    <3>1. sock[g] # c /\ g \in DOMAIN parsers /\ sock[g] \in Conns
      BY <1>1, <1>2, <2>1, Names DEF Inv, SocksHeld, LinksHeld
    <3>2. Same(sock[g], g)
      BY <1>2, <1>3, <2>1, <3>1 DEF Same
    <3> QED  BY <1>2, <2>1, <3>2, SameFed DEF Inv
  <2>2. Feeds(parsers'[f], sent'[sock'[f]], rx'[sock'[f]], peer'[sock'[f]], heard'[sock'[f]] \o writeq'[f])
    <3>1. /\ parsers'[f] = [e EXCEPT !.complete = 0] /\ rx'[c] = SubSeq(r, n + 1, Len(r))
          /\ writeq'[f] = writeq[f] \o Answers(e)
      BY <1>1, <1>2, <1>3
    <3>2. heard[c] \o writeq[f] \in Replies /\ heard[c] \o (writeq[f] \o Answers(e)) = (heard[c] \o writeq[f]) \o Answers(e)
      BY <1>3, <1>5, RepliesJoin
    <3>3. Feeds([e EXCEPT !.complete = 0], sent[c], SubSeq(r, n + 1, Len(r)), peer[c], (heard[c] \o writeq[f]) \o Answers(e))
      BY <1>3, <1>4, <3>2, FeedsOn DEF e
    <3> QED  BY <1>2, <3>1, <3>2, <3>3
  <2> QED  BY <2>1, <2>2, FedPrime
<1> QED  BY <1>6, <1>7, <1>8, <1>9 DEF Inv

\* So does receiving a part of the data, or finding their end.
LEMMA ReceiveHolds ==
    ASSUME Inv, NEW f \in Fds, NEW n, Receive(f, n) \/ ReceiveEnd(f)
    PROVE  Inv'
<1>1. CASE Receive(f, n)
  <2>1. Capture(f) /\ Feed(f, n) /\ n \in 1 .. Len(rx[sock[f]])
    BY <1>1 DEF Receive
  <2>2. sock[f] \in Clients
    BY <2>1, Names DEF Capture
  <2>3. rx[sock[f]] \in Seq(STRING)
    BY <2>2 DEF Inv, QueuesHeld
  <2>4. n \in 0 .. Len(rx[sock[f]]) /\ n # 0
    BY <2>1, <2>3
  <2> QED  BY <2>1, <2>4, FedHolds
<1>2. CASE ReceiveEnd(f)
  <2>1. Capture(f) /\ Feed(f, 0) /\ rx[sock[f]] = <<>>
    BY <1>2 DEF ReceiveEnd
  <2>2. 0 \in 0 .. Len(rx[sock[f]])
    BY <2>1
  <2> QED  BY <2>1, <2>2, FedHolds
<1> QED  BY <1>1, <1>2

\* So does writing a part of what is queued.
LEMMA DeliverHolds ==
    ASSUME Inv, NEW f \in Fds, NEW n \in 0 .. Len(writeq[f]), Deliver(f, n)
    PROVE  Inv'
<1> DEFINE c == sock[f]
           w == writeq[f]
<1>1. /\ c \in Conns /\ DOMAIN writeq = Fds
      /\ sock' = sock /\ backlog' = backlog /\ peer' = peer /\ rx' = rx /\ linked' = linked
      /\ parsers' = parsers /\ sent' = sent
      /\ writeq' = [writeq EXCEPT ![f] = SubSeq(w, n + 1, Len(w))]
      /\ heard' = IF c \in Clients THEN [heard EXCEPT ![c] = @ \o SubSeq(w, 1, n)] ELSE heard
  <2>1. DOMAIN writeq = Fds
    BY DEF Inv, QueuesHeld
  <2>2. writeq' = [writeq EXCEPT ![f] = SubSeq(@, n + 1, Len(@))]
    BY DEF Deliver, Write
  <2> QED  BY <2>1, <2>2 DEF Deliver, Write, netVars, tableVars
<1>2. sock[f] # None /\ peer[c] # "idle" /\ \A g \in Fds : c \notin backlog[g]
  BY <1>1, Names DEF Inv, SocksHeld
<1>3. c \in Clients => w \in Replies /\ heard[c] \in Replies
  BY DEF Inv, QueuesHeld
<1>4. w \in Replies => /\ SubSeq(w, 1, n) \in Replies /\ SubSeq(w, n + 1, Len(w)) \in Replies
                       /\ SubSeq(w, 1, n) \o SubSeq(w, n + 1, Len(w)) = w
  BY RepliesCut
<1> HIDE DEF w
<1>5. SocksHeld'
  BY <1>1 DEF Inv, SocksHeld
<1>6. LinksHeld'
  BY <1>1 DEF Inv, LinksHeld
<1>7. heard' \in [Clients -> Replies] /\ \A d \in Clients : d # c => heard'[d] = heard[d]
  <2>1. c \in Clients => heard[c] \o SubSeq(w, 1, n) \in Replies
    BY <1>3, <1>4, RepliesJoin
  <2>2. heard \in [Clients -> Replies]
    BY DEF Inv, QueuesHeld
  <2> QED  BY <1>1, <2>1, <2>2
<1>8. QueuesHeld'
  <2>1. \A g \in Fds : /\ sock[g] = None => writeq'[g] = <<>>
                       /\ sock[g] \in Clients => writeq'[g] \in Replies
    BY <1>1, <1>2, <1>3, <1>4 DEF Inv, QueuesHeld
  <2>2. \A d \in Clients : /\ peer[d] = "idle" => heard'[d] = <<>>
                           /\ d \in backlog[Main] => heard'[d] = <<>>
    BY <1>2, <1>7, Names DEF Inv, QueuesHeld
  <2> QED  BY <1>1, <1>7, <2>1, <2>2 DEF Inv, QueuesHeld
<1>9. FedHeld'
  <2>1. ASSUME NEW g \in Fds, sock[g] \in Clients
        PROVE  heard'[sock[g]] \o writeq'[g] = heard[sock[g]] \o writeq[g]
    <3>1. CASE g = f
      <4>1. heard'[c] = heard[c] \o SubSeq(w, 1, n) /\ writeq'[f] = SubSeq(w, n + 1, Len(w)) /\ w = writeq[f]
        <5>1. DOMAIN heard = Clients
          BY DEF Inv, QueuesHeld
        <5> QED  BY <1>1, <2>1, <3>1, <5>1 DEF w
      <4> DEFINE x == SubSeq(w, 1, n)
                 y == SubSeq(w, n + 1, Len(w))
      <4>2. x \in Replies /\ y \in Replies /\ x \o y = w /\ heard[c] \in Replies
        BY <1>3, <1>4, <2>1, <3>1
      <4> HIDE DEF x, y
      <4>3. (heard[c] \o x) \o y = heard[c] \o w
        BY <4>2, RepliesJoin
      <4> QED  BY <3>1, <4>1, <4>3 DEF x, y
    <3>2. CASE g # f
      <4>1. sock[g] # c
        BY <1>1, <3>2, Names DEF Inv, SocksHeld
      <4> QED  BY <1>1, <1>7, <2>1, <3>2, <4>1
    <3> QED  BY <3>1, <3>2
  <2> QED  BY <1>1, <2>1, FedPrime DEF Inv, FedHeld
<1> QED  BY <1>5, <1>6, <1>8, <1>9 DEF Inv

\* So does a write that fails.
LEMMA WriteFailsHolds ==
    ASSUME Inv, NEW f \in Fds, WriteFails(f), UNCHANGED <<parsers, httpVars>>
    PROVE  Inv'
<1> DEFINE c == sock[f]
<1>1. /\ c \in Conns /\ peer[c] = "rst" /\ DOMAIN writeq = Fds
      /\ sock' = sock /\ backlog' = backlog /\ peer' = peer /\ rx' = rx /\ linked' = linked
      /\ parsers' = parsers /\ sent' = sent /\ heard' = heard /\ writeq' = [writeq EXCEPT ![f] = <<>>]
  BY DEF WriteFails, netVars, tableVars, httpVars, Inv, QueuesHeld
<1>2. SocksHeld'
  BY <1>1 DEF Inv, SocksHeld
<1>3. LinksHeld'
  BY <1>1 DEF Inv, LinksHeld
<1>4. QueuesHeld'
  <2>1. <<>> \in Replies
    BY DEF Replies
  <2> QED  BY <1>1, <2>1 DEF Inv, QueuesHeld
<1>5. FedHeld'
  <2>1. ASSUME NEW g \in Fds, sock'[g] \in Clients
        PROVE  Feeds(parsers'[g], sent'[sock'[g]], rx'[sock'[g]], peer'[sock'[g]], heard'[sock'[g]] \o writeq'[g])
    <3>1. CASE g = f
      <4>1. Feeds(parsers[f], sent[c], rx[c], peer[c], heard[c] \o writeq[f]) /\ peer[c] # "open"
        BY <1>1, <2>1, <3>1 DEF Inv, FedHeld
      <4>2. Feeds(parsers[f], sent[c], rx[c], peer[c], heard[c] \o writeq'[f])
        BY <4>1, FeedsClosed
      <4> QED  BY <1>1, <3>1, <4>2
    <3>2. CASE g # f
      <4>1. Same(sock[g], g)
        BY <1>1, <2>1, <3>2 DEF Same
      <4> QED  BY <1>1, <2>1, <4>1, SameFed DEF Inv
    <3> QED  BY <3>1, <3>2
  <2> QED  BY <2>1, FedPrime
<1> QED  BY <1>2, <1>3, <1>4, <1>5 DEF Inv

\* So does a step of the event loop that is none of these.
LEMMA LoopStepHolds == ASSUME Inv, NEW f \in Fds, LoopStep(f) PROVE Inv'
<1>1. CASE StaleHangup(f) \/ ThrowOnEvent(f)
  <2>1. UNCHANGED heldVars
    BY <1>1 DEF LoopStep, StaleHangup, ThrowOnEvent, Throw, heldVars, tableVars, queueVars
  <2> QED  BY <2>1, UnchangedHolds
<1>2. CASE WriteFails(f)
  BY <1>2, WriteFailsHolds DEF LoopStep
<1> QED  BY <1>1, <1>2 DEF LoopStep

\* So does a client that connects,
LEMMA ClientConnectsHolds == ASSUME Inv, NEW c \in Clients, ClientConnects(c) PROVE Inv'
<1>1. /\ peer[c] = "idle" /\ peer' = [peer EXCEPT ![c] = "open"] /\ backlog' = [backlog EXCEPT ![Main] = @ \cup {c}]
      /\ sock' = sock /\ rx' = rx /\ linked' = linked /\ writeq' = writeq
      /\ parsers' = parsers /\ sent' = sent /\ heard' = heard
  BY DEF ClientConnects, PeerConnects, tableVars, queueVars, httpVars
<1>2. c \in Conns /\ \A f \in Fds : sock[f] # c
  BY <1>1, Names DEF Inv, SocksHeld
<1>3. SocksHeld'
  BY <1>1, <1>2, Names DEF Inv, SocksHeld
<1>4. LinksHeld'
  BY <1>1 DEF Inv, LinksHeld
<1>5. QueuesHeld'
  <2>1. \A d \in Clients : /\ peer'[d] = "idle" => rx[d] = <<>> /\ sent[d] = <<>> /\ heard[d] = <<>>
                           /\ d \in backlog'[Main] => heard[d] = <<>> /\ rx[d] = Text(sent[d])
    <3> SUFFICES ASSUME NEW d \in Clients
                 PROVE  /\ peer'[d] = "idle" => rx[d] = <<>> /\ sent[d] = <<>> /\ heard[d] = <<>>
                        /\ d \in backlog'[Main] => heard[d] = <<>> /\ rx[d] = Text(sent[d])
      OBVIOUS
    <3>1. CASE d = c
      BY <1>1, <1>2, <3>1, TextNothing DEF Inv, QueuesHeld, SocksHeld
    <3>2. CASE d # c
      BY <1>1, <1>2, <3>2, Names DEF Inv, QueuesHeld, SocksHeld
    <3> QED  BY <3>1, <3>2
  <2> QED  BY <1>1, <2>1 DEF Inv, QueuesHeld
<1>6. FedHeld'
  <2>1. ASSUME NEW g \in Fds, sock[g] \in Clients PROVE Same(sock[g], g)
    BY <1>1, <1>2, <2>1 DEF Same
  <2> QED  BY <1>1, <2>1, SameFed, FedPrime DEF Inv
<1> QED  BY <1>3, <1>4, <1>5, <1>6 DEF Inv

\* a peer that closes or resets its connection,
LEMMA PeerLeavesHolds ==
    ASSUME Inv, NEW c \in Conns, PeerCloses(c) \/ PeerResets(c), UNCHANGED <<parsers, httpVars>>
    PROVE  Inv'
<1>1. PICK w \in {"fin", "rst"} : peer' = [peer EXCEPT ![c] = w]
  BY DEF PeerCloses, PeerResets
<1>2. /\ peer[c] # "idle" /\ sock' = sock /\ backlog' = backlog /\ rx' = rx /\ linked' = linked /\ writeq' = writeq
      /\ parsers' = parsers /\ sent' = sent /\ heard' = heard
  BY DEF PeerCloses, PeerResets, tableVars, queueVars, httpVars
<1>3. SocksHeld'
  BY <1>1, <1>2 DEF Inv, SocksHeld
<1>4. LinksHeld'
  BY <1>2 DEF Inv, LinksHeld
<1>5. QueuesHeld'
  <2>1. \A d \in Clients : peer'[d] = "idle" => peer[d] = "idle"
    BY <1>1, Names DEF Inv, SocksHeld
  <2> QED  BY <1>2, <2>1 DEF Inv, QueuesHeld
<1>6. FedHeld'
  <2>1. ASSUME NEW g \in Fds, sock'[g] \in Clients
        PROVE  Feeds(parsers'[g], sent'[sock'[g]], rx'[sock'[g]], peer'[sock'[g]], heard'[sock'[g]] \o writeq'[g])
    <3>1. Feeds(parsers[g], sent[sock[g]], rx[sock[g]], peer[sock[g]], heard[sock[g]] \o writeq[g])
      BY <1>2, <2>1 DEF Inv, FedHeld
    <3>2. CASE sock[g] = c
      <4>1. peer'[c] # "open"
        BY <1>1 DEF Inv, SocksHeld
      <4> QED  BY <1>2, <3>1, <3>2, <4>1, FeedsClosed
    <3>3. CASE sock[g] # c
      <4>1. peer'[sock[g]] = peer[sock[g]]
        BY <1>1, <3>3
      <4> QED  BY <1>2, <3>1, <4>1
    <3> QED  BY <3>2, <3>3
  <2> QED  BY <2>1, FedPrime
<1> QED  BY <1>3, <1>4, <1>5, <1>6 DEF Inv

\* and a client that sends a message.
LEMMA ClientSendsHolds == ASSUME Inv, NEW c \in Clients, NEW m \in DOMAIN Outcome, ClientSends(c, m) PROVE Inv'
<1>1. /\ peer[c] = "open" /\ Len(sent[c]) < MaxSent /\ (sent[c] # <<>> => m \in Followers[Last(sent[c])])
      /\ sent' = [sent EXCEPT ![c] = Append(sent[c], m)] /\ rx' = [rx EXCEPT ![c] = rx[c] \o Wire[m]]
      /\ sock' = sock /\ backlog' = backlog /\ peer' = peer /\ linked' = linked /\ writeq' = writeq
      /\ parsers' = parsers /\ heard' = heard
  <2>1. sent' = [sent EXCEPT ![c] = Append(@, m)] /\ rx' = [rx EXCEPT ![c] = @ \o Wire[m]]
    BY DEF ClientSends
  <2> QED  BY <2>1, Names DEF ClientSends, tableVars, queueVars, Inv, QueuesHeld
<1>2. /\ c \in Conns /\ m \in Messages /\ Wire[m] \in Seq(STRING) /\ sent[c] \in Conversations /\ rx[c] \in Seq(STRING)
      /\ sent[c] \in Seq(Messages) /\ DOMAIN rx = Conns /\ DOMAIN sent = Clients
  BY Names, WireIs, ConversationsAre DEF Messages, Inv, QueuesHeld
<1>3. Append(sent[c], m) \in Conversations /\ rx[c] \o Wire[m] \in Seq(STRING)
  <2>1. Append(sent[c], m) \in Conversations
    BY <1>1, <1>2, ConversationsGrow
  <2>2. \A a, b \in Seq(STRING) : a \o b \in Seq(STRING)
    OBVIOUS
  <2> QED  BY <1>2, <2>1, <2>2
<1>4. SocksHeld'
  BY <1>1 DEF Inv, SocksHeld
<1>5. LinksHeld'
  BY <1>1 DEF Inv, LinksHeld
<1>6. QueuesHeld'
  <2>1. DOMAIN rx' = Conns /\ \A d \in Clients : rx'[d] \in Seq(STRING) /\ sent' \in [Clients -> Conversations]
    <3>1. DOMAIN rx' = Conns /\ \A d \in Clients : d # c => rx'[d] = rx[d]
      BY <1>1 DEF Inv, QueuesHeld
    <3>2. \A d \in Clients : rx'[d] \in Seq(STRING)
      BY <1>1, <1>2, <1>3, <3>1 DEF Inv, QueuesHeld
    <3>3. sent' \in [Clients -> Conversations]
      BY <1>1, <1>3 DEF Inv, QueuesHeld
    <3> QED  BY <3>1, <3>2, <3>3
  <2>2. c \in backlog[Main] => rx'[c] = Text(sent'[c])
    <3>1. c \in backlog[Main] => rx[c] = Text(sent[c])
      BY DEF Inv, QueuesHeld
    <3>2. Text(Append(sent[c], m)) = Text(sent[c]) \o Wire[m]
      BY <1>2, TextAppend
    <3> QED  BY <1>1, <1>2, <3>1, <3>2
  <2>3. \A d \in Clients : d # c => rx'[d] = rx[d] /\ sent'[d] = sent[d]
    BY <1>1
  <2>4. \A d \in Clients : /\ peer[d] = "idle" => rx'[d] = <<>> /\ sent'[d] = <<>> /\ heard[d] = <<>>
                           /\ d \in backlog[Main] => heard[d] = <<>> /\ rx'[d] = Text(sent'[d])
    BY <1>1, <2>2, <2>3 DEF Inv, QueuesHeld
  <2> QED  BY <1>1, <2>1, <2>4 DEF Inv, QueuesHeld
<1>7. FedHeld'
  <2>1. ASSUME NEW g \in Fds, sock'[g] \in Clients
        PROVE  Feeds(parsers'[g], sent'[sock'[g]], rx'[sock'[g]], peer'[sock'[g]], heard'[sock'[g]] \o writeq'[g])
    <3>1. Feeds(parsers[g], sent[sock[g]], rx[sock[g]], peer[sock[g]], heard[sock[g]] \o writeq[g])
      BY <1>1, <2>1 DEF Inv, FedHeld
    <3>2. CASE sock[g] = c
      <4>1. Feeds(parsers[g], Append(sent[c], m), rx[c] \o Wire[m], peer[c], heard[c] \o writeq[g])
        BY <1>2, <3>1, <3>2, FeedsMore
      <4>2. sent'[c] = Append(sent[c], m) /\ rx'[c] = rx[c] \o Wire[m]
        BY <1>1, <1>2
      <4> QED  BY <1>1, <3>2, <4>1, <4>2
    <3>3. CASE sock[g] # c
      <4>1. sent'[sock[g]] = sent[sock[g]] /\ rx'[sock[g]] = rx[sock[g]]
        BY <1>1, <3>3
      <4> QED  BY <1>1, <3>1, <4>1
    <3> QED  BY <3>2, <3>3
  <2> QED  BY <2>1, FedPrime
<1> QED  BY <1>4, <1>5, <1>6, <1>7 DEF Inv

\* So does an accept by another listener,
LEMMA OtherAcceptedHolds ==
    ASSUME Inv, NEW c \in Others, NEW f \in Fds, NEW frames, OtherAccepted(c, f, frames)
    PROVE  Inv'
<1>1. /\ peer[c] = "idle" /\ sock[f] = None
      /\ sock' = [sock EXCEPT ![f] = c] /\ peer' = [peer EXCEPT ![c] = "open"] /\ rx' = [rx EXCEPT ![c] = <<"x">>]
      /\ linked' = [linked EXCEPT ![f] = Elsewhere] /\ writeq' = [writeq EXCEPT ![f] = frames]
      /\ backlog' = backlog /\ parsers' = parsers /\ sent' = sent /\ heard' = heard
  BY DEF OtherAccepted, NewFd, FreeFds, httpVars
<1>2. c \in Conns /\ c \notin Clients /\ f # Main /\ f # BadFd /\ \A g \in Fds : sock[g] # c /\ c \notin backlog[g]
  BY <1>1, Names DEF Inv, SocksHeld
<1>3. SocksHeld'
  <2> USE DEF Inv, SocksHeld
  <2>1. sock' \in [Fds -> Conns \cup {Listener, None}] /\ sock'[Main] = Listener
    BY <1>1, <1>2, Names
  <2>2. \A g, h \in Fds : sock'[g] \in Conns /\ sock'[g] = sock'[h] => g = h
    BY <1>1, <1>2
  <2>3. peer' \in [Conns -> {"idle", "open", "fin", "rst", "gone"}]
    BY <1>1
  <2>4. \A d \in Conns : \A g \in Fds : peer'[d] = "idle" => sock'[g] # d /\ d \notin backlog[g]
    BY <1>1, <1>2
  <2>5. \A g, h \in Fds : sock'[g] \notin backlog[h]
    BY <1>1, <1>2
  <2> QED  BY <1>1, <2>1, <2>2, <2>3, <2>4, <2>5
<1>4. LinksHeld'
  BY <1>1, <1>2, Names DEF Inv, LinksHeld, SocksHeld
<1>5. QueuesHeld'
  <2>1. DOMAIN rx' = Conns
    BY <1>1 DEF Inv, QueuesHeld
  <2>2. \A d \in Clients : rx'[d] = rx[d] /\ peer'[d] = peer[d]
    BY <1>1, <1>2
  <2>3. \A g \in Fds : /\ sock'[g] = None => writeq'[g] = <<>>
                       /\ sock'[g] \in Clients => writeq'[g] \in Replies
    BY <1>1, <1>2, Names DEF Inv, QueuesHeld, SocksHeld
  <2> QED  BY <1>1, <2>1, <2>2, <2>3 DEF Inv, QueuesHeld
<1>6. FedHeld'
  <2>1. ASSUME NEW g \in Fds, sock'[g] \in Clients
        PROVE  Feeds(parsers'[g], sent'[sock'[g]], rx'[sock'[g]], peer'[sock'[g]], heard'[sock'[g]] \o writeq'[g])
    <3>1. g # f /\ sock'[g] = sock[g]
      BY <1>1, <1>2, <2>1 DEF Inv, SocksHeld
    <3>2. Same(sock[g], g)
      BY <1>1, <1>2, <2>1, <3>1 DEF Same
    <3> QED  BY <2>1, <3>1, <3>2, SameFed DEF Inv
  <2> QED  BY <2>1, FedPrime
<1> QED  BY <1>3, <1>4, <1>5, <1>6 DEF Inv

\* and what is done for its connections.
LEMMA OtherServedHolds == ASSUME Inv, NEW f \in Fds, OtherServed(f) PROVE Inv'
<1> DEFINE c == sock[f]
<1>1. /\ linked[f] = Elsewhere /\ rx' = [rx EXCEPT ![c] = <<>>]
      /\ sock' = sock /\ backlog' = backlog /\ peer' = peer /\ linked' = linked /\ writeq' = writeq
      /\ parsers' = parsers /\ sent' = sent /\ heard' = heard
  BY DEF OtherServed, tableVars, queueVars, httpVars
<1>2. c \notin Clients
  BY <1>1, Names DEF Inv, LinksHeld
<1>3. SocksHeld' /\ LinksHeld'
  BY <1>1 DEF Inv, SocksHeld, LinksHeld
<1>4. QueuesHeld'
  <2>1. DOMAIN rx' = Conns
    BY <1>1 DEF Inv, QueuesHeld
  <2>2. \A d \in Clients : rx'[d] = rx[d]
    BY <1>1, <1>2
  <2> QED  BY <1>1, <2>1, <2>2 DEF Inv, QueuesHeld
<1>5. FedHeld'
  <2>1. ASSUME NEW g \in Fds, sock[g] \in Clients PROVE Same(sock[g], g)
    BY <1>1, <1>2, <2>1 DEF Same
  <2> QED  BY <1>1, <2>1, SameFed, FedPrime DEF Inv
<1> QED  BY <1>3, <1>4, <1>5 DEF Inv

\* Every step of a peer keeps the invariant.
LEMMA PeersHold == ASSUME Inv, Peers PROVE Inv'
<1>1. ASSUME NEW c \in Clients, ClientConnects(c) PROVE Inv'
  BY <1>1, ClientConnectsHolds
<1>2. ASSUME NEW c \in Conns, PeerCloses(c) /\ UNCHANGED <<parsers, httpVars>> PROVE Inv'
  BY <1>2, PeerLeavesHolds
<1>3. ASSUME NEW c \in Clients, PeerResets(c) /\ UNCHANGED <<parsers, httpVars>> PROVE Inv'
  BY <1>3, PeerLeavesHolds, Names
<1>4. ASSUME NEW c \in Clients, NEW m \in DOMAIN Outcome, ClientSends(c, m) PROVE Inv'
  BY <1>4, ClientSendsHolds
<1>5. ASSUME NEW c \in Others, NEW f \in Fds, NEW frames, OtherAccepted(c, f, frames) PROVE Inv'
  BY <1>5, OtherAcceptedHolds
<1> QED  BY <1>1, <1>2, <1>3, <1>4, <1>5 DEF Peers

\* Every step of the server does.
LEMMA ServerHolds == ASSUME Inv, Server PROVE Inv'
<1>1. ASSUME EpollWait /\ UNCHANGED <<parsers, httpVars>> PROVE Inv'
  BY <1>1, UnchangedHolds DEF EpollWait, heldVars, tableVars, queueVars
<1>2. ASSUME NEW f \in Fds, ReceiveFails(f) PROVE Inv'
  BY <1>2, UnchangedHolds DEF ReceiveFails, Throw, heldVars, tableVars, queueVars
<1> QED  BY <1>1, <1>2, AcceptClientHolds, AcceptClientFailsHolds, HangUpHolds, ReceiveHolds, DeliverHolds, LoopStepHolds,
            OtherServedHolds, OtherClosedHolds DEF Server

\* Every step does.
LEMMA NextHolds == Inv /\ [Next]_vars => Inv'
<1> SUFFICES ASSUME Inv, [Next]_vars PROVE Inv'
  OBVIOUS
<1>1. CASE UNCHANGED vars
  BY <1>1, UnchangedHolds DEF vars, loopVars, heldVars, tableVars, queueVars
<1> QED  BY <1>1, PeersHold, ServerHolds DEF Next

\* The invariant always holds.
LEMMA Held == Spec => []Inv
<1> QED  BY InitHolds, NextHolds, PTL DEF Spec

------------------------------------------------------------------------------
\* What the invariant gives.

\* The parser of a connection, and what it has read.
LEMMA ParserOf ==
    ASSUME Inv, NEW f \in Fds, sock[f] \in Clients
    PROVE  LET c == sock[f]
               x == Text(sent[c])
               t == Before(x, rx[c])
           IN /\ c \in Conns /\ sent[c] \in Conversations /\ x \in Seq(STRING) /\ rx[c] \in Seq(STRING)
              /\ Len(rx[c]) <= Len(x) /\ x = t \o rx[c] /\ t \in Seq(STRING) /\ Len(t) = Len(x) - Len(rx[c])
              /\ Read(c) = Len(t) /\ t = SubSeq(x, 1, Len(t))
              /\ Has(parsers[f], t)
<1> DEFINE c == sock[f]
           x == Text(sent[c])
           t == Before(x, rx[c])
<1>1. c \in Clients /\ c \in Conns /\ sent[c] \in Conversations /\ rx[c] \in Seq(STRING)
  BY Names DEF Inv, QueuesHeld
<1>2. x \in Seq(STRING)
  BY <1>1, ConversationsAre, TextType
<1>3. Len(rx[c]) <= Len(x) /\ x = t \o rx[c] /\ Has(parsers[f], t)
  BY <1>1 DEF Inv, FedHeld, Feeds
<1>4. Len(x) \in Nat /\ Len(rx[c]) \in Nat
  BY <1>1, <1>2
<1> HIDE DEF x, c
<1>5. PICK n \in Nat : n = Len(x) - Len(rx[c]) /\ n \in 0 .. Len(x)
  <2> PICK i \in Nat : i = Len(x)
    BY <1>4
  <2> PICK j \in Nat : j = Len(rx[c])
    BY <1>4
  <2>1. j <= i
    BY <1>3
  <2>2. i - j \in Nat /\ i - j \in 0 .. i
    BY <2>1
  <2> QED  BY <2>2
<1>6. t = SubSeq(x, 1, n)
  BY <1>5 DEF Before
<1>7. t \in Seq(STRING) /\ Len(t) = n
  <2>1. \A z \in Seq(STRING) : \A k \in 0 .. Len(z) : SubSeq(z, 1, k) \in Seq(STRING) /\ Len(SubSeq(z, 1, k)) = k
    OBVIOUS
  <2> QED  BY <1>2, <1>5, <1>6, <2>1
<1>8. Read(c) = n
  BY <1>5 DEF Read, x
<1> HIDE DEF t
<1> QED  BY <1>1, <1>2, <1>3, <1>4, <1>5, <1>6, <1>7, <1>8 DEF x, c, t

\* What TypeOK says of a parser.
Typed(p) ==
    /\ p.content_length \in 0 .. MaxLength
    /\ p.status \in StoredCodes /\ p.method \in 0 .. 45
    /\ p.error = "OK" => p.status \in StatusCodes
    /\ p.complete = 0

\* A sound parser is typed.
LEMMA SoundIsTyped ==
    ASSUME NEW p, Sound(p), p.complete = 0
    PROVE  Typed(p)
BY DEF Sound, Ranged, Placed, Typed

\* The types follow from the invariant.
LEMMA InvTypes == Inv => TypeOK
<1> SUFFICES ASSUME Inv PROVE TypeOK
  OBVIOUS
<1>1. ASSUME NEW f \in DOMAIN parsers PROVE Typed(parsers[f])
  <2>1. Sound(parsers[f]) /\ parsers[f].complete = 0
    <3>1. CASE f = BadFd
      BY <1>1, <3>1, NewIsSound DEF Inv, LinksHeld
    <3>2. CASE f # BadFd
      <4>1. f \in Fds /\ sock[f] \in Clients
        BY <1>1, <3>2 DEF Inv, LinksHeld
      <4> QED  BY <4>1, ParserOf DEF Has
    <3> QED  BY <3>1, <3>2
  <2> QED  BY <2>1, SoundIsTyped
<1>2. ASSUME NEW f \in Fds, linked[f] = Main PROVE ToSet(writeq[f]) \subseteq {"OK", "BAD"}
  <2>1. writeq[f] \in Replies
    BY <1>2 DEF Inv, LinksHeld, QueuesHeld
  <2> QED  BY <2>1 DEF Replies, ToSet
<1>3. heard \in [Clients -> Seq({"OK", "BAD"})]
  BY DEF Inv, QueuesHeld, Replies
<1>4. sent \in [Clients -> Seq(DOMAIN Outcome)]
  BY ConversationsAre DEF Inv, QueuesHeld, Messages
<1> QED  BY <1>1, <1>2, <1>3, <1>4 DEF TypeOK, Typed

\* For every number of descriptors and clients: the length, status and method of a parser stay
\* in range whatever it is given (the length within 64 bits; the status within three digits
\* while the parser goes on, and four after the digit that is refused), no completed message is left
\* without its answer between two calls of on_data, and only answers are queued for, and heard
\* by, a client.
THEOREM TypeCorrect == Spec => []TypeOK
BY Held, InvTypes, PTL

\* So does that a parser is known.
LEMMA InvKnown == Inv => ParserKnown
BY DEF Inv, LinksHeld, ParserKnown

\* A parser is kept for exactly the descriptors linked to the HTTP interface: on_data and
\* on_disconnect, which look up http_parsers by descriptor, always find the parser made by
\* on_connect, and no parser outlives its connection.
THEOREM KnownCorrect == Spec => []ParserKnown
BY Held, InvKnown, PTL

\* So does that it is fresh, when no trailer has a length.
LEMMA InvFresh == Inv /\ PlainTrailers => ParserFresh
<1> SUFFICES ASSUME Inv, PlainTrailers, NEW f \in Fds, sock[f] \in Clients
             PROVE  LET p == parsers[f] IN
                    /\ Read(sock[f]) = 0 => p = NewParser
                    /\ p.st = "start" /\ p.error = "OK" =>
                          /\ p.flags = {} /\ p.content_length = 0 /\ ~p.upgrade
                          /\ DOMAIN p.headers = {} /\ p.span = "none" /\ p.cur_name = <<>>
  BY DEF ParserFresh
<1> DEFINE p == parsers[f]
           s == sent[sock[f]]
           x == Text(s)
           t == Before(x, rx[sock[f]])
           q == Scan(NewParser, t)
<1>1. /\ s \in Conversations /\ x \in Seq(STRING) /\ t \in Seq(STRING) /\ Len(t) <= Len(x) /\ t = SubSeq(x, 1, Len(t))
      /\ Read(sock[f]) = Len(t) /\ Has(p, t)
  <2>1. /\ s \in Conversations /\ x \in Seq(STRING) /\ t \in Seq(STRING) /\ Len(t) = Len(x) - Len(rx[sock[f]])
        /\ rx[sock[f]] \in Seq(STRING) /\ t = SubSeq(x, 1, Len(t)) /\ Read(sock[f]) = Len(t) /\ Has(p, t)
    BY ParserOf
  <2>2. Len(rx[sock[f]]) \in Nat /\ Len(x) \in Nat
    BY <2>1
  <2> HIDE DEF x, t, p, s
  <2> QED  BY <2>1, <2>2
<1> HIDE DEF x, t, p, s
<1>2. Sound(p) /\ Alike(p, q, q.complete) /\ (t = <<>> => p = NewParser)
  BY <1>1 DEF Has
<1>3. Read(sock[f]) = 0 => p = NewParser
  BY <1>1, <1>2
<1>4. Measured(q)
  <2>1. \A n \in 0 .. Len(x) : TrailsNoLength(Scan(NewParser, SubSeq(x, 1, n)))
    BY <1>1 DEF PlainTrailers, TrailsNoLength, x
  <2>2. Len(t) \in 0 .. Len(x)
    BY <1>1
  <2>3. Measured(Scan(NewParser, SubSeq(x, 1, Len(t))))
    BY <1>1, <2>1, <2>2, MeasuredScan
  <2> QED  BY <1>1, <2>3
<1>5. Sound(q)
  BY <1>1, NewIsSound, SoundScan
<1>6. /\ p.flags = q.flags /\ p.content_length = q.content_length /\ p.upgrade = q.upgrade
      /\ p.st = q.st /\ p.error = q.error
  BY <1>2, AlikeState
<1> HIDE DEF q
<1>7. ASSUME p.st = "start", p.error = "OK"
      PROVE  /\ p.flags = {} /\ p.content_length = 0 /\ ~p.upgrade
             /\ DOMAIN p.headers = {} /\ p.span = "none" /\ p.cur_name = <<>>
  <2>1. q.flags = {} /\ q.content_length = 0 /\ ~q.upgrade
    BY <1>4, <1>5, <1>6, <1>7, StartIsFresh
  <2>2. "start" \in LineStates
    BY DEF LineStates
  <2>3. DOMAIN p.headers = {} /\ p.span = "none" /\ p.cur_name = <<>>
    BY <1>2, <1>7, <2>2, Kinds DEF Lined
  <2>4. ~p.upgrade
    BY <1>6, <2>1
  <2> QED  BY <1>6, <2>1, <2>3, <2>4
<1> QED  BY <1>3, <1>7 DEF p

\* A parser that waits for a request holds nothing of the one before on its connection
\* (llhttp__after_message_complete and on_message_complete): no flag, length, upgrade or header,
\* unless a client sends a Content-Length among trailers.
THEOREM FreshCorrect == ASSUME PlainTrailers PROVE Spec => []ParserFresh
<1>1. Inv => ParserFresh
  BY InvFresh
<1> QED  BY <1>1, Held, PTL

------------------------------------------------------------------------------
\* The clients of HttpService.

\* The messages that are whole.
LEMMA WholeNothing == ASSUME NEW n PROVE WholeIn(<<>>, n) = 0
<1>1. {i \in DOMAIN <<>> : Len(Text(SubSeq(<<>>, 1, i))) <= n} = {}
  OBVIOUS
<1> QED  BY <1>1, FS_EmptySet DEF WholeIn

\* Their number is one.
LEMMA WholeType ==
    ASSUME NEW s \in Seq(Messages), NEW n
    PROVE  WholeIn(s, n) \in Nat
<1>1. DOMAIN s = 1 .. Len(s) /\ IsFiniteSet(1 .. Len(s))
  BY FS_Interval
<1> DEFINE W == {i \in DOMAIN s : Len(Text(SubSeq(s, 1, i))) <= n}
<1>2. W \in SUBSET (1 .. Len(s))
  BY <1>1
<1>3. IsFiniteSet(W)
  BY <1>1, <1>2, FS_Subset
<1> QED  BY <1>3, FS_CardinalityType DEF WholeIn

\* It grows with what is read.
LEMMA WholeGrows ==
    ASSUME NEW s \in Seq(Messages), NEW n \in Nat, NEW k \in Nat, n <= k
    PROVE  WholeIn(s, n) <= WholeIn(s, k)
<1> DEFINE W(j) == {i \in DOMAIN s : Len(Text(SubSeq(s, 1, i))) <= j}
<1>1. DOMAIN s = 1 .. Len(s) /\ IsFiniteSet(1 .. Len(s))
  BY FS_Interval
<1>2. IsFiniteSet(W(k))
  <2>1. W(k) \in SUBSET (1 .. Len(s))
    BY <1>1
  <2> QED  BY <1>1, <2>1, FS_Subset
<1>3. W(n) \in SUBSET W(k)
  <2>1. ASSUME NEW i \in DOMAIN s PROVE Len(Text(SubSeq(s, 1, i))) \in Nat
    <3>1. SubSeq(s, 1, i) \in Seq(Messages)
      OBVIOUS
    <3>2. Text(SubSeq(s, 1, i)) \in Seq(STRING)
      BY <3>1, TextType
    <3> QED  BY <3>2
  <2>2. \A i \in DOMAIN s : Len(Text(SubSeq(s, 1, i))) <= n => Len(Text(SubSeq(s, 1, i))) <= k
    BY <2>1
  <2> QED  BY <2>2
<1>4. Cardinality(W(n)) <= Cardinality(W(k))
  <2> HIDE DEF W
  <2> QED  BY <1>2, <1>3, FS_Subset
<1> QED  BY <1>4 DEF WholeIn

\* What is sent next is not whole before it has begun.
LEMMA WholeStays ==
    ASSUME NEW s \in Seq(Messages), NEW m \in Messages, NEW n \in Nat, n <= Len(Text(s))
    PROVE  WholeIn(Append(s, m), n) = WholeIn(s, n)
<1> DEFINE t == Append(s, m)
           Z(q, i) == Len(Text(SubSeq(q, 1, i))) <= n
<1>1. t \in Seq(Messages) /\ DOMAIN t = 1 .. Len(s) + 1 /\ DOMAIN s = 1 .. Len(s) /\ Len(s) \in Nat
  OBVIOUS
<1>2. \A i \in 1 .. Len(s) : SubSeq(t, 1, i) = SubSeq(s, 1, i)
  OBVIOUS
<1>3. ~Z(t, Len(s) + 1)
  <2>1. SubSeq(t, 1, Len(s) + 1) = t
    OBVIOUS
  <2>2. Text(t) = Text(s) \o Wire[m] /\ Text(s) \in Seq(STRING) /\ Wire[m] \in Seq(STRING) /\ Len(Wire[m]) > 0
    BY TextAppend, TextType, WireIs
  <2>3. Len(Text(t)) = Len(Text(s)) + Len(Wire[m])
    BY <2>2
  <2>4. Len(Text(s)) \in Nat /\ Len(Wire[m]) \in Nat
    BY <2>2
  <2> HIDE DEF t
  <2>5. ASSUME NEW i \in Nat, NEW j \in Nat, n <= i, j > 0 PROVE ~(i + j <= n)
    BY <2>5
  <2>6. ~(Len(Text(t)) <= n)
    BY <2>2, <2>3, <2>4, <2>5
  <2> QED  BY <2>1, <2>6
<1> HIDE DEF t
<1>4. {i \in DOMAIN t : Z(t, i)} = {i \in DOMAIN s : Z(s, i)}
  <2>1. \A i \in 1 .. Len(s) : Z(t, i) <=> Z(s, i)
    BY <1>2
  <2>2. \A i \in 1 .. Len(s) + 1 : i \in 1 .. Len(s) \/ i = Len(s) + 1
    BY <1>1
  <2>3. \A i \in 1 .. Len(s) : i \in 1 .. Len(s) + 1
    BY <1>1
  <2> HIDE DEF Z
  <2> QED  BY <1>1, <1>3, <2>1, <2>2, <2>3
<1> QED  BY <1>4 DEF WholeIn, t

----------------------------------------------------------------------------

\* The answers that wait for a client are those queued for its descriptor.
WaitingIs ==
    \A c \in Clients :
        /\ \A f \in Fds : sock[f] = c => Waiting(c) = writeq[f]
        /\ (\A f \in Fds : sock[f] # c) => Waiting(c) = <<>>

\* So it is when the invariant holds,
LEMMA WaitingHolds == Inv => WaitingIs
<1> SUFFICES ASSUME Inv, NEW c \in Clients
             PROVE  /\ \A f \in Fds : sock[f] = c => Waiting(c) = writeq[f]
                    /\ (\A f \in Fds : sock[f] # c) => Waiting(c) = <<>>
  BY DEF WaitingIs
<1> DEFINE S == {f \in Fds : sock[f] = c}
<1>1. ASSUME NEW f \in Fds, sock[f] = c PROVE Waiting(c) = writeq[f]
  <2>1. S = {f}
    BY <1>1, Names DEF Inv, SocksHeld
  <2>2. (CHOOSE g \in S : TRUE) = f
    BY <2>1
  <2> QED  BY <2>1, <2>2 DEF Waiting
<1>2. ASSUME \A f \in Fds : sock[f] # c PROVE Waiting(c) = <<>>
  <2>1. S = {}
    BY <1>2
  <2> QED  BY <2>1 DEF Waiting
<1> QED  BY <1>1, <1>2

\* and when it will hold.
LEMMA WaitingNext == Inv' => WaitingIs'
BY WaitingHolds, PTL

\* What has been read is a part of what was sent, with its answers.
AnsweredIs ==
    \A c \in Clients : \A f \in Fds : sock[f] = c =>
        LET x == Text(sent[c])
            t == SubSeq(x, 1, Read(c))
        IN /\ Read(c) \in 0 .. Len(x)
           /\ sent[c] \in Conversations
           /\ Answered(c) \in Replies
           /\ peer[c] = "open" => Answering(Answered(c), t)

\* So it is when the invariant holds.
LEMMA AnsweredHolds == Inv => AnsweredIs
<1> SUFFICES ASSUME Inv, NEW c \in Clients, NEW f \in Fds, sock[f] = c
             PROVE  LET x == Text(sent[c])
                        t == SubSeq(x, 1, Read(c))
                    IN /\ Read(c) \in 0 .. Len(x)
                       /\ sent[c] \in Conversations
                       /\ Answered(c) \in Replies
                       /\ peer[c] = "open" => Answering(Answered(c), t)
  BY DEF AnsweredIs
<1> DEFINE x == Text(sent[c])
           t == Before(x, rx[c])
<1>1. Answered(c) = heard[c] \o writeq[f]
  BY WaitingHolds DEF WaitingIs, Answered
<1>2. heard[c] \in Replies /\ writeq[f] \in Replies
  BY DEF Inv, QueuesHeld
<1>3. peer[c] = "open" => Answering(heard[c] \o writeq[f], t)
  BY DEF Inv, FedHeld, Feeds
<1>4. /\ sent[c] \in Conversations /\ x \in Seq(STRING) /\ Read(c) = Len(t) /\ t \in Seq(STRING)
      /\ t = SubSeq(x, 1, Len(t)) /\ Len(t) = Len(x) - Len(rx[c]) /\ rx[c] \in Seq(STRING)
  BY ParserOf
<1> HIDE DEF x, t
<1>5. Len(t) \in 0 .. Len(x)
  <2>1. Len(x) \in Nat /\ Len(t) \in Nat /\ Len(rx[c]) \in Nat
    BY <1>4
  <2> QED  BY <1>4, <2>1
<1>6. t = SubSeq(x, 1, Read(c)) /\ Read(c) \in 0 .. Len(x)
  BY <1>4, <1>5
<1>7. heard[c] \o writeq[f] \in Replies
  BY <1>2, RepliesJoin
<1> QED  BY <1>1, <1>3, <1>4, <1>6, <1>7 DEF x

\* The answers are those due.
DueHolds ==
    \A c \in Clients : \A f \in Fds :
        sock[f] = c /\ peer[c] = "open" => Service!Due(sent[c], Whole(c), Answered(c))

\* The answers of a parser to what it has read are those HttpService promises: where the text is
\* cut does not matter, and OutcomesAgree speaks of every text cut anywhere.
LEMMA AnswersAreDue ==
    ASSUME NEW s \in Conversations, NEW n \in 0 .. Len(Text(s)), NEW a \in Replies,
           Answering(a, SubSeq(Text(s), 1, n)), OutcomesAgree
    PROVE  Service!Due(s, WholeIn(s, n), a)
<1> DEFINE q == Scan(NewParser, SubSeq(Text(s), 1, n))
           k == WholeIn(s, n)
           d == Service!Served(s, k)
<1>1. /\ q.complete = d
      /\ q.error # "OK" => Service!MayRefuse(s, k)
      /\ Service!MustRefuse(s, k) => q.error # "OK"
  BY DEF OutcomesAgree
<1>2. OkUpTo(a, q.complete) /\ Len(a) >= q.complete /\ (Len(a) > q.complete <=> q.error # "OK")
  BY DEF Answering
<1> HIDE DEF q, k, d
<1>3. a = [i \in DOMAIN a |-> IF i <= d THEN "OK" ELSE "BAD"]
  <2>1. a \in Seq({"OK", "BAD"})
    BY DEF Replies
  <2>2. a = [i \in DOMAIN a |-> a[i]] /\ DOMAIN a = 1 .. Len(a)
    BY <2>1
  <2>3. \A i \in DOMAIN a : a[i] = IF i <= d THEN "OK" ELSE "BAD"
    BY <1>1, <1>2, <2>2 DEF OkUpTo
  <2> QED  BY <2>2, <2>3
<1>4. /\ Len(a) >= d
      /\ Len(a) > d => Service!MayRefuse(s, k)
      /\ Service!MustRefuse(s, k) => Len(a) > d
  BY <1>1, <1>2
<1> QED  BY <1>3, <1>4 DEF Service!Due, d, k

\* So it is when the invariant holds,
LEMMA DueAlways == ASSUME OutcomesAgree PROVE Inv => DueHolds
<1> SUFFICES ASSUME Inv, NEW c \in Clients, NEW f \in Fds, sock[f] = c, peer[c] = "open"
             PROVE  Service!Due(sent[c], Whole(c), Answered(c))
  BY DEF DueHolds
<1>1. /\ Read(c) \in 0 .. Len(Text(sent[c])) /\ sent[c] \in Conversations /\ Answered(c) \in Replies
      /\ Answering(Answered(c), SubSeq(Text(sent[c]), 1, Read(c)))
  BY AnsweredHolds DEF AnsweredIs
<1>2. Service!Due(sent[c], WholeIn(sent[c], Read(c)), Answered(c))
  BY <1>1, AnswersAreDue
<1> QED  BY <1>2 DEF Whole

\* and when it will hold: what has been read,
LEMMA AnsweredNext == Inv' => AnsweredIs'
BY AnsweredHolds, PTL

\* and the answers.
LEMMA DueNext == ASSUME OutcomesAgree PROVE Inv' => DueHolds'
<1>1. Inv => DueHolds
  BY DueAlways
<1> QED  BY <1>1, PTL

----------------------------------------------------------------------------

\* What a client of HttpService sees of a client: it stays as it is, or has left.
Still(c) ==
    /\ Here(c)' = Here(c)
    /\ Here(c) => sent'[c] = sent[c] /\ Whole(c)' = Whole(c) /\ Answered(c)' = Answered(c)

\* The variables of HttpService.
Sent    == [c \in Clients |-> IF Here(c) THEN sent[c] ELSE <<>>]
Got     == [c \in Clients |-> IF Here(c) THEN Whole(c) ELSE 0]
Answer  == [c \in Clients |-> IF Here(c) THEN Answered(c) ELSE <<>>]
Shown   == <<Sent, Got, Answer>>

\* When all clients stay as they are, HttpService stutters.
LEMMA AllStill == ASSUME \A c \in Clients : Still(c) PROVE UNCHANGED Shown
BY DEF Still, Shown, Sent, Got, Answer

\* A step that touches the client c only.
LEMMA OneLeaves ==
    ASSUME NEW c \in Clients, ~Here(c)', \A d \in Clients : d # c => Still(d)
    PROVE  Service!Leave(c)
<1>1. Sent' = [Sent EXCEPT ![c] = <<>>]
  BY DEF Sent, Still
<1>2. Got' = [Got EXCEPT ![c] = 0]
  BY DEF Got, Still
<1>3. Answer' = [Answer EXCEPT ![c] = <<>>]
  BY DEF Answer, Still
<1> QED  BY <1>1, <1>2, <1>3 DEF Service!Leave, Sent, Got, Answer

\* It sends a message,
LEMMA OneAsks ==
    ASSUME NEW c \in Clients, NEW m \in Messages, Here(c), Here(c)', sent'[c] = Append(sent[c], m),
           Whole(c)' = Whole(c), Answered(c)' = Answered(c), \A d \in Clients : d # c => Still(d)
    PROVE  Service!Ask(c)
<1>1. Sent' = [Sent EXCEPT ![c] = Append(@, m)]
  BY DEF Sent, Still
<1>2. Got' = Got
  BY DEF Got, Still
<1>3. Answer' = Answer
  BY DEF Answer, Still
<1> QED  BY <1>1, <1>2, <1>3 DEF Service!Ask, Sent, Got, Answer, Messages

\* or has more of what it sent read, and answered as is due.
LEMMA OneTakes ==
    ASSUME NEW c \in Clients, Here(c), Here(c)', sent'[c] = sent[c], Whole(c) <= Whole(c)',
           Len(Answered(c)) <= Len(Answered(c))', Service!Due(sent[c], Whole(c)', Answered(c)'),
           \A d \in Clients : d # c => Still(d)
    PROVE  Service!Take(c)
<1>1. Sent' = Sent /\ Sent[c] = sent[c]
  BY DEF Sent, Still
<1>2. Got' = [Got EXCEPT ![c] = Got'[c]] /\ Got[c] = Whole(c) /\ Got'[c] = Whole(c)'
  BY DEF Got, Still
<1>3. Answer' = [Answer EXCEPT ![c] = Answer'[c]] /\ Answer[c] = Answered(c) /\ Answer'[c] = Answered(c)'
  BY DEF Answer, Still
<1>4. Got[c] <= Got'[c] /\ Len(Answer[c]) <= Len(Answer'[c]) /\ Service!Due(Sent[c], Got'[c], Answer'[c])
  BY <1>1, <1>2, <1>3
<1> QED  BY <1>1, <1>2, <1>3, <1>4 DEF Service!Take, Sent, Got, Answer

\* A step that leaves what a client has sent and been sent, and its socket, as they are.
LEMMA AloneIsStill ==
    ASSUME Inv, Inv', NEW c \in Clients, peer'[c] = peer[c], sent'[c] = sent[c], rx'[c] = rx[c],
           heard'[c] = heard[c], \A f \in Fds : sock'[f] = c <=> sock[f] = c,
           \A f \in Fds : sock[f] = c => writeq'[f] = writeq[f]
    PROVE  Still(c)
<1>1. Read(c)' = Read(c)
  BY DEF Read
<1>2. Whole(c)' = Whole(c)
  BY <1>1 DEF Whole
<1>3. WaitingIs /\ WaitingIs'
  BY WaitingHolds, WaitingNext
<1>4. Waiting(c)' = Waiting(c)
  <2>1. CASE \E f \in Fds : sock[f] = c
    BY <1>3, <2>1 DEF WaitingIs
  <2>2. CASE \A f \in Fds : sock[f] # c
    BY <1>3, <2>2 DEF WaitingIs
  <2> QED  BY <2>1, <2>2
<1>5. Answered(c)' = Answered(c)
  BY <1>4 DEF Answered
<1> QED  BY <1>2, <1>5 DEF Still, Here

\* What has not been read of a client is no more than it sent.
PartsLeft == \A c \in Clients : Len(rx[c]) <= Len(Text(sent[c]))

\* This is kept where characters are only read,
LEMMA LessIsLeft ==
    ASSUME PartsLeft, sent' = sent, \A c \in Clients : rx'[c] = rx[c] \/ Len(rx'[c]) <= Len(Text(sent[c]))
    PROVE  PartsLeft'
BY DEF PartsLeft

\* and where a connection is closed.
LEMMA ClosedIsLeft ==
    ASSUME Inv, PartsLeft, NEW f \in Fds, sock[f] \in Conns, CloseAll({f}, rx, readq, writeq, interest), sent' = sent
    PROVE  PartsLeft'
<1> SUFFICES ASSUME NEW c \in Clients PROVE rx'[c] = rx[c] \/ Len(rx'[c]) <= Len(Text(sent[c]))
  BY LessIsLeft
<1>1. rx'[c] = rx[c] \/ rx'[c] = <<>>
  BY CloseOne, Names
<1>2. Text(sent[c]) \in Seq(STRING)
  BY ConversationsAre, TextType DEF Inv, QueuesHeld
<1>3. Len(<<>>) <= Len(Text(sent[c]))
  BY <1>2
<1> QED  BY <1>1, <1>3

\* It holds when the server starts,
LEMMA PartsStart == Init => PartsLeft
<1> SUFFICES ASSUME Init, NEW c \in Clients PROVE Len(rx[c]) <= Len(Text(sent[c]))
  BY DEF PartsLeft
<1>1. rx[c] = <<>> /\ sent[c] = <<>>
  BY Names DEF Init, LoopInit
<1> QED  BY <1>1, TextNothing

\* and after every step.
LEMMA PartsHold == Inv /\ Inv' /\ PartsLeft /\ [Next]_vars => PartsLeft'
<1> SUFFICES ASSUME Inv, Inv', PartsLeft, [Next]_vars PROVE PartsLeft'
  OBVIOUS
<1>1. ASSUME sent' = sent, \A c \in Clients : rx'[c] = rx[c] PROVE PartsLeft'
  BY <1>1, LessIsLeft
<1>2. ASSUME NEW c \in Clients, NEW m \in DOMAIN Outcome, ClientSends(c, m) PROVE PartsLeft'
  <2>1. /\ sent' = [sent EXCEPT ![c] = Append(@, m)] /\ rx' = [rx EXCEPT ![c] = @ \o Wire[m]]
        /\ m \in Messages /\ Wire[m] \in Seq(STRING) /\ sent[c] \in Seq(Messages) /\ rx[c] \in Seq(STRING)
        /\ c \in Conns /\ DOMAIN rx = Conns /\ DOMAIN sent = Clients
    BY <1>2, Names, WireIs, ConversationsAre DEF ClientSends, Messages, Inv, QueuesHeld
  <2>2. Text(Append(sent[c], m)) = Text(sent[c]) \o Wire[m] /\ Text(sent[c]) \in Seq(STRING)
    BY <2>1, TextAppend, TextType
  <2>3. \A x, y, z \in Seq(STRING) : Len(x) <= Len(y) => Len(x \o z) <= Len(y \o z)
    OBVIOUS
  <2>4. Len(rx'[c]) <= Len(Text(sent'[c]))
    BY <2>1, <2>2, <2>3 DEF PartsLeft
  <2>5. \A d \in Clients : d # c => rx'[d] = rx[d] /\ sent'[d] = sent[d]
    BY <2>1
  <2> QED  BY <2>4, <2>5 DEF PartsLeft
<1>3. ASSUME NEW f \in Fds, NEW n, Receive(f, n) \/ ReceiveEnd(f) PROVE PartsLeft'
  <2>1. PICK k : Capture(f) /\ Feed(f, k)
    BY <1>3 DEF Receive, ReceiveEnd
  <2>2. sent' = sent /\ sock' = sock /\ rx' = [rx EXCEPT ![sock[f]] = SubSeq(@, k + 1, Len(@))]
    BY <2>1 DEF Feed, Fed, httpVars
  <2>3. sock[f] \in Clients /\ \A d \in Clients : d # sock[f] => rx'[d] = rx[d]
    BY <2>1, <2>2 DEF Capture
  <2>4. Len(rx'[sock[f]]) <= Len(Text(sent[sock[f]]))
    BY <2>2, <2>3 DEF Inv, FedHeld, Feeds
  <2> QED  BY <2>2, <2>3, <2>4, LessIsLeft
<1>4. ASSUME NEW f \in Fds, HangUp(f) PROVE PartsLeft'
  <2>1. sock[f] \in Conns
    BY <1>4, Names DEF HangUp, Inv, LinksHeld
  <2> QED  BY <1>4, <2>1, ClosedIsLeft DEF HangUp, httpVars
<1>5. ASSUME NEW f \in Fds, OtherClosed(f) PROVE PartsLeft'
  <2>1. sock[f] \in Conns
    BY <1>5, Names DEF OtherClosed, Inv, LinksHeld
  <2> QED  BY <1>5, <2>1, ClosedIsLeft DEF OtherClosed, httpVars
<1>6. ASSUME NEW f \in Fds, OtherServed(f) PROVE PartsLeft'
  <2>1. sock[f] \notin Clients /\ sent' = sent /\ rx' = [rx EXCEPT ![sock[f]] = <<>>]
    BY <1>6, Names DEF OtherServed, httpVars, Inv, LinksHeld
  <2> QED  BY <1>1, <2>1
<1>7. ASSUME NEW c \in Others, NEW f \in Fds, NEW frames, OtherAccepted(c, f, frames) PROVE PartsLeft'
  <2>1. sent' = sent /\ rx' = [rx EXCEPT ![c] = <<"x">>] /\ c \notin Clients
    BY <1>7, Names DEF OtherAccepted, httpVars
  <2> QED  BY <1>1, <2>1
<1>8. ASSUME AcceptClient \/ AcceptClientFails PROVE PartsLeft'
  BY <1>1, <1>8 DEF AcceptClient, AcceptClientFails, Accepted, AcceptFailed, netVars, httpVars
<1>9. ASSUME NEW f \in Fds, NEW n, Deliver(f, n) PROVE PartsLeft'
  BY <1>1, <1>9 DEF Deliver, Write, netVars
<1>10. ASSUME NEW f \in Fds, LoopStep(f) \/ ReceiveFails(f) PROVE PartsLeft'
  BY <1>1, <1>10 DEF LoopStep, StaleHangup, ThrowOnEvent, WriteFails, ReceiveFails, Throw, netVars, httpVars
<1>11. CASE Peers
  <2>1. ASSUME NEW c \in Clients, ClientConnects(c) PROVE PartsLeft'
    BY <1>1, <2>1 DEF ClientConnects, PeerConnects, httpVars
  <2>2. ASSUME NEW c \in Conns, PeerCloses(c) \/ PeerResets(c), UNCHANGED <<parsers, httpVars>> PROVE PartsLeft'
    BY <1>1, <2>2 DEF PeerCloses, PeerResets, httpVars
  <2> QED  BY <1>2, <1>7, <1>11, <2>1, <2>2, Names DEF Peers
<1>12. CASE Server
  <2>1. ASSUME EpollWait, UNCHANGED <<parsers, httpVars>> PROVE PartsLeft'
    BY <1>1, <2>1 DEF EpollWait, netVars, httpVars
  <2> QED  BY <1>3, <1>4, <1>5, <1>6, <1>8, <1>9, <1>10, <1>12, <2>1 DEF Server
<1>13. CASE UNCHANGED vars
  BY <1>1, <1>13 DEF vars, loopVars, netVars, httpVars
<1> QED  BY <1>11, <1>12, <1>13 DEF Next

\* A step of the system as one of HttpService.
Serves == (\E c \in Clients : Service!Ask(c) \/ Service!Take(c) \/ Service!Leave(c)) \/ UNCHANGED Shown

\* A step that changes nothing a client sees is a stutter.
LEMMA QuietServes == ASSUME Inv, Inv', UNCHANGED heldVars PROVE Serves
<1>1. ASSUME NEW c \in Clients PROVE Still(c)
  BY AloneIsStill DEF heldVars, netVars, httpVars
<1> QED  BY <1>1, AllStill DEF Serves

\* A client that has gone before the step, and after it.
LEMMA GoneIsStill == ASSUME NEW c \in Clients, ~Here(c), ~Here(c)' PROVE Still(c)
BY DEF Still, Here

\* A write that fails changes nothing HttpService shows: the answers are queued still.
LEMMA WriteFailsServes ==
    ASSUME Inv, Inv', NEW f \in Fds, WriteFails(f), UNCHANGED <<parsers, httpVars>>
    PROVE  Serves
<1>1. /\ sock[f] \in Conns /\ peer[sock[f]] = "rst" /\ DOMAIN writeq = Fds
      /\ sock' = sock /\ peer' = peer /\ rx' = rx /\ sent' = sent /\ heard' = heard /\ writeq' = [writeq EXCEPT ![f] = <<>>]
  BY DEF WriteFails, netVars, tableVars, httpVars, Inv, QueuesHeld
<1>2. ASSUME NEW d \in Clients PROVE Still(d)
  <2>1. CASE d = sock[f]
    BY <1>1, <2>1, GoneIsStill DEF Here
  <2>2. CASE d # sock[f]
    <3>1. \A g \in Fds : sock[g] = d => writeq'[g] = writeq[g]
      BY <1>1, <2>2
    <3> QED  BY <1>1, <3>1, AloneIsStill
  <2> QED  BY <2>1, <2>2
<1> QED  BY <1>2, AllStill DEF Serves

\* Nor does a step of the event loop.
LEMMA LoopStepServes == ASSUME Inv, Inv', NEW f \in Fds, LoopStep(f) PROVE Serves
<1>1. CASE StaleHangup(f) \/ ThrowOnEvent(f)
  <2>1. UNCHANGED heldVars
    BY <1>1 DEF LoopStep, StaleHangup, ThrowOnEvent, Throw, heldVars, tableVars, queueVars
  <2> QED  BY <2>1, QuietServes
<1>2. CASE WriteFails(f)
  BY <1>2, WriteFailsServes DEF LoopStep
<1> QED  BY <1>1, <1>2 DEF LoopStep

\* Accepting a client changes nothing it has been answered.
LEMMA AcceptClientServes == ASSUME Inv, Inv', AcceptClient PROVE Serves
<1>1. PICK c \in Clients, f \in Fds : Accepted(Main, c, f, "CAPTURE", TRUE) /\ KeepParser(f)
  BY DEF AcceptClient
<1>2. /\ c \in backlog[Main] /\ sock[f] = None /\ sock' = [sock EXCEPT ![f] = c]
      /\ peer' = peer /\ rx' = rx /\ writeq' = writeq /\ sent' = sent /\ heard' = heard
  BY <1>1 DEF AcceptClient, Accepted, NewFd, FreeFds, KeepParser, httpVars
<1>3. \A g \in Fds : sock[g] # c
  BY <1>2, Names DEF Inv, SocksHeld
<1>4. sock'[f] = c /\ \A g \in Fds : g # f => sock'[g] = sock[g]
  BY <1>2 DEF Inv, SocksHeld
<1>5. ASSUME NEW d \in Clients PROVE Still(d)
  <2>1. CASE d = c
    <3>1. writeq[f] = <<>>
      BY <1>2 DEF Inv, QueuesHeld
    <3>2. Waiting(c) = <<>>
      BY <1>3, WaitingHolds DEF WaitingIs
    <3>3. Waiting(c)' = writeq'[f]
      BY <1>4, WaitingNext DEF WaitingIs
    <3>4. Answered(c)' = Answered(c) /\ Read(c)' = Read(c)
      BY <1>2, <3>1, <3>2, <3>3 DEF Answered, Read
    <3>5. Whole(c)' = Whole(c)
      BY <1>2, <3>4 DEF Whole
    <3> QED  BY <1>2, <2>1, <3>4, <3>5 DEF Still, Here
  <2>2. CASE d # c
    <3>1. \A g \in Fds : sock'[g] = d <=> sock[g] = d
      BY <1>2, <1>4, <2>2, Names
    <3> QED  BY <1>2, <3>1, AloneIsStill
  <2> QED  BY <2>1, <2>2
<1> QED  BY <1>5, AllStill DEF Serves

\* A failed accept takes a client, if it does anything, from those who are here.
LEMMA AcceptClientFailsServes == ASSUME Inv, Inv', AcceptClientFails PROVE Serves
<1>1. sock' = sock /\ peer' = peer /\ rx' = rx /\ writeq' = writeq /\ sent' = sent /\ heard' = heard
  BY DEF AcceptClientFails, AcceptFailed, httpVars, netVars
<1>2. ASSUME NEW d \in Clients PROVE Still(d)
  BY <1>1, AloneIsStill
<1> QED  BY <1>2, AllStill DEF Serves

\* A connection that is closed leaves, if it is of a client.
LEMMA ClosedServes ==
    ASSUME Inv, Inv', NEW f \in Fds, sock[f] \in Conns, CloseAll({f}, rx, readq, writeq, interest),
           sent' = sent, heard' = heard
    PROVE  Serves
<1> PICK c \in Conns : c = sock[f]
  OBVIOUS
<1>1. /\ sock' = [g \in Fds |-> IF g = f THEN None ELSE sock[g]]
      /\ peer' = [d \in Conns |-> IF d = c THEN "gone" ELSE peer[d]]
      /\ rx' = [d \in Conns |-> IF d = c THEN <<>> ELSE rx[d]]
      /\ writeq' = [g \in Fds |-> IF g = f THEN <<>> ELSE writeq[g]]
  BY CloseOne
<1>2. ASSUME NEW d \in Clients, d # c PROVE Still(d)
  <2>1. d \in Conns
    BY Names
  <2>2. peer'[d] = peer[d] /\ rx'[d] = rx[d]
    BY <1>1, <1>2, <2>1
  <2>3. \A g \in Fds : sock'[g] = d <=> sock[g] = d
    BY <1>1, <1>2, <2>1, Names
  <2>4. \A g \in Fds : sock[g] = d => writeq'[g] = writeq[g]
    BY <1>1, <1>2
  <2> QED  BY <2>2, <2>3, <2>4, AloneIsStill
<1>3. CASE c \in Clients
  <2>1. ~Here(c)'
    BY <1>1 DEF Here
  <2> QED  BY <1>2, <1>3, <2>1, OneLeaves DEF Serves
<1>4. CASE c \notin Clients
  BY <1>2, <1>4, AllStill DEF Serves
<1> QED  BY <1>3, <1>4

\* What on_data does is to take what was received and to answer what is due.
LEMMA FeedServes ==
    ASSUME OutcomesAgree, Inv, Inv', NEW f \in Fds, NEW n, Capture(f), n \in 0 .. Len(rx[sock[f]]), Feed(f, n)
    PROVE  Serves
<1> PICK c \in Clients : c = sock[f]
  BY Names DEF Capture
<1> DEFINE r == rx[c]
           e == Execute(parsers[f], SubSeq(r, 1, n))
<1>1. c \in Clients /\ c \in Conns
  BY Names
<1>2. /\ rx' = [rx EXCEPT ![c] = SubSeq(r, n + 1, Len(r))]
      /\ writeq' = [writeq EXCEPT ![f] = writeq[f] \o Answers(e)]
      /\ sock' = sock /\ peer' = peer /\ sent' = sent /\ heard' = heard
  <2>1. rx' = [rx EXCEPT ![c] = SubSeq(@, n + 1, Len(@))] /\ writeq' = [writeq EXCEPT ![f] = @ \o Answers(e)]
    BY DEF Feed, Fed
  <2>2. DOMAIN rx = Conns /\ DOMAIN writeq = Fds
    BY DEF Inv, QueuesHeld
  <2> QED  BY <1>1, <2>1, <2>2 DEF Feed, Fed, tableVars, httpVars
<1>3. /\ r \in Seq(STRING) /\ writeq[f] \in Replies /\ heard[c] \in Replies /\ sent[c] \in Seq(Messages)
      /\ DOMAIN writeq = Fds /\ DOMAIN rx = Conns
  BY <1>1, ConversationsAre DEF Inv, QueuesHeld
<1>4. Answers(e) \in Replies
  <2>1. Sound(parsers[f])
    BY <1>1 DEF Inv, FedHeld, Feeds, Has
  <2>2. SubSeq(r, 1, n) \in Seq(STRING)
    BY <1>3, CutIs
  <2>3. e.complete \in Nat
    BY <2>1, <2>2, ExecuteIsSound
  <2> QED  BY <2>3, AnswersAre
<1> HIDE DEF e
<1>5. ASSUME NEW d \in Clients, d # c PROVE Still(d)
  <2>1. rx'[d] = rx[d] /\ \A g \in Fds : sock[g] = d => writeq'[g] = writeq[g]
    BY <1>2, <1>5
  <2> QED  BY <1>2, <2>1, AloneIsStill
<1>6. CASE ~Here(c)
  <2>1. ~Here(c)'
    BY <1>2, <1>6 DEF Here
  <2> QED  BY <1>1, <1>5, <1>6, <2>1, GoneIsStill, AllStill DEF Serves
<1>7. CASE Here(c)
  <2>1. Here(c)' /\ sent'[c] = sent[c]
    BY <1>2, <1>7 DEF Here
  <2>2. Answered(c) = heard[c] \o writeq[f] /\ Answered(c)' = heard[c] \o (writeq[f] \o Answers(e))
    <3>1. Waiting(c) = writeq[f]
      BY <1>1, WaitingHolds DEF WaitingIs
    <3>2. Waiting(c)' = writeq'[f]
      BY <1>1, <1>2, WaitingNext DEF WaitingIs
    <3> QED  BY <1>2, <1>3, <3>1, <3>2 DEF Answered
  <2>3. Len(Answered(c)) <= Len(Answered(c))'
    <3>1. \A T : \A x, y, z \in Seq(T) : Len(x \o y) <= Len(x \o (y \o z))
      OBVIOUS
    <3> QED  BY <1>3, <1>4, <2>2, <3>1 DEF Replies
  <2>4. Whole(c) <= Whole(c)'
    <3>1. Read(c) \in Nat /\ Read(c)' \in Nat
      <4>1. AnsweredIs /\ AnsweredIs'
        BY AnsweredHolds, AnsweredNext
      <4>2. Read(c) \in 0 .. Len(Text(sent[c])) /\ Read(c)' \in 0 .. Len(Text(sent'[c]))
        BY <1>1, <1>2, <4>1 DEF AnsweredIs
      <4> QED  BY <4>2
    <3>2. Read(c) <= Read(c)'
      <4>1. Len(SubSeq(r, n + 1, Len(r))) <= Len(r)
        BY <1>3
      <4>2. rx'[c] = SubSeq(r, n + 1, Len(r))
        BY <1>1, <1>2, <1>3
      <4>3. Len(rx'[c]) <= Len(rx[c]) /\ Len(rx'[c]) \in Nat /\ Len(rx[c]) \in Nat /\ Len(Text(sent[c])) \in Nat
        <5>1. rx'[c] \in Seq(STRING) /\ Text(sent[c]) \in Seq(STRING)
          BY <1>1, <1>3, TextType DEF Inv, QueuesHeld
        <5> QED  BY <1>3, <4>1, <4>2, <5>1
      <4>4. \A i, j, k \in Nat : i <= j => k - j <= k - i
        OBVIOUS
      <4> QED  BY <2>1, <4>3, <4>4 DEF Read
    <3>3. WholeIn(sent[c], Read(c)) <= WholeIn(sent[c], Read(c)')
      BY <1>3, <3>1, <3>2, WholeGrows
    <3> QED  BY <2>1, <3>3 DEF Whole
  <2>5. Service!Due(sent[c], Whole(c)', Answered(c)')
    <3>1. DueHolds'
      BY DueNext
    <3> QED  BY <1>1, <1>2, <2>1, <3>1 DEF DueHolds, Here
  <2>6. Service!Take(c)
    BY <1>1, <1>5, <1>7, <2>1, <2>3, <2>4, <2>5, OneTakes
  <2> QED  BY <1>1, <2>6 DEF Serves
<1> QED  BY <1>6, <1>7

\* So receiving is that, or leaving.
LEMMA ReceiveServes ==
    ASSUME OutcomesAgree, Inv, Inv', NEW f \in Fds, NEW n, Receive(f, n) \/ ReceiveEnd(f)
    PROVE  Serves
<1>0. Capture(f)
  BY DEF Receive, ReceiveEnd
<1>1. sock[f] \in Clients /\ rx[sock[f]] \in Seq(STRING)
  BY <1>0, Names DEF Capture, Inv, QueuesHeld
<1>2. CASE Receive(f, n)
  <2>1. Feed(f, n) /\ n \in 1 .. Len(rx[sock[f]])
    BY <1>2 DEF Receive
  <2>2. n \in 0 .. Len(rx[sock[f]])
    BY <1>1, <2>1
  <2> QED  BY <1>0, <2>1, <2>2, FeedServes
<1>3. CASE ReceiveEnd(f)
  <2>1. Feed(f, 0)
    BY <1>3 DEF ReceiveEnd
  <2>2. 0 \in 0 .. Len(rx[sock[f]])
    BY <1>1
  <2> QED  BY <1>0, <2>1, <2>2, FeedServes
<1> QED  BY <1>2, <1>3

\* Delivering moves answers from the queue to the client, which changes none.
LEMMA DeliverServes ==
    ASSUME Inv, Inv', NEW f \in Fds, NEW n \in 0 .. Len(writeq[f]), Deliver(f, n)
    PROVE  Serves
<1> PICK c : c = sock[f]
  OBVIOUS
<1> DEFINE w == writeq[f]
<1>1. /\ c \in Conns /\ DOMAIN writeq = Fds
      /\ sock' = sock /\ peer' = peer /\ rx' = rx /\ sent' = sent
      /\ writeq' = [writeq EXCEPT ![f] = SubSeq(w, n + 1, Len(w))]
      /\ heard' = IF c \in Clients THEN [heard EXCEPT ![c] = @ \o SubSeq(w, 1, n)] ELSE heard
  <2>1. DOMAIN writeq = Fds
    BY DEF Inv, QueuesHeld
  <2>2. writeq' = [writeq EXCEPT ![f] = SubSeq(@, n + 1, Len(@))]
    BY DEF Deliver, Write
  <2> QED  BY <2>1, <2>2 DEF Deliver, Write, netVars, tableVars
<1> HIDE DEF w
<1>2. ASSUME NEW d \in Clients PROVE Still(d)
  <2>1. CASE d = c
    <3> DEFINE x == SubSeq(w, 1, n)
               y == SubSeq(w, n + 1, Len(w))
    <3>1. w \in Replies /\ heard[c] \in Replies /\ DOMAIN heard = Clients
      BY <2>1 DEF w, Inv, QueuesHeld
    <3>2. x \in Replies /\ y \in Replies /\ x \o y = w
      BY <3>1, RepliesCut DEF w
    <3>3. heard'[c] = heard[c] \o x /\ writeq'[f] = y
      BY <1>1, <2>1, <3>1
    <3> HIDE DEF x, y
    <3>4. Waiting(c) = w /\ Waiting(c)' = writeq'[f]
      BY <1>1, <2>1, WaitingHolds, WaitingNext DEF WaitingIs, w
    <3>5. (heard[c] \o x) \o y = heard[c] \o w
      BY <3>1, <3>2, RepliesJoin, ZenonT(60)
    <3>6. Answered(c)' = Answered(c)
      BY <3>3, <3>4, <3>5 DEF Answered
    <3>7. Whole(c)' = Whole(c)
      BY <1>1 DEF Whole, Read
    <3> QED  BY <1>1, <2>1, <3>6, <3>7 DEF Still, Here
  <2>2. CASE d # c
    <3>1. heard'[d] = heard[d] /\ \A g \in Fds : sock[g] = d => writeq'[g] = writeq[g]
      BY <1>1, <2>2
    <3> QED  BY <1>1, <3>1, AloneIsStill
  <2> QED  BY <2>1, <2>2
<1> QED  BY <1>2, AllStill DEF Serves

\* A client that connects has sent nothing yet.
LEMMA ClientConnectsServes == ASSUME Inv, Inv', NEW c \in Clients, ClientConnects(c) PROVE Serves
<1>1. /\ peer[c] = "idle" /\ peer' = [peer EXCEPT ![c] = "open"]
      /\ sock' = sock /\ rx' = rx /\ writeq' = writeq /\ sent' = sent /\ heard' = heard
  BY DEF ClientConnects, PeerConnects, tableVars, queueVars, httpVars
<1>2. c \in Conns /\ (\A f \in Fds : sock[f] # c) /\ rx[c] = <<>> /\ sent[c] = <<>> /\ heard[c] = <<>>
  BY <1>1, Names DEF Inv, SocksHeld, QueuesHeld
<1>3. ASSUME NEW d \in Clients, d # c PROVE Still(d)
  <2>1. peer'[d] = peer[d]
    BY <1>1, <1>3
  <2> QED  BY <1>1, <2>1, AloneIsStill
<1>4. ~Here(c) /\ sent'[c] = <<>>
  BY <1>1, <1>2 DEF Here
<1>5. Answered(c)' = <<>>
  <2>1. Waiting(c)' = <<>>
    BY <1>1, <1>2, WaitingNext DEF WaitingIs
  <2> QED  BY <1>1, <1>2, <2>1 DEF Answered
<1>6. Whole(c)' = 0
  BY <1>4, WholeNothing DEF Whole
<1>7. Sent' = Sent /\ Got' = Got /\ Answer' = Answer
  <2>1. Sent' = Sent
    BY <1>3, <1>4 DEF Sent, Still
  <2>2. Got' = Got
    BY <1>3, <1>4, <1>6 DEF Got, Still
  <2>3. Answer' = Answer
    BY <1>3, <1>4, <1>5 DEF Answer, Still
  <2> QED  BY <2>1, <2>2, <2>3
<1> QED  BY <1>7 DEF Serves, Shown

\* A peer that closes or resets leaves.
LEMMA PeerLeavesServes ==
    ASSUME Inv, Inv', NEW c \in Conns, PeerCloses(c) \/ PeerResets(c), UNCHANGED <<parsers, httpVars>>
    PROVE  Serves
<1>1. PICK w \in {"fin", "rst"} : peer' = [peer EXCEPT ![c] = w]
  BY DEF PeerCloses, PeerResets
<1>2. sock' = sock /\ rx' = rx /\ writeq' = writeq /\ sent' = sent /\ heard' = heard
  BY DEF PeerCloses, PeerResets, tableVars, queueVars, httpVars
<1>3. ASSUME NEW d \in Clients, d # c PROVE Still(d)
  <2>1. peer'[d] = peer[d]
    BY <1>1, <1>3
  <2> QED  BY <1>2, <2>1, AloneIsStill
<1>4. CASE c \in Clients
  <2>1. ~Here(c)'
    BY <1>1 DEF Here, Inv, SocksHeld
  <2> QED  BY <1>3, <1>4, <2>1, OneLeaves DEF Serves
<1>5. CASE c \notin Clients
  BY <1>3, <1>5, AllStill DEF Serves
<1> QED  BY <1>4, <1>5

\* A client that sends asks.
LEMMA ClientSendsServes ==
    ASSUME Inv, Inv', PartsLeft, NEW c \in Clients, NEW m \in DOMAIN Outcome, ClientSends(c, m)
    PROVE  Serves
<1>1. /\ peer[c] = "open" /\ sent' = [sent EXCEPT ![c] = Append(@, m)] /\ rx' = [rx EXCEPT ![c] = @ \o Wire[m]]
      /\ sock' = sock /\ peer' = peer /\ writeq' = writeq /\ heard' = heard /\ backlog' = backlog
  BY DEF ClientSends, tableVars, queueVars
<1>2. /\ c \in Conns /\ m \in Messages /\ Wire[m] \in Seq(STRING) /\ sent[c] \in Seq(Messages) /\ rx[c] \in Seq(STRING)
      /\ DOMAIN rx = Conns /\ DOMAIN sent = Clients
  BY Names, WireIs, ConversationsAre DEF Messages, Inv, QueuesHeld
<1>3. sent'[c] = Append(sent[c], m) /\ rx'[c] = rx[c] \o Wire[m]
  BY <1>1, <1>2
<1>4. ASSUME NEW d \in Clients, d # c PROVE Still(d)
  <2>1. sent'[d] = sent[d] /\ rx'[d] = rx[d]
    BY <1>1, <1>4
  <2> QED  BY <1>1, <2>1, AloneIsStill
<1>5. Answered(c)' = Answered(c)
  <2>1. Waiting(c)' = Waiting(c)
    BY <1>1 DEF Waiting
  <2> QED  BY <1>1, <2>1 DEF Answered
<1>6. Read(c)' = Read(c)
  <2>1. Text(Append(sent[c], m)) = Text(sent[c]) \o Wire[m] /\ Text(sent[c]) \in Seq(STRING)
    BY <1>2, TextAppend, TextType
  <2>2. \A x, y, z \in Seq(STRING) : Len(x \o z) - Len(y \o z) = Len(x) - Len(y)
    OBVIOUS
  <2> QED  BY <1>2, <1>3, <2>1, <2>2 DEF Read
<1>7. Whole(c)' = Whole(c)
  <2>1. Read(c) \in Nat /\ Read(c) <= Len(Text(sent[c]))
    <3>1. Text(sent[c]) \in Seq(STRING)
      BY <1>2, TextType
    <3>2. Len(rx[c]) <= Len(Text(sent[c])) /\ Len(rx[c]) \in Nat /\ Len(Text(sent[c])) \in Nat
      BY <1>2, <3>1 DEF PartsLeft
    <3>3. \A i, j \in Nat : i <= j => j - i \in Nat /\ j - i <= j
      OBVIOUS
    <3> QED  BY <3>2, <3>3 DEF Read
  <2> QED  BY <1>2, <1>3, <1>6, <2>1, WholeStays DEF Whole
<1>8. Service!Ask(c)
  BY <1>1, <1>2, <1>3, <1>4, <1>5, <1>7, OneAsks DEF Here
<1> QED  BY <1>8 DEF Serves

\* The connections of other listeners are not shown,
LEMMA OtherAcceptedServes ==
    ASSUME Inv, Inv', NEW c \in Others, NEW f \in Fds, NEW frames, OtherAccepted(c, f, frames)
    PROVE  Serves
<1>1. /\ peer[c] = "idle" /\ sock[f] = None
      /\ sock' = [sock EXCEPT ![f] = c] /\ peer' = [peer EXCEPT ![c] = "open"] /\ rx' = [rx EXCEPT ![c] = <<"x">>]
      /\ writeq' = [writeq EXCEPT ![f] = frames] /\ sent' = sent /\ heard' = heard
  BY DEF OtherAccepted, NewFd, FreeFds, httpVars
<1>2. c \notin Clients
  BY Names
<1>3. ASSUME NEW d \in Clients PROVE Still(d)
  <2>1. peer'[d] = peer[d] /\ rx'[d] = rx[d] /\ d # None
    BY <1>1, <1>2, Names
  <2>2. \A g \in Fds : sock'[g] = d <=> sock[g] = d
    BY <1>1, <1>2, <2>1 DEF Inv, SocksHeld
  <2>3. \A g \in Fds : sock[g] = d => writeq'[g] = writeq[g]
    BY <1>1, <2>1
  <2> QED  BY <1>1, <2>1, <2>2, <2>3, AloneIsStill
<1> QED  BY <1>3, AllStill DEF Serves

\* nor is what is done for them.
LEMMA OtherServedServes == ASSUME Inv, Inv', NEW f \in Fds, OtherServed(f) PROVE Serves
<1>1. /\ sock[f] \notin Clients /\ rx' = [rx EXCEPT ![sock[f]] = <<>>]
      /\ sock' = sock /\ peer' = peer /\ writeq' = writeq /\ sent' = sent /\ heard' = heard
  BY Names DEF OtherServed, queueVars, httpVars, Inv, LinksHeld
<1>2. ASSUME NEW d \in Clients PROVE Still(d)
  <2>1. rx'[d] = rx[d]
    BY <1>1
  <2> QED  BY <1>1, <2>1, AloneIsStill
<1> QED  BY <1>2, AllStill DEF Serves

\* Every step is one of HttpService, or a stutter.
LEMMA NextServes ==
    ASSUME OutcomesAgree
    PROVE  Inv /\ PartsLeft /\ Inv' /\ [Next]_vars => [Service!SNext]_Shown
<1> SUFFICES ASSUME Inv, PartsLeft, Inv', [Next]_vars PROVE Serves
  BY DEF Serves, Service!SNext
<1>1. CASE UNCHANGED vars
  BY <1>1, QuietServes DEF vars, loopVars, heldVars, tableVars, queueVars
<1>2. CASE Peers
  <2>1. ASSUME NEW c \in Clients, ClientConnects(c) PROVE Serves
    BY <2>1, ClientConnectsServes
  <2>2. ASSUME NEW c \in Conns, PeerCloses(c) \/ PeerResets(c), UNCHANGED <<parsers, httpVars>> PROVE Serves
    BY <2>2, PeerLeavesServes
  <2>3. ASSUME NEW c \in Clients, NEW m \in DOMAIN Outcome, ClientSends(c, m) PROVE Serves
    BY <2>3, ClientSendsServes
  <2>4. ASSUME NEW c \in Others, NEW f \in Fds, NEW frames, OtherAccepted(c, f, frames) PROVE Serves
    BY <2>4, OtherAcceptedServes
  <2> QED  BY <1>2, <2>1, <2>2, <2>3, <2>4, Names DEF Peers
<1>3. CASE Server
  <2>1. ASSUME EpollWait, UNCHANGED <<parsers, httpVars>> PROVE Serves
    BY <2>1, QuietServes DEF EpollWait, heldVars, tableVars, queueVars
  <2>2. ASSUME NEW f \in Fds, ReceiveFails(f) PROVE Serves
    BY <2>2, QuietServes DEF ReceiveFails, Throw, heldVars, tableVars, queueVars
  <2>3. ASSUME NEW f \in Fds, HangUp(f) PROVE Serves
    <3>1. sock[f] \in Conns
      BY <2>3, Names DEF HangUp, Inv, LinksHeld
    <3> QED  BY <2>3, <3>1, ClosedServes DEF HangUp, httpVars
  <2>4. ASSUME NEW f \in Fds, OtherClosed(f) PROVE Serves
    <3>1. sock[f] \in Conns
      BY <2>4, Names DEF OtherClosed, Inv, LinksHeld
    <3> QED  BY <2>4, <3>1, ClosedServes DEF OtherClosed, httpVars
  <2>5. ASSUME NEW f \in Fds, NEW n, Receive(f, n) \/ ReceiveEnd(f) PROVE Serves
    BY <2>5, ReceiveServes
  <2>6. ASSUME NEW f \in Fds, NEW n \in 0 .. Len(writeq[f]), Deliver(f, n) PROVE Serves
    BY <2>6, DeliverServes
  <2> QED  BY <1>3, <2>1, <2>2, <2>3, <2>4, <2>5, <2>6, AcceptClientServes, AcceptClientFailsServes, LoopStepServes,
              OtherServedServes DEF Server
<1> QED  BY <1>1, <1>2, <1>3 DEF Next

\* The server starts as HttpService does.
LEMMA InitServes == Init => Service!SInit
<1> SUFFICES ASSUME Init PROVE Service!SInit
  OBVIOUS
<1>1. \A c \in Clients : ~Here(c)
  BY Names DEF Here, Init, LoopInit
<1> QED  BY <1>1 DEF Service!SInit

\* The HTTP interface implements HttpService: whatever the interleaving of clients, receives,
\* writes, failures and hangups, each client is answered in order, once for each message that is
\* whole and as the message deserves, and nothing after its first BAD one, if one parser that
\* reads a conversation alone answers it so (OutcomesAgree).
THEOREM ServesAsPromised == ASSUME OutcomesAgree PROVE Spec => ServiceSpec
<1>1. Inv /\ PartsLeft /\ Inv' /\ [Next]_vars => [Service!SNext]_Shown
  BY NextServes
<1>2. [Service!SNext]_Shown => [Service!SNext]_<<Sent, Got, Answer>>
  BY DEF Shown
<1>3. Spec => []PartsLeft
  BY PartsStart, PartsHold, Held, PTL DEF Spec
<1> QED  BY <1>1, <1>3, InitServes, Held, PTL DEF Spec, ServiceSpec, Service!SSpec, Shown, Sent, Got, Answer

==============================================================================
