---------------------------- MODULE HttpConnection ----------------------------
(***************************************************************************)
(* HTTP message-body framing: HTTP::Connection::hasMessageBody and        *)
(* HTTP::Connection::getStream (src/mordor/common/http/connection.cpp),   *)
(* and a caller reading the body stream getStream returns, to EOF, over   *)
(* the connection's transport.                                             *)
(*                                                                         *)
(* The layers getStream stacks (FilterStream, ChunkedStream, NotifyStream) *)
(* are not in the repository's sources; their read and close are modelled *)
(* from spec.md 4.3, 4.5 and 4.6.                                          *)
(*                                                                         *)
(* The transport carries tokens: a body byte (named by its position in    *)
(* the body), a chunk-size line, a CRLF, a malformed size line, and the   *)
(* first byte of the next message on a kept-alive connection.  It ends    *)
(* in EOF when the peer closes; else a read of an empty transport blocks. *)
(***************************************************************************)
EXTENDS Integers, Sequences, SequencesExt

CONSTANTS
  Messages,    \* the parsed headers a message may carry: records
               \* [method, status, cl, te, close] (see MessageFields)
  BodyLen,     \* body bytes of a chunked or close-delimited message
  Chunkings,   \* how a chunked body is cut into chunks: size sequences
  DebugBuild   \* TRUE: assert() aborts; FALSE: NDEBUG, assert() is a no-op

INVALID == 0   \* Status INVALID: the headers are a request's
UNSET == -1    \* entity.contentLength == ~0: no Content-Length header

MessageFields ==
  [method : STRING, status : Int, cl : Int, te : Seq(STRING), close : BOOLEAN]

ASSUME Messages \subseteq MessageFields
ASSUME \A c \in Chunkings : FoldLeft(LAMBDA x, y : x + y, 0, c) = BodyLen
ASSUME DebugBuild \in BOOLEAN

VARIABLES
  msg,          \* the message's headers
  phase,        \* "idle" | "open" | "aborted" | "failed"
  layers,       \* the streams getStream stacked, innermost first
  wire,         \* the transport's unread tokens
  peerClosed,   \* the transport reaches EOF once wire is read
  cs,           \* ChunkedStream read state: "size" | "data" | "crlf" | "exhausted"
  rem,          \* bytes left in the current chunk
  got,          \* the bytes the body stream has returned to the caller
  bodyClosed,   \* the caller has closed the body stream
  fired,        \* NotifyStream handlers already invoked: SUBSET {"eof", "close"}
  done          \* how many times onDone (notifyOnEof) has been called

vars == <<msg, phase, layers, wire, peerClosed, cs, rem, got, bodyClosed,
          fired, done>>

-----------------------------------------------------------------------------
(* Connection::hasMessageBody (connection.cpp:38-84)                      *)

NotIdentity(m) == \E i \in 1..Len(m.te) : m.te[i] # "identity"

\* Seeded bug: the 204 No Content exception is missing
HasMessageBodyNo204(m) ==
  IF m.status = INVALID
  THEN /\ m.method \notin {"GET", "HEAD", "TRACE"}
       /\ (m.cl # UNSET /\ m.cl # 0) \/ NotIdentity(m)
  ELSE /\ m.method \notin {"HEAD", "TRACE"}
       /\ ~(m.status \in 100..199 \/ m.status = 304)
       /\ NotIdentity(m) \/ m.cl # 0

HasMessageBody(m) ==
  IF m.status = INVALID
  THEN /\ m.method \notin {"GET", "HEAD", "TRACE"}
       /\ (m.cl # UNSET /\ m.cl # 0) \/ NotIdentity(m)
  ELSE /\ m.method \notin {"HEAD", "TRACE"}
       /\ ~(m.status \in 100..199 \/ m.status \in {204, 304})
       /\ NotIdentity(m) \/ m.cl # 0

-----------------------------------------------------------------------------
(* Transport tokens and the wire a message arrives as                     *)

Byte(i)  == [t |-> "data", v |-> i]
Size(k)  == [t |-> "size", v |-> k]
CRLF     == [t |-> "crlf", v |-> 0]
BadSize  == [t |-> "bad",  v |-> 0]
NextMsg  == [t |-> "next", v |-> 0]
Tokens   == [t : {"data", "size", "crlf", "bad", "next"}, v : Nat]

Chunked(m) == \E i \in 1..Len(m.te) : m.te[i] = "chunked"

Body(m) ==
  [i \in 1..(IF ~Chunked(m) /\ m.cl # UNSET THEN m.cl ELSE BodyLen) |-> Byte(i)]

\* chunk i of chunking c: size line, its bytes, CRLF; then the last chunk
ChunkedEncoding(c) ==
  LET first(i) == FoldLeft(LAMBDA x, y : x + y, 1, SubSeq(c, 1, i - 1))
  IN FlattenSeq([i \in 1..Len(c) |->
                   <<Size(c[i])>> \o [j \in 1..c[i] |-> Byte(first(i) + j - 1)]
                     \o <<CRLF>>])
       \o <<Size(0), CRLF>>

\* What the peer sends for the body: well formed, or a malformed size line
Encodings(m) ==
  IF Chunked(m)
  THEN {ChunkedEncoding(c) : c \in Chunkings} \cup {<<BadSize>>}
  ELSE {Body(m)}

-----------------------------------------------------------------------------
(* Reading through the layers.  Each operator is the set of outcomes of   *)
(* one read() call, [ok, bytes, wire, cs, rem]; the empty set when the    *)
(* call blocks.  The transport returns any positive number of the bytes   *)
(* it has (partial reads); 0 only at EOF.                                 *)

Fail == [ok |-> FALSE, bytes |-> <<>>, wire |-> wire, cs |-> cs, rem |-> rem]
Ret(b, w, c, r) == [ok |-> TRUE, bytes |-> b, wire |-> w, cs |-> c, rem |-> r]
Drop(w, k) == SubSeq(w, k + 1, Len(w))
MinOf(a, b) == IF a <= b THEN a ELSE b

\* FilterStream over the connection's stream: bytes as they come
PlainReads ==
  IF wire # <<>>
  THEN {Ret(SubSeq(wire, 1, k), Drop(wire, k), cs, rem) : k \in 1..Len(wire)}
  ELSE IF peerClosed THEN {Ret(<<>>, wire, cs, rem)} ELSE {}

LeadingData(w) ==
  LET n == {k \in 0..Len(w) : \A j \in 1..k : w[j].t = "data"} IN Max(n)

\* ChunkedStream InChunk(r) (spec.md 4.6): up to r body bytes of w; at the
\* end of the chunk, its CRLF is awaited next
DataReads(w, r) ==
  LET avail == MinOf(r, LeadingData(w))
  IN IF avail = 0
     THEN IF w = <<>> /\ ~peerClosed THEN {} ELSE {Fail}
     ELSE {Ret(SubSeq(w, 1, k), Drop(w, k), IF k = r THEN "crlf" ELSE "data", r - k)
             : k \in 1..avail}


\* ChunkedStream AwaitingSize: the size line; 0 ends the body after an
\* empty trailer; a malformed line is MalformedChunk; EOF is TruncatedBody
SizeReads(w) ==
  IF w = <<>> THEN IF peerClosed THEN {Fail} ELSE {}
  ELSE LET h == Head(w) IN
       CASE h = Size(0) ->
              IF Len(w) >= 2 /\ w[2] = CRLF THEN {Ret(<<>>, Drop(w, 2), "exhausted", 0)}
              ELSE IF Len(w) = 1 /\ ~peerClosed THEN {} ELSE {Fail}
         [] h.t = "size" -> DataReads(Tail(w), h.v)
         [] OTHER -> {Fail}

ChunkedReads ==
  CASE cs = "exhausted" -> {Ret(<<>>, wire, cs, rem)}
    [] cs = "size"      -> SizeReads(wire)
    [] cs = "data"      -> DataReads(wire, rem)
    [] cs = "crlf"      ->
         IF wire = <<>> THEN IF peerClosed THEN {Fail} ELSE {}
         ELSE IF Head(wire) = CRLF THEN SizeReads(Tail(wire)) ELSE {Fail}

HasLayer(k) == \E i \in 1..Len(layers) : layers[i] = k

LayerReads == IF HasLayer("chunked") THEN ChunkedReads ELSE PlainReads

-----------------------------------------------------------------------------
(* Connection::getStream (connection.cpp:86-147)                          *)

\* assert(cond): aborts a debug build, is skipped by a release build
Asserts(cond) == DebugBuild /\ ~cond

\* The loop over transferEncoding: "chunked" stacks ChunkedStream and a
\* NotifyStream; every other token is assert(false)
\* Seeded bug: the chunked branch stacks nothing
CodingLayersNoChunked(m) == <<>>

CodingLayers(m) ==
  FlattenSeq([i \in 1..Len(m.te) |->
                IF m.te[i] = "chunked" THEN <<"chunked", "notify">> ELSE <<>>])

GetStreamAborts(m) ==
  \/ \E i \in 1..Len(m.te) : m.te[i] # "chunked" /\ Asserts(FALSE)
  \/ CodingLayers(m) = <<>> /\ m.cl = UNSET /\ Asserts(m.close)

\* Seeded bug: the Content-Length path stacks no NotifyStream either
GetStreamLayersNoNotify(m) ==
  <<"filter">> \o (IF CodingLayers(m) # <<>> THEN CodingLayers(m) ELSE <<>>)

GetStreamLayers(m) ==
  <<"filter">> \o
    CASE CodingLayers(m) # <<>> -> CodingLayers(m)
      [] m.cl # UNSET           -> <<"notify">>
      [] OTHER                  -> <<>>

Init ==
  /\ msg \in Messages
  /\ \E e \in Encodings(msg) :
       \/ wire = e \o (IF msg.close THEN <<>> ELSE <<NextMsg>>) /\ peerClosed = msg.close
       \* the peer closes the connection part way through the body
       \/ \E k \in 0..Len(e) - 1 : wire = SubSeq(e, 1, k) /\ peerClosed = TRUE
  /\ phase = "idle"
  /\ layers = <<>>
  /\ cs = "size" /\ rem = 0
  /\ got = <<>>
  /\ bodyClosed = FALSE
  /\ fired = {}
  /\ done = 0

\* The caller, having parsed the headers, asks for the body stream of a
\* message that has one
GetStream ==
  /\ phase = "idle"
  /\ HasMessageBody(msg)
  /\ IF GetStreamAborts(msg)
     THEN phase' = "aborted" /\ UNCHANGED layers
     ELSE phase' = "open" /\ layers' = GetStreamLayers(msg)
  /\ UNCHANGED <<msg, wire, peerClosed, cs, rem, got, bodyClosed, fired, done>>

\* Seeded bug: the handler is invoked on every event, not only the first
NotifyEveryTime(event) ==
  IF HasLayer("notify")
  THEN fired' = fired \cup {event} /\ done' = done + 1
  ELSE UNCHANGED <<fired, done>>

\* NotifyStream invokes a handler on an event at most once (spec.md 4.5);
\* getStream bound notifyOnEof and notifyOnClose to the same onDone
Notify(event) ==
  IF HasLayer("notify") /\ event \notin fired
  THEN fired' = fired \cup {event} /\ done' = done + 1
  ELSE UNCHANGED <<fired, done>>

\* The caller's read() of the body stream
ReadBody ==
  /\ phase = "open" /\ ~bodyClosed
  /\ \E r \in LayerReads :
       IF ~r.ok
       THEN phase' = "failed" /\ UNCHANGED <<wire, cs, rem, got, fired, done>>
       ELSE /\ wire' = r.wire /\ cs' = r.cs /\ rem' = r.rem
            /\ got' = got \o r.bytes
            /\ IF r.bytes = <<>> THEN Notify("eof") ELSE UNCHANGED <<fired, done>>
            /\ UNCHANGED phase
  /\ UNCHANGED <<msg, layers, peerClosed, bodyClosed>>

\* The caller's close() of the body stream
CloseBody ==
  /\ phase = "open" /\ ~bodyClosed
  /\ bodyClosed' = TRUE
  /\ Notify("close")
  /\ UNCHANGED <<msg, phase, layers, wire, peerClosed, cs, rem, got>>

Next == GetStream \/ ReadBody \/ CloseBody

\* The caller's loop reads until read() returns 0
Spec == Init /\ [][Next]_vars /\ WF_vars(GetStream) /\ WF_vars(ReadBody)

-----------------------------------------------------------------------------
(* Properties                                                              *)

TypeOK ==
  /\ msg \in Messages
  /\ phase \in {"idle", "open", "aborted", "failed"}
  /\ layers \in Seq({"filter", "chunked", "notify"})
  /\ cs \in {"size", "data", "crlf", "exhausted"} /\ rem \in 0..BodyLen
  /\ wire \in Seq(Tokens) /\ peerClosed \in BOOLEAN /\ bodyClosed \in BOOLEAN
  /\ fired \subseteq {"eof", "close"} /\ done \in 0..2

\* hasMessageBody as spec.md 4.7 states RFC 2616 4.4, rule by rule
SpecHasBody(m) ==
  IF m.status = INVALID
  THEN CASE m.method \in {"GET", "HEAD", "TRACE"} -> FALSE
         [] m.cl # UNSET /\ m.cl > 0              -> TRUE
         [] NotIdentity(m)                        -> TRUE
         [] OTHER                                 -> FALSE
  ELSE CASE m.method \in {"HEAD", "TRACE"}                 -> FALSE
         [] m.status \in 100..199 \cup {204, 304}          -> FALSE
         [] NotIdentity(m)                                 -> TRUE
         [] m.cl = 0                                       -> FALSE
         [] OTHER                                          -> TRUE

\* hasMessageBody (connection.cpp:38-84) decides the message's headers as
\* the RFC 2616 4.4 rules of spec.md 4.7 do, so a body is neither skipped
\* (left on the wire as the next message) nor waited for when there is none.
HasMessageBodyMatchesSpec == HasMessageBody(msg) = SpecHasBody(msg)

\* Whatever the transport's partial reads and however the body is cut into
\* chunks, the body stream returns only the message's body bytes, in order:
\* never a framing token and never a byte of the next message on a
\* kept-alive connection (connection.cpp:104-146 picks the framing).
BodyIsExact == IsPrefix(got, Body(msg))

\* onDone, which tells the connection the next message may be read, is
\* called at most once per body (spec.md 7: "fires exactly once"), although
\* connection.cpp:114-115 binds it to both notifyOnEof and notifyOnClose,
\* as spec.md 4.7 prescribes: a body read to EOF and then closed fires twice.
DoneFiresOnce == done <= 1

\* A caller that reads the body stream until read() returns 0 eventually
\* sees onDone, unless the framing fails (connection.cpp:130-146).
DoneEventually == (phase = "open") ~> (done > 0 \/ phase = "failed")

=============================================================================
