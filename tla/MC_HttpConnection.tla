-------------------------- MODULE MC_HttpConnection --------------------------
(* Message headers for checking HttpConnection.  BodyLen 2 admits two     *)
(* chunkings (one chunk of 2, two of 1), so a read can end mid-chunk,     *)
(* at a chunk boundary and at the last chunk.                              *)
EXTENDS HttpConnectionLife, TLC

Msg(method, status, cl, te, close) ==
  [method |-> method, status |-> status, cl |-> cl, te |-> te, close |-> close]

\* headers the pass run reads: framed by chunking or by length and close,
\* a coding getStream does not support, and messages with no body
FramedMessages ==
  { Msg("POST", INVALID, UNSET, <<"chunked">>, FALSE),
    Msg("GET", 200, UNSET, <<"chunked">>, TRUE),
    Msg("GET", 200, 2, <<>>, TRUE),
    Msg("GET", 200, UNSET, <<"gzip">>, FALSE),
    Msg("GET", 200, UNSET, <<>>, FALSE),
    Msg("GET", INVALID, UNSET, <<>>, FALSE),
    Msg("HEAD", 200, 2, <<>>, FALSE),
    Msg("GET", 204, UNSET, <<>>, FALSE),
    Msg("GET", 100, UNSET, <<"chunked">>, FALSE),
    Msg("GET", 304, 2, <<>>, FALSE),
    Msg("POST", INVALID, 0, <<>>, FALSE),
    Msg("GET", 200, 0, <<>>, FALSE) }

\* a response with Content-Length on a kept-alive connection
LengthKeepAlive == { Msg("GET", 200, 2, <<>>, FALSE) }

\* a response delimited by the peer closing the connection
CloseDelimited == { Msg("GET", 200, UNSET, <<>>, TRUE) }

TwoByteChunkings == { <<2>>, <<1, 1>> }
=============================================================================
