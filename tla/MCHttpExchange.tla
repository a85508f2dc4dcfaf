--------------------------- MODULE MCHttpExchange ---------------------------
(***************************************************************************)
(* Messages of all routes with up to one header line and one body unit, of *)
(* /move with up to two header lines, some with three, and up to three     *)
(* body units. The limits are small, so that headers and bodies exceed     *)
(* each of them: MaxHeader = 4 units (request line, two headers, empty     *)
(* line), while three headers need five; MaxBody = 2; the buffer is        *)
(* smaller than the longest message.                                       *)
(*                                                                         *)
(* A second is four nanoseconds or two microseconds, so that times have    *)
(* both parts and each of them rounds and carries; the timeout is a second *)
(* and a half. A worker that read the clock when it took the connection    *)
(* has its deadline at 9, and delays alone can take it there.              *)
(***************************************************************************)
EXTENDS HttpExchange

MCLines ==
  [valid : {TRUE}, method : {"POST"}, path : {"/move", "/start", "/other"}]
    \cup [valid : BOOLEAN, method : {"GET", "POST"}, path : {"/"}]
    \cup {[valid |-> TRUE, method |-> "GET", path |-> "/move"]}

MCHeaders ==
  {[name |-> "", value |-> 0], [name |-> "other", value |-> 0],
   [name |-> "transfer-encoding", value |-> Chunked],
   [name |-> "content-length", value |-> Unparsable]}
    \cup {[name |-> "content-length", value |-> n] : n \in {0, 1, 2, 3}}

MCShortLists ==
  {<<>>, <<[name |-> "other", value |-> 0]>>,
   <<[name |-> "transfer-encoding", value |-> Chunked]>>,
   <<[name |-> "content-length", value |-> 1]>>}
MCLists ==
  {<<h>> : h \in MCHeaders} \cup {<<g, h>> : g, h \in MCHeaders}
    \cup {<<[name |-> "other", value |-> 0], h, h>> : h \in MCHeaders}

MCMove == [valid |-> TRUE, method |-> "POST", path |-> "/move"]

MCMessages ==
  [line : MCLines, headers : MCShortLists, body : {0, 1}]
    \cup [line : {MCMove}, headers : MCLists, body : 0 .. 3]

MCStarts == {3}
=============================================================================
