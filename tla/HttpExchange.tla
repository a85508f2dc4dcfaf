---------------------------- MODULE HttpExchange ----------------------------
(***************************************************************************)
(* One connection in the hands of a worker: the read loop of               *)
(* handle_connection, which decides when a request is whole, and           *)
(* BsHandleHttpRequestTimed, which parses what was read and answers it.    *)
(*                                                                         *)
(* Bytes are counted in units: the request line, each header line and the  *)
(* empty line are one unit each, a body is Content-Length units. Reader    *)
(* and parser look for Content-Length separately, and read() returns the   *)
(* client's bytes in pieces of any size.                                   *)
(*                                                                         *)
(* Time is counted in nanoseconds. It passes while read() blocks, as far   *)
(* as the timeout that the reader handed the kernel lets it, and while the *)
(* worker is kept from running between its steps.                          *)
(***************************************************************************)
EXTENDS ReceiveDeadline, Sequences, FiniteSetsExt

CONSTANTS
  Messages,      \* what the client may send: [line, headers, body]
  RequestBytes,  \* config.request_bytes, the size of the buffer
  MaxHeader,     \* BS_HTTP_MAX_HEADER_BYTES
  MaxBody,       \* BS_HTTP_MAX_BODY_BYTES
  IoTimeout,     \* config.io_timeout_ms
  Starts,        \* when a worker may take the connection from the queue
  Horizon        \* until when it may be kept from running

\* A header line has a name and a value; of the values only the lengths and
\* "chunked" matter. A line without a colon has the name "".
Unparsable == -2  \* a value that is not a length
Chunked == -3
Header ==
  [name : {"content-length"}, value : Nat \cup {Unparsable}]
    \cup [name : {"", "transfer-encoding", "other"}, value : {0, Chunked}]

ASSUME ExchangeAssumption ==
  /\ RequestBytes \in Nat \ {0} /\ IoTimeout \in Nat \ {0}
  /\ MaxHeader \in Nat \ {0} /\ MaxBody \in Nat
  /\ Starts \subseteq Nat /\ Horizon \in Nat
  /\ \A m \in Messages : m.headers \in Seq(Header) /\ m.body \in Nat

VARIABLES
  message,          \* what the client sends
  pc,
  now,              \* CLOCK_MONOTONIC
  read_started_at,  \* NoTime while the clock could not be read
  read_deadline,    \* a timespec
  time_left,        \* how much longer the read() in progress may block
  waited,           \* how long the worker was blocked in read() so far
  used,             \* bytes in the request buffer
  have_target, target_len,
  cut,              \* why the loop ended, if not with a whole request
  board,            \* game_request.board: "none", "allocated" or "freed"
  status            \* result.status_code, 0 until there is one

times == <<now, read_started_at, read_deadline, time_left, waited>>
reader == <<used, have_target, target_len, cut>>
vars == <<message, pc, times, reader, board, status>>

NoTime == -1

Total(m) == 2 + Len(m.headers) + m.body
HeaderLen(m) == 2 + Len(m.headers)

-----------------------------------------------------------------------------
(* Changed forms, one plausible bug each. *)

\* gives every read() the whole timeout again
TimeLeft_PerRead ==
  Left(DeadlineAfterMs(Timespec(now), IoTimeout), Timespec(now))

\* stops at the end of the header
FrameLength_HeaderOnly(m) == HeaderLen(m)

\* the parser takes the last Content-Length and ignores the others
Contradicts_Never(m, i) == FALSE

-----------------------------------------------------------------------------
(* The reader. *)

Least(a, b) == IF a < b THEN a ELSE b

\* The header lines that are a Content-Length, by number.
LengthLines(m) == {i \in DOMAIN m.headers : m.headers[i].name = "content-length"}

\* The first Content-Length, if that one can be parsed.
FirstLength(m) ==
  LET value == m.headers[Min(LengthLines(m))].value
  IN  IF LengthLines(m) # {} /\ value # Unparsable THEN value ELSE 0

\* BsHttpRequestFrameLength once the header terminator is there.
FrameLength(m) == HeaderLen(m) + FirstLength(m)

\* A worker took the connection; the clock may have failed it then.
Init ==
  /\ message \in Messages
  /\ pc = "begin"
  /\ now \in Starts /\ read_started_at \in {now, NoTime}
  /\ read_deadline = Timespec(0) /\ time_left = 0 /\ waited = 0
  /\ used = 0 /\ have_target = FALSE /\ target_len = 0 /\ cut = "no"
  /\ board = "none" /\ status = 0

\* The deadline of the whole request, and the buffers.
Prepare ==
  /\ pc = "begin"
  /\ read_started_at' = IF read_started_at = NoTime THEN now ELSE read_started_at
  /\ read_deadline' = DeadlineAfterMs(Timespec(read_started_at'), IoTimeout)
  /\ pc' = "loop"
  /\ UNCHANGED <<message, now, time_left, waited, reader, board, status>>

\* The clock failed again, or there is no memory: no answer at all.
PrepareFails ==
  /\ pc = "begin"
  /\ pc' = "done"
  /\ UNCHANGED <<message, times, reader, board, status>>

\* The loop is left with what was read so far.
Cut(reason) == pc' = "handle" /\ cut' = reason /\ time_left' = 0

TimeLeft == Left(read_deadline, Timespec(now))

\* apply_receive_timeout_until sets the timeout of the next read().
ReadLoop ==
  /\ pc = "loop" /\ used < RequestBytes
  /\ ~IsOver(TimeLeft) /\ IsAccepted(ReceiveTimeout(TimeLeft))
  /\ time_left' = BlocksFor(ReceiveTimeout(TimeLeft))
  /\ pc' = "armed"
  /\ UNCHANGED <<message, now, read_started_at, read_deadline, waited, reader,
                 board, status>>

\* The buffer is full, or apply_receive_timeout_until returns false: nothing
\* is left, the kernel refuses the timeout, or a call fails for its own reasons.
ReadLoopEnds ==
  /\ pc = "loop"
  /\ IF used = RequestBytes THEN Cut("full")
     ELSE IF IsOver(TimeLeft) THEN Cut("expired")
     ELSE IF ~IsAccepted(ReceiveTimeout(TimeLeft)) THEN Cut("refused")
     ELSE Cut("failed")
  /\ UNCHANGED <<message, now, read_started_at, read_deadline, waited, used,
                 have_target, target_len, board, status>>

ReadBegins ==
  /\ pc = "armed"
  /\ pc' = "read"
  /\ UNCHANGED <<message, times, reader, board, status>>

\* read() returns n more bytes; the loop looks for the end of the request.
Read(n) ==
  /\ pc = "read"
  /\ n <= Least(Total(message), RequestBytes) - used
  /\ used' = used + n
  /\ IF ~have_target /\ used' >= HeaderLen(message)
     THEN /\ have_target' = TRUE
          /\ target_len' = IF FrameLength(message) <= RequestBytes
                           THEN FrameLength(message) ELSE used'
     ELSE UNCHANGED <<have_target, target_len>>
  /\ pc' = "received" /\ time_left' = 0
  /\ UNCHANGED <<message, now, read_started_at, read_deadline, waited, cut,
                 board, status>>

ReadMore == ~(have_target /\ used >= target_len)

Received ==
  /\ pc = "received"
  /\ pc' = IF ReadMore THEN "loop" ELSE "handle"
  /\ UNCHANGED <<message, times, reader, board, status>>

\* read() fails or is at the end of the stream: the client closed, or the read
\* half was shut down.
ReadEnds ==
  /\ pc = "read"
  /\ Cut("closed")
  /\ UNCHANGED <<message, now, read_started_at, read_deadline, waited, used,
                 have_target, target_len, board, status>>

\* read() fails with EAGAIN.
ReadTimesOut ==
  /\ pc = "read" /\ time_left = 0
  /\ Cut("expired")
  /\ UNCHANGED <<message, now, read_started_at, read_deadline, waited, used,
                 have_target, target_len, board, status>>

\* read() fails with EINTR.
Interrupted ==
  /\ pc = "read"
  /\ pc' = "loop" /\ time_left' = 0
  /\ UNCHANGED <<message, now, read_started_at, read_deadline, waited, reader,
                 board, status>>

-----------------------------------------------------------------------------
(* The parser. *)

\* A length that is not the one before it.
Contradicts(m, i) ==
  \E j \in LengthLines(m) : j < i /\ m.headers[j].value # m.headers[i].value

LineVerdict(m, i) ==
  LET h == m.headers[i]
  IN  IF h.name = "" THEN "malformed"
      ELSE IF i \notin LengthLines(m) THEN "ok"
      ELSE IF h.value = Unparsable \/ Contradicts(m, i) THEN "malformed"
      ELSE IF h.value > MaxBody THEN "too_large" ELSE "ok"

\* The header lines in order; the first offence decides.
HeadersVerdict(m) ==
  LET offences == {i \in DOMAIN m.headers : LineVerdict(m, i) # "ok"}
  IN  IF offences = {} THEN "ok" ELSE LineVerdict(m, Min(offences))

\* bs_parse_request of the first n bytes of m. Without any header line the
\* request line ends where the header terminator begins, which is malformed.
\* The last length stays; after an offence nothing but the verdict counts.
ParseRequest(m, n) ==
  [verdict |-> IF n > MaxHeader + MaxBody THEN "too_large"
               ELSE IF HeaderLen(m) > Least(n, MaxHeader)
               THEN IF n > MaxHeader THEN "too_large" ELSE "malformed"
               ELSE IF m.headers = <<>> \/ ~m.line.valid THEN "malformed"
               ELSE HeadersVerdict(m),
   content_length |-> IF LengthLines(m) = {} THEN -1
                      ELSE m.headers[Max(LengthLines(m))].value,
   chunked |-> \E i \in DOMAIN m.headers :
     m.headers[i] = [name |-> "transfer-encoding", value |-> Chunked],
   body_offset |-> HeaderLen(m)]

BodyMismatch(view, n) == view.content_length # n - view.body_offset

\* The answer BsHandleHttpRequestTimed gives before it looks at the body, or
\* 0 when it goes on to parse it.
EarlyStatus(m, n) ==
  LET view == ParseRequest(m, n)
      known == m.line.path \in {"/", "/start", "/move", "/end"}
  IN  IF view.verdict = "too_large" THEN 413
      ELSE IF view.verdict = "malformed" THEN 400
      ELSE IF ~known THEN 404
      ELSE IF view.chunked THEN 501
      ELSE IF m.line.path = "/"
      THEN IF m.line.method # "GET" THEN 405
           ELSE IF view.body_offset # n THEN 400 ELSE 200
      ELSE IF m.line.method # "POST" THEN 405
      ELSE IF view.content_length = -1 THEN 400
      ELSE IF BodyMismatch(view, n) THEN 400 ELSE 0

Handle ==
  /\ pc = "handle"
  /\ status' = EarlyStatus(message, used)
  /\ pc' = IF status' = 0 THEN "parse" ELSE "done"
  /\ UNCHANGED <<message, times, reader, board>>

\* BsParseGameRequest: whatever fails, the board is not built or was freed.
ParseBody ==
  /\ pc = "parse"
  /\ \/ /\ board' = "allocated"
        /\ pc' = IF message.line.path = "/move" THEN "move" ELSE "acknowledge"
        /\ UNCHANGED status
     \/ /\ status' \in {400, 500}
        /\ pc' = "done"
        /\ UNCHANGED board
  /\ UNCHANGED <<message, times, reader>>

\* /start and /end
Acknowledge ==
  /\ pc = "acknowledge"
  /\ pc' = "done" /\ status' = 200 /\ board' = "freed"
  /\ UNCHANGED <<message, times, reader>>

\* /move: the search or the fallback, and its result as a body.
ChooseMove ==
  /\ pc = "move"
  /\ pc' = "done" /\ status' \in {200, 500} /\ board' = "freed"
  /\ UNCHANGED <<message, times, reader>>

-----------------------------------------------------------------------------
(* The clock. *)

\* read() blocks.
Wait ==
  /\ pc = "read" /\ time_left > 0
  /\ now' = now + 1 /\ waited' = waited + 1 /\ time_left' = time_left - 1
  /\ UNCHANGED <<message, pc, read_started_at, read_deadline, reader, board,
                 status>>

\* The worker is kept from running.
Elapse ==
  /\ pc \in {"begin", "loop", "armed"} /\ now < Horizon
  /\ now' = now + 1
  /\ UNCHANGED <<message, pc, read_started_at, read_deadline, time_left, waited,
                 reader, board, status>>

Finished == pc = "done" /\ UNCHANGED vars

Worker ==
  \/ Prepare \/ PrepareFails
  \/ ReadLoop \/ ReadLoopEnds \/ ReadBegins \/ Received \/ ReadTimesOut
  \/ Handle \/ ParseBody \/ Acknowledge \/ ChooseMove

Next ==
  \/ Worker \/ (\E n \in 1 .. RequestBytes : Read(n)) \/ ReadEnds \/ Interrupted
  \/ Wait \/ Elapse \/ Finished

\* The worker runs, and interruptions do not stop the clock; nothing is
\* assumed of the client.
Fairness == WF_vars(Worker) /\ SF_vars(Wait)

Spec == Init /\ [][Next]_vars /\ Fairness

-----------------------------------------------------------------------------
\* First, only whole requests are acted on: a body is parsed only when it has
\* the length that every Content-Length of the request declares.
AcceptedIsWhole ==
  pc \in {"parse", "acknowledge", "move"} =>
    \A i \in DOMAIN message.headers :
      message.headers[i].name = "content-length" =>
        message.headers[i].value = used - HeaderLen(message)

\* Second, the worker never waits for more bytes of a request whose body the
\* handler would already accept.
NeverWaitsOnWhole ==
  pc \in {"loop", "armed", "read"} /\ used >= HeaderLen(message)
    => EarlyStatus(message, used) # 0

\* The reader, which decides when to stop reading, and the parser, which
\* decides what is a request, agree on where a request ends.
FramingAgrees == AcceptedIsWhole /\ NeverWaitsOnWhole

\* Nothing follows the body that the client declared.
Declared(m) == m.body = FirstLength(m)

\* How the network cuts a request into pieces does not change the answer: a
\* request that fits the buffer and is not cut short is answered like the
\* whole of it.
SegmentationIndependent ==
  pc = "handle" /\ cut = "no" /\ Declared(message)
    /\ Total(message) <= RequestBytes
  => EarlyStatus(message, used) = EarlyStatus(message, Total(message))

\* First, however many pieces, interruptions and delays there are, all the
\* read() calls of a request together block for less than the timeout and the
\* microsecond it is rounded up to, and none of them blocks for ever.
WaitIsBounded ==
  /\ waited < IoTimeout * NsPerMs + NsPerUs
  /\ pc \in {"armed", "read"} => time_left # Forever

\* Second, a client has all of its time: no read() gives up before the
\* deadline of the request, and the kernel never refuses the timeout.
NeverTooEarly ==
  /\ cut = "expired" => now >= read_started_at + IoTimeout * NsPerMs
  /\ cut # "refused"

\* The timeouts that apply_receive_timeout_until computes for one read() after
\* the other keep the deadline of the whole request, and no other.
ReadIsBounded == WaitIsBounded /\ NeverTooEarly

\* A worker gets rid of its connection, whatever the client does, and every
\* path out of the handler gives the board back.
ExchangeEnds == <>(pc = "done" /\ board # "allocated")
=============================================================================
