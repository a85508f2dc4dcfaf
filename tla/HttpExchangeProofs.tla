------------------------- MODULE HttpExchangeProofs -------------------------
(***************************************************************************)
(* One exchange, for every request, every size of the buffer and every     *)
(* limit of the parser, however the network cuts the request into pieces:  *)
(* reader and parser agree on where a request ends.  For every timeout,    *)
(* every number of nanoseconds in a microsecond and every delay, the       *)
(* timeouts of all the read() calls together keep the one deadline of the  *)
(* request.                                                                *)
(***************************************************************************)
EXTENDS HttpExchange, WellFoundedInduction, TLAPS

ExchangeTypes ==
  /\ message \in Messages
  /\ used \in 0 .. Total(message) /\ target_len \in Nat
  /\ have_target \in BOOLEAN
  /\ pc \in {"begin", "loop", "armed", "read", "received", "handle", "parse",
             "acknowledge", "move", "done"}

\* A time or a difference of times in seconds and nanoseconds.
Stamps == [tv_sec : Int, tv_nsec : 0 .. NsPerSec - 1]
InNs(ts) == ts.tv_sec * NsPerSec + ts.tv_nsec

\* How long a request may take.
Allowed == IoTimeout * NsPerMs

\* The deadline is that of the whole request.  A read() that may block is over
\* in time, and not before the deadline.
TimeInv ==
  /\ now \in Nat /\ waited \in Nat /\ time_left \in Nat
  /\ waited < Allowed + NsPerUs
  /\ pc = "begin" =>
       waited = 0 /\ (read_started_at \in 0 .. now \/ read_started_at = NoTime)
  /\ pc \in {"loop", "armed", "read", "received"} =>
       /\ read_started_at \in Nat /\ read_deadline \in Stamps
       /\ InNs(read_deadline) = read_started_at + Allowed
       /\ waited <= now - read_started_at
  /\ pc \in {"armed", "read"} =>
       /\ waited + time_left < Allowed + NsPerUs
       /\ now + time_left >= read_started_at + Allowed
  /\ pc \in {"begin", "loop", "armed", "read", "received"} => cut = "no"
  /\ cut = "expired" => now >= read_started_at + Allowed
  /\ cut # "refused"

\* The reader has a target as soon as it has the header: the length of the
\* frame, or what it had then if the buffer is too small for the frame.  It
\* goes on below its target, and stops there unless it was cut short.
FrameInv ==
  /\ have_target <=> used >= HeaderLen(message)
  /\ have_target =>
       IF FrameLength(message) <= RequestBytes
       THEN target_len = FrameLength(message) ELSE target_len <= used
  /\ pc \in {"begin", "loop", "armed", "read"} => ReadMore
  /\ pc = "handle" /\ cut = "no" => ~ ReadMore

\* What is beyond the early answers had none.
AnswerInv ==
  pc \in {"parse", "acknowledge", "move"} => EarlyStatus(message, used) = 0

ExchangeInv == ExchangeTypes /\ TimeInv /\ FrameInv /\ AnswerInv

-----------------------------------------------------------------------------
(* Seconds, nanoseconds and microseconds. *)

\* A second has as many nanoseconds by its microseconds as by its milliseconds.
LEMMA Units ==
  /\ NsPerSec \in Nat \ {0} /\ Allowed \in Nat
  /\ NsPerSec = NsPerMs * MsPerSec /\ NsPerSec = NsPerUs * UsPerSec
<1>1. \A a, b \in Nat \ {0} : a * b \in Nat \ {0}
  OBVIOUS
<1> QED BY <1>1, UnitsAssumption, ExchangeAssumption DEF NsPerSec, Allowed

LEMMA DivisionWithRest ==
  ASSUME NEW a \in Nat, NEW b \in Nat \ {0}
  PROVE  /\ a \div b \in Nat /\ a % b \in 0 .. b - 1
         /\ a = b * (a \div b) + (a % b)
OBVIOUS

\* A division that rounds up.
LEMMA RoundedUp ==
  ASSUME NEW d \in Nat, NEW m \in Nat \ {0}
  PROVE  /\ (d + m - 1) \div m \in Nat
         /\ ((d + m - 1) \div m) * m >= d
         /\ ((d + m - 1) \div m) * m < d + m
<1>1. d + m - 1 \in Nat
  OBVIOUS
<1>2. /\ (d + m - 1) \div m \in Nat /\ (d + m - 1) % m \in 0 .. m - 1
      /\ d + m - 1 = m * ((d + m - 1) \div m) + ((d + m - 1) % m)
  BY <1>1, DivisionWithRest
<1> QED BY <1>2

\* The timespec of a time stands for it.
LEMMA TimespecValue ==
  ASSUME NEW t \in Nat
  PROVE  Timespec(t) \in Stamps /\ InNs(Timespec(t)) = t
<1>1. /\ t \div NsPerSec \in Nat /\ t % NsPerSec \in 0 .. NsPerSec - 1
      /\ t = NsPerSec * (t \div NsPerSec) + (t % NsPerSec)
  BY DivisionWithRest, Units
<1> QED BY <1>1, Units DEF Timespec, InNs, Stamps

\* deadline_after_ms adds the timeout, and one carry is enough.
LEMMA DeadlineValue ==
  ASSUME NEW start \in Stamps, NEW ms \in Nat
  PROVE  /\ DeadlineAfterMs(start, ms) \in Stamps
         /\ InNs(DeadlineAfterMs(start, ms)) = InNs(start) + ms * NsPerMs
<1> DEFINE q == ms \div MsPerSec
           r == ms % MsPerSec
           more == r * NsPerMs
<1>1. q \in Nat /\ r \in 0 .. MsPerSec - 1 /\ ms = MsPerSec * q + r
  BY DivisionWithRest, UnitsAssumption
<1> HIDE DEF q, r
<1>2. more \in 0 .. NsPerSec - 1
  <2>1. \A a, b, c \in Nat : a <= b => a * c <= b * c
    OBVIOUS
  <2>2. r * NsPerMs <= (MsPerSec - 1) * NsPerMs
    BY <1>1, <2>1, UnitsAssumption
  <2>3. (MsPerSec - 1) * NsPerMs = NsPerSec - NsPerMs
    BY UnitsAssumption, Units
  <2>4. r * NsPerMs \in Nat
    BY <1>1, UnitsAssumption
  <2> QED BY <2>2, <2>3, <2>4, Units, UnitsAssumption
<1>3. ms * NsPerMs = q * NsPerSec + more
  <2>1. (MsPerSec * q + r) * NsPerMs = q * (NsPerMs * MsPerSec) + r * NsPerMs
    BY <1>1, UnitsAssumption
  <2> QED BY <1>1, <2>1, Units
<1> HIDE DEF more
<1>4. start.tv_sec \in Int /\ start.tv_nsec \in 0 .. NsPerSec - 1
  BY DEF Stamps
<1> DEFINE sec == start.tv_sec + q
           nsec == start.tv_nsec + more
<1>5. /\ sec \in Int /\ nsec \in Nat /\ nsec < NsPerSec + NsPerSec
      /\ sec * NsPerSec = start.tv_sec * NsPerSec + q * NsPerSec
  BY <1>1, <1>2, <1>4, Units
<1>6. DeadlineAfterMs(start, ms) =
        IF nsec >= NsPerSec THEN [tv_sec |-> sec + 1, tv_nsec |-> nsec - NsPerSec]
                            ELSE [tv_sec |-> sec, tv_nsec |-> nsec]
  BY DEF DeadlineAfterMs, q, r, more
<1>7. sec * NsPerSec + nsec = InNs(start) + ms * NsPerMs
  BY <1>1, <1>2, <1>3, <1>4, <1>5, Units DEF InNs
<1> HIDE DEF sec, nsec
<1>8. (sec + 1) * NsPerSec = sec * NsPerSec + NsPerSec
  BY <1>5, Units
<1>9. CASE nsec >= NsPerSec
  BY <1>5, <1>6, <1>7, <1>8, <1>9, Units DEF InNs, Stamps
<1>10. CASE nsec < NsPerSec
  BY <1>5, <1>6, <1>7, <1>10, Units DEF InNs, Stamps
<1> QED BY <1>5, <1>9, <1>10, Units

\* What is left is the difference, and one borrow is enough.
LEMMA LeftValue ==
  ASSUME NEW deadline \in Stamps, NEW time \in Stamps
  PROVE  /\ Left(deadline, time) \in Stamps
         /\ InNs(Left(deadline, time)) = InNs(deadline) - InNs(time)
<1> DEFINE sec == deadline.tv_sec - time.tv_sec
           nsec == deadline.tv_nsec - time.tv_nsec
<1>1. /\ deadline.tv_sec \in Int /\ deadline.tv_nsec \in 0 .. NsPerSec - 1
      /\ time.tv_sec \in Int /\ time.tv_nsec \in 0 .. NsPerSec - 1
  BY DEF Stamps
<1>2. /\ sec \in Int /\ nsec \in Int
      /\ nsec < NsPerSec /\ nsec + NsPerSec > 0
      /\ sec * NsPerSec = deadline.tv_sec * NsPerSec - time.tv_sec * NsPerSec
  BY <1>1, Units
<1>3. sec * NsPerSec + nsec = InNs(deadline) - InNs(time)
  BY <1>1, <1>2, Units DEF InNs
<1>4. Left(deadline, time) =
        IF nsec < 0 THEN [tv_sec |-> sec - 1, tv_nsec |-> nsec + NsPerSec]
                    ELSE [tv_sec |-> sec, tv_nsec |-> nsec]
  BY DEF Left
<1> HIDE DEF sec, nsec
<1>5. (sec - 1) * NsPerSec = sec * NsPerSec - NsPerSec
  BY <1>2, Units
<1>6. CASE nsec < 0
  BY <1>2, <1>3, <1>4, <1>5, <1>6, Units DEF InNs, Stamps
<1>7. CASE nsec >= 0
  BY <1>2, <1>3, <1>4, <1>7, Units DEF InNs, Stamps
<1> QED BY <1>2, <1>6, <1>7

\* The time is over exactly when nothing is left.
LEMMA OverValue ==
  ASSUME NEW left \in Stamps
  PROVE  IsOver(left) <=> InNs(left) <= 0
<1>1. left.tv_sec \in Int /\ left.tv_nsec \in 0 .. NsPerSec - 1
  BY DEF Stamps
<1>2. CASE left.tv_sec < 0
  <2>1. left.tv_sec * NsPerSec <= (-1) * NsPerSec
    BY <1>1, <1>2, Units
  <2> QED BY <1>1, <1>2, <2>1, Units DEF IsOver, InNs
<1>3. CASE left.tv_sec = 0
  BY <1>1, <1>3, Units DEF IsOver, InNs
<1>4. CASE left.tv_sec > 0
  <2>1. left.tv_sec * NsPerSec >= 1 * NsPerSec
    BY <1>1, <1>4, Units
  <2> QED BY <1>1, <1>4, <2>1, Units DEF IsOver, InNs
<1> QED BY <1>1, <1>2, <1>3, <1>4

\* The timeout covers what is left by less than a microsecond; the kernel
\* takes it, and it is never the zero that means for ever.
LEMMA TimeoutValue ==
  ASSUME NEW left \in Stamps, ~ IsOver(left)
  PROVE  LET timeval == ReceiveTimeout(left)
         IN  /\ IsAccepted(timeval) /\ BlocksFor(timeval) \in Nat
             /\ BlocksFor(timeval) >= InNs(left)
             /\ BlocksFor(timeval) < InNs(left) + NsPerUs
<1> DEFINE usec == (left.tv_nsec + NsPerUs - 1) \div NsPerUs
           sec == left.tv_sec
           timeval == ReceiveTimeout(left)
           ns == (timeval.tv_sec * UsPerSec + timeval.tv_usec) * NsPerUs
<1>1. /\ sec \in Int /\ left.tv_nsec \in 0 .. NsPerSec - 1
      /\ InNs(left) = sec * NsPerSec + left.tv_nsec /\ InNs(left) > 0
      /\ InNs(left) \in Int
  BY OverValue, Units DEF Stamps, InNs
<1>2. /\ usec \in Nat /\ usec * NsPerUs >= left.tv_nsec
      /\ usec * NsPerUs < left.tv_nsec + NsPerUs
  <2>1. left.tv_nsec \in Nat
    BY <1>1
  <2> QED BY <2>1, RoundedUp, UnitsAssumption
<1>3. /\ timeval.tv_usec =
           IF usec >= UsPerSec THEN usec - UsPerSec ELSE usec
      /\ timeval.tv_sec = IF usec >= UsPerSec THEN sec + 1 ELSE sec
  BY DEF ReceiveTimeout
<1> HIDE DEF usec, sec, timeval
<1>4. usec <= UsPerSec
  <2>1. \A a, b, c \in Nat : a >= b + 1 => a * c >= b * c + c
    <3>1. \A a, b, c \in Nat : a >= b => a * c >= b * c
      OBVIOUS
    <3>2. \A b, c \in Nat : (b + 1) * c = b * c + c /\ b + 1 \in Nat
      OBVIOUS
    <3> QED BY <3>1, <3>2
  <2>2. usec >= UsPerSec + 1 => usec * NsPerUs >= UsPerSec * NsPerUs + NsPerUs
    BY <1>2, <2>1, UnitsAssumption
  <2>3. UsPerSec * NsPerUs = NsPerSec
    BY UnitsAssumption, Units
  <2>4. usec * NsPerUs \in Nat
    BY <1>2, UnitsAssumption
  <2> QED BY <1>1, <1>2, <2>2, <2>3, <2>4, UnitsAssumption, Units
<1>5. IsAccepted(timeval)
  BY <1>2, <1>3, <1>4, UnitsAssumption DEF IsAccepted
<1>6. ns = sec * NsPerSec + usec * NsPerUs
  <2>1. timeval.tv_sec * UsPerSec + timeval.tv_usec = sec * UsPerSec + usec
    <3>1. (sec + 1) * UsPerSec = sec * UsPerSec + UsPerSec
      BY <1>1, UnitsAssumption
    <3>2. sec * UsPerSec \in Int
      BY <1>1, UnitsAssumption
    <3> QED BY <1>2, <1>3, <3>1, <3>2, UnitsAssumption
  <2>2. (sec * UsPerSec + usec) * NsPerUs
          = sec * (NsPerUs * UsPerSec) + usec * NsPerUs
    BY <1>1, <1>2, UnitsAssumption
  <2> QED BY <2>1, <2>2, Units
<1>7. ns >= InNs(left) /\ ns < InNs(left) + NsPerUs /\ ns \in Int
  <2>1. sec * NsPerSec \in Int /\ usec * NsPerUs \in Nat
    BY <1>1, <1>2, Units, UnitsAssumption
  <2> QED BY <1>1, <1>2, <1>6, <2>1, UnitsAssumption
<1>8. BlocksFor(timeval) = ns
  BY <1>1, <1>7 DEF BlocksFor
<1> QED BY <1>1, <1>5, <1>7, <1>8 DEF timeval

-----------------------------------------------------------------------------
(* Where a request ends. *)

\* Every set of numbers that is not empty has a least one.
LEMMA LeastNumber ==
  ASSUME NEW S \in SUBSET Nat, S # {}
  PROVE  \E n \in S : \A m \in S : n <= m
<1> DEFINE R == {p \in Nat \X Nat : p[1] < p[2]}
<1>1. IsWellFoundedOn(R, Nat)
  <2>1. OpToRel(<, Nat) = R
    BY DEF OpToRel
  <2> QED BY <2>1, NatLessThanWellFounded
<1>2. PICK n \in S : \A m \in S : ~ (<<m, n>> \in R)
  <2> HIDE DEF R
  <2> QED BY <1>1, WFMin
<1>3. ASSUME NEW m \in S PROVE n <= m
  <2>1. m \in Nat /\ n \in Nat /\ ~ (<<m, n>> \in R)
    BY <1>2
  <2>2. ~ (m < n)
    BY <2>1
  <2> QED BY <2>1, <2>2
<1> QED BY <1>3

\* A header line is one, and its number is a number.
LEMMA HeaderLines ==
  ASSUME NEW m \in Messages
  PROVE  /\ LengthLines(m) \in SUBSET (DOMAIN m.headers)
         /\ DOMAIN m.headers \in SUBSET Nat
         /\ Len(m.headers) \in Nat /\ m.body \in Nat
         /\ \A i \in LengthLines(m) :
              m.headers[i].value \in Nat \cup {Unparsable}
<1>1. m.headers \in Seq(Header) /\ m.body \in Nat
  BY ExchangeAssumption
<1>2. \A i \in DOMAIN m.headers : m.headers[i] \in Header
  BY <1>1
<1>3. \A h \in Header :
        h.name = "content-length" => h.value \in Nat \cup {Unparsable}
  BY DEF Header
<1>4. DOMAIN m.headers = 1 .. Len(m.headers) /\ Len(m.headers) \in Nat
  BY <1>1
<1> QED BY <1>1, <1>2, <1>3, <1>4 DEF LengthLines

\* A set of numbers up to n has a greatest one.
LEMMA GreatestNumber ==
  ASSUME NEW n \in Nat, NEW S \in SUBSET (1 .. n), S # {}
  PROVE  \E g \in S : \A m \in S : g >= m
<1> DEFINE T == {n - m : m \in S}
<1>1. T \in SUBSET Nat /\ T # {}
  <2>1. ASSUME NEW m \in S PROVE n - m \in Nat
    OBVIOUS
  <2>2. PICK m \in S : TRUE
    OBVIOUS
  <2>3. n - m \in T
    OBVIOUS
  <2> QED BY <2>1, <2>3
<1>2. PICK t \in T : \A u \in T : t <= u
  <2> HIDE DEF T
  <2> QED BY <1>1, LeastNumber
<1>3. PICK g \in S : t = n - g
  OBVIOUS
<1>4. ASSUME NEW m \in S PROVE g >= m
  <2>1. n - g <= n - m
    BY <1>2, <1>3
  <2> QED BY <2>1
<1> QED BY <1>4

\* The first Content-Length is one of them, and so is the last.
LEMMA FirstLine ==
  ASSUME NEW m \in Messages, LengthLines(m) # {}
  PROVE  /\ Min(LengthLines(m)) \in LengthLines(m)
         /\ Max(LengthLines(m)) \in LengthLines(m)
<1> DEFINE S == LengthLines(m)
<1>1. S \in SUBSET Nat /\ S \in SUBSET (1 .. Len(m.headers))
      /\ Len(m.headers) \in Nat
  BY HeaderLines, ExchangeAssumption
<1> HIDE DEF S
<1>2. /\ \E i \in S : \A j \in S : i <= j
      /\ \E i \in S : \A j \in S : i >= j
  <2>1. S # {}
    BY DEF S
  <2> QED BY <1>1, <2>1, LeastNumber, GreatestNumber
<1>3. Min(S) \in S /\ Max(S) \in S
  BY <1>2 DEF Min, Max
<1> QED BY <1>3 DEF S

\* The lengths that count are numbers.
LEMMA FrameTypes ==
  ASSUME NEW m \in Messages
  PROVE  /\ Total(m) \in Nat /\ HeaderLen(m) \in Nat /\ HeaderLen(m) >= 2
         /\ Total(m) = HeaderLen(m) + m.body /\ m.body \in Nat
         /\ FirstLength(m) \in Nat
         /\ FrameLength(m) = HeaderLen(m) + FirstLength(m)
<1>1. Len(m.headers) \in Nat /\ m.body \in Nat
  BY HeaderLines
<1>2. FirstLength(m) \in Nat
  BY FirstLine, HeaderLines DEF FirstLength
<1> QED BY <1>1, <1>2 DEF Total, HeaderLen, FrameLength

\* A header list without an offence has only lengths that can be parsed, and
\* they are the same.
LEMMA OneLength ==
  ASSUME NEW m \in Messages, HeadersVerdict(m) = "ok",
         NEW i \in LengthLines(m), NEW j \in LengthLines(m)
  PROVE  /\ m.headers[i].value = m.headers[j].value
         /\ m.headers[i].value # Unparsable
<1> DEFINE offences == {k \in DOMAIN m.headers : LineVerdict(m, k) # "ok"}
<1>1. offences = {}
  <2> SUFFICES ASSUME offences # {} PROVE FALSE
    OBVIOUS
  <2>1. offences \in SUBSET Nat
    BY HeaderLines
  <2> HIDE DEF offences
  <2>2. \E k \in offences : \A l \in offences : k <= l
    BY <2>1, LeastNumber
  <2>3. Min(offences) \in offences
    BY <2>2 DEF Min
  <2>4. LineVerdict(m, Min(offences)) # "ok"
    BY <2>3 DEF offences
  <2>5. HeadersVerdict(m) = LineVerdict(m, Min(offences))
    BY <2>3 DEF HeadersVerdict, offences
  <2> QED BY <2>4, <2>5
<1>2. ASSUME NEW k \in LengthLines(m)
      PROVE  m.headers[k].value # Unparsable /\ ~ Contradicts(m, k)
  <2>1. k \in DOMAIN m.headers /\ LineVerdict(m, k) = "ok"
    BY <1>1, HeaderLines
  <2> QED BY <2>1 DEF LineVerdict, LengthLines
<1>3. i \in Nat /\ j \in Nat
  BY HeaderLines
<1>4. i < j \/ j < i \/ i = j
  BY <1>3
<1> QED BY <1>2, <1>4 DEF Contradicts

\* A request without an early answer has a length, and as many bytes after its
\* header as each of its lengths says.
LEMMA NoEarlyAnswer ==
  ASSUME NEW m \in Messages, NEW n \in Nat, EarlyStatus(m, n) = 0
  PROVE  /\ HeaderLen(m) <= n /\ LengthLines(m) # {}
         /\ \A i \in LengthLines(m) :
              /\ m.headers[i].value = n - HeaderLen(m)
              /\ m.headers[i].value # Unparsable
<1> DEFINE view == ParseRequest(m, n)
<1>1. /\ view.verdict # "too_large" /\ view.verdict # "malformed"
      /\ view.content_length # -1 /\ ~ BodyMismatch(view, n)
  BY DEF EarlyStatus
<1>2. HeaderLen(m) <= n /\ HeadersVerdict(m) = "ok"
  <2>1. HeaderLen(m) <= Least(n, MaxHeader) /\ view.verdict = HeadersVerdict(m)
    <3>1. /\ ~ (HeaderLen(m) > Least(n, MaxHeader))
          /\ view.verdict = HeadersVerdict(m)
      BY <1>1, Zenon DEF ParseRequest
    <3>2. HeaderLen(m) \in Nat
      BY FrameTypes
    <3>3. MaxHeader \in Nat
      BY ExchangeAssumption
    <3>4. Least(n, MaxHeader) = n \/ Least(n, MaxHeader) = MaxHeader
      BY Zenon DEF Least
    <3> HIDE DEF view
    <3> QED BY <3>1, <3>2, <3>3, <3>4
  <2>2. HeadersVerdict(m) \in {"ok", "malformed", "too_large"}
    BY DEF HeadersVerdict, LineVerdict
  <2>3. HeaderLen(m) \in Nat /\ MaxHeader \in Nat
    BY FrameTypes, ExchangeAssumption
  <2>4. HeaderLen(m) <= n
    BY <2>1, <2>3 DEF Least
  <2>5. HeadersVerdict(m) = "ok"
    BY <1>1, <2>1, <2>2, Zenon
  <2> QED BY <2>4, <2>5
<1>3. /\ LengthLines(m) # {}
      /\ m.headers[Max(LengthLines(m))].value = n - HeaderLen(m)
  BY <1>1 DEF ParseRequest, BodyMismatch
<1> QED BY <1>2, <1>3, FirstLine, OneLength

-----------------------------------------------------------------------------
(* The steps. *)

\* Nothing of the request has arrived, and no time has passed.
LEMMA ExchangeInit == Init => ExchangeInv
<1> SUFFICES ASSUME Init PROVE ExchangeInv
  OBVIOUS
<1>1. /\ message \in Messages /\ HeaderLen(message) >= 2
      /\ HeaderLen(message) \in Nat /\ Total(message) \in Nat
  BY FrameTypes DEF Init
<1>2. ExchangeTypes
  <2>1. used = 0 /\ target_len = 0 /\ have_target \in BOOLEAN /\ pc = "begin"
    BY DEF Init
  <2> QED BY <1>1, <2>1 DEF ExchangeTypes
<1>3. TimeInv
  <2>1. /\ now \in Nat /\ waited = 0 /\ time_left = 0 /\ pc = "begin"
        /\ read_started_at \in {now, NoTime} /\ cut = "no"
    BY ExchangeAssumption DEF Init
  <2> QED BY <2>1, Units, UnitsAssumption DEF TimeInv
<1>4. FrameInv /\ AnswerInv
  <2>1. ~ have_target /\ used = 0 /\ pc = "begin" /\ ReadMore
    BY DEF Init, ReadMore
  <2>2. ~ (used >= HeaderLen(message))
    BY <1>1, <2>1
  <2> QED BY <2>1, <2>2 DEF FrameInv, AnswerInv
<1> QED BY <1>2, <1>3, <1>4 DEF ExchangeInv

\* The steps that leave the reader's state alone, or only note why the loop
\* ended, keep what the invariant says of it.
LEMMA FrameKept ==
  ASSUME ExchangeInv, UNCHANGED <<message, used, have_target, target_len>>,
         pc' \in {"begin", "loop", "armed", "read", "received", "handle",
                  "done"},
         pc' \in {"begin", "loop", "armed", "read"} =>
           pc \in {"begin", "loop", "armed", "read"} \/ ReadMore,
         pc' = "handle" /\ cut' = "no" => ~ ReadMore
  PROVE  ExchangeTypes' /\ FrameInv' /\ AnswerInv'
<1>1. ReadMore' <=> ReadMore
  BY DEF ReadMore
<1>2. ExchangeTypes'
  BY DEF ExchangeInv, ExchangeTypes
<1>3. FrameInv'
  BY <1>1 DEF ExchangeInv, FrameInv
<1>4. AnswerInv'
  BY DEF AnswerInv
<1> QED BY <1>2, <1>3, <1>4

\* The deadline is set from the time the request was taken over, or from now.
LEMMA ExchangePrepare ==
  ASSUME ExchangeInv, Prepare \/ PrepareFails PROVE ExchangeInv'
<1>1. /\ UNCHANGED <<message, now, time_left, waited, used, have_target,
                     target_len, cut>>
      /\ pc = "begin" /\ pc' \in {"loop", "done"}
  BY DEF Prepare, PrepareFails, times, reader
<1>2. ExchangeTypes' /\ FrameInv' /\ AnswerInv'
  BY <1>1, FrameKept
<1>3. CASE Prepare
  <2>1. /\ read_started_at' \in 0 .. now
        /\ read_deadline' = DeadlineAfterMs(Timespec(read_started_at'), IoTimeout)
        /\ pc' = "loop"
    BY <1>1, <1>3 DEF Prepare, ExchangeInv, TimeInv
  <2>2. now \in Nat /\ IoTimeout \in Nat
    BY ExchangeAssumption DEF ExchangeInv, TimeInv
  <2>3. read_started_at' \in Nat
    BY <2>1, <2>2
  <2>4. /\ read_deadline' \in Stamps
        /\ InNs(read_deadline') = read_started_at' + Allowed
    BY <2>1, <2>2, <2>3, TimespecValue, DeadlineValue DEF Allowed
  <2>5. InNs(read_deadline)' = InNs(read_deadline')
    BY DEF InNs
  <2>6. /\ now' \in Nat /\ waited' = 0 /\ time_left' \in Nat /\ cut' = "no"
        /\ waited' < Allowed + NsPerUs
    BY <1>1, <2>2 DEF ExchangeInv, TimeInv
  <2>7. waited' <= now' - read_started_at'
    <3>1. \A n \in Nat : \A r \in 0 .. n : 0 <= n - r
      OBVIOUS
    <3> QED BY <1>1, <2>1, <2>2, <2>6, <3>1
  <2> QED BY <1>2, <2>1, <2>3, <2>4, <2>5, <2>6, <2>7
          DEF ExchangeInv, TimeInv
<1>4. CASE PrepareFails
  BY <1>1, <1>2, <1>4 DEF PrepareFails, times, ExchangeInv, TimeInv
<1> QED BY <1>3, <1>4

\* What is left at the head of the loop.
LEMMA LeftNow ==
  ASSUME ExchangeInv, pc = "loop"
  PROVE  /\ TimeLeft \in Stamps
         /\ InNs(TimeLeft) = read_started_at + Allowed - now
         /\ IsOver(TimeLeft) => now >= read_started_at + Allowed
<1>1. /\ now \in Nat /\ read_started_at \in Nat /\ read_deadline \in Stamps
      /\ InNs(read_deadline) = read_started_at + Allowed
  BY DEF ExchangeInv, TimeInv
<1>2. TimeLeft \in Stamps /\ InNs(TimeLeft) = read_started_at + Allowed - now
  <2>1. Timespec(now) \in Stamps /\ InNs(Timespec(now)) = now
    BY <1>1, TimespecValue
  <2>2. /\ TimeLeft \in Stamps
        /\ InNs(TimeLeft) = InNs(read_deadline) - InNs(Timespec(now))
    BY <1>1, <2>1, LeftValue DEF TimeLeft
  <2> QED BY <1>1, <2>1, <2>2, Units
<1>3. IsOver(TimeLeft) => InNs(TimeLeft) <= 0
  BY <1>2, OverValue
<1> QED BY <1>1, <1>2, <1>3, Units

\* The timeout of the next read() takes what the deadline leaves.
LEMMA ExchangeArm ==
  ASSUME ExchangeInv, ReadLoop \/ ReadBegins PROVE ExchangeInv'
<1>1. /\ UNCHANGED <<message, now, read_started_at, read_deadline, waited, used,
                     have_target, target_len, cut>>
      /\ pc \in {"loop", "armed"} /\ pc' \in {"armed", "read"}
  BY DEF ReadLoop, ReadBegins, times, reader
<1>2. ExchangeTypes' /\ FrameInv' /\ AnswerInv'
  BY <1>1, FrameKept
<1>3. InNs(read_deadline)' = InNs(read_deadline)
  BY <1>1 DEF InNs
<1>4. CASE ReadLoop
  <2>1. /\ pc = "loop" /\ ~ IsOver(TimeLeft)
        /\ time_left' = BlocksFor(ReceiveTimeout(TimeLeft))
    BY <1>4 DEF ReadLoop
  <2>2. /\ time_left' \in Nat /\ time_left' >= InNs(TimeLeft)
        /\ time_left' < InNs(TimeLeft) + NsPerUs
    BY <2>1, LeftNow, TimeoutValue
  <2>3. /\ now \in Nat /\ waited \in Nat /\ read_started_at \in Nat
        /\ waited <= now - read_started_at
        /\ InNs(TimeLeft) = read_started_at + Allowed - now
    BY <2>1, LeftNow DEF ExchangeInv, TimeInv
  <2>4. Allowed \in Nat /\ NsPerUs \in Nat
    BY Units, UnitsAssumption
  <2>5. \A n, w, r, a, u, t \in Nat, l \in Int :
          w <= n - r /\ l = r + a - n /\ t >= l /\ t < l + u
            => w + t < a + u /\ n + t >= r + a
    OBVIOUS
  <2>6. InNs(TimeLeft) \in Int
    BY <2>3, <2>4
  <2>7. /\ waited + time_left' < Allowed + NsPerUs
        /\ now + time_left' >= read_started_at + Allowed
    BY <2>2, <2>3, <2>4, <2>5, <2>6
  <2> QED BY <1>1, <1>2, <1>3, <2>1, <2>2, <2>7 DEF ExchangeInv, TimeInv
<1>5. CASE ReadBegins
  <2>1. UNCHANGED time_left /\ pc = "armed"
    BY <1>5 DEF ReadBegins, times
  <2> QED BY <1>1, <1>2, <1>3, <2>1 DEF ExchangeInv, TimeInv
<1> QED BY <1>4, <1>5

\* The loop is left early: the kernel never refuses the timeout, and nothing
\* is over before the deadline.
LEMMA ExchangeCut ==
  ASSUME ExchangeInv, ReadLoopEnds \/ ReadEnds \/ ReadTimesOut
  PROVE  ExchangeInv'
<1>1. /\ UNCHANGED <<message, now, read_started_at, read_deadline, waited, used,
                     have_target, target_len>>
      /\ pc' = "handle" /\ cut' # "no" /\ time_left' = 0
  BY DEF ReadLoopEnds, ReadEnds, ReadTimesOut, Cut
<1>2. ExchangeTypes' /\ FrameInv' /\ AnswerInv'
  BY <1>1, FrameKept
<1>3. /\ cut' # "refused"
      /\ cut' = "expired" => now >= read_started_at + Allowed
  <2>1. CASE ReadLoopEnds
    <3>1. ~ IsOver(TimeLeft) => IsAccepted(ReceiveTimeout(TimeLeft))
      BY <2>1, LeftNow, TimeoutValue DEF ReadLoopEnds
    <3>2. IsOver(TimeLeft) => now >= read_started_at + Allowed
      BY <2>1, LeftNow DEF ReadLoopEnds
    <3> QED BY <2>1, <3>1, <3>2 DEF ReadLoopEnds, Cut
  <2>2. CASE ReadEnds
    BY <2>2 DEF ReadEnds, Cut
  <2>3. CASE ReadTimesOut
    <3>1. /\ pc = "read" /\ time_left = 0 /\ cut' = "expired"
      BY <2>3 DEF ReadTimesOut, Cut
    <3>2. now \in Nat /\ now + time_left >= read_started_at + Allowed
      BY <3>1 DEF ExchangeInv, TimeInv
    <3> QED BY <3>1, <3>2
  <2> QED BY <2>1, <2>2, <2>3
<1>4. TimeInv'
  BY <1>1, <1>3 DEF ExchangeInv, TimeInv
<1> QED BY <1>2, <1>4 DEF ExchangeInv

\* A read() that returns bytes: the target is set with the first of them that
\* completes the header.
LEMMA ExchangeRead ==
  ASSUME ExchangeInv, NEW n \in 1 .. RequestBytes, Read(n)
  PROVE  ExchangeInv'
<1>1. /\ message \in Messages /\ FrameLength(message) \in Nat
      /\ HeaderLen(message) \in Nat /\ Total(message) \in Nat
  BY FrameTypes DEF ExchangeInv, ExchangeTypes
<1>2. /\ used' = used + n /\ pc = "read" /\ pc' = "received" /\ time_left' = 0
      /\ n <= Least(Total(message), RequestBytes) - used
      /\ UNCHANGED <<message, now, read_started_at, read_deadline, waited, cut>>
      /\ IF ~ have_target /\ used' >= HeaderLen(message)
         THEN /\ have_target' = TRUE
              /\ target_len' = IF FrameLength(message) <= RequestBytes
                               THEN FrameLength(message) ELSE used'
         ELSE UNCHANGED <<have_target, target_len>>
  BY DEF Read
<1>3. /\ used' \in 0 .. Total(message) /\ used' >= used
      /\ used \in Nat /\ used' \in Nat
  BY <1>1, <1>2, ExchangeAssumption DEF ExchangeInv, ExchangeTypes, Least
<1>4. ExchangeTypes'
  BY <1>1, <1>2, <1>3 DEF ExchangeInv, ExchangeTypes
<1>5. InNs(read_deadline)' = InNs(read_deadline)
  BY <1>2 DEF InNs
<1>6. TimeInv' /\ AnswerInv'
  BY <1>2, <1>5 DEF ExchangeInv, TimeInv, AnswerInv
<1>7. FrameInv'
  BY <1>1, <1>2, <1>3 DEF ExchangeInv, ExchangeTypes, FrameInv
<1> QED BY <1>4, <1>6, <1>7 DEF ExchangeInv

\* The loop goes on, below its target only, or ends with a whole request.
LEMMA ExchangeLoop ==
  ASSUME ExchangeInv, Received \/ Interrupted PROVE ExchangeInv'
<1>1. /\ UNCHANGED <<message, now, read_started_at, read_deadline, waited, used,
                     have_target, target_len, cut>>
      /\ pc \in {"received", "read"} /\ pc' \in {"loop", "handle"}
      /\ time_left' \in {time_left, 0}
      /\ pc' = "loop" => pc = "read" \/ ReadMore
      /\ pc' = "handle" => ~ ReadMore
  BY DEF Received, Interrupted, times, reader
<1>2. ExchangeTypes' /\ FrameInv' /\ AnswerInv'
  BY <1>1, FrameKept
<1>3. InNs(read_deadline)' = InNs(read_deadline)
  BY <1>1 DEF InNs
<1>4. TimeInv'
  BY <1>1, <1>3 DEF ExchangeInv, TimeInv
<1> QED BY <1>2, <1>4 DEF ExchangeInv

\* The clock: a blocked read() uses up what it was given.
LEMMA ExchangeClock ==
  ASSUME ExchangeInv, Wait \/ Elapse PROVE ExchangeInv'
<1>1. /\ UNCHANGED <<message, pc, read_started_at, read_deadline, used,
                     have_target, target_len, cut>>
      /\ pc \in {"begin", "loop", "armed", "read"} /\ now' = now + 1
      /\ \/ /\ pc = "read" /\ time_left > 0
            /\ waited' = waited + 1 /\ time_left' = time_left - 1
         \/ UNCHANGED <<waited, time_left>>
  BY DEF Wait, Elapse, reader
<1>2. ExchangeTypes' /\ FrameInv' /\ AnswerInv'
  BY <1>1, FrameKept
<1>3. InNs(read_deadline)' = InNs(read_deadline)
  BY <1>1 DEF InNs
<1>4. TimeInv'
  <2>1. /\ now \in Nat /\ waited \in Nat /\ time_left \in Nat /\ cut = "no"
        /\ Allowed \in Nat /\ NsPerUs \in Nat
    BY <1>1, Units, UnitsAssumption DEF ExchangeInv, TimeInv
  <2>2. /\ now' \in Nat /\ waited' \in Nat /\ time_left' \in Nat
        /\ now' > now /\ now' + time_left' >= now + time_left
        /\ waited' + time_left' = waited + time_left
    BY <1>1, <2>1
  <2>3. waited' < Allowed + NsPerUs
    BY <1>1, <2>1, <2>2 DEF ExchangeInv, TimeInv
  <2>4. pc = "begin" =>
          /\ waited' = 0
          /\ read_started_at \in 0 .. now' \/ read_started_at = NoTime
    BY <1>1, <2>1, <2>2 DEF ExchangeInv, TimeInv
  <2>5. pc \in {"loop", "armed", "read"} =>
          /\ read_started_at \in Nat
          /\ waited' <= now' - read_started_at
    BY <1>1, <2>1 DEF ExchangeInv, TimeInv
  <2>6. pc \in {"armed", "read"} =>
          /\ waited' + time_left' < Allowed + NsPerUs
          /\ now' + time_left' >= read_started_at + Allowed
    <3> SUFFICES ASSUME pc \in {"armed", "read"}
                 PROVE  /\ waited' + time_left' < Allowed + NsPerUs
                        /\ now' + time_left' >= read_started_at + Allowed
      OBVIOUS
    <3>1. /\ waited + time_left < Allowed + NsPerUs
          /\ now + time_left >= read_started_at + Allowed
      BY DEF ExchangeInv, TimeInv
    <3>2. waited' + time_left' < Allowed + NsPerUs
      BY <2>2, <3>1
    <3>3. now' + time_left' >= read_started_at + Allowed
      <4>1. read_started_at \in Nat
        BY <1>1 DEF ExchangeInv, TimeInv
      <4>2. \A m, l, n, k, r, a \in Nat :
              n + k >= r + a /\ m + l >= n + k => m + l >= r + a
        OBVIOUS
      <4> QED BY <2>1, <2>2, <3>1, <4>1, <4>2
    <3> QED BY <3>2, <3>3
  <2> QED BY <1>1, <1>3, <2>1, <2>2, <2>3, <2>4, <2>5, <2>6
          DEF ExchangeInv, TimeInv
<1> QED BY <1>2, <1>4 DEF ExchangeInv

\* The handler: it goes beyond the early answers only when there is none.
LEMMA ExchangeHandle ==
  ASSUME ExchangeInv, Handle \/ ParseBody \/ Acknowledge \/ ChooseMove
  PROVE  ExchangeInv'
<1>1. /\ UNCHANGED <<message, times, reader>>
      /\ pc \in {"handle", "parse", "acknowledge", "move"}
      /\ pc' \in {"parse", "acknowledge", "move", "done"}
      /\ pc' = "parse" => EarlyStatus(message, used) = 0
      /\ pc' \in {"acknowledge", "move"} => pc = "parse"
  BY DEF Handle, ParseBody, Acknowledge, ChooseMove
<1>2. EarlyStatus(message, used)' = EarlyStatus(message, used)
  BY <1>1 DEF reader
<1>3. ExchangeTypes' /\ TimeInv'
  BY <1>1 DEF ExchangeInv, ExchangeTypes, TimeInv, reader, times
<1>4. FrameInv'
  BY <1>1 DEF ExchangeInv, FrameInv, reader
<1>5. AnswerInv'
  BY <1>1, <1>2 DEF ExchangeInv, AnswerInv
<1> QED BY <1>3, <1>4, <1>5 DEF ExchangeInv

\* The invariant is inductive.
LEMMA ExchangeAlways == Spec => []ExchangeInv
<1>1. ASSUME ExchangeInv, UNCHANGED vars PROVE ExchangeInv'
  <2>1. UNCHANGED <<message, pc, now, read_started_at, read_deadline, time_left,
                    waited, used, have_target, target_len, cut>>
    BY <1>1 DEF vars, times, reader
  <2>2. InNs(read_deadline)' = InNs(read_deadline) /\ (ReadMore' <=> ReadMore)
    BY <2>1 DEF InNs, ReadMore
  <2>3. TimeInv' /\ FrameInv'
    BY <1>1, <2>1, <2>2 DEF ExchangeInv, TimeInv, FrameInv
  <2>4. ExchangeTypes' /\ AnswerInv'
    BY <1>1, <2>1 DEF ExchangeInv, ExchangeTypes, AnswerInv
  <2> QED BY <2>3, <2>4 DEF ExchangeInv
<1>2. ASSUME ExchangeInv, [Next]_vars PROVE ExchangeInv'
  BY <1>1, <1>2, ExchangePrepare, ExchangeArm, ExchangeCut, ExchangeRead,
     ExchangeLoop, ExchangeHandle, ExchangeClock
     DEF Next, Worker, Finished
<1> QED BY <1>2, ExchangeInit, PTL DEF Spec

-----------------------------------------------------------------------------
\* All the read() calls of a request together block for less than its timeout
\* and one microsecond, none of them for ever, and none gives up before the
\* deadline: the timeouts that apply_receive_timeout_until (server_main.c)
\* computes again before every read(), with borrow, rounding and carry, amount
\* to one deadline, whatever the units, the timeout, the pieces, the
\* interruptions and the delays.
THEOREM ReadBounded == Spec => []ReadIsBounded
<1>1. ASSUME ExchangeInv PROVE ReadIsBounded
  <2>1. TimeInv
    BY <1>1 DEF ExchangeInv
  <2>2. time_left # Forever
    BY <2>1 DEF TimeInv, Forever
  <2>3. WaitIsBounded
    BY <2>1, <2>2 DEF TimeInv, WaitIsBounded, Allowed
  <2>4. NeverTooEarly
    BY <2>1 DEF TimeInv, NeverTooEarly, Allowed
  <2> QED BY <2>3, <2>4 DEF ReadIsBounded
<1> QED BY <1>1, ExchangeAlways, PTL

\* What the handler acts on has the length that each of its Content-Length
\* lines declares, and the reader does not wait for more of what the handler
\* would accept: BsHttpRequestFrameLength, which looks at the first of these
\* lines only, and bs_parse_request, which looks at all of them, agree.
THEOREM FramingHolds == Spec => []FramingAgrees
<1>1. ASSUME ExchangeInv PROVE AcceptedIsWhole
  <2> SUFFICES ASSUME pc \in {"parse", "acknowledge", "move"}
               PROVE  AcceptedIsWhole
    BY DEF AcceptedIsWhole
  <2>1. /\ EarlyStatus(message, used) = 0 /\ message \in Messages
        /\ used \in Nat
    BY <1>1, FrameTypes DEF ExchangeInv, AnswerInv, ExchangeTypes
  <2> QED BY <2>1, NoEarlyAnswer DEF AcceptedIsWhole, LengthLines
<1>2. ASSUME ExchangeInv PROVE NeverWaitsOnWhole
  <2> SUFFICES ASSUME pc \in {"loop", "armed", "read"}, used >= HeaderLen(message),
                      EarlyStatus(message, used) = 0
               PROVE  FALSE
    BY DEF NeverWaitsOnWhole
  <2>1. /\ message \in Messages /\ used \in Nat /\ target_len \in Nat
        /\ have_target /\ ~ (used >= target_len)
    BY <1>2, FrameTypes DEF ExchangeInv, ExchangeTypes, FrameInv, ReadMore
  <2>2. target_len = FrameLength(message)
    BY <1>2, <2>1 DEF ExchangeInv, FrameInv
  <2>3. FirstLength(message) = used - HeaderLen(message)
    BY <2>1, NoEarlyAnswer, FirstLine DEF FirstLength
  <2> QED BY <2>1, <2>2, <2>3, FrameTypes
<1>3. ExchangeInv => FramingAgrees
  BY <1>1, <1>2 DEF FramingAgrees
<1> QED BY <1>3, ExchangeAlways, PTL

\* A request that fits the buffer and was not cut short is answered like the
\* whole of it, into whichever pieces read() cut it.
THEOREM SegmentationHolds == Spec => []SegmentationIndependent
<1>1. ASSUME ExchangeInv PROVE SegmentationIndependent
  <2> SUFFICES ASSUME pc = "handle", cut = "no", Declared(message),
                      Total(message) <= RequestBytes
               PROVE  used = Total(message)
    BY DEF SegmentationIndependent
  <2>1. /\ message \in Messages /\ used \in Nat /\ used <= Total(message)
        /\ have_target /\ used >= target_len
    BY <1>1, FrameTypes DEF ExchangeInv, ExchangeTypes, FrameInv, ReadMore
  <2>2. FrameLength(message) = Total(message)
    BY <2>1, FrameTypes DEF Declared
  <2>3. target_len = Total(message)
    BY <1>1, <2>1, <2>2 DEF ExchangeInv, FrameInv
  <2> QED BY <2>1, <2>3, FrameTypes
<1>2. ExchangeInv => SegmentationIndependent
  BY <1>1
<1> QED BY <1>2, ExchangeAlways, PTL
=============================================================================
