-------------------------- MODULE ReceiveDeadline --------------------------
(***************************************************************************)
(* How long a read() may block (deadline_after_ms and                      *)
(* apply_receive_timeout_until): the deadline is a point in time, kept in  *)
(* seconds and nanoseconds; the kernel takes a duration, in seconds and    *)
(* microseconds, and a duration of zero means for ever.                    *)
(*                                                                         *)
(* Time is a number of nanoseconds. How many of them make a microsecond is *)
(* a parameter, like the other units.                                      *)
(***************************************************************************)
EXTENDS Integers

CONSTANTS NsPerUs, UsPerSec, NsPerMs, MsPerSec

ASSUME UnitsAssumption ==
  /\ NsPerUs \in Nat \ {0} /\ UsPerSec \in Nat \ {0}
  /\ NsPerMs \in Nat \ {0} /\ MsPerSec \in Nat \ {0}
  /\ NsPerUs * UsPerSec = NsPerMs * MsPerSec

NsPerSec == NsPerUs * UsPerSec

\* The struct timespec of a time.
Timespec(t) == [tv_sec |-> t \div NsPerSec, tv_nsec |-> t % NsPerSec]

-----------------------------------------------------------------------------
(* Changed forms, one plausible bug each. *)

\* rounds down: what is left of the last microsecond becomes zero, for ever
ReceiveTimeout_Floor(left) ==
  [tv_sec |-> left.tv_sec, tv_usec |-> left.tv_nsec \div NsPerUs]

-----------------------------------------------------------------------------
\* deadline_after_ms
DeadlineAfterMs(start, ms) ==
  LET sec == start.tv_sec + ms \div MsPerSec
      nsec == start.tv_nsec + (ms % MsPerSec) * NsPerMs
  IN  IF nsec >= NsPerSec THEN [tv_sec |-> sec + 1, tv_nsec |-> nsec - NsPerSec]
                          ELSE [tv_sec |-> sec, tv_nsec |-> nsec]

\* The difference of two times, with a borrow; its seconds may be negative.
Left(deadline, time) ==
  LET sec == deadline.tv_sec - time.tv_sec
      nsec == deadline.tv_nsec - time.tv_nsec
  IN  IF nsec < 0 THEN [tv_sec |-> sec - 1, tv_nsec |-> nsec + NsPerSec]
                  ELSE [tv_sec |-> sec, tv_nsec |-> nsec]

IsOver(left) == left.tv_sec < 0 \/ (left.tv_sec = 0 /\ left.tv_nsec = 0)

\* The struct timeval for what is left: rounded up, with a carry.
ReceiveTimeout(left) ==
  LET usec == (left.tv_nsec + NsPerUs - 1) \div NsPerUs
  IN  IF usec >= UsPerSec
      THEN [tv_sec |-> left.tv_sec + 1, tv_usec |-> usec - UsPerSec]
      ELSE [tv_sec |-> left.tv_sec, tv_usec |-> usec]

-----------------------------------------------------------------------------
(* The kernel, setsockopt(SO_RCVTIMEO). *)

Forever == -1

\* It refuses as many microseconds as make a second (EDOM).
IsAccepted(timeval) == timeval.tv_usec \in 0 .. UsPerSec - 1

\* How long a read() blocks at most.
BlocksFor(timeval) ==
  LET ns == (timeval.tv_sec * UsPerSec + timeval.tv_usec) * NsPerUs
  IN  IF ns = 0 THEN Forever ELSE ns
=============================================================================
