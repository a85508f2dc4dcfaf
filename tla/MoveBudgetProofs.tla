-------------------------- MODULE MoveBudgetProofs --------------------------
(***************************************************************************)
(* For every configuration the server accepts and every timeout a request  *)
(* may carry: a search that is started fits.                               *)
(***************************************************************************)
EXTENDS MoveBudget, TLAPS

USE DEF AtMost, AtLeast

-----------------------------------------------------------------------------
(* Rounding up. *)

LEMMA CeilBounds ==
  ASSUME NEW d \in Nat, NEW m \in Nat \ {0}
  PROVE  /\ (d + m - 1) \div m \in Nat
         /\ ((d + m - 1) \div m) * m >= d
         /\ ((d + m - 1) \div m) * m < d + m
<1> DEFINE q == (d + m - 1) \div m
           r == (d + m - 1) % m
<1>1. q \in Int /\ r \in 0 .. m - 1
  OBVIOUS
<1>2. d + m - 1 = m * q + r
  OBVIOUS
<1>3. q >= 0
  OBVIOUS
<1>4. QED
  BY <1>1, <1>2, <1>3

\* A rounded duration is a number of milliseconds that covers the duration,
\* unless it was cut off at INT_MAX.
LEMMA ElapsedBounds ==
  ASSUME NEW start \in Nat, NEW end \in Nat, start <= end
  PROVE  LET ms == ElapsedMsCeil(start, end)
         IN  /\ ms \in 0 .. IntMax
             /\ ms # IntMax => ms * Ms >= end - start
             /\ ms * Ms < end - start + Ms
<1> DEFINE q == (end - start + Ms - 1) \div Ms
<1>1. /\ q \in Nat
      /\ q * Ms >= end - start
      /\ q * Ms < end - start + Ms
  <2>1. end - start \in Nat
    OBVIOUS
  <2>2. QED
    BY <2>1, CeilBounds, BudgetAssumption
<1>2. CASE q <= IntMax
  BY <1>1, <1>2, BudgetAssumption DEF ElapsedMsCeil
<1>3. CASE q > IntMax
  <2>1. ElapsedMsCeil(start, end) = IntMax
    BY <1>3 DEF ElapsedMsCeil
  <2>2. IntMax * Ms <= q * Ms
    BY <1>1, <1>3, BudgetAssumption
  <2>3. QED
    BY <1>1, <2>1, <2>2, BudgetAssumption
<1>4. QED
  BY <1>1, <1>2, <1>3, BudgetAssumption

\* What is left of the timeout when the request has the given age.
LEMMA BudgetLeavesMargin ==
  ASSUME NEW timeout \in Timeouts, NEW age \in 0 .. IntMax,
         HasSearchWindow(timeout, age)
  PROVE  LET b == EffectiveBudgetMs(RemainingTimeout(timeout, age))
         IN  /\ b \in 0 .. IntMax
             /\ age + b + safety_margin_ms <= timeout
             /\ b <= default_time_budget_ms
             /\ b >= AtMost(default_time_budget_ms, min_time_budget_ms)
BY BudgetAssumption DEF HasSearchWindow, EffectiveBudgetMs, RemainingTimeout

\* No window is left at the age at which the arithmetic saturates.
LEMMA NoWindowAtIntMax ==
  ASSUME NEW timeout \in Timeouts PROVE ~HasSearchWindow(timeout, IntMax)
BY BudgetAssumption DEF HasSearchWindow

-----------------------------------------------------------------------------
(* The invariant: the stamps are in the order in which they were taken.    *)

Order ==
  /\ phase = "queued" => accepted_at <= clock
  /\ phase # "queued" =>
       accepted_at <= worker_started_at /\ worker_started_at <= clock
  /\ phase \notin {"queued", "reading"} =>
       worker_started_at <= handler_started_at /\ handler_started_at <= clock
  /\ phase \notin {"queued", "reading", "calling"} =>
       handler_started_at <= handle_started_at /\ handle_started_at <= clock

Inv == TypeOK /\ Order /\ SearchFits /\ BudgetInRange /\ NoNeedlessFallback

\* The age the decision is based on, in the state in which it is taken.
LEMMA AgeBounds ==
  ASSUME TypeOK, Order, phase = "parsing"
  PROVE  LET spent == clock - request_started_at - Unmeasured
         IN  /\ total_request_age_ms \in 0 .. IntMax
             /\ total_request_age_ms # IntMax =>
                  total_request_age_ms * Ms >= spent
             /\ total_request_age_ms * Ms < spent + 2 * Ms
<1> DEFINE a == ElapsedMsCeil(request_started_at, handler_started_at)
           b == ElapsedMsCeil(handle_started_at, clock)
<1>1. /\ request_started_at \in Nat /\ handler_started_at \in Nat
      /\ handle_started_at \in Nat /\ clock \in Nat
      /\ request_started_at <= handler_started_at
      /\ handle_started_at <= clock
  BY DEF TypeOK, Order, request_started_at
<1>2. /\ a \in 0 .. IntMax
      /\ a # IntMax => a * Ms >= handler_started_at - request_started_at
      /\ a * Ms < handler_started_at - request_started_at + Ms
  BY <1>1, ElapsedBounds
<1>3. /\ b \in 0 .. IntMax
      /\ b # IntMax => b * Ms >= clock - handle_started_at
      /\ b * Ms < clock - handle_started_at + Ms
  BY <1>1, ElapsedBounds
<1>4. total_request_age_ms = AtMost(IntMax, a + b)
  BY DEF total_request_age_ms, TotalRequestAgeMs
<1>5. (a + b) * Ms = a * Ms + b * Ms
  BY <1>2, <1>3, BudgetAssumption
<1> HIDE DEF a, b
<1>6. CASE a + b <= IntMax
  BY <1>1, <1>2, <1>3, <1>4, <1>5, <1>6, BudgetAssumption DEF Unmeasured
<1>7. CASE a + b > IntMax
  <2>1. total_request_age_ms = IntMax
    BY <1>2, <1>3, <1>4, <1>7, BudgetAssumption
  <2>2. IntMax * Ms <= (a + b) * Ms
    BY <1>2, <1>3, <1>7, BudgetAssumption
  <2>3. QED
    BY <1>1, <1>2, <1>3, <1>5, <2>1, <2>2, BudgetAssumption DEF Unmeasured
<1>8. QED
  BY <1>2, <1>3, <1>6, <1>7, BudgetAssumption

-----------------------------------------------------------------------------
LEMMA InitInv == Init => Inv
BY BudgetAssumption
   DEF Init, Inv, TypeOK, Order, SearchFits, BudgetInRange, NoNeedlessFallback

\* The steps that only advance the clock or take a stamp.
LEMMA StampsInv ==
  ASSUME Inv, Tick \/ Start \/ ReadDone \/ HandleStart
  PROVE  Inv'
<1>1. CASE Tick
  BY <1>1, BudgetAssumption
     DEF Inv, TypeOK, Order, SearchFits, BudgetInRange, NoNeedlessFallback,
         Tick, stamps
<1>2. CASE Start
  BY <1>2 DEF Inv, TypeOK, Order, SearchFits, BudgetInRange,
              NoNeedlessFallback, Start
<1>3. CASE ReadDone
  BY <1>3 DEF Inv, TypeOK, Order, SearchFits, BudgetInRange,
              NoNeedlessFallback, ReadDone
<1>4. CASE HandleStart
  BY <1>4 DEF Inv, TypeOK, Order, SearchFits, BudgetInRange,
              NoNeedlessFallback, HandleStart
<1>5. QED
  BY <1>1, <1>2, <1>3, <1>4

LEMMA DecideInv ==
  ASSUME Inv, Decide
  PROVE  Inv'
<1> DEFINE age == total_request_age_ms
           spent == clock - request_started_at - Unmeasured
<1>1. /\ age \in 0 .. IntMax
      /\ age # IntMax => age * Ms >= spent
      /\ age * Ms < spent + 2 * Ms
  BY AgeBounds DEF Inv, Decide
<1>2. /\ game_timeout_ms \in Timeouts /\ game_timeout_ms \in 0 .. IntMax
      /\ clock \in Nat /\ request_started_at \in Nat
      /\ Unmeasured \in Nat
  BY BudgetAssumption
     DEF Inv, TypeOK, Order, Decide, request_started_at, Unmeasured
<1>3. /\ request_started_at' = request_started_at
      /\ Unmeasured' = Unmeasured
      /\ clock' = clock /\ game_timeout_ms' = game_timeout_ms
  BY DEF Decide, stamps, request_started_at, Unmeasured
<1>4. CASE HasSearchWindow(game_timeout_ms, age)
  <2> DEFINE b == EffectiveBudgetMs(RemainingTimeout(game_timeout_ms, age))
  <2>1. phase' = "search" /\ budget' = b
    BY <1>4 DEF Decide
  <2>2. /\ b \in 0 .. IntMax
        /\ age + b + safety_margin_ms <= game_timeout_ms
        /\ b <= default_time_budget_ms
        /\ b >= AtMost(default_time_budget_ms, min_time_budget_ms)
    BY <1>1, <1>2, <1>4, BudgetLeavesMargin
  <2>3. age * Ms >= spent
    BY <1>1, <1>2, <1>4, NoWindowAtIntMax
  <2> HIDE DEF age, b
  <2>4. (age + (b + safety_margin_ms)) * Ms <= game_timeout_ms * Ms
    BY <1>1, <1>2, <2>2, BudgetAssumption
  <2>5. (age + (b + safety_margin_ms)) * Ms
          = age * Ms + (b + safety_margin_ms) * Ms
    BY <1>1, <2>2, BudgetAssumption
  <2>6. spent + (b + safety_margin_ms) * Ms <= game_timeout_ms * Ms
    BY <1>1, <1>2, <2>2, <2>3, <2>4, <2>5, BudgetAssumption
  <2>7. SearchFits'
    BY <1>2, <1>3, <2>1, <2>2, <2>6, BudgetAssumption DEF SearchFits
  <2>8. TypeOK' /\ Order'
    BY <2>1, <2>2 DEF Inv, Decide, TypeOK, Order, stamps
  <2>9. BudgetInRange' /\ NoNeedlessFallback'
    BY <2>1, <2>2 DEF BudgetInRange, NoNeedlessFallback
  <2>10. QED
    BY <2>7, <2>8, <2>9 DEF Inv
<1>5. CASE ~HasSearchWindow(game_timeout_ms, age)
  <2>1. phase' = "fallback" /\ budget' = budget
    BY <1>5 DEF Decide
  <2>2. age > game_timeout_ms - safety_margin_ms - min_time_budget_ms
    BY <1>1, <1>2, <1>5, BudgetAssumption DEF HasSearchWindow
  <2> DEFINE left == game_timeout_ms - safety_margin_ms - min_time_budget_ms
  <2>3. age * Ms > left * Ms
    <3>1. left \in Int /\ age \in Int /\ left < age
      BY <1>1, <1>2, <2>2, BudgetAssumption
    <3> HIDE DEF left, age
    <3>2. QED
      BY <3>1, BudgetAssumption
  <2>4. NoNeedlessFallback'
    BY <1>1, <1>2, <1>3, <2>1, <2>3, BudgetAssumption DEF NoNeedlessFallback
  <2>5. TypeOK' /\ Order'
    BY <2>1 DEF Inv, Decide, TypeOK, Order, stamps
  <2>6. SearchFits' /\ BudgetInRange'
    BY <2>1 DEF SearchFits, BudgetInRange
  <2>7. QED
    BY <2>4, <2>5, <2>6 DEF Inv
<1>6. QED
  BY <1>4, <1>5

LEMMA StutterInv == Inv /\ UNCHANGED vars => Inv'
BY DEF Inv, TypeOK, Order, SearchFits, BudgetInRange, NoNeedlessFallback,
       Unmeasured, request_started_at, vars, stamps

\* For every configuration, every timeout and every timing of the worker:
\* a search that is started leaves the safety margin before the deadline, has
\* a budget in the configured range, and the fallback is not used needlessly.
THEOREM BudgetHolds ==
  Spec => [](TypeOK /\ SearchFits /\ BudgetInRange /\ NoNeedlessFallback)
<1>1. Inv /\ [Next]_vars => Inv'
  BY StampsInv, DecideInv, StutterInv DEF Next
<1>2. Inv => TypeOK /\ SearchFits /\ BudgetInRange /\ NoNeedlessFallback
  BY DEF Inv
<1>3. QED
  BY InitInv, <1>1, <1>2, PTL DEF Spec

\* The fallback, which looks one turn ahead, is played only when the age of
\* the request, with the margin and the least budget, is beyond the timeout of
\* the game: rounding up and saturation never cost a search that had its time.
THEOREM FallbackIsNeeded == Spec => []NoNeedlessFallback
BY BudgetHolds, PTL
=============================================================================
