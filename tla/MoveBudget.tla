----------------------------- MODULE MoveBudget -----------------------------
(***************************************************************************)
(* The time of one /move request: what has passed since accept(), how it   *)
(* is rounded to milliseconds (server_main.c, battlesnake_http.c), whether *)
(* a search still fits before the game server's timeout, and how long the  *)
(* search may take (battlesnake_strategy.c).                               *)
(*                                                                         *)
(* The monotonic clock advances in ticks, Ms of them per millisecond.      *)
(***************************************************************************)
EXTENDS Integers

CONSTANTS
  Ms,        \* ticks per millisecond
  IntMax,    \* INT_MAX
  Timeouts,  \* the values of game.timeout a request may carry
  default_time_budget_ms, safety_margin_ms, min_time_budget_ms,
  Horizon    \* the last tick the clock reaches (a bound for TLC)

\* parse_env_int's minima, and the validation of the parsed request
ASSUME BudgetAssumption ==
  /\ Ms \in Nat \ {0} /\ IntMax \in Nat \ {0} /\ Horizon \in Nat
  /\ Timeouts \subseteq 0 .. IntMax
  /\ default_time_budget_ms \in 1 .. IntMax
  /\ safety_margin_ms \in 0 .. IntMax
  /\ min_time_budget_ms \in 1 .. IntMax

VARIABLES
  clock,
  game_timeout_ms,
  accepted_at, accepted_at_valid,  \* of the BsConnectionJob
  worker_started_at,
  handler_started_at,  \* handle_connection, after the read loop
  handle_started_at,   \* BsHandleHttpRequestTimed
  phase,
  budget               \* the time budget of the search

stamps == <<accepted_at, accepted_at_valid, worker_started_at,
            handler_started_at, handle_started_at>>
vars == <<clock, game_timeout_ms, stamps, phase, budget>>

AtMost(bound, n) == IF n > bound THEN bound ELSE n
AtLeast(bound, n) == IF n < bound THEN bound ELSE n

-----------------------------------------------------------------------------
(* Changed forms, one plausible bug each. *)

\* rounds down
ElapsedMsCeil_Floor(start, end) == AtMost(IntMax, (end - start) \div Ms)

\* deducts the age from a timeout that it was already deducted from
HasSearchWindow_AgeTwice(timeout, age) ==
  timeout - age - age - safety_margin_ms >= min_time_budget_ms

-----------------------------------------------------------------------------
\* elapsed_ms_ceil_saturated and bs_elapsed_ms_ceil
ElapsedMsCeil(start, end) == AtMost(IntMax, (end - start + Ms - 1) \div Ms)

\* bs_total_request_age_ms
TotalRequestAgeMs(before_handle, parse) == AtMost(IntMax, before_handle + parse)

\* BsStrategyHasSearchWindow
HasSearchWindow(timeout, age) ==
  timeout - age - safety_margin_ms >= min_time_budget_ms

\* The timeout the strategy is given: what the request's age has left.
RemainingTimeout(timeout, age) == AtLeast(1, AtMost(IntMax, timeout - age))

\* BsStrategyEffectiveBudgetMs
EffectiveBudgetMs(timeout) ==
  IF timeout > 0
  THEN AtMost(AtLeast(min_time_budget_ms, timeout - safety_margin_ms),
              default_time_budget_ms)
  ELSE default_time_budget_ms

-----------------------------------------------------------------------------
Init ==
  /\ clock = 0
  /\ game_timeout_ms \in Timeouts
  /\ accepted_at = 0 /\ accepted_at_valid \in BOOLEAN
  /\ worker_started_at = 0
  /\ handler_started_at = 0 /\ handle_started_at = 0
  /\ phase = "queued" /\ budget = 0

Tick ==
  /\ clock < Horizon /\ phase \notin {"search", "fallback"}
  /\ clock' = clock + 1
  /\ UNCHANGED <<game_timeout_ms, stamps, phase, budget>>

\* worker_main takes the job from the queue.
Start ==
  /\ phase = "queued"
  /\ worker_started_at' = clock
  /\ phase' = "reading"
  /\ UNCHANGED <<clock, game_timeout_ms, accepted_at, accepted_at_valid,
                 handler_started_at, handle_started_at, budget>>

\* The request is read; handle_connection stamps the end of the reading.
ReadDone ==
  /\ phase = "reading"
  /\ handler_started_at' = clock
  /\ phase' = "calling"
  /\ UNCHANGED <<clock, game_timeout_ms, accepted_at, accepted_at_valid,
                 worker_started_at, handle_started_at, budget>>

\* BsHandleHttpRequestTimed stamps its own start.
HandleStart ==
  /\ phase = "calling"
  /\ handle_started_at' = clock
  /\ phase' = "parsing"
  /\ UNCHANGED <<clock, game_timeout_ms, accepted_at, accepted_at_valid,
                 worker_started_at, handler_started_at, budget>>

\* When accept() could not be stamped the request starts with its worker.
request_started_at == IF accepted_at_valid THEN accepted_at
                                           ELSE worker_started_at

total_request_age_ms ==
  TotalRequestAgeMs(ElapsedMsCeil(request_started_at, handler_started_at),
                    ElapsedMsCeil(handle_started_at, clock))

\* The body is parsed: search within what is left, or fall back.
Decide ==
  /\ phase = "parsing"
  /\ IF HasSearchWindow(game_timeout_ms, total_request_age_ms)
     THEN /\ phase' = "search"
          /\ budget' = EffectiveBudgetMs(
                         RemainingTimeout(game_timeout_ms, total_request_age_ms))
     ELSE /\ phase' = "fallback"
          /\ UNCHANGED budget
  /\ UNCHANGED <<clock, game_timeout_ms, stamps>>

Next == Tick \/ Start \/ ReadDone \/ HandleStart \/ Decide

Spec == Init /\ [][Next]_vars

-----------------------------------------------------------------------------
TypeOK ==
  /\ clock \in Nat
  /\ game_timeout_ms \in Timeouts
  /\ accepted_at \in Nat /\ accepted_at_valid \in BOOLEAN
  /\ worker_started_at \in Nat
  /\ handler_started_at \in Nat /\ handle_started_at \in Nat
  /\ phase \in {"queued", "reading", "calling", "parsing", "search",
                "fallback"}
  /\ budget \in 0 .. default_time_budget_ms

\* The time nobody measures: between the end of the reading and the start of
\* the handler.
Unmeasured == handle_started_at - handler_started_at

\* A search that is started can use its whole budget and still leave the
\* safety margin before the game server's timeout, counted from accept():
\* queueing, reading and parsing have all been deducted, up to the ticks
\* between the two clock readings around the call of the handler.
SearchFits ==
  phase = "search" =>
    (clock - request_started_at) + (budget + safety_margin_ms) * Ms
      <= game_timeout_ms * Ms + Unmeasured

\* A search is never started with less than the configured minimum, unless
\* the configured budget itself is smaller.
BudgetInRange ==
  phase = "search" =>
    /\ budget <= default_time_budget_ms
    /\ budget >= AtMost(default_time_budget_ms, min_time_budget_ms)

\* The fallback is used only when a search of the minimal length would no
\* longer fit: rounding the two durations up costs less than two milliseconds.
NoNeedlessFallback ==
  phase = "fallback" =>
    (clock - request_started_at) + 2 * Ms >
      (game_timeout_ms - safety_margin_ms - min_time_budget_ms) * Ms
=============================================================================
