# Verification of the native Battlesnake server

TLA+ models of the C program under `src/battlesnake/c-core`, the TLC
configurations that check them on small instances, and TLAPS proofs of the
theorems that hold for every instance.  Source paths are relative to the
repository; `server/`, `core/` and `datatypes/` abbreviate the directories of
`src/battlesnake/c-core`.

1. [The system](#1-the-system)
2. [The modules and the code](#2-the-modules-and-the-code)
3. [The runs](#3-the-runs)
4. [Fairness](#4-fairness)
5. [What is proved](#5-what-is-proved)
6. [Where the code and its descriptions disagree](#6-where-the-code-and-its-descriptions-disagree)
7. [What is not modelled](#7-what-is-not-modelled)
8. [Plan](#8-plan)

## 1. The system

A Battlesnake engine sends `POST /move` with the board and a timeout in
milliseconds and expects a direction before the timeout.  The production
program is one C process, `battlesnake_server`: a main thread accepts
connections into a bounded queue, a pool of workers takes them out, reads one
HTTP request each, parses the board into a per-request arena, decides how much
of the timeout is left, runs an iterative-deepening search inside that budget,
answers and closes.  `SIGINT` and `SIGTERM` end the process in order.  A
FastAPI application (`src/battlesnake/main.py`) wraps the same search for
development and comparison.

### Inventory

| Component | State it keeps | Operations | Correct when |
|---|---|---|---|
| Connection queue, `server/connection_queue.c` | ring of jobs, head, tail, count, stop flag, condition variable | TryPush (never blocks), Pop (waits), Stop, Init, Destroy | a bounded FIFO that loses, repeats and reorders nothing; no wakeup is lost; Stop lets workers drain what was admitted and then dismisses each of them |
| Active connections, `server/active_connections.c` | descriptor per worker slot, stop flag | Register, Close, Stop (shuts the read side of all) | a shutdown never reaches a descriptor number that was closed and reused; nobody starts to read after Stop |
| Server process, `server/server_main.c` | resources acquired so far, worker threads, signal mask, `g_should_stop`, self-pipe | startup, poll loop, accept, reject when the queue is full, cleanup | every descriptor has one owner; a signal wakes the poll; every failure path releases what was acquired, in an order no thread or handler can observe half done |
| Overload response, `server/overload_response.c` | none | a loop of non-blocking sends, at most as many attempts as the answer has bytes; an interrupted one is repeated | never holds up the accepting thread |
| HTTP exchange, `server/battlesnake_http.c` and the read loop of `server_main.c` | request buffer, framing state, parsed board | frame, read until complete or late, parse, dispatch, answer | framing and parser agree on where a request ends; the receive timeouts of all reads keep one deadline; the board is released |
| Move strategy, `server/battlesnake_strategy.c` | none | search window, budget, search or fallback | a search is not started without time for it, and not refused when there is |
| Request arena, `server/arena.c` | bump pointer, overflow flag | alloc, calloc, reset | aligned, disjoint, never past the end |
| JSON parser, `server/battlesnake_json.c` | cursor, what was read (in the arena), the board built from it (on the heap) | parse, free | hands over the whole of a valid request, in whichever order its fields came, or nothing; frees each allocation once on every error path |
| Board and snakes, `datatypes/board.c`, `snake.c` | dimensions, food, hazards, snakes | clone-and-apply a turn, is-safe, safe moves | the rules of the game |
| Search state, `core/search_state.c` | a mutable board, undo frames | Init, Make, Unmake | a make is one turn of the rules, an unmake restores the board exactly, also around a make that failed half way |
| Transposition table, `core/transposition_table.c` | slots, generation | probe, store, next generation | an entry never claims more than its position is worth |
| Duel search, `core/core_algorithms.c` | alpha-beta stack, killers, history, root values, snapshot of the last completed depth | search, deepen, interrupt, select a root move | values mean what their bound says; an interruption loses nothing that was established |
| Move analysis, `core/core_algorithms.c` | profiles of the root moves, what has been proved of them, stamped scratch memory | reachable space, paths, territory, space-time, structural proofs, forced losses, root policy | the verdicts are true of the board, wherever the clock ended them; no result depends on what the scratch memory was used for before |
| Position evaluation, `core/position_eval.c` | root cells, the last complete depth | evaluate a duel by a matrix game per turn, deepen, interrupt | what is published is an equilibrium of a completed depth |
| Free-for-all strategy, `core/standard_ffa.c`, `strategies/standard.py` | none | classify and score the moves, look three turns ahead, choose | picks a safe move when one exists, and not one that leads into a dead end when another does not |
| Search workspace, `core/search_workspace.c` | moves, ids and options of the search's frames, a map of occupied cells | reserve, release | memory only |
| Statistics and weight profiles | counters, generated tables | | |
| Python bindings, `py-core/`, `py-datatypes/` | wrapped C structures | conversions | |
| Development server, training, tuning, benchmarks | | offline Python programs | |

### How the components interact

- The main thread and the workers share the queue and the registry, each a
  mutex of its own.  A job is a descriptor number and a time stamp: the
  kernel may give the number to a new connection as soon as one is closed.
- The signal handler runs on the main thread between any two of its steps
  (workers are created while the signals are blocked).  It shares
  `g_should_stop` and the write end of the self-pipe with the main thread.
- A worker reads, parses, searches and writes alone; the only state it shares
  with others is its slot of the registry.
- The exchange passes five time stamps on to the strategy (accepted, popped,
  read, handler entered, parsed); from them and the game's timeout comes the
  search's deadline.
- The search owns a search state, on which it makes and unmakes joint moves,
  a transposition table and a snapshot of the best completed iteration; the
  clock and a node budget interrupt it at two places of the recursion.
- The root policy, with the structural prover, runs before the search and
  restricts the root moves and says which of them are deficient; after the
  search a corridor guard may still replace the answer.
- Without time for a search, or when it fails, the server answers with the
  fallback move, which looks one turn ahead.
- The position evaluation shares the rules with the search and nothing else; it
  is called by tests and tools, not by the server.

### What is hard here

- *Interleaving*: workers overtaking each other at the queue, spurious
  wakeups, Stop against Register, a signal anywhere in startup, loop or cleanup.
- *Reuse*: descriptor numbers, table slots, undo frames and stamped scratch
  memory all carry values of earlier owners.
- *Partial failure*: any system call or allocation may fail, in startup, half
  way through a make, between two buffers.
- *Time*: one deadline for the exchange, kept by relative timeouts that the
  kernel takes in another unit, ages that round and saturate, an interruption in the middle of an iteration, of an AND/OR proof
  or of a matrix.
- *Two of the same*: two readers of Content-Length, two passes over a string,
  two implementations of the rules of a turn, two root policies.
- *Bounds*: fail-high and fail-low values that travel through the table, the
  backup of forced ends and the comparison of root moves.
- *Relaxation*: proofs on boards without food, hunger or opponents, whose
  results are used on the board that has all three.

`PROJECT.json` lists the hazards at their lines with the properties aimed at
each of them.

## 2. The modules and the code

### Server

**`ConnectionFifo`** is the abstract queue: a sequence of jobs, who holds which
job, and a stop flag.  **`ConnectionQueue`** is `connection_queue.c`: the ring
`jobs` with `head`, `tail` and `count`, and one action per critical section —
`TryPush`, `PopStep` split where `pthread_cond_wait` releases the mutex, and
`Stop`.  The condition variable is modelled by what POSIX promises: a signal
wakes at least one waiter, waiters may wake for no reason, a woken worker has
to take the mutex again and may find the queue empty.  `FifoSpec` is the
refinement mapping, which unrolls the ring into a sequence.

**`ActiveConnections`** is `active_connections.c` together with the kernel's
descriptor table (`owner`: descriptor to connection).  It keeps apart what the
code stores (a number) and what the number refers to, so that "the shutdown hits
somebody else's connection" can be said.

**`NativeServer`** composes the two with `main`, `worker_main`,
`handle_signal` and the kernel's backlog.  The main thread is a program
counter over the stages of `main` (allocation of queue, registry and workers;
thread creation; listen socket; pipe; unmasking; the loop poll – drain –
check – accept – push; the cleanup in its order).  `held` is the set of
resources a cleanup path has to release; failures leave for cleanup with what
they hold, as the `goto`s of the code do.  Each worker has a stage between two
calls of Pop (popped, registered, reading, responding, closing).  The pool of
startup failures is the set `Failing`: each of its system calls may fail at
any time it is made.  `HandleSignal` may run wherever the mask allows.

**`ServerService`** is the promise of the process to its clients: who arrives is
admitted while the waiting room (`Capacity`) has a place, turned away only when
it is full, or reset when the listen socket closes; whoever was admitted is
served, at most as many at a time as there are workers, and finished.
`NativeServer` implements it by the mapping of `Service` (phases of connections
to `status`, the closed listen socket to `draining`).  **`NativeServerProofs`**
holds the theorems about signals and the self-pipe and those about queue,
registry and descriptors inside the process, and the refinement.

**`HttpExchange`** is the read loop of `handle_connection`,
`BsHttpRequestFrameLength`, the request parser and `BsHandleHttpRequest`
with the life of the parsed board.  A message is a request line, a sequence
of headers and a body, each *one unit long* instead of some bytes: the code
distinguishes lengths and where a message is cut, not the bytes in between.
`Read(n)` returns a piece of any size, or the client stalls, or closes
(`ReadEnds`), and a signal may interrupt the call (`Interrupted`).  Both
readers of Content-Length are modelled, each with its own treatment of
duplicates, unparsable values and Transfer-Encoding; what their loops over the
header lines find is stated by the least and the greatest line of a kind.

**`ReceiveDeadline`** is how long a read may block: `deadline_after_ms` and
`apply_receive_timeout_until`.  The code keeps the deadline as seconds and
nanoseconds and, before every `read`, computes from the clock what is left of it
(`Left`, with its borrow), gives up when nothing is (`IsOver`), and hands the
kernel the rest in seconds and microseconds (`ReceiveTimeout`, rounded up, with
its carry).  The kernel refuses a million microseconds (`IsAccepted`) and takes a
timeout of zero for none (`BlocksFor`).  `HttpExchange` uses these with a clock in
nanoseconds: `ReadLoop` turns what is left at that moment into `time_left`,
`Wait` counts it down while `read` blocks, `ReadTimesOut` fires when it is used
up, and `Elapse` lets time pass while the worker is kept from running: before the
deadline is set, before what is left is computed, and between that and the
`read`, where it makes the read end later.  That a `read` blocks for so long is
the kernel's promise; that the promises asked for add up to the request's
deadline is `ReadIsBounded`.  A kernel that wakes a thread late by its own
granularity is not modelled.  **`HttpExchangeProofs`** has the theorems about
both modules.

**`MoveBudget`** is the arithmetic of time: `elapsed_ms_ceil` and the request
age of `battlesnake_http.c` (saturating at INT_MAX, in ticks finer than a
millisecond) and the search window and budget of `battlesnake_strategy.c`,
over a clock that runs between the stamps.

**`JsonText`** is how a string and an integer are read: a string is a sequence
of *units* (a byte, an escape, four hexadecimal digits, or something that no
string may have), `MeasureString` counts the bytes it decodes to and
`WriteString` writes them; `ParseInteger` checks before each digit that the
result still fits.  The three loops are instances of `Loops` (see below).  **`JsonRequest`** is `BsParseGameRequest`: a level for each
object the parser is in, one action per field it knows, unknown fields, the end
of an object with the checks made there, and any place at which the text may
turn out malformed or the arena full.  The text is chosen while it is read, so
every order and repetition of the fields occurs.  Then the board is built on the
heap, block by block, with every allocation free to fail: `heap` is the set of
blocks, `FreeBoard` what `BoardFree` releases.  **`JsonRequestProofs`** has the
theorems about both.

### Rules and search

**`BoardRules`** is `BoardCloneAndApply`, `BoardIsSafe` and `BoardSafeMoves`
as operators on a board record: moves, food, starvation, hazards, walls,
bodies, heads pair by pair, removal, constrictor growth.

**`Loops`** is the loop that counts: `Run` is the state after so many rounds of
its body, which is the module's parameter.  Loops whose rounds depend on each
other and about which something is proved are instances of it: the two nested
loops over pairs of heads and the compaction of an array, in `BoardRules` as in
`SearchState`, the loops over strings and digits of `JsonText`, and the search of
`ForcedLosses`, its moves and replies as well as its depth.
**`LoopsProofs`** has what is proved of all of them: their states follow each
other by the body, and what one round keeps, all keep.

**`SearchState`** is `search_state.c`: the board in place, a stack of undo
frames, `MakeMove`, which moves the snakes one by one, finds out why each dies
(`MoveCauses`, `BodyCauses`, `HeadCauses`) and compacts the arrays, a make that
fails at an allocation half way, and `Unmake`.  The stack depth is bounded by
`MaxDepth`, the number of failures by `MaxFailures`.  `Board` is the set of
boards with fields of the right types; a `Proper` board is moreover one an
engine may send: identifiers are distinct, no two snakes share a cell, no body
crosses itself (it may repeat its tail at the end, as after a meal), each stored
length is that of the body, and hazards do not heal.
**`SearchStateProofs`** has the theorems, all of them for boards of any size with
any number of snakes, and those about `ForcedLosses`, `RootPolicy` and `Fallback`
(below), which rest on the same rules.

**`TranspositionTable`** has `CoreTtInit`, `CoreTtNextGeneration`,
`CoreTtProbe` and `CoreTtStore` as operators on a table record; `Slot` maps
a position to its slot, so that different positions share one.

**`RootSelection`** is the choice among root moves: every filter of
`core_select_root_candidate` under the strict and the ladder policy, the
comparator, and `CorridorGuard`.  Which moves the guard proposes is left open:
any allowed one, while the code takes them from the safe moves that the root mask
leaves (`core_algorithms.c:4499`, `6421`), so the answers of the
code are among those of the model.

**`MinimaxSearch`** is `core_minimax_search` and
`CoreMinimaxMoveWithStats`.  The recursion is a stack of frames; an action is
the code between two points at which the search may be interrupted or calls
itself: entering a node (`EnterCutoff`, `EnterLeaf`, `EnterNode`), a loop over
own moves (`OpenMove`, `CloseMove`) and replies (`OpenReply`, `TakeReply`),
and leaving it (`FinishNode`, with the store).  Around it `StartIteration`,
`CompleteIteration`, `Deepen`, `StopBetween`, `Interrupt`, `TakeInterrupted`
and `Finalize` are iterative deepening.  Killers, history and the previous
principal reply survive between iterations as in the code.  The game is
abstract: a table of positions with moves, replies, outcomes and scores.
The reference `Worth` is plain maximin without pruning, table or ordering, a
function of the depth.  A value is compared with it up to how far off a forced
end is (`Class`, by the two bands of scores of forced ends).
**`MinimaxSearchProofs`** has the theorems about selection, search and answer,
those that pruning, table and ordering lose nothing among them.

What the search model assumes: no two positions have one hash; evaluation
scores are finite integers (a leaf in a region without a way out is scored
inside the band of losses, `core_algorithms.c:6755`, and counts as lost);
reachable space, corridors and the results of the root policy are given with
the game; ties between inner moves that the code breaks by geometry may be
broken either way; the clock may run out at any place where the code looks.
Statistics, traces and out-of-memory returns are left out.

### Analysis of a position

All of this works on the boards of `BoardRules`; snakes are named by their
index, or by id where the code looks them up by id.

**`SpaceMeasures`** has the three measures of a standing board: reachable space,
`ShortestPath` (the A* search with its unordered list of open cells, from which
an entry is removed by moving the last one into its place) and
`VoronoiTerritory` (layers from all heads at once; what two reach in the same
layer belongs to nobody and nobody walks on from it).

**`SpaceTime`** is `CoreSpaceTimeCompute` with the scratch memory of a thread:
marks that are current when they equal the stamp of the computation, memory
that grows and is cleared then, a stamp that wraps and clears the states in
use.  A computation is one action; the state between two computations is the
memory.

**`StructuralProof`** is the prover (`core_analyze_self_trap` and what it calls):
the walk of the snake alone (`ProveNode`, with its cache, cap and clock), the
static room and the biconnected block ahead of the head, cycles along a
rectangle's edge, the closure tables of the opponents (`Timing`, `ClosesAt`)
and the lasso with which a route is validated on the real food and health
(`Replay`).

**`Duel`** looks at a position as one of two snakes: its outcome, what a pair of
moves makes of it, which moves count as commands (all but the one into the neck).
**`ForcedLosses`** is `core_forced_loss_node` and `core_refute_root_move`, an AND/OR
search of given depth that counts its nodes and gives up at a limit.  The search of
depth *n* + 1 is written with the one of depth *n*, a function of the position and
of the nodes visited before it; as each of these steps is a round of `Loops`, it
can be reasoned about.  Beside it stands the game itself: `Lost` and `Held` say what
the opponent and the snake can enforce in so many turns, all four moves of both
counted.  **`RootPolicy`** is `core_prepare_root_policy`: its steps are actions
(`KeepStrictMask`, `Profile`, `AnalyzeTrap`, `AnalyzeStructure`,
`RejectUnsurvivable`, `Refute`), each for one move at a time where the code loops
over the moves, and each may find that the clock has run out or a proof's cap been
reached after any of `NodeLimits` nodes.  What the two analyses of the snake alone
answer is a parameter (`TrapAnalysis`, `StructuralAnalysis`), since the policy must
be right whatever that is; the run gives it `LegacySelfTrap` and `AnalyzeSelfTrap`
of `StructuralProof`.

**`Fallback`** is `BsChooseFallbackMove`, with what it promises.  **`StandardFfa`** is `standard_ffa.c`
with the default configuration: the classification of the moves on a board on
which nobody else moves, the least bad one, the guard that refuses moves without
a way to live three turns when no opponent is near, and the choice.  Of the
scores only the order matters to the choice, so they are any `Rankings`; the
property looks at those in which no score is below that of a loss, since a
sound eligible move has a score near its evaluation.

**`MatrixGame`** is the solver of `position_eval.c`: all supports, a linear system
each, the best feasible one, and the pure maximin.  Where the code has doubles
and tolerances of 1e-6, the model has rational numbers, solved by determinants;
values of small games are further apart than that.  **`PositionEval`** is the
evaluation around it: iterative deepening over the cells of the root's matrix
(`EvaluateRootCell`, `MergeRootCells`), the recursion, the clock that any node
may find expired, and a depth that is thrown away when it was interrupted.
With OpenMP the cells are evaluated in parallel; as a cell depends on nothing
but the clock, and the code merges them in row order up to the first that
failed or is late, one order stands for all.  The leaf's heuristic is
abstracted to who is longer.

**`MoveAnalysis`** composes these as the work of one thread, which prepares a
search (`Decide`), measures positions one after the other (`Measure`) or
evaluates one (`Evaluate`), and states the properties of all of them.  The
references they are compared with know nothing of the code's method: walks as
sets of cells per turn, balls of growing radius, maximin and reachability over
`BoardCloneAndApply`, and the definition of an equilibrium.

## 3. The runs

| Run | Instance | What it shows |
|---|---|---|
| `queue` | 3 jobs, 3 workers, capacity 2; 22 thousand states | the ring implements the abstract FIFO, a job never waits beside a sleeping worker that nobody will wake, a stop drains the queue and dismisses everybody |
| `server` | 2 workers, 3 clients, capacity 1, 4 descriptor numbers, every system call may fail, symmetric clients and workers; 1.4 million states | who owns a descriptor at any time, that the registry names open connections of living workers only, that nobody blocks in a read after the stop, that a signal always reaches the poll, that the handler never writes into a closed pipe, that the exit leaves nothing behind |
| `server_live` | 2 clients, failures of thread creation, listen, accept and the cleanup's mask; 153 thousand states | a signal or failure ends the process even if every client is silent for ever; the process implements `ServerService`; with the read deadline nobody who connects is left behind |
| `http_exchange` | some 380 messages of up to 8 units, buffer 6, header limit 4, body limit 2; a second of 4 ns, 2 µs or 2 ms, timeout 3 ms, start at 3, delays up to 9; 3.6 million states | reader and parser agree on where a request ends, how the network cuts a message does not change the answer, all the reads together keep the one deadline of the request, neither longer than a microsecond beyond it nor shorter, the exchange ends and frees its board |
| `json` | up to two snakes, bodies and food of one cell, integers of eight bits, all strings of up to three units and numbers of up to four digits; 2.5 million states | strings and integers are read for what they say; a board is handed over whole or not at all |
| `move_budget` | 2 ticks per ms, INT_MAX 5, timeouts 0–5, clock to 14; 83 thousand states | a search that is started fits before the timeout less the margin, except for the one stretch the code does not measure; the fallback is used only when a search would not fit |
| `search_state` | duels on 3 × 3 with food, a hazard and both rule sets, 3 makes deep, one failed make; one turn from about 1,000 positions of two and three snakes; 68 thousand states | an unmake restores the board exactly, whatever happened between; the make in place is `BoardCloneAndApply`; a safe move survives and an unsafe one has a reply that refutes it; the order of the snakes in the array does not matter |
| `search` | 4 plies, 10 positions, 2 table slots, 250 games, three configurations; 1.4 million states | table entries and root values are what their bounds say; the answer, its value and its depth belong together; an interruption takes nothing back |
| `analysis` | boards of 2 × 1 to 6 × 4; 102 thousand states | the root policy, the prover, the measures of room, the fallback move, the free-for-all strategy and the evaluation mean what they say |
| `search_tie`, `search_window`, `fallback` | as `search` and `analysis` | the disagreements of section 6, each as a counterexample |

The ten properties of `analysis`:

- `SpaceTimeExact`: the metrics are those of a search with a memory of its own,
  whatever was computed before.  `DeadMeansDoomed`: a snake alone that they call
  dead cannot live for more turns than it is long.
- `RoomIsExact`: paths exist when they should and are shortest; reachable space
  is what a walk leads to; in a duel nobody owns a cell the other is nearer to.
- `PolicyIsHonest`: a move said to be refuted loses against some reply, one said
  not to be is held against every reply, wherever the clock ended the proofs;
  and no move is dropped but such a loser, never the last that may be survived.
- `SelfTrapIsFatal`: a move said to run into the snake's own body does, within
  the turns counted, whatever both do.
- `ClosureCoversContests`: where the closure table lets our snake go, no play of
  the opponent, its meals included, puts a head that is not shorter, its neck or
  one of its first segments.
- `SafeIsSurvivable`: a move proved safe can be lived with on the real board,
  whatever food is taken first.
- `FallbackTakesItsChance`, `StandardMoveIsSound`: no certain death is chosen while
  a move with a chance exists; and beyond it, as the sections above say.  A chance
  of the fallback move is a reply that we survive and that the opponent does not
  die of for nothing: replies into its own neck do not count, in the code or in the
  property.  With them it would be false, as the attempt to prove it showed; on the
  board `MCNeck` the one way out opens only if the opponent turns back into its neck.
- `PublishedIsEquilibrium`: what the evaluation publishes is an equilibrium (or
  the maximin) of the last completed depth, and so is every value below it.

### Why the bounds are enough

- *queue*: two cells and three jobs let both indices wrap; three workers are
  enough for one to sleep, one to be woken and one to overtake it.
- *server*: with two workers and capacity 1 a third client finds everything
  full; four numbers, of which `accept` takes the lowest free one, force reuse
  after every close.  All failure names at once include every pair of failures.
- *http_exchange*: a buffer of 6 with limits 4 and 2 has messages just below,
  at and above every limit, two Content-Length headers that agree or not, in
  either order and on both sides of a cut.  With two nanoseconds in a
  microsecond and two microseconds in a second, what is left borrows, rounds and
  carries within a few ticks, and every remainder occurs, since a worker whose
  first reading of the clock failed starts at any time; leaving out the borrow,
  either carry, the rounding or one half of the test for the end breaks
  `ReadIsBounded` on this instance.
- *json*: a code point on each side of every bound of UTF-8 and of the
  surrogates; four digits go beyond INT_MAX 127 in the last and in the first
  digit; two snakes are a first and a last one to free; sizes 0, 2 and 3 with a
  cell that is inside only the larger board.
- *move_budget*: INT_MAX within reach of the clock makes every saturation
  happen; two ticks per millisecond make rounding visible.  The theorem covers
  all other values.
- *search_state*: on 3 × 3 every cell is next to a wall or to another
  snake; bodies of two and three cells include stacked tails; healths 1, 3 and
  9 are the last turn, one survived hazard, and no danger.  Three heads meet in
  one cell.
- *search*: four plies are the least at which a killer, a principal reply and a
  table entry of one iteration are all used by another at an inner node; ten
  positions in two slots make every store meet a neighbour.
- *analysis*: `MCDuels` (4 × 4, bodies of six and seven) traps the first snake in
  its own body; in `MCRooms` it can live on beside a small opponent; `MCDraw`
  has a proof whose end is a draw, `MCCrowd` a third snake, `MCStandoff` no safe
  move at all, `MCNeck` a way out that only a move into the neck opens; `MCAlone` has every snake of three to five cells on 3 × 3;
  `MCShared` has boards of four sizes with a stamp that wraps after two
  computations, four in a row (`StampMax`, `Computations`); `MCFar` has two snakes
  more than six cells apart with a dead end next to the first.  Proofs end after 0,
  5, 40 or 1000 nodes (`NodeLimits`), evaluations of depth 0 and 2 after 0, 1, 2,
  9 or 1000 looks at the clock (`MaxDepths`, `Clocks`), so in the first cell, at
  the end of a depth and not at all.  The closure table is compared for the first
  four turns (`Arrivals`).  The prover's verdict "safe/horizon" and its limit on
  huge boards are not reached.

Deadlock is checked except where the system stops by design: after a drained
stop (`queue`), at the horizon of the clock (`move_budget`), when the bound on
makes is reached (`search_state`), when a request has been refused or released
(`json`), and when the thread's work is done (`analysis`, `fallback`).

Every property of a passing run is also checked against a plausible bug
(`mutants` in `PROJECT.json`): the operator named with an underscore next to
the original, such as `FrameLength_HeaderOnly` or `NodeBound_ForgetsLower`, in
its place violates the property.

## 4. Fairness

- *Queue*: weak fairness per worker of taking the mutex and looking
  (`PopStep`) and of finishing the work in hand.  The workers are threads of
  one process, and the mutex is held for a few instructions at a time.
- *Server, prompt*: weak fairness of the main thread's steps when they do not
  block (a poll with nothing ready blocks), of the signal handler, and of each
  worker's steps that do not wait for a client.  A read that has been shut down
  returns.  No fairness for clients, and none for a read from a silent client:
  the shutdown must not need it, and `ProcessEnds` shows that it does not.  No
  fairness forces a system call to fail.
- *Server, read deadline*: `ReadsEnd`, weak fairness of `ReadEnds`, is what
  `HttpExchange`'s `ExchangeEnds` shows of the read loop.  It is the
  hypothesis of `ServiceLive` only.
- *HTTP*: weak fairness of the worker's own steps.  Strong fairness of `Wait`:
  a thread that blocks in `read`, is interrupted and blocks again cannot do so for
  ever in no time.  None for the client, who may stop sending at any point.
  `ExchangeEnds` then rests on the timeout: one of zero would let the worker wait
  for ever.

The search, the analysis, the parser, the budget and the rules have safety
properties only: each runs to its end in one thread and waits for nobody.

## 5. What is proved

Every theorem holds for all values of the constants that the assumptions of its
module allow; the bounds of the runs appear only as constants with arbitrary
values (`MaxDepth`, `MaxFailures`, `Horizon`).

| Theorem | Statement | Argument |
|---|---|---|
| `TypeCorrect` (`ConnectionQueueProofs`) | `SafeSpec => []TypeOK` | part of `IInv`, one lemma per action |
| `FifoHolds` | `SafeSpec => []FifoOrder`: what was pushed is what was popped followed by the unrolled ring | `IInv`: `tail` is `head + count` modulo the capacity and the cells between hold jobs; `PushAppends` and `PopRemovesHead` say how the unrolled ring changes when a cell is written at `tail` or given up at `head`, with the case of the wrap |
| `WakeupsHold` | no lost wakeup, nobody asleep after a stop, dismissed only from a drained queue | a push that makes a job more also wakes a sleeper (`WakeMovesOne`), and a worker that takes the mutex either takes a job or finds none left |
| `ImplementsFifo` | `SafeSpec => Fifo!SafeSpec` | each action maps to an action of `ConnectionFifo` or to a stutter, by `IInv` |
| `HandlerFindsPipeAlways`, `StopReachesPollAlways` (`NativeServerProofs`) | `SafeSpec => []HandlerFindsPipe`, `SafeSpec => []StopReachesPoll` | `SignalInv`: where main stands determines whether the pipe is published, held and the signals blocked; one lemma each for startup, loop, cleanup, workers and environment |
| `RunsQueue` | `SafeSpec => QP!SafeSpec`: what the process does to its queue is a behaviour of `ConnectionQueue` | each action is a queue action or leaves the queue alone; a job is pushed once because every number `accept` returns is for a new connection (`AcceptInv`).  The queue's invariant then holds inside the process without being proved again |
| `DescriptorOwnershipAlways`, `RegistryMatchesAlways`, `NoBlockingReadAlways` | `SafeSpec => []DescriptorOwnership`, and so on | `JobInv`: an open connection is in the ring, with one worker or in main's hands; `OwnerInv`: every number somebody has refers to the connection it was accepted for and no other is open, the slots in use are those of the workers inside a connection, and after the stop each of these is shut down |
| `CleanExitAlways` | `SafeSpec => []CleanExit` | `ThreadInv` (who exists, who is gone, where main stands) and `ResourceInv` (what main holds at each of its places, on every failure path) |
| `ServerTypesAlways` | `SafeSpec => []TypeOK` of the process | all of these layers and `FlagInv` |
| `ServiceHolds` (`NativeServerProofs`) | `SafeSpec => ServiceSafe`: the process implements `ServerService` | one lemma per action: what a client sees (`ClientStatus`) changes by one step of the service or not at all; `PlaceInv` says in which of the places a connection is, so that the cases of the mapping exclude each other |
| `FramingHolds` (`HttpExchangeProofs`) | `Spec => []FramingAgrees`, for every message | `FrameInv`: the reader has a target exactly when it has the header, and which; `OneLength`: without an offence all Content-Length lines are equal, so the first, which the reader takes, is the last, which the parser takes |
| `SegmentationHolds` | `Spec => []SegmentationIndependent` | `FrameInv` |
| `ReadBounded` | `Spec => []ReadIsBounded`, for any number of nanoseconds, microseconds and milliseconds in a second, any timeout, pieces, interruptions and delays | `DeadlineValue`, `LeftValue`, `OverValue`, `TimeoutValue`: one carry or borrow is enough, what is left is the difference, and the timeout covers it by less than a microsecond, is accepted and is not zero; `TimeInv`: what a read may still block, added to what was waited before, stays within the timeout and the microsecond, and added to the clock reaches the deadline |
| `HandoverHolds` (`JsonRequestProofs`) | `Spec => []HandoverIsWhole` | `BoardInv`: the board under construction is a prefix of what was parsed and its blocks are all that is on the heap, so that `BoardFree` frees everything wherever it is called; and every snake that was added has all its parts, also when a copy found no memory |
| `LiteralsAreExactAlways` | `Spec => []LiteralsAreExact`, for strings and numbers of any length and any `INT_MAX` above 9 | `Utf8IsExact` by arithmetic for every code point; what is written is as long as what was measured after every unit (`StringsAreExact`), and the digits are taken in exactly as long as their numeral is within the limit (`IntegersAreExact`), both by induction over the rounds |
| `BudgetHolds`, `FallbackIsNeeded` (`MoveBudgetProofs`) | a search that is started fits, its budget is in range; the fallback is not used needlessly | `Inv`: the stamps are in order; `CeilBounds` and `ElapsedBounds` bound the rounded and saturated intervals, `AgeBounds` the age in the state in which the decision is taken |
| `SelectRootSound` (`MinimaxSearchProofs`) | whatever the values and the geometry of the root, `SelectRoot` ends with one move, which has a value, and returns that value | every filter keeps something (`KeepsSome`, `StructureKeepsSome`, `KeepMostKeeps`), because a finite set has a greatest measure; the last stage of the fallback is a single move, so some stage is |
| `CompletedNeverLostAlways` | `Spec => CompletedNeverLost` | `SearchInv`, one lemma per action: no snapshot is as deep as an iteration under way; values of an unfinished iteration are taken only at depth 0 (`AdoptionIsSound`); the corridor guard exchanges only equal values (`GuardIsSound`) |
| `AnswerIsOneBranchAlways` | `Spec => []AnswerIsOneBranch`, the part of `AnswerIsComplete` that says nothing of `Worth`, without a hypothesis on the game | `SearchInv`: the root of an iteration cannot be answered by the table, since no entry is as deep (`ProbeIsValue`), so a finished iteration went through the root's moves and `SelectRootSound` gives its answer a value; the orders of the moves add none (`OrderMovesReorders`); the guard's move is of the frontier when the one it replaces is |
| `TableIsHonestAlways`, `RootValuesAreHonestAlways`, `AnswerIsCompleteAlways` (`MinimaxSearchProofs`) | `Spec => [](Layered(G) => TableIsHonest)`, and so on: in a layered game, what is stored, published and answered is true of the unpruned maximin | `HonestInv`, see below |
| `UnmakeRestoresAlways` (`SearchStateProofs`) | `Spec => UnmakeRestores` | `UndoInv`: each frame of the stack holds what is needed to get from the board above it to the board below it, and the board below is the one recorded when the frame was pushed |
| `BoardsAlways` | `Spec => []BoardsInv`: the board, and every board an unmake may go back to, is a `Board` | `UndoInv` and the types; a make makes a board of a board (`MakeType`) |
| `MakeFollowsRulesAlways` | `Spec => MakeFollowsRules`: a make in place leaves the board that `BoardCloneAndApply` returns | `HeadToHeadIs`: the loops over pairs of heads come down to a formula, `AfterEncounters` (whoever was not out before dies if another that was not is on its cell and no shorter), by induction over the rounds of both loops, with `Settled` for what is decided after some of them; the causes that a make records kill just whom the rules kill, stage by stage (`MoveCausesKill`, `BodyCausesKill`, `HeadCausesKill`) |
| `OrderIndependentAlways` | `Spec => []OrderIndependent`: the turn of the reversed array is the reversed turn | `HeadToHeadIs`, since its formula does not mention the order (`MirroredDead`); `WithoutReversed` for the compacted arrays |
| `ProperAlways` | for proper `Boards`, `Spec => []ProperInv`: until a make fails half-way, the board is proper and so is every board an unmake may go back to | `TurnIsProper`: a turn of a proper board is proper, whatever the commands |
| `SafeMeansSafeAlways` | for proper `Boards`, `Spec => []SafeMeansSafe`: a safe move survives all replies, but for a stacked tail and starvation; a move that is not safe is refuted by one | `ProperInv`; `SafeMoveLives`: each way to die contradicts one part of `BoardIsSafe`; `UnsafeMoveDies`: for each part that fails, the reply `Against` it |
| `RefuteIsRight` (`SearchStateProofs`) | for every duel, first move, number of turns and node limit: called refutable, the move has a reply after which all is `Lost` within those turns; called not refutable, every reply is `Held` | `RightFor`, by induction over the depth (`DeepenIsRight`); in each depth the loops over replies (`RepliesAreRight`) and moves (`MovesAreRight`), by induction over their rounds.  The search tries command moves only and the game has all four: a move into the neck kills who makes it (`NeckKills`), and a game that is over stays over (`OverIsOver`) |
| `PolicyIsHonestAlways` | `PolicySpec => []PolicyIsHonest`, whatever the two analyses of the snake alone answer | `PolicyInv`, one lemma per step: what the profile, the refutations (`RefutationsRight`) and the mask (`DropsRight`) mean while the steps go through the moves; `RefuteIsRight`; a move all of whose replies lose is lost (`NoSurvivorIsLost`) |
| `FallbackTakesItsChanceAlways` | for proper `Positions`, `PolicySpec => []FallbackTakesItsChance` | a move that is safe survives some reply (`SomeReply`, by `SafeMoveLives`); when none is safe, `Contingent` is what the property speaks of (`SurvivorsLive`) |

The assumptions are those of the modules: a queue of positive capacity, a finite,
non-empty set of workers, a value that is no job and one that is no connection,
at least one tick per millisecond, units of time of which as many make a second
by microseconds as by milliseconds (`UnitsAssumption`), a margin in 0..INT_MAX and positive default
and minimum budgets; of a message, that its lengths are numbers and its values
are lengths or one of the two words that are none; of a game, that its table
leads to positions of the game, that each has a move and a reply (the code falls
back to all moves when none is safe, and ends a search in which there is none
with an error), that some move is allowed at the root, each once, and that scores and
measures are integers; of a configuration, that a fixed depth is at most the
deepest; of the scores (`BandAssumption`), that they are finite, that a win is
weighed above a loss, and that forced ends of any distance stay in two bands
that do not meet, which `core_terminal_survival_step` provides for
(`core_algorithms.c:1419`): a step is at most a quarter of the gap divided by
the deepest depth and one; of the positions a search starts from, that they are
boards (`SearchStateAssumption`); of a duel, that the two ids differ
(`DuelAssumption`); of the positions the policy is asked about, that they are
boards, with the two ids when there are two snakes, and that a trap which the
analysis finds is a number of turns away (`RootPolicyAssumption`); of strings and digits, that they are sequences
of units and of digits (`LiteralsAssumption`).

`ProperAlways` and `SafeMeansSafeAlways` have the hypothesis that the boards a
search starts from are `Proper`, and `FallbackTakesItsChanceAlways` that the duels
the server is asked about are.  It is in the statement and not an assumption,
as the other theorems about the search state and the policy do without.  `BoardIsSafe` is about
such boards only: where two bodies share a cell, a tail that leaves it does not
make it free.  TLC evaluates it for the boards of the run
(`MCBoardsAreProper`).  Of a board that a failed make left half-way,
`SafeMeansSafe` says nothing.

`TableIsHonestAlways`, `RootValuesAreHonestAlways` and `AnswerIsCompleteAlways`
have a hypothesis that the reader sees in their statement, `Layered(G)`: a position comes up at one distance from the root
only.  The hash knows no turn, but the health of every snake, which falls by one
with each move (and in a constrictor game its length, which grows with each); so
the same position comes up at two distances only if every snake ate, or met a
hazard, on the way.  In such a game an entry stored with more
depth than is asked for answers a probe (`transposition_table.c:89`), and the
values above it mix depths: what the search then says is no longer the maximin of
any one depth, and nothing is claimed.  The games of the run are layered, which
TLC evaluates (`MCGamesAreLayered`).

The argument for them.  `Chain` says of the stack that each frame searches its
position to the depth its layer leaves, and that the window of a frame is the one
the frame below passed to it.  Of a frame, `Windowed` says where its alpha comes
from and `BestKnown` what its best value means of the moves done: reached, when it
is above the window the node was entered with, and a bound of all of them, when
it is below beta; `MoveBounded` and `RepliesReach` say the same of the replies to
the move at hand.  `TakesAnswer` is the heart: a child's value becomes one move
older on its way up, so it may pass alpha or beta, which went down as they were;
but a value that changes at all is a forced end, stays in its band, and so still
settles the window up to `Class`.  `Entry` bounds the depth of what is stored by
the layer of its position, hence a hit that cuts off has exactly the depth that
was asked for, and `ClosesMove`, `NodeAnswers` and `RootValueTrue` carry the
meaning of bounds out of the node.  At the root `Led` keeps an exact value as high
as the best one, which `DepthIsComplete` needs: a move refuted at the best
score is only a bound.  TLC checked `HonestInv` on the `search` instance before it
was proved.

Why the strengthenings are needed: `FifoOrder` alone does not say where the next
push writes, and `NoLostWakeup` alone does not say that a stopped queue has no
sleepers left; `HandlerFindsPipe` is about states in which the handler can run
and says nothing of those from which it is unblocked; `DescriptorOwnership`
counts jobs, and does not say that a worker that closes its connection is the
last to know its number, for which one must know that a slot, a ring cell and
main never share a connection; `RegistryMatchesWorkers` says nothing of a
registry that is being stopped; `CleanExit` speaks of the exit only, and its
truth is decided by what every failure path skips; `FramingAgrees` compares two
readings of one message and says nothing of the target the reader already
has; `ReadIsBounded` bounds what was waited, and nothing in it says that
the next timeout is computed from a deadline that is still the first one;
`HandoverIsWhole` speaks of the end, while memory may be refused at any
step before it; `SearchFits` says nothing before the decision, whose inputs must
be known to be in order; `CompletedNeverLost` forbids what no action may do, and
that the guard's exchange is not such a thing rests on the answer's value being
that of its move, hence on the whole way from the table to the root;
`TableIsHonest` and `RootValuesAreHonest` say nothing of the values on their way
through the stack, nor of the window they were asked for, without which a bound
means nothing;
`UnmakeRestores` speaks of the top frame only, while an
unmake uncovers the next; `MakeFollowsRules` and `OrderIndependent` speak of the
board at hand, which an unmake takes from the frames, so these must hold boards
as well; `PolicyIsHonest` says of the moves that were dropped only what is so when
the policy is done; and `SafeMeansSafe` is true of proper boards, hence properness has to
outlast turns in which snakes grow and die.

Induction is available for what is written as an instance of `Loops`:
`LoopsProofs` states it for sets of numbers, with the property as a set.  A search
through a tree of positions is within reach if its depth is the counter, as in
`ForcedLosses`; one that ends only because a set grows or a cache fills is not.

Model-checked only, and why:

- *liveness* (`StopDrainsAndEnds`, `ProcessEnds`, `ServiceLive`, `ExchangeEnds`):
  it rests on fairness, hence on ENABLED, which the prover does not treat;
- of `MoveAnalysis`, `SpaceTimeExact`, `DeadMeansDoomed`, `RoomIsExact`,
  `SelfTrapIsFatal`, `ClosureCoversContests`, `SafeIsSurvivable`,
  `PublishedIsEquilibrium` and `StandardMoveIsSound`: the measures, the prover, the
  evaluation and the free-for-all strategy are recursive operators, the first two
  over growing sets of cells.

## 6. Where the code and its descriptions disagree

- `search_tie` — a root move whose replies are cut off at a score *equal* to
  alpha keeps that score as an upper bound.  The root policies then treat it as
  tied with the exact move of the same score and let the reachable space
  decide, although a plan asks for a re-search first
  (`docs/superpowers/plans/2026-07-10-issue-38-duel-self-trap-dominance.md:163`).
  The answer may be a move that the completed iteration has refuted.
- `search_window` — alpha and beta go down unchanged while a forced end comes
  back up one move further away.  A child that fails low at exactly alpha
  therefore beats it, and its bound is published as an exact distance, while
  `tests/test_search_diagnostics.py:529` expects the score a full-window search
  gives.  Only distances are wrong: `RootValuesAreHonest` shows that a loss
  reported exact is a loss.
- `fallback` — `BoardIsSafe` counts the last segment of a body as vacated unless
  its snake eats on this move.  After a meal the last two segments share a cell,
  which stays occupied for another turn.  The fallback move then runs into the
  snake's own tail although another move has replies that it survives, while the
  plan asks that "A guaranteed self-collision must not beat a contingent
  head-to-head risk"
  (`docs/superpowers/plans/2026-07-10-issue-38-duel-self-trap-dominance.md:35`).

Behaviours met on the way, kept in the models as they are:

- HTTP: a request without any header is refused; `GET /` with a body length is
  waited on and refused; bytes beyond the declared body are answered with an
  error or ignored depending on how they were cut (`SegmentationIndependent`
  speaks of messages that declare their body).
- Server: an error of `accept` other than the three transient ones ends it; the
  time between the handler's entry and the start of its own clock is not
  deducted from the budget (`Unmeasured` in `SearchFits`).
- JSON: a snake whose id comes twice, the second time as null, is accepted with
  an empty id.
- Rules: with two pieces of food in one cell a make in place removes one of them
  and `BoardCloneAndApply` both (`MakeFollowsRules` speaks of distinct food;
  game engines send no other); `hazard_damage + 1` overflows for the largest
  damage the parser accepts (`board.c:266`).
- Measures: the docstring of `src/battlesnake/core/voronoi.py:10` says "Assign
  reachable cells to the nearest snake head."  The code stops at cells that are
  tied, so that with three snakes a cell behind such a cell can go to a snake
  that is not nearest, and with two a tied cell to one of them; when the stamp
  of the space-time memory wraps, only the marks in use are cleared
  (`partly_cleared`), which four thousand million computations of one thread
  separate from any effect.
- Prover: of a shorter opponent the closure table looks back a single turn, not
  as far as its body reaches.
- Fallback: it does not see that a move starves.
- Free-for-all: the guard tries the best move again once it has passed, so that
  two of three scored moves are looked at only if the first is refused;
  `max_scenarios` is 12 but at most 8 are ever used.

## 7. What is not modelled

- The reading of the environment, the logs and the counters of the server:
  parsing and formatting without later effect on control.
- Alignment, offsets and the reset of the request arena: only whether memory is
  given is modelled (`JsonRequest`).
- The overload response: a bounded best-effort loop whose result only a counter
  of the log sees; `NativeServer` has the rejection as one step.
- In the parser: the turn, the names of snakes, nested unknown values and white
  space.
- A failing clock in the age of a request, which then counts as 0: the stamps of
  `MoveBudget` are all there.
- Which strategy a game type gets, and the weight profile of a game running out
  of memory.
- Evaluation weights and scores: of the search's leaves, of the free-for-all
  strategy with its scenarios (any ranking instead), of the position
  evaluation's leaves (who is longer).
- Corridor metrics and choke points; the search workspace, which is memory.
- Allocation failures within the core's algorithms, except in a make.
- The Zobrist hash: distinct positions are assumed to have distinct hashes.
- `duel_weight_profiles_generated.c`: generated numbers.
- The Python bindings: conversions under the interpreter's lock.
- The FastAPI server, training, tuning and benchmarks: development tools
  around external libraries, without long-lived state of their own.

## 8. Plan

Done, in this order: queue with its abstract specification and proofs;
registry; the process and its service; the exchange; the budget and its proof;
the rules, the search state and its proof; table, root selection and search;
the parser; the measures of room and the space-time memory; the prover and the
root policy; the evaluation; the fallback move and the free-for-all strategy;
the proofs about the process, its service, the exchange, the parser, the search
with pruning and table, the rules of a turn, the search for forced losses, the
root policy and the fallback move.

Next:

1. *Proofs*: the prover's walk (`ProveNode`) and the evaluation (`EvaluateNode`)
   with their depth as the counter of a loop, as `ForcedLosses` has it; then
   `SelfTrapIsFatal` and `PublishedIsEquilibrium` come into reach.
2. *The comparator of root candidates*: whether two of its verdicts can
   contradict a third.  The search asks it only whether two moves are equal.
3. *The scenarios of the free-for-all strategy*, at most eight, taken in the order
   of the snakes: what a score promises when the eight leave out most replies.
