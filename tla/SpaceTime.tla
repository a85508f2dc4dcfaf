----------------------------- MODULE SpaceTime -----------------------------
(***************************************************************************)
(* The space-time measure (CoreSpaceTimeCompute): which cells a snake can  *)
(* walk to when every body segment leaves its cell in its turn and every   *)
(* opponent that is at least as long claims a cell as soon as it can be    *)
(* there. It is a search over pairs of a time and a cell.                  *)
(*                                                                         *)
(* A worker thread keeps the marks of its searches in one scratch memory.  *)
(* Instead of clearing the marks, each computation uses a new stamp; the   *)
(* memory is cleared when it grows and, in part, when the stamps run out.  *)
(* The marks of a computation are the states (time, cell), numbered as the *)
(* code numbers them.                                                      *)
(***************************************************************************)
EXTENDS SpaceMeasures

CONSTANTS
  StampMax,     \* UINT_MAX
  Computations  \* how many computations a run looks at (a bound)

ASSUME SpaceTimeAssumption ==
  StampMax \in Nat \ {0} /\ Computations \in Nat

VARIABLES
  opponent_marks,  \* the marks of the opponents' search, [seen, stamp]
  own_marks,       \* the marks of the snake's own search
  measured,        \* [board, snake, metrics] of the last computation
  computed,        \* computations so far
  partly_cleared   \* whether a stamp has started again from one while marks
                   \* outside the states in use stayed

spaceVars == <<opponent_marks, own_marks, measured, computed,
               partly_cleared>>

NoMetrics == [reachable_cells |-> 0, max_arrival |-> 0,
              tail_reachable |-> FALSE, dead |-> FALSE]

-----------------------------------------------------------------------------
(* Changed forms, one plausible bug each. *)

\* lets the snake's own tail stay for a turn whenever food is near
TailDelay_Near(board, i, j) ==
  IF board.constrictor THEN Never
  ELSE IF CanEatNextTurn(board, board.snakes[j]) THEN 1 ELSE 0

\* keeps whatever the new memory holds: the marks of a former owner
Grow_Uncleared(marks, state_count) ==
  IF state_count <= Len(marks.seen) THEN marks
  ELSE [marks EXCEPT !.seen = [s \in 1 .. state_count |->
                                 IF s <= Len(@) THEN @[s] ELSE 2]]

-----------------------------------------------------------------------------
(* When cells become free. *)

\* A meal keeps the tail of snake j where it is for a turn more.
TailDelay(board, i, j) ==
  IF board.constrictor THEN Never
  ELSE IF IF j = i THEN Last(board.snakes[j].body) \in Food(board)
                   ELSE CanEatNextTurn(board, board.snakes[j])
  THEN 1 ELSE 0

\* The first time at which a cell is free of all bodies.
VacateTimes(board, i) ==
  LET leaves(j, k) == IF TailDelay(board, i, j) = Never THEN Never
                      ELSE Len(board.snakes[j].body) - k + 1
                             + TailDelay(board, i, j)
      times(cell) ==
        {0} \cup UNION {{leaves(j, k) :
                           k \in {n \in DOMAIN board.snakes[j].body :
                                    board.snakes[j].body[n] = cell}} :
                          j \in Indices(board)}
  IN  [cell \in Cells(board) |->
         IF cell \in DeadlyHazards(board, i) THEN Never
         ELSE Max(times(cell))]

MaxTime(board, vacate) ==
  Max({0} \cup {vacate[c] : c \in {d \in Cells(board) : vacate[d] < Never}})
    + Cardinality(Cells(board)) + 2

-----------------------------------------------------------------------------
(* Marks. *)

StateCount(board, max_time) == (max_time + 1) * Cardinality(Cells(board))

\* The number of a state in the scratch memory, from one on.
StateOf(board, time, cell) ==
  time * Cardinality(Cells(board)) + cell[2] * board.width + cell[1] + 1

\* core_space_time_ensure_scratch
Grow(marks, state_count) ==
  IF state_count <= Len(marks.seen) THEN marks
  ELSE [marks EXCEPT !.seen = [s \in 1 .. state_count |-> 0]]

\* core_space_time_next_stamp: only the marks in use are cleared.
NextStamp(marks, state_count) ==
  IF marks.stamp = StampMax
  THEN [stamp |-> 1, seen |-> [s \in DOMAIN marks.seen |->
                                 IF s <= state_count THEN 0
                                                     ELSE marks.seen[s]]]
  ELSE [marks EXCEPT !.stamp = @ + 1]

ClearsPart(marks, state_count) ==
  marks.stamp = StampMax /\ state_count < Len(marks.seen)

Unmarked(board, marks, time, cells) ==
  {c \in cells : marks.seen[StateOf(board, time, c)] # marks.stamp}

Mark(board, marks, time, cells) ==
  LET states == {StateOf(board, time, c) : c \in cells}
  IN  [marks EXCEPT !.seen = [s \in DOMAIN @ |->
                                IF s \in states THEN marks.stamp ELSE @[s]]]

-----------------------------------------------------------------------------
(* The two searches, a time after the other. arrival gives the earliest    *)
(* time at a cell, Never where nobody comes.                               *)

Arrive(arrival, time, cells) ==
  [c \in DOMAIN arrival |->
     IF c \in cells /\ arrival[c] > time THEN time ELSE arrival[c]]

RECURSIVE OpponentsFrom(_, _, _, _, _, _, _)
OpponentsFrom(board, vacate, max_time, time, layer, arrival, marks) ==
  IF time = max_time \/ layer = {} THEN [arrival |-> arrival, marks |-> marks]
  ELSE LET next == Unmarked(board, marks, time + 1,
                     {c \in UNION {Adjacent(board, d) : d \in layer} :
                        time + 1 >= vacate[c]})
       IN  OpponentsFrom(board, vacate, max_time, time + 1, next,
             Arrive(arrival, time + 1, next),
             Mark(board, marks, time + 1, next))

\* core_fill_opponent_arrival
OpponentArrival(board, heads, vacate, max_time, marks) ==
  OpponentsFrom(board, vacate, max_time, 0, heads,
    [c \in Cells(board) |-> IF c \in heads THEN 0 ELSE Never],
    Mark(board, marks, 0, heads))

MayEnter(vacate, arrival, cell, time) ==
  time >= vacate[cell] /\ arrival[cell] > time

\* The cells found from a layer, in the order in which they are found.
Found(board, layer, cells) ==
  FoldLeft(LAMBDA found, c :
             found \o SelectSeq(Neighbours(board, c),
                        LAMBDA d : d \in cells /\ d \notin ToSet(found)),
           <<>>, layer)

\* found up to the cell with which everything is reached: the search stops
\* there, in the middle of a layer.
UntilAllReached(board, reached, found) ==
  LET complete == {n \in DOMAIN found :
                     reached \cup ToSet(SubSeq(found, 1, n)) = Cells(board)}
  IN  IF complete = {} THEN found ELSE SubSeq(found, 1, Min(complete))

\* s is [layer, own_arrival, tail_reachable, marks].
RECURSIVE OwnFrom(_, _, _, _, _, _)
OwnFrom(board, i, vacate, arrival, time, s) ==
  LET reached == {c \in DOMAIN s.own_arrival : s.own_arrival[c] # Never}
      open == Unmarked(board, s.marks, time + 1,
                {c \in Cells(board) : MayEnter(vacate, arrival, c, time + 1)})
      layer == UntilAllReached(board, reached, Found(board, s.layer, open))
      next == ToSet(layer)
  IN  IF \/ time = MaxTime(board, vacate) \/ s.layer = <<>>
         \/ reached = Cells(board)
      THEN s
      ELSE OwnFrom(board, i, vacate, arrival, time + 1,
             [layer |-> layer,
              own_arrival |-> Arrive(s.own_arrival, time + 1, next),
              tail_reachable |-> s.tail_reachable
                                   \/ Last(board.snakes[i].body) \in next,
              marks |-> Mark(board, s.marks, time + 1, next)])

Metrics(board, i, own_arrival, tail_reachable) ==
  LET head == SnakeHead(board.snakes[i])
      reached == {c \in DOMAIN own_arrival \ {head} : own_arrival[c] < Never}
      count == Cardinality(reached)
  IN  [reachable_cells |-> count,
       max_arrival |-> Max({0} \cup {own_arrival[c] : c \in reached}),
       tail_reachable |-> tail_reachable,
       dead |-> ~tail_reachable /\ count < SnakeLength(board.snakes[i])]

-----------------------------------------------------------------------------
(* A computation. *)

SpaceTimeInit ==
  /\ opponent_marks = [seen |-> <<>>, stamp |-> 0]
  /\ own_marks = [seen |-> <<>>, stamp |-> 0]
  /\ measured = <<>>
  /\ computed = 0
  /\ partly_cleared = FALSE

SpaceTimeCompute(board, i) ==
  LET snake == board.snakes[i]
      head == SnakeHead(snake)
      vacate == VacateTimes(board, i)
      max_time == MaxTime(board, vacate)
      state_count == StateCount(board, max_time)
      heads == OpponentHeads(board, i, SnakeLength(snake), Never)
      grown == Grow(opponent_marks, state_count)
      found == IF heads = {}
               THEN [arrival |-> [c \in Cells(board) |-> Never],
                     marks |-> grown]
               ELSE OpponentArrival(board, heads, vacate, max_time,
                                    NextStamp(grown, state_count))
      marks == NextStamp(Grow(own_marks, state_count), state_count)
      ended == OwnFrom(board, i, vacate, found.arrival, 0,
                 [layer |-> <<head>>,
                  own_arrival |-> [c \in Cells(board) |->
                                     IF c = head THEN 0 ELSE Never],
                  tail_reachable |-> FALSE,
                  marks |-> Mark(board, marks, 0, {head})])
  IN  /\ computed < Computations /\ Alive(board, i)
      /\ opponent_marks' = found.marks
      /\ own_marks' = ended.marks
      /\ measured' = <<board, i,
                       Metrics(board, i, ended.own_arrival,
                               ended.tail_reachable)>>
      /\ computed' = computed + 1
      /\ partly_cleared' = \/ partly_cleared
                           \/ ClearsPart(grown, state_count) /\ heads # {}
                           \/ ClearsPart(Grow(own_marks, state_count), state_count)

\* A snake without a body: nothing is computed, nothing is touched.
SpaceTimeOfNobody(board, i) ==
  /\ computed < Computations
  /\ ~Alive(board, i)
  /\ measured' = <<board, i, NoMetrics>>
  /\ computed' = computed + 1
  /\ UNCHANGED <<opponent_marks, own_marks, partly_cleared>>
=============================================================================
