--------------------------- MODULE SpaceMeasures ---------------------------
(***************************************************************************)
(* The measures of room that core_algorithms.c takes of a standing board:  *)
(* how many cells a snake can reach (CoreReachableSpace), a shortest way   *)
(* between two cells (CoreShortestPath, an A* search) and which snake      *)
(* controls which cell (CoreVoronoiTerritory, a search from all heads at   *)
(* once). Snakes are named by their index on the board.                    *)
(***************************************************************************)
EXTENDS BoardRules

Neighbours(board, cell) ==
  SelectSeq([m \in 1 .. 4 |-> MoveStep(cell, MoveOrder[m])],
            LAMBDA c : c \in Cells(board))

Adjacent(board, cell) == ToSet(Neighbours(board, cell))

AbsInt(n) == IF n < 0 THEN 0 - n ELSE n
Manhattan(a, b) == AbsInt(a[1] - b[1]) + AbsInt(a[2] - b[2])

Never == 1000000   \* CORE_SPACE_TIME_NEVER, beyond every time on a board

\* The heads of the opponents whose length is in [low, high).
OpponentHeads(board, i, low, high) ==
  {SnakeHead(board.snakes[j]) :
     j \in {k \in Indices(board) \ {i} :
              Alive(board, k) /\ SnakeLength(board.snakes[k]) \in low .. high - 1}}

\* <<first, Change(first, 1), Change(Change(first, 1), 2), ...>>, n changes.
Iterate(Change(_, _), first, n) ==
  FoldLeft(LAMBDA acc, k : Append(acc, Change(Last(acc), k)), <<first>>,
           [k \in 1 .. n |-> k])

-----------------------------------------------------------------------------
(* Changed forms, one plausible bug each. *)

\* takes the newest entry
BestOpen_Newest(open, g, goal) == Len(open)

\* takes the tails for vacated here as well
OpenGround_Tails(board) ==
  (Cells(board) \ Occupied(board))
    \cup UNION {{Head(board.snakes[i].body), Last(board.snakes[i].body)} :
                  i \in {j \in Indices(board) : Alive(board, j)}}

-----------------------------------------------------------------------------
(* What stands in a snake's way. *)

\* The tails that will have moved on when anybody gets there.
VacatingTails(board, i) ==
  IF board.constrictor THEN {}
  ELSE {Last(board.snakes[j].body) :
          j \in {k \in Indices(board) :
                   /\ Alive(board, k)
                   /\ IF k = i
                      THEN Last(board.snakes[k].body) \notin Food(board)
                      ELSE ~CanEatNextTurn(board, board.snakes[k])}}

DeadlyHazards(board, i) == IF Starving(board, i) THEN board.hazards ELSE {}

\* The cells next to the head of an opponent that is at least as long.
DangerCells(board, i) == {cell \in Cells(board) : Contested(board, i, cell)}

Blocked(board, i) ==
  (Occupied(board) \ VacatingTails(board, i))
    \cup DeadlyHazards(board, i) \cup DangerCells(board, i)

-----------------------------------------------------------------------------
(* Reachable space. *)

RECURSIVE Spread(_, _, _, _)
Spread(board, open, frontier, seen) ==
  LET next == (UNION {Adjacent(board, c) : c \in frontier} \cap open) \ seen
  IN  IF next = {} THEN seen ELSE Spread(board, open, next, seen \cup next)

ReachableSpace(board, start, i) ==
  LET blocked == IF start = SnakeHead(board.snakes[i])
                 THEN Blocked(board, i) \ {start} ELSE Blocked(board, i)
  IN  IF ~InBounds(board, start) \/ start \in blocked THEN 0
      ELSE Cardinality(Spread(board, Cells(board) \ blocked, {start}, {start}))

-----------------------------------------------------------------------------
(* Shortest path. The open list is searched from its first entry, and the  *)
(* last entry takes the place of the one removed; a closed cell is never   *)
(* opened again.                                                           *)

FScore(g, cell, goal) == g + Manhattan(cell, goal)

\* The position of the entry to expand: least f, then greatest g.
BestOpen(open, g, goal) ==
  LET f(p) == FScore(g[open[p]], open[p], goal)
      beats(p, q) == \/ f(p) < f(q)
                     \/ f(p) = f(q) /\ g[open[p]] > g[open[q]]
  IN  CHOOSE p \in DOMAIN open :
        /\ \A q \in DOMAIN open : ~beats(q, p)
        /\ \A q \in 1 .. p - 1 : beats(p, q)

SwapRemove(open, p) == Front([open EXCEPT ![p] = Last(open)])

\* One neighbour relaxed; s is [open, g, parent], g and parent partial.
Relax(s, current, cell) ==
  IF cell \in DOMAIN s.g /\ s.g[current] + 1 >= s.g[cell] THEN s
  ELSE [open   |-> IF cell \in ToSet(s.open) THEN s.open
                   ELSE Append(s.open, cell),
        g      |-> (cell :> s.g[current] + 1) @@ s.g,
        parent |-> (cell :> current) @@ s.parent]

RECURSIVE PathFrom(_, _)
PathFrom(parent, cell) ==
  IF cell \in DOMAIN parent THEN Append(PathFrom(parent, parent[cell]), cell)
  ELSE <<cell>>

RECURSIVE AStar(_, _, _, _, _)
AStar(board, free, goal, closed, s) ==
  IF s.open = <<>> THEN <<>>
  ELSE LET p == BestOpen(s.open, s.g, goal)
           current == s.open[p]
           rest == [s EXCEPT !.open = SwapRemove(@, p)]
       IN  IF current = goal THEN PathFrom(s.parent, goal)
           ELSE AStar(board, free, goal, closed \cup {current},
                  FoldLeft(LAMBDA acc, c :
                             IF c \notin free \/ c \in closed \cup {current}
                             THEN acc ELSE Relax(acc, current, c),
                           rest, Neighbours(board, current)))

\* Where the snake may walk on its way from start.
FreeFrom(board, start, i) == (Cells(board) \ Blocked(board, i)) \cup {start}

ShortestPath(board, start, goal, i) ==
  LET free == FreeFrom(board, start, i)
  IN  IF \/ ~InBounds(board, start) \/ ~InBounds(board, goal)
         \/ goal \notin free
      THEN <<>>
      ELSE AStar(board, free, goal, {},
                 [open |-> <<start>>, g |-> start :> 0, parent |-> <<>>])

-----------------------------------------------------------------------------
(* Territory. An owner is the index of a snake, or 0 for a cell that       *)
(* several reach at the same time; nobody walks on from such a cell.       *)

Heads(board) == {SnakeHead(board.snakes[i]) :
                   i \in {j \in Indices(board) : Alive(board, j)}}
OpenGround(board) == (Cells(board) \ Occupied(board)) \cup Heads(board)

HeadOwner(board, cell) ==
  LET here == {i \in Indices(board) :
                 Alive(board, i) /\ SnakeHead(board.snakes[i]) = cell}
  IN  IF Cardinality(here) = 1 THEN CHOOSE i \in here : TRUE ELSE 0

\* The owner of a cell that the layer before it, owner, borders on.
ClaimedBy(board, free, owner, cell) ==
  LET claims == {owner[c] : c \in {d \in Adjacent(board, cell) :
                                     d \in DOMAIN owner}} \ {0}
  IN  IF Cardinality(claims) = 1 THEN CHOOSE i \in claims : TRUE ELSE 0

\* layer maps the cells reached last to their owners, owner all cells reached.
RECURSIVE Expand(_, _, _, _)
Expand(board, free, layer, owner) ==
  LET owned == {c \in DOMAIN layer : layer[c] # 0}
      next == (UNION {Adjacent(board, c) : c \in owned} \cap free)
                \ DOMAIN owner
      reached == [c \in next |-> ClaimedBy(board, free, layer, c)]
  IN  IF next = {} THEN owner
      ELSE Expand(board, free, reached, reached @@ owner)

Owners(board) ==
  LET heads == [c \in Heads(board) |-> HeadOwner(board, c)]
  IN  Expand(board, OpenGround(board), heads, heads)

VoronoiTerritory(board) ==
  LET owners == Owners(board)
  IN  [i \in Indices(board) |-> {c \in DOMAIN owners : owners[c] = i}]

=============================================================================
