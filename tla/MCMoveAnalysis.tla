--------------------------- MODULE MCMoveAnalysis ---------------------------
(***************************************************************************)
(* Small positions. MCDuels has two snakes on a board of 4 x 4, the first  *)
(* of them long enough to be trapped by its own body; MCRooms has boards   *)
(* of 4 x 3 on which it can live with a smaller opponent; MCAlone has      *)
(* every snake of three to five cells on a board of 3 x 3; MCShared has    *)
(* boards of different sizes, whose searches use more or fewer states of   *)
(* the same scratch memory; in MCFar two snakes are far apart.             *)
(***************************************************************************)
EXTENDS MoveAnalysis

SnakeOf(id, health, body) ==
  [id |-> id, health |-> health, body |-> body, length |-> Len(body)]

BoardOf(width, height, snakes, food, hazards) ==
  [width |-> width, height |-> height, snakes |-> snakes, food |-> food,
   hazards |-> hazards, constrictor |-> FALSE, hazard_damage |-> 14]

\* Bodies of n cells without a cell twice, from a head in heads.
RECURSIVE Bodies(_, _, _, _)
Bodies(width, height, heads, n) ==
  IF n = 1 THEN {<<c>> : c \in heads}
  ELSE UNION {{Append(b, c) :
                 c \in ({MoveStep(Last(b), m) : m \in Moves} \cap
                          ((0 .. width - 1) \X (0 .. height - 1))) \ ToSet(b)} :
                b \in Bodies(width, height, heads, n - 1)}

Apart(b, c) == ToSet(b) \cap ToSet(c) = {}

Duels(width, height, heads, n, foes, foods, hazards) ==
  {BoardOf(width, height, <<SnakeOf("a", 100, p[1]), SnakeOf("b", 90, p[2])>>,
           food, hazards) :
     p \in {q \in Bodies(width, height, heads, n) \X foes : Apart(q[1], q[2])},
     food \in foods}

MCDuels ==
  Duels(4, 4, {<<0, 1>>}, 6, {<<<<3, 3>>, <<3, 2>>, <<2, 2>>, <<2, 3>>, <<1, 3>>>>,
         <<<<3, 3>>, <<2, 3>>, <<2, 2>>, <<2, 1>>, <<3, 1>>, <<3, 0>>, <<2, 0>>>>},
        {<<>>, <<<<0, 0>>>>}, {})
  \cup Duels(4, 4, {<<0, 1>>}, 6, {<<<<2, 3>>, <<3, 3>>, <<3, 2>>>>}, {<<<<0, 0>>>>}, {})

\* A small room in which the opponent can be avoided, with food in reach of both
\* or with hazards everywhere.
MCRooms ==
  UNION {{[b EXCEPT !.food = food, !.hazards = hazards] :
            b \in Duels(4, 3, {<<0, 1>>}, 5, {<<<<3, 2>>, <<3, 1>>>>,
                                          <<<<3, 2>>, <<2, 2>>, <<1, 2>>>>}, {<<>>}, {}),
            food \in {<<>>, <<<<3, 0>>>>}} :
           hazards \in {{}, (0 .. 3) \X (0 .. 2)}}

\* Two snakes that face each other across a way that a third comes down.
MCCrowd ==
  {BoardOf(3, 5, <<SnakeOf("a", 90, <<<<0, 0>>, <<0, 1>>>>),
                   SnakeOf("b", 90, <<<<2, 0>>, <<2, 1>>>>),
                   SnakeOf("c", 90, third)>>, <<>>, {}) :
     third \in Bodies(3, 5, {<<1, 4>>, <<2, 3>>, <<0, 3>>}, 2)}

\* The first snake traps itself going down, and so does the second wherever it
\* goes: a draw, if the proof is carried through.
MCDraw ==
  {BoardOf(5, 5, <<SnakeOf("a", 90, <<<<0, 1>>, <<1, 1>>, <<2, 1>>, <<2, 0>>, <<3, 0>>,
                                     <<3, 1>>, <<4, 1>>, <<4, 2>>, <<3, 2>>>>),
                   SnakeOf("b", 90, <<<<4, 3>>, <<3, 3>>, <<2, 3>>, <<2, 4>>, <<1, 4>>,
                                     <<1, 3>>, <<1, 3>>>>)>>, <<>>, {})}

\* After its meal the first snake's tail stays where it is; up leads into it, and
\* left into a cell that the other can reach as well.
MCStacked ==
  {BoardOf(4, 4, <<SnakeOf("a", 100, <<<<1, 1>>, <<2, 1>>, <<2, 2>>, <<1, 2>>, <<1, 2>>>>),
                   SnakeOf("b", 90, foe)>>, <<>>, {}) :
     foe \in {<<<<0, 2>>, <<0, 3>>, <<1, 3>>, <<2, 3>>, <<3, 3>>>>, <<<<0, 0>>, <<1, 0>>, <<2, 0>>>>}}

\* Every cell that the first snake could go to is in reach of the second, which is
\* as long or longer.
MCStandoff ==
  {BoardOf(4, 4, <<SnakeOf("a", 90, <<<<1, 3>>, <<2, 3>>, <<2, 2>>, <<1, 2>>>>),
                   SnakeOf("b", health, foe)>>, <<>>, {}) :
     health \in {1, 90}, foe \in {<<<<0, 2>>, <<0, 1>>, <<0, 0>>, <<1, 0>>>>,
                                 <<<<0, 2>>, <<0, 1>>, <<1, 1>>, <<1, 0>>, <<0, 0>>>>}}

\* The first snake's one way out is the tail of the second, which leaves only if
\* the second goes back into its neck: it eats wherever else it goes.
MCNeck ==
  {BoardOf(4, 3, <<SnakeOf("a", 90, <<<<0, 0>>, <<0, 1>>, <<0, 2>>>>),
                   SnakeOf("b", 90, <<<<2, 1>>, <<1, 1>>, <<1, 0>>>>)>>,
           <<<<3, 1>>, <<2, 2>>, <<2, 0>>>>, {})}

MCPositions == MCDuels \cup MCRooms \cup MCCrowd \cup MCDraw \cup MCStandoff \cup MCNeck

Grid3 == (0 .. 2) \X (0 .. 2)
MCAlone ==
  {BoardOf(3, 3, <<SnakeOf("a", health, body)>>, food, hazards) :
     body \in UNION {Bodies(3, 3, Grid3, n) : n \in 3 .. 5},
     health \in {90, 10}, food \in {<<>>, <<<<0, 0>>>>, <<<<1, 2>>>>},
     hazards \in {{<<1, 2>>, <<2, 2>>}}}

MCShared ==
  {BoardOf(2, 1, <<SnakeOf("a", 90, <<<<0, 0>>, <<1, 0>>>>)>>, <<>>, {}),
   BoardOf(3, 2, <<SnakeOf("a", 90, <<<<0, 0>>, <<0, 1>>>>),
                   SnakeOf("b", 90, <<<<2, 1>>, <<2, 0>>>>)>>, <<>>, {}),
   BoardOf(3, 3, <<SnakeOf("a", 90, <<<<0, 0>>, <<0, 1>>, <<1, 1>>>>),
                   SnakeOf("b", 90, <<<<2, 2>>, <<2, 1>>, <<2, 0>>>>)>>,
           <<<<0, 2>>>>, {<<1, 2>>}),
   BoardOf(2, 2, <<SnakeOf("a", 90, <<<<0, 0>>, <<0, 1>>>>),
                   SnakeOf("b", 90, <<>>)>>, <<>>, {})}

\* Two snakes too far apart to meet soon, the first next to a corner that its body
\* may close off.
MCFar ==
  {b \in Duels(6, 4, {<<0, 1>>}, 7, {<<<<5, 3>>, <<5, 2>>, <<4, 2>>>>},
              {<<>>, <<<<0, 0>>>>}, {}) :
     SubSeq(b.snakes[1].body, 3, 4) = <<<<2, 1>>, <<2, 0>>>>}

MCSolitary == MCAlone \cup MCFar

\* Duels at close quarters for the evaluation, with and without food.
MCEvaluated ==
  Duels(3, 3, {<<0, 0>>, <<1, 1>>}, 3, {<<<<2, 1>>, <<2, 2>>>>, <<<<2, 2>>, <<1, 2>>, <<0, 2>>>>},
        {<<>>, <<<<1, 0>>>>}, {})
  \cup {BoardOf(3, 3, <<SnakeOf("a", 90, <<<<0, 0>>, <<0, 1>>>>)>>, <<>>, {})}
=============================================================================
