--------------------------- MODULE MCSearchState ---------------------------
(***************************************************************************)
(* Positions on a board of 3 x 3. MCDuels and MCDoubled are few, for long  *)
(* sequences of makes and unmakes; MCPositions are many, for one turn:     *)
(* every body of two or three cells, a stacked tail included, against      *)
(* another snake or two, with food, hazards and the rules of constrictor.  *)
(***************************************************************************)
EXTENDS SearchState

Grid == (0 .. 2) \X (0 .. 2)
Neighbours(c) == {MoveStep(c, m) : m \in Moves} \cap Grid

Pairs == {<<c, d>> : c \in Grid, d \in Grid}
ShortBodies == {p \in Pairs : p[2] \in Neighbours(p[1])}
LongBodies ==
  {p \o <<c>> : p \in ShortBodies, c \in Grid}
Bodies == ShortBodies
            \cup {b \in LongBodies : b[3] \in Neighbours(b[2]) \cup {b[2]}
                                       /\ b[3] # b[1]}

SnakeOf(id, health, body) ==
  [id |-> id, health |-> health, body |-> body, length |-> Len(body)]

BoardOfDamage(damage, snakes, food, hazards, constrictor) ==
  [width |-> 3, height |-> 3, snakes |-> snakes, food |-> food,
   hazards |-> hazards, constrictor |-> constrictor, hazard_damage |-> damage]
BoardOf(snakes, food, hazards, constrictor) ==
  BoardOfDamage(2, snakes, food, hazards, constrictor)

Corner == <<<<2, 2>>, <<2, 1>>>>
Middle == <<<<1, 1>>, <<1, 0>>, <<0, 0>>>>
Fed == <<<<1, 2>>, <<0, 2>>, <<0, 2>>>>

Apart(bodies) ==
  \A i, j \in DOMAIN bodies : i # j => ToSet(bodies[i]) \cap ToSet(bodies[j]) = {}

MCDuels ==
  {BoardOfDamage(3, <<SnakeOf("a", 3, Middle), SnakeOf("b", 9, Corner)>>,
                 food, hazards, constrictor) :
     food \in {<<>>, <<<<0, 1>>, <<2, 0>>>>}, hazards \in {{<<1, 2>>}},
     constrictor \in BOOLEAN}

MCPositions ==
  {BoardOf(<<SnakeOf("a", health, body), SnakeOf("b", 9, Corner)>>,
           food, {<<1, 2>>}, constrictor) :
     health \in {1, 3, 9}, body \in {b \in Bodies : Apart(<<b, Corner>>)},
     food \in {<<>>, <<<<0, 1>>>>, <<<<1, 2>>, <<0, 0>>>>},
     constrictor \in {FALSE}}
  \cup
  {BoardOf(<<SnakeOf("a", 9, body), SnakeOf("b", 9, Corner)>>,
           <<<<0, 1>>>>, {<<1, 2>>}, TRUE) :
     body \in {b \in Bodies : Apart(<<b, Corner>>)}}

\* Three snakes, whose heads may meet in one cell.
MCCrowds ==
  {b \in {BoardOf(<<SnakeOf("a", 9, body), SnakeOf("c", 9, third),
                    SnakeOf("b", 9, Corner)>>, <<>>, {}, FALSE) :
     body \in {<<<<1, 1>>, <<1, 0>>>>, <<<<1, 1>>, <<1, 0>>, <<2, 0>>>>,
               <<<<1, 1>>, <<0, 1>>, <<0, 1>>>>, <<<<0, 1>>, <<1, 1>>>>},
     third \in {<<<<0, 2>>, <<0, 1>>, <<0, 0>>>>, <<<<0, 2>>, <<0, 2>>>>,
                <<<<1, 2>>, <<0, 2>>>>}} :
     Apart([i \in Indices(b) |-> b.snakes[i].body])}

MCBoards == MCDuels \cup MCPositions \cup MCCrowds

\* The damage of hazards, which never changes, tells MCDuels from the others.
MCDepth(b) == IF b.hazard_damage = 3 THEN 3 ELSE 1

ASSUME MCBoardsAreProper == \A b \in MCBoards : Proper(b)
=============================================================================
