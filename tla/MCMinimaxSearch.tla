-------------------------- MODULE MCMinimaxSearch --------------------------
(***************************************************************************)
(* Layered games of four plies: the root 1, positions 2-3 after one move,   *)
(* 4-6 after two, 7-8 after three, 9-10 after four, two own moves and two   *)
(* replies where the game branches.  Transpositions are frequent, every way *)
(* a game can end occurs in the layers below, scores tie, and all positions *)
(* share two table slots.                                                   *)
(***************************************************************************)
EXTENDS MinimaxSearch, TLC

MCPositions == 1..10
MCSlot == [p \in MCPositions |-> p % 2]
MCDirections == <<"up", "right">>
MCTerminalLoss == -100

MCMoves == [p \in MCPositions |->
    IF p \in {1, 3, 4, 8} THEN <<"up", "right">> ELSE <<"right">>]
MCReplies == [p \in MCPositions |->
    IF p \in {1, 3, 5, 7} THEN <<"up", "right">> ELSE <<"up">>]

\* Table(a, b, c, d): where (up, up), (up, right), (right, up) and
\* (right, right) lead.
Table(a, b, c, d) ==
    [m \in {"up", "right"} |-> [r \in {"up", "right"} |->
        IF m = "up" THEN (IF r = "up" THEN a ELSE b)
                    ELSE (IF r = "up" THEN c ELSE d)]]

ShapeA == << Table(2, 3, 3, 2), Table(5, 5, 5, 5), Table(6, 6, 4, 4),
             Table(7, 8, 7, 7), Table(8, 7, 8, 7), Table(7, 7, 7, 7),
             Table(9, 10, 9, 10), Table(9, 9, 10, 9), Table(9, 9, 9, 9), Table(10, 10, 10, 10) >>
ShapeB == << Table(2, 3, 3, 3), Table(4, 5, 5, 6), Table(5, 6, 4, 5),
             Table(7, 7, 8, 7), Table(8, 7, 8, 8), Table(8, 7, 7, 7),
             Table(10, 10, 9, 10), Table(9, 9, 10, 9), Table(9, 9, 9, 9), Table(10, 10, 10, 10) >>

\* Two ways down that meet only at the bottom, one a move longer.
ShapeC == << Table(2, 2, 3, 3), Table(4, 4, 4, 4), Table(5, 6, 5, 6),
             Table(7, 7, 7, 7), Table(8, 8, 8, 8), Table(8, 8, 8, 8),
             Table(9, 9, 9, 9), Table(9, 10, 9, 10), Table(9, 9, 9, 9),
             Table(10, 10, 10, 10) >>

MCRoot(policy, proofUp, deficient) ==
    [position |-> 1, policy |-> policy,
     proof |-> [m \in {"up", "right"} |-> IF m = "up" THEN proofUp ELSE "SAFE"],
     deficient |-> deficient,
     reachable |-> [m \in {"up", "right"} |-> IF m = "right" THEN 3 ELSE 2],
     tail |-> [m \in {"up", "right"} |-> 0],
     corridor |-> [m \in {"up", "right"} |-> IF m = "up" THEN 1 ELSE 0],
     structure |-> [m \in {"up", "right"} |-> "same"],
     heading |-> "up", constrained |-> FALSE, enclosed |-> FALSE]

MCLayer == [p \in MCPositions |->
    CASE p = 1 -> 0 [] p \in 2..3 -> 1 [] p \in 4..6 -> 2 [] p \in 7..8 -> 3 [] OTHER -> 4]

\* Two positions are taken for regions without a way out.
MCScore == [p \in MCPositions |->
    IF p \in {6, 10} THEN MCTerminalLoss + 3 ELSE p % 3]

MCGame(root, shape, outcome) ==
    [root |-> root, allowed |-> <<"up", "right">>, moves |-> MCMoves,
     replies |-> MCReplies, next |-> shape, outcome |-> outcome,
     score |-> MCScore, layer |-> MCLayer]

\* How the positions of the lower layers end.
MCEndings ==
    {"UNRESOLVED", "LOSS"} \X {"UNRESOLVED", "LOSS", "DRAW"}
        \X {"UNRESOLVED", "LOSS", "WIN"} \X {"UNRESOLVED", "DRAW"}
        \X {"UNRESOLVED", "LOSS"} \X {"LOSS", "WIN"}

MCChains == {e \in MCEndings : e[4] = "UNRESOLVED" /\ e[6] = "LOSS"}

MCOutcome(e) == [p \in MCPositions |-> IF p > 4 THEN e[p - 4] ELSE "UNRESOLVED"]

Strict == MCRoot("STRICT", "SAFE", {})
Even   == MCRoot("LADDER", "SAFE", {})
Ladder == MCRoot("LADDER", "UNKNOWN", {"up"})

\* A search asked for a game without an opponent finds it won.
Solo == "solo"
MCSolo == MCGame(Strict, ShapeA, [p \in MCPositions |-> "WIN"])

MCGames ==
    [id \in ({"strict"} \X MCEndings) \cup ({"chain", "even", "ladder"} \X MCChains)
              \cup {<<Solo>>} |->
        IF id[1] = Solo THEN MCSolo
        ELSE IF id[1] = "chain" THEN MCGame(Strict, ShapeC, MCOutcome(id[2]))
        ELSE IF id[1] = "even" THEN MCGame(Even, ShapeA, MCOutcome(id[2]))
        ELSE IF id[1] = "strict" THEN MCGame(Strict, ShapeA, MCOutcome(id[2]))
        ELSE MCGame(Ladder, ShapeB, MCOutcome(id[2]))]

ASSUME MCGamesAreLayered == \A id \in DOMAIN MCGames : Layered(MCGames[id])

MCConfigs ==
    {[tt |-> TRUE, ordering |-> TRUE, fixed |-> 0, nodeBudget |-> FALSE],
     [tt |-> TRUE, ordering |-> FALSE, fixed |-> 0, nodeBudget |-> TRUE],
     [tt |-> FALSE, ordering |-> TRUE, fixed |-> 4, nodeBudget |-> FALSE]}

=============================================================================
