------------------------ MODULE TranspositionTable ------------------------
(***************************************************************************)
(* transposition_table.c: a fixed array of entries indexed by hash modulo   *)
(* capacity, one entry per slot, no chaining.  A position stands for its    *)
(* 64-bit Zobrist hash: two positions are assumed not to share a hash, and  *)
(* Slot says which of them share an entry.                                  *)
(***************************************************************************)
EXTENDS Integers

CONSTANTS
    Positions,      \* the hashes
    Slot,           \* [Positions -> slots]: core_tt_index
    MaxGeneration,  \* INT_MAX
    NoMove,         \* MOVE_INVALID
    Vacant          \* an entry that is not occupied

Slots == {Slot[p] : p \in Positions}

CoreTtInit == [entries |-> [s \in Slots |-> Vacant], generation |-> 1]

CoreTtNextGeneration(table) ==
    IF table.generation = MaxGeneration
    THEN CoreTtInit
    ELSE [table EXCEPT !.generation = @ + 1]

Miss == [result |-> "MISS", best |-> NoMove]

\* An entry may answer the probe: deep enough, and its bound settles the
\* window [alpha, beta].
Settles(entry, depth, alpha, beta) ==
    /\ entry.depth >= depth
    /\ \/ entry.bound = "EXACT"
       \/ entry.bound = "LOWER" /\ entry.value.score >= beta
       \/ entry.bound = "UPPER" /\ entry.value.score <= alpha

\* A hit that does not settle the window still names the best move.
CoreTtProbe(table, hash, depth, alpha, beta) ==
    LET entry == table.entries[Slot[hash]] IN
    IF entry = Vacant THEN Miss
    ELSE IF entry.hash # hash THEN Miss
    ELSE IF Settles(entry, depth, alpha, beta)
         THEN [result |-> "CUTOFF", best |-> entry.best, value |-> entry.value]
         ELSE [result |-> "HIT", best |-> entry.best]

\* A deeper entry of the same generation is kept, whatever position it is of.
KeepsOld(table, hash, depth) ==
    LET entry == table.entries[Slot[hash]] IN
    IF entry = Vacant THEN FALSE
    ELSE entry.generation = table.generation /\ entry.depth > depth

CoreTtStore(table, hash, depth, value, bound, best) ==
    IF KeepsOld(table, hash, depth) THEN table
    ELSE [table EXCEPT !.entries[Slot[hash]] =
            [hash |-> hash, value |-> [value EXCEPT !.bound = bound],
             depth |-> depth, generation |-> table.generation,
             bound |-> bound, best |-> best]]

=============================================================================
