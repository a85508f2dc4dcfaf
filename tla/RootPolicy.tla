----------------------------- MODULE RootPolicy -----------------------------
(***************************************************************************)
(* What a duel search decides before it searches                           *)
(* (core_prepare_root_policy): which of the four moves it will consider.   *)
(* It profiles every move against every reply, looks for a move that walks *)
(* the snake into its own body, asks for a proof that another move is      *)
(* safe, and tries to prove that the trapped move loses by force. Every    *)
(* one of these may be cut short by the clock. The two analyses that it    *)
(* asks, of the snake alone on the board, are parameters.                  *)
(***************************************************************************)
EXTENDS ForcedLosses

CONSTANTS
  Positions,    \* the boards the policy is asked about
  NodeLimits,   \* after how many nodes the clock or the cap ends a proof
  TrapAnalysis(_, _),              \* core_analyze_legacy_self_trap: board, move
  StructuralAnalysis(_, _, _, _, _)
                  \* core_analyze_self_trap: board, snake, move, skip, early

IsDuel(board) == Len(board.snakes) = 2

\* Two snakes are told by their ids. Of the analyses no more is asked than that a
\* trap is some turns away, and its room so many cells.
ASSUME RootPolicyAssumption ==
  /\ NodeLimits \subseteq Nat
  /\ \A b \in Positions :
       /\ b \in Board
       /\ IsDuel(b) => {b.snakes[i].id : i \in Indices(b)} = {Me, Foe}
       /\ IsDuel(b) /\ ~b.constrictor => \A m \in Moves :
            TrapAnalysis(b, m) \in [trap : STRING, trap_horizon : Nat,
                                    capacity : Nat, post_length : Int]

VARIABLES
  position,     \* the board the policy is for
  policy,       \* stats->root_policy_applied, "ladder" or "strict"
  fixed_depth,  \* a search of a depth given beforehand, not by the clock
  step,         \* "start", "trap", "verdict", "reject", "refute" or "done"
  looked,       \* the moves that this step has dealt with
  expired,      \* the timer has run out
  candidate,    \* stats->root_candidates, by move
  allowed       \* the mask of moves the search may consider

policyVars == <<position, policy, fixed_depth, step, looked, expired, candidate,
                allowed>>

-----------------------------------------------------------------------------
(* The profile: every own move against every reply (CoreDuelRootProfile).  *)

Replies(board, own, outcomes) ==
  {r \in ToSet(CommandMoves(board, Foe)) :
     DuelOutcome(Child(board, own, r)) \in outcomes}

NewCandidate(board, own) ==
  [safe_by_rules |-> own \in BoardSafeMoves(board, IndexOf(board, Me)),
   alive_replies |-> Replies(board, own, {"win", "unresolved"}),
   both_alive    |-> Replies(board, own, {"unresolved"}),
   loss_replies  |-> Replies(board, own, {"loss"}),
   trap |-> "not_analyzed", trap_horizon |-> 0, capacity |-> 0, post_length |-> 0,
   proof |-> "not_analyzed", cutoff |-> "none", proof_horizon |-> 0,
   refutation |-> "none", rejection |-> "none"]

-----------------------------------------------------------------------------
(* The policy's own looks at a first move. *)

\* A reply after which no move of ours is safe,
\* core_root_reply_closes_all_continuations.
ReplyCloses(board, own, both_alive) ==
  \E r \in both_alive :
    LET next == Child(board, own, r)
    IN  BoardSafeMoves(next, IndexOf(next, Me)) = {}

-----------------------------------------------------------------------------
(* The policy, one step after the other. *)

PolicyInit(board) ==
  /\ position = board
  /\ policy \in {"ladder", "strict"}
  /\ fixed_depth \in {FALSE, policy = "ladder"}  \* the strict policy ignores it
  /\ step = "start"
  /\ looked = {}
  /\ expired = FALSE
  /\ candidate = <<>>
  /\ allowed = {}

StandardDuel == IsDuel(position) /\ ~position.constrictor

\* The safe moves, or all if there is none: core_safe_moves_or_all.
StrictMask ==
  LET safe == BoardSafeMoves(position, IndexOf(position, Me))
  IN  IF safe = {} THEN Moves ELSE safe

\* The timer may run out between any two looks at it.
TimePasses == expired' \in {expired, TRUE}

\* Any other game is searched as a strict minimax over the safe moves.
KeepStrictMask ==
  /\ step = "start"
  /\ ~StandardDuel
  /\ policy' = "strict"
  /\ allowed' = StrictMask
  /\ step' = "done"
  /\ UNCHANGED <<position, fixed_depth, looked, expired, candidate>>

Profile ==
  /\ step = "start"
  /\ StandardDuel
  /\ candidate' = [m \in Moves |-> NewCandidate(position, m)]
  /\ allowed' = StrictMask
  /\ step' = "trap"
  /\ TimePasses
  /\ UNCHANGED <<position, policy, fixed_depth, looked>>

\* Of some moves the first in the order in which all loops try them.
FirstOf(moves) ==
  CHOOSE m \in moves : \A k \in 1 .. 4 :
    MoveOrder[k] \in moves => \E l \in 1 .. k : MoveOrder[l] = m

NextMove == FirstOf(Moves \ looked)

\* The next step begins when all moves are dealt with.
Proceed(move, next_step) ==
  IF looked \cup {move} = Moves THEN looked' = {} /\ step' = next_step
  ELSE looked' = looked \cup {move} /\ step' = step

\* The results when the timer runs out before, or while, the line is followed.
NotAnalyzed ==
  [trap |-> "unknown", trap_horizon |-> 0, capacity |-> 0, post_length |-> 0]

CutShort(line) ==
  IF line.trap = "immediate_death" THEN {NotAnalyzed}
  ELSE {NotAnalyzed} \cup {[line EXCEPT !.trap = "unknown", !.trap_horizon = h] :
                             h \in 0 .. line.trap_horizon}

WithTrap(c, found) ==
  [c EXCEPT !.trap = found.trap, !.trap_horizon = found.trap_horizon,
            !.capacity = found.capacity, !.post_length = found.post_length]

AnalyzeTrap ==
  /\ step = "trap"
  /\ TimePasses
  /\ LET line == TrapAnalysis(position, NextMove)
     IN  \E found \in CASE expired  -> {NotAnalyzed}
                       [] ~expired' -> {line}
                       [] OTHER    -> CutShort(line) \cup {line} :
           candidate' = [candidate EXCEPT ![NextMove] = WithTrap(@, found)]
  /\ Proceed(NextMove, "verdict")
  /\ UNCHANGED <<position, policy, fixed_depth, allowed>>

\* The most promising move comes first: with the room it needs, with more room.
Promising(m, k) ==
  LET sufficient(x) == candidate[x].capacity >= candidate[x].post_length
  IN  \/ sufficient(m) /\ ~sufficient(k)
      \/ sufficient(m) = sufficient(k) /\ candidate[m].capacity > candidate[k].capacity

\* The first of the moves to deal with, an insertion sort of their order.
MostPromising ==
  FirstOf({m \in Moves \ looked : \A k \in Moves \ looked : ~Promising(k, m)})

\* Found already: a move that has a reply it survives, and a proof.
CertificateFound ==
  \E m \in looked : candidate[m].alive_replies # {} /\ candidate[m].proof = "safe"

\* The verdicts that the structural prover may come to on a move.
StructuralVerdicts(move, early) ==
  CASE expired  -> {Verdict("unknown", "deadline", 0)}
    [] ~expired' -> {StructuralAnalysis(position, IndexOf(position, Me), move,
                                        CertificateFound /\ early, early)}
    [] OTHER -> {Verdict("unknown", "deadline", h) :
                   h \in {0, ProofHorizon(position, IndexOf(position, Me), move)}}

\* A reply that closes everything overrules them.
Overruled(move, verdict) ==
  IF ReplyCloses(position, move, candidate[move].both_alive)
  THEN Verdict("unsafe", "dead_end", verdict.proof_horizon) ELSE verdict

WithVerdict(c, found) ==
  [c EXCEPT !.proof = found.proof, !.cutoff = found.cutoff,
            !.proof_horizon = found.proof_horizon]

AnalyzeStructure ==
  /\ step = "verdict"
  /\ TimePasses
  /\ \E move \in {MostPromising} :
       /\ \E verdict \in StructuralVerdicts(move, ~fixed_depth /\ policy = "ladder") :
            candidate' = [candidate EXCEPT ![move] =
                            WithVerdict(@, Overruled(move, verdict))]
       /\ Proceed(move, IF policy = "ladder" THEN "reject" ELSE "done")
  /\ UNCHANGED <<position, policy, fixed_depth, allowed>>

\* No reply lets the move survive, and one of them wins for the opponent.
NoSurvivor(c) == c.alive_replies = {} /\ c.loss_replies # {}

RejectUnsurvivable ==
  /\ step = "reject"
  /\ LET rejected == IF \E m \in Moves : candidate[m].alive_replies # {}
                     THEN {m \in Moves : NoSurvivor(candidate[m])} ELSE {}
     IN  /\ allowed' = Moves \ rejected
         /\ candidate' = [m \in Moves |->
                            IF m \in rejected
                            THEN [candidate[m] EXCEPT
                                    !.rejection = "no_surviving_reply"]
                            ELSE candidate[m]]
  /\ step' = "refute"
  /\ UNCHANGED <<position, policy, fixed_depth, looked, expired>>

\* core_structural_alternative
StructuralAlternative(move) ==
  \E m \in allowed \ {move} : /\ candidate[m].alive_replies # {}
                              /\ candidate[m].proof = "safe"

Refutable(move) ==
  /\ move \in allowed
  /\ candidate[move].trap = "self_trap"
  /\ candidate[move].trap_horizon < candidate[move].post_length
  /\ candidate[move].capacity < candidate[move].post_length
  /\ StructuralAlternative(move)

WithRefutation(c, found) ==
  [c EXCEPT !.refutation = found,
            !.rejection = IF found = "proven" THEN "short_self_trap" ELSE @]

\* The mask never becomes empty: a move is only rejected when a structural
\* alternative stays, and the fallback to StrictMask is for nothing.
Refute ==
  /\ step = "refute"
  /\ IF Refutable(NextMove)
     THEN \E limit \in IF expired THEN {0} ELSE NodeLimits :
            LET found == RefuteRootMove(position, NextMove,
                           candidate[NextMove].trap_horizon, limit)
            IN  /\ candidate' = [candidate EXCEPT ![NextMove] = WithRefutation(@, found)]
                /\ allowed' = IF found = "proven" THEN allowed \ {NextMove}
                                                  ELSE allowed
     ELSE UNCHANGED <<candidate, allowed>>
  /\ Proceed(NextMove, "done")
  /\ UNCHANGED <<position, policy, fixed_depth, expired>>

PolicyNext == \/ KeepStrictMask \/ Profile \/ AnalyzeTrap \/ AnalyzeStructure
              \/ RejectUnsurvivable \/ Refute

PolicySpec ==
  (\E b \in Positions : PolicyInit(b)) /\ [][PolicyNext]_policyVars

-----------------------------------------------------------------------------
\* The outcomes of proofs are those of the game, wherever the clock or the cap
\* ended a proof: a move said to be refuted is lost against some reply, and
\* one said not to be is held against every reply.
ProofsAreHonest ==
  step \in {"refute", "done"} /\ candidate # <<>> => \A m \in Moves :
    /\ candidate[m].refutation = "proven" =>
         \E b \in After(position, m) : Lost(b, candidate[m].trap_horizon)
    /\ candidate[m].refutation = "not_proven" =>
         \A b \in After(position, m) : Held(b, candidate[m].trap_horizon)

\* And the ladder policy drops no move but one that the opponent can make lose,
\* and never the last move that has a reply it survives.
OnlyLosersAreDropped ==
  step = "done" /\ policy = "ladder" =>
    /\ allowed # {}
    /\ \A m \in Moves \ allowed :
         /\ \E b \in After(position, m) : Lost(b, candidate[m].trap_horizon)
         /\ \E k \in allowed : candidate[k].alive_replies # {}

\* What the policy proves is true of the game, and it acts on nothing else.
PolicyIsHonest == ProofsAreHonest /\ OnlyLosersAreDropped
=============================================================================
