---------------------------- MODULE JsonRequest ----------------------------
(***************************************************************************)
(* battlesnake_json.c: from the body of POST /move to a board on the heap. *)
(* The parser goes through the text once, with a function for each object; *)
(* the fields of an object come in any order and may come twice.  What it  *)
(* keeps lies in the arena of the request until the whole text is read and *)
(* validated; then the board is built on the heap.                         *)
(*                                                                         *)
(* The text is chosen while it is read: after each field comes another     *)
(* one, the end of the object, or something the grammar does not allow.    *)
(* Every request for memory may be refused.  A coordinate array and an     *)
(* unknown value are read in one step.  The turn and the names of snakes   *)
(* are left out, but not the memory that a name takes.                     *)
(***************************************************************************)
EXTENDS JsonText, FiniteSets

CONSTANTS
  Null,                            \* the value null
  Sizes, Timeouts, Damages, Healths, Lengths,  \* integers the texts contain
  Coords,                          \* cells the texts contain
  Strings, Digits,                 \* strings, and digits of integers, to read
  MaxSnakes, MaxBody, MaxFood      \* the longest arrays of the texts (bounds)

ASSUME LiteralsAssumption ==
  Strings \subseteq Seq(Unit) /\ Digits \subseteq Seq(0 .. 9)

VARIABLES
  level,    \* the object that is being read
  some,     \* it has had a field
  parsed,   \* BsParsedRequest
  snake,    \* the locals of bs_parse_snake
  status,   \* "start", "parsing", "building", a BsJsonStatus or "released"
  heap,     \* the blocks that malloc has given out, of the board (0) or of a
            \* snake
  board,    \* the board being built, bs_build_board
  request   \* the caller's BsGameRequest

vars == <<level, some, parsed, snake, status, heap, board, request>>

NoBoard == [snakes |-> <<>>, food |-> <<>>, hazards |-> <<>>]
NoRequest == [timeout_ms |-> 0, board |-> NoBoard]

NewRequest ==
  [has_game_id |-> FALSE, has_you_id |-> FALSE, timeout_ms |-> 500,
   hazard_damage |-> 15, has_width |-> FALSE, has_height |-> FALSE,
   has_snakes |-> FALSE, width |-> 0, height |-> 0,
   food |-> <<>>, hazards |-> <<>>, snakes |-> <<>>]

NewSnake == [has_id |-> FALSE, has_body |-> FALSE, health |-> 100,
             length |-> Null, body |-> <<>>]

\* The object around each object; snakes is the array around the snakes.
Parent == [game |-> "request", ruleset |-> "game", settings |-> "ruleset",
           board |-> "request", snakes |-> "board", snake |-> "snakes",
           you |-> "request"]

Failures == {"malformed", "missing_required", "no_memory"}

InBounds(cell, width, height) ==
  cell[1] \in 0 .. width - 1 /\ cell[2] \in 0 .. height - 1

-----------------------------------------------------------------------------
(* Changed forms, one plausible bug each. *)

\* trusts BoardAddSnake with the bodies
IsWhole_IdsOnly(node, lost) == lost \subseteq {"body"}

\* leaves the parts of the snake that was added last
BoardBlocks_AllButLast(b) ==
  {0} \X {"board", "ruleset", "snakes", "food", "hazards"}
    \cup (1 .. Len(b.snakes) - 1) \X {"id", "name", "body"}

-----------------------------------------------------------------------------
(* Reading. *)

Init ==
  /\ level = "request" /\ some = FALSE
  /\ parsed = NewRequest /\ snake = NewSnake
  /\ status = "start"
  /\ heap = {} /\ board = NoBoard /\ request = NoRequest

\* The rest is as before but for the parser's locals.
Reading == status = "parsing" /\ UNCHANGED <<status, heap, board, request>>
Stop(result) == status' = result /\ UNCHANGED <<level, some, parsed, snake,
                                                heap, board, request>>

\* The arena has no room for the name of the default ruleset, or it has.
Start ==
  /\ status = "start"
  /\ Stop("no_memory") \/ Stop("malformed") \/ Stop("parsing")

\* The text ends, or goes on with what may not stand there.
Malformed == status = "parsing" /\ Stop("malformed")

\* The arena has no room for a key, a string, a coordinate or a snake.
ArenaFull == status = "parsing" /\ Stop("no_memory")

Field(of) == Reading /\ level = of /\ some' = TRUE /\ UNCHANGED level

\* A key that means nothing, or null where null is skipped.
SkipField == \E of \in DOMAIN Parent \cup {"request"} :
               of # "snakes" /\ Field(of) /\ UNCHANGED <<parsed, snake>>

\* null stands for the default; a negative integer is malformed.
OrDefault(value, default) == IF value = Null THEN default ELSE value
IsMalformed(value) == value # Null /\ value < 0

ReadGameId == \E is_null \in BOOLEAN :
  /\ Field("game") /\ UNCHANGED snake
  /\ parsed' = [parsed EXCEPT !.has_game_id = ~is_null]

ReadTimeout == \E value \in Timeouts \cup {Null} :
  /\ ~IsMalformed(value)
  /\ Field("game") /\ UNCHANGED snake
  /\ parsed' = [parsed EXCEPT !.timeout_ms = OrDefault(value, 500)]

ReadHazardDamage == \E value \in Damages \cup {Null} :
  /\ ~IsMalformed(value)
  /\ Field("settings") /\ UNCHANGED snake
  /\ parsed' = [parsed EXCEPT !.hazard_damage = OrDefault(value, 15)]

ReadSize == \E size \in Sizes :
  /\ Field("board") /\ UNCHANGED snake
  /\ \/ parsed' = [parsed EXCEPT !.width = size, !.has_width = TRUE]
     \/ parsed' = [parsed EXCEPT !.height = size, !.has_height = TRUE]

\* Two arrays of one key are appended to each other.
ReadFood == \E cell \in Coords :
  /\ Field("board") /\ UNCHANGED snake
  /\ \/ /\ Len(parsed.food) < MaxFood
        /\ parsed' = [parsed EXCEPT !.food = Append(@, cell)]
     \/ /\ Len(parsed.hazards) < MaxFood
        /\ parsed' = [parsed EXCEPT !.hazards = Append(@, cell)]

ReadYouId == \E is_null \in BOOLEAN :
  /\ Field("you") /\ UNCHANGED snake
  /\ parsed' = [parsed EXCEPT !.has_you_id = ~is_null]

\* An id once read stays one, even if null comes after it.
ReadSnakeId == \E is_null \in BOOLEAN :
  /\ Field("snake") /\ UNCHANGED parsed
  /\ snake' = [snake EXCEPT !.has_id = @ \/ ~is_null]

ReadHealth == \E value \in Healths \cup {Null} :
  /\ ~IsMalformed(value)
  /\ Field("snake") /\ UNCHANGED parsed
  /\ snake' = [snake EXCEPT !.health = OrDefault(value, 100)]

ReadLength == \E value \in Lengths \cup {Null} :
  /\ ~IsMalformed(value)
  /\ Field("snake") /\ UNCHANGED parsed
  /\ snake' = [snake EXCEPT !.length = value]

ReadBody == \E cells \in {<<>>} \cup {<<c>> : c \in Coords} :
  /\ Len(snake.body \o cells) <= MaxBody
  /\ Field("snake") /\ UNCHANGED parsed
  /\ snake' = [snake EXCEPT !.has_body = TRUE, !.body = @ \o cells]

\* An object, or the array of the snakes, begins.
Enter == \E child \in DOMAIN Parent :
  /\ Reading /\ level = Parent[child]
  /\ child = "snake" => Len(parsed.snakes) < MaxSnakes
  /\ level' = child /\ some' = FALSE
  /\ parsed' = IF child = "snakes" THEN [parsed EXCEPT !.has_snakes = TRUE]
                                   ELSE parsed
  /\ snake' = NewSnake

\* {} is enough for a ruleset and its settings only.
EnterEmpty ==
  /\ status = "parsing"
  /\ ~some /\ level \in {"request", "game", "board", "you", "snake"}
  /\ Stop("missing_required")

Leave ==
  /\ Reading
  /\ level \in {"game", "ruleset", "settings", "board", "snakes", "you"}
  /\ some \/ level \in {"ruleset", "settings", "snakes"}
  /\ level' = Parent[level] /\ some' = TRUE
  /\ UNCHANGED <<parsed, snake>>

SnakeIsMissing == ~snake.has_id \/ ~snake.has_body

LeaveSnake ==
  /\ level = "snake" /\ some
  /\ IF SnakeIsMissing
     THEN status = "parsing" /\ Stop("missing_required")
     ELSE /\ Reading
          /\ parsed' = [parsed EXCEPT !.snakes = Append(@,
               [health |-> snake.health, body |-> snake.body,
                length |-> OrDefault(snake.length, Len(snake.body))])]
          /\ snake' = NewSnake
          /\ level' = "snakes" /\ some' = TRUE

RequestIsMissing ==
  \/ ~parsed.has_game_id \/ ~parsed.has_you_id
  \/ ~parsed.has_width \/ ~parsed.has_height \/ ~parsed.has_snakes

\* bs_validate_request: with the sizes as they were read last.
IsValid(p) ==
  LET inside(cells) == \A k \in DOMAIN cells :
                         InBounds(cells[k], p.width, p.height)
  IN  /\ p.width > 0 /\ p.height > 0
      /\ p.timeout_ms >= 0 /\ p.hazard_damage >= 0
      /\ inside(p.food) /\ inside(p.hazards)
      /\ \A k \in DOMAIN p.snakes :
           /\ p.snakes[k].health >= 0 /\ p.snakes[k].length >= 0
           /\ inside(p.snakes[k].body)

LeaveRequest ==
  /\ status = "parsing" /\ level = "request" /\ some
  /\ Stop(IF RequestIsMissing THEN "missing_required"
          ELSE IF ~IsValid(parsed) THEN "malformed" ELSE "building")

-----------------------------------------------------------------------------
(* Building. *)

BoardBlocks(b) ==
  {0} \X {"board", "ruleset", "snakes", "food", "hazards"}
    \cup (1 .. Len(b.snakes)) \X {"id", "name", "body"}

\* BoardFree(b), with blocks on the heap, and a return of result.
FreeBoard(b, blocks, result) ==
  /\ heap' = blocks \ BoardBlocks(b)
  /\ status' = result
  /\ board' = NoBoard

Building == status = "building" /\ UNCHANGED <<level, some, parsed, snake, request>>

\* BoardCreate frees the board itself if there is no room for the ruleset.
CreateBoard ==
  /\ Building /\ <<0, "board">> \notin heap
  /\ UNCHANGED board
  /\ \/ status' = "no_memory" /\ UNCHANGED heap
     \/ heap' = {0} \X {"board", "ruleset"} /\ UNCHANGED status

\* What SnakeCopy could not get memory for is lost, and BoardAddSnake is true.
SnakeCopy(node, lost) ==
  IF "body" \in lost THEN [node EXCEPT !.body = <<>>] ELSE node

Parts(node) == {"id", "name"} \cup IF node.body = <<>> THEN {} ELSE {"body"}
IsWhole(node, lost) == lost = {}

AddSnake ==
  LET n == Len(board.snakes) + 1
      node == parsed.snakes[n]
  IN  /\ Building /\ <<0, "board">> \in heap /\ n <= Len(parsed.snakes)
      /\ \/ FreeBoard(board, heap, "no_memory")
         \/ \E lost \in SUBSET Parts(node) :
              LET added == [board EXCEPT !.snakes = Append(@, SnakeCopy(node, lost))]
                  blocks == heap \cup {<<0, "snakes">>} \cup {n} \X (Parts(node) \ lost)
              IN  IF IsWhole(node, lost)
                  THEN heap' = blocks /\ board' = added /\ UNCHANGED status
                  ELSE FreeBoard(added, blocks, "no_memory")

AddFood ==
  LET n == Len(board.food) + 1
  IN  /\ Building /\ <<0, "board">> \in heap
      /\ Len(board.snakes) = Len(parsed.snakes) /\ n <= Len(parsed.food)
      /\ \/ FreeBoard(board, heap, "no_memory")
         \/ /\ board' = [board EXCEPT !.food = Append(@, parsed.food[n])]
            /\ heap' = heap \cup {<<0, "food">>} /\ UNCHANGED status

AddHazard ==
  LET n == Len(board.hazards) + 1
  IN  /\ Building /\ <<0, "board">> \in heap
      /\ Len(board.snakes) = Len(parsed.snakes)
      /\ board.food = parsed.food /\ n <= Len(parsed.hazards)
      /\ \/ FreeBoard(board, heap, "no_memory")
         \/ /\ board' = [board EXCEPT !.hazards = Append(@, parsed.hazards[n])]
            /\ heap' = heap \cup {<<0, "hazards">>} /\ UNCHANGED status

Finish ==
  /\ status = "building" /\ <<0, "board">> \in heap
  /\ Len(board.snakes) = Len(parsed.snakes)
  /\ board.food = parsed.food /\ board.hazards = parsed.hazards
  /\ status' = "ok"
  /\ request' = [timeout_ms |-> parsed.timeout_ms, board |-> board]
  /\ UNCHANGED <<level, some, parsed, snake, heap, board>>

\* BsGameRequestFree
FreeRequest ==
  /\ status = "ok"
  /\ FreeBoard(request.board, heap, "released")
  /\ request' = NoRequest
  /\ UNCHANGED <<level, some, parsed, snake>>

Next ==
  \/ Start \/ Malformed \/ ArenaFull \/ SkipField
  \/ ReadGameId \/ ReadTimeout \/ ReadHazardDamage \/ ReadSize \/ ReadFood
  \/ ReadYouId \/ ReadSnakeId \/ ReadHealth \/ ReadLength \/ ReadBody
  \/ Enter \/ EnterEmpty \/ Leave \/ LeaveSnake \/ LeaveRequest
  \/ CreateBoard \/ AddSnake \/ AddFood \/ AddHazard \/ Finish \/ FreeRequest

Spec == Init /\ [][Next]_vars

-----------------------------------------------------------------------------
\* Strings and integers are read for what they say: a string decodes to
\* exactly the bytes that were counted for it, in the shortest UTF-8 form; an
\* integer is refused exactly if it has a leading zero or is out of range.
LiteralsAreExact ==
  status = "start" =>
    /\ \A text \in Strings : StringIsExact(text)
    /\ \A negative \in BOOLEAN : \A digits \in Digits :
         IntegerIsExact(negative, digits)

\* An accepted request hands over a board on which a game can be played,
\* whatever the order of the fields and however often they came, and it is the
\* one that was sent: nothing of it was lost where memory was short.
AcceptedIsFaithful ==
  status = "ok" =>
    LET b == request.board
        cells == ToSet(b.food) \cup ToSet(b.hazards)
                   \cup UNION {ToSet(b.snakes[k].body) : k \in DOMAIN b.snakes}
    IN  /\ parsed.has_game_id /\ parsed.has_you_id
        /\ parsed.width > 0 /\ parsed.height > 0
        /\ \A cell \in cells : InBounds(cell, parsed.width, parsed.height)
        /\ b = [snakes |-> parsed.snakes, food |-> parsed.food,
                hazards |-> parsed.hazards]
        /\ (1 .. Len(b.snakes)) \X {"id", "name"} \subseteq heap

\* Whoever does not get a board does not have to free one: after a refusal,
\* and after the release of an accepted request, nothing is left on the heap,
\* at whichever allocation it failed.
FailureOwnsNothing ==
  status \in Failures \cup {"released"} => heap = {} /\ request = NoRequest

\* Either the whole of what was sent is handed over, or nothing.
HandoverIsWhole == AcceptedIsFaithful /\ FailureOwnsNothing
=============================================================================
