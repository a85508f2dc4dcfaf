------------------------- MODULE JsonRequestProofs --------------------------
(***************************************************************************)
(* The handover of a parsed request (JsonRequest), for texts of any        *)
(* length, whatever integers, cells and strings they contain, and          *)
(* whichever request for memory is refused: the caller gets the whole      *)
(* board that was sent, inside its bounds, or nothing it would have to     *)
(* free. And its strings and integers (JsonText), of any length, are read  *)
(* for what they say.                                                      *)
(***************************************************************************)
EXTENDS JsonRequest, SequenceTheorems, TLAPS

\* A snake as it is kept, and what the parser has kept so far.
Node == {[health |-> h, body |-> b, length |-> n] :
           h \in Healths \cup {100}, b \in Seq(Coords), n \in Lengths \cup Nat}
Fields ==
  {"has_game_id", "has_you_id", "timeout_ms", "hazard_damage", "has_width",
   "has_height", "has_snakes", "width", "height", "food", "hazards", "snakes"}
IsParsed(p) ==
  /\ p = [f \in Fields |-> p[f]]
  /\ p.food \in Seq(Coords) /\ p.hazards \in Seq(Coords)
  /\ p.snakes \in Seq(Node)
IsSnake(s) ==
  /\ s = [f \in {"has_id", "has_body", "health", "length", "body"} |-> s[f]]
  /\ s.health \in Healths \cup {100} /\ s.length \in Lengths \cup {Null}
  /\ s.body \in Seq(Coords)
IsBoard(b) ==
  /\ b = [f \in {"snakes", "food", "hazards"} |-> b[f]]
  /\ b.snakes \in Seq(Node) /\ b.food \in Seq(Coords)
  /\ b.hazards \in Seq(Coords)

ParsedInv == IsParsed(parsed) /\ IsSnake(snake)

\* The board that is being built is the beginning of what was parsed, its
\* blocks are all that is on the heap, and every snake has its id and name.
\* BoardFree therefore frees everything, at whichever step it is called.
BoardInv ==
  /\ IsBoard(board)
  /\ Len(board.snakes) <= Len(parsed.snakes)
  /\ \A k \in 1 .. Len(board.snakes) : board.snakes[k] = parsed.snakes[k]
  /\ heap \subseteq BoardBlocks(board)
  /\ (1 .. Len(board.snakes)) \X {"id", "name"} \subseteq heap
  /\ <<0, "board">> \notin heap => heap = {} /\ board = NoBoard

HandoverInv ==
  /\ status \in {"start", "parsing", "building", "ok", "released"}
                  \cup Failures
  /\ status \notin {"building", "ok"} => heap = {} /\ board = NoBoard
  /\ status # "ok" => request = NoRequest
  /\ status \in {"building", "ok"} =>
       ~ RequestIsMissing /\ IsValid(parsed) /\ BoardInv
  /\ status = "ok" =>
       /\ request = [timeout_ms |-> parsed.timeout_ms, board |-> board]
       /\ board = [snakes |-> parsed.snakes, food |-> parsed.food,
                   hazards |-> parsed.hazards]

Inv == ParsedInv /\ HandoverInv

-----------------------------------------------------------------------------
\* Setting one of these fields leaves the rest of what was parsed alone.
LEMMA OneField ==
  ASSUME NEW p, IsParsed(p), NEW x
  PROVE  /\ IsParsed([p EXCEPT !.has_game_id = x])
         /\ IsParsed([p EXCEPT !.has_you_id = x])
         /\ IsParsed([p EXCEPT !.timeout_ms = x])
         /\ IsParsed([p EXCEPT !.hazard_damage = x])
<1> DEFINE q(f) == [p EXCEPT ![f] = x]
<1>1. ASSUME NEW f \in Fields \ {"food", "hazards", "snakes"} PROVE IsParsed(q(f))
  <2>1. /\ p = [g \in Fields |-> p[g]] /\ p.food \in Seq(Coords)
        /\ p.hazards \in Seq(Coords) /\ p.snakes \in Seq(Node)
    BY DEF IsParsed
  <2>2. /\ f \in Fields /\ f # "food" /\ f # "hazards" /\ f # "snakes"
    OBVIOUS
  <2>3. q(f).food = p.food /\ q(f).hazards = p.hazards /\ q(f).snakes = p.snakes
    BY <2>1, <2>2 DEF Fields
  <2>4. q(f) = [g \in Fields |-> q(f)[g]]
    BY <2>1, <2>2
  <2> HIDE DEF q
  <2> QED BY <2>1, <2>3, <2>4 DEF IsParsed
<1> QED BY <1>1 DEF Fields

LEMMA OneFieldRead ==
  ASSUME ParsedInv, ReadGameId \/ ReadYouId \/ ReadTimeout \/ ReadHazardDamage
  PROVE  ParsedInv'
<1>0. IsParsed(parsed) /\ IsSnake(snake)
  BY DEF ParsedInv
<1>1. CASE ReadGameId
  <2>1. PICK x : parsed' = [parsed EXCEPT !.has_game_id = x] /\ snake' = snake
    BY <1>1 DEF ReadGameId
  <2>2. IsParsed(parsed')
    BY <1>0, <2>1, OneField
  <2> QED BY <1>0, <2>1, <2>2 DEF ParsedInv
<1>2. CASE ReadYouId
  <2>1. PICK x : parsed' = [parsed EXCEPT !.has_you_id = x] /\ snake' = snake
    BY <1>2 DEF ReadYouId
  <2>2. IsParsed(parsed')
    BY <1>0, <2>1, OneField
  <2> QED BY <1>0, <2>1, <2>2 DEF ParsedInv
<1>3. CASE ReadTimeout
  <2>1. PICK x : parsed' = [parsed EXCEPT !.timeout_ms = x] /\ snake' = snake
    BY <1>3 DEF ReadTimeout
  <2>2. IsParsed(parsed')
    BY <1>0, <2>1, OneField
  <2> QED BY <1>0, <2>1, <2>2 DEF ParsedInv
<1>4. CASE ReadHazardDamage
  <2>1. PICK x : parsed' = [parsed EXCEPT !.hazard_damage = x] /\ snake' = snake
    BY <1>4 DEF ReadHazardDamage
  <2>2. IsParsed(parsed')
    BY <1>0, <2>1, OneField
  <2> QED BY <1>0, <2>1, <2>2 DEF ParsedInv
<1> QED BY <1>1, <1>2, <1>3, <1>4

\* A field of the request, of its game or of its board keeps the types of what
\* was read.
LEMMA ParsedField ==
  ASSUME ParsedInv,
         \/ SkipField \/ ReadGameId \/ ReadTimeout \/ ReadHazardDamage
         \/ ReadSize \/ ReadFood \/ ReadYouId
  PROVE  ParsedInv'
<1>1. CASE SkipField
  <2>1. parsed' = parsed /\ snake' = snake
    BY <1>1, Zenon DEF SkipField
  <2> QED BY <2>1, Zenon DEF ParsedInv
<1>2. ReadGameId \/ ReadYouId \/ ReadTimeout \/ ReadHazardDamage => ParsedInv'
  BY OneFieldRead, Zenon
<1> USE DEF ParsedInv, IsParsed, Fields
<1>3. CASE ReadSize
  BY <1>3 DEF ReadSize
<1>4. CASE ReadFood
  <2>1. PICK cell \in Coords :
          /\ \/ parsed' = [parsed EXCEPT !.food = Append(parsed.food, cell)]
             \/ parsed' =
                  [parsed EXCEPT !.hazards = Append(parsed.hazards, cell)]
          /\ snake' = snake
    BY <1>4 DEF ReadFood
  <2>2. /\ Append(parsed.food, cell) \in Seq(Coords)
        /\ Append(parsed.hazards, cell) \in Seq(Coords)
    OBVIOUS
  <2> QED BY <2>1, <2>2
<1> HIDE DEF ParsedInv
<1> QED BY <1>1, <1>2, <1>3, <1>4, Zenon

\* The fields of a snake.
LEMMA ParsedSnake ==
  ASSUME ParsedInv, ReadSnakeId \/ ReadHealth \/ ReadLength \/ ReadBody
  PROVE  ParsedInv'
<1> USE DEF ParsedInv, IsSnake, OrDefault
<1>1. CASE ReadSnakeId
  <2>1. PICK is_null \in BOOLEAN :
          /\ snake' = [snake EXCEPT !.has_id = @ \/ ~ is_null]
          /\ parsed' = parsed
    BY <1>1, Zenon DEF ReadSnakeId
  <2> QED BY <2>1
<1>2. CASE ReadHealth
  <2>1. PICK health \in Healths \cup {100} :
          /\ snake' = [snake EXCEPT !.health = health]
          /\ parsed' = parsed
    BY <1>2 DEF ReadHealth
  <2> QED BY <2>1
<1>3. CASE ReadLength
  BY <1>3 DEF ReadLength
<1>4. CASE ReadBody
  <2>1. PICK cells \in {<<>>} \cup {<<c>> : c \in Coords} :
          /\ snake' = [snake EXCEPT !.has_body = TRUE,
                                    !.body = snake.body \o cells]
          /\ parsed' = parsed
    BY <1>4 DEF ReadBody
  <2>2. cells \in Seq(Coords)
    <3>1. CASE cells = <<>>
      BY <3>1
    <3>2. CASE \E c \in Coords : cells = <<c>>
      BY <3>2
    <3> QED BY <3>1, <3>2
  <2>3. snake.body \o cells \in Seq(Coords)
    BY <2>2, ConcatProperties
  <2> QED BY <2>1, <2>3
<1> QED BY <1>1, <1>2, <1>3, <1>4

\* A new snake has the defaults of bs_parse_snake.
LEMMA NewSnakeTyped == IsSnake(NewSnake)
BY DEF NewSnake, IsSnake

\* Objects begin and end; a snake that is whole is appended.
LEMMA ParsedObject ==
  ASSUME ParsedInv, Enter \/ Leave \/ LeaveSnake
  PROVE  ParsedInv'
<1>1. CASE Enter
  BY <1>1, NewSnakeTyped DEF Enter, ParsedInv, IsParsed, Fields
<1>2. CASE Leave
  BY <1>2 DEF Leave, ParsedInv
<1>3. CASE LeaveSnake
  <2>1. CASE SnakeIsMissing
    BY <1>3, <2>1 DEF LeaveSnake, Stop, ParsedInv
  <2>2. CASE ~ SnakeIsMissing
    <3> DEFINE node == [health |-> snake.health, body |-> snake.body,
                        length |-> OrDefault(snake.length, Len(snake.body))]
    <3>1. node \in Node
      <4>1. Len(snake.body) \in Nat
        BY DEF ParsedInv, IsSnake
      <4> QED BY <4>1 DEF ParsedInv, IsSnake, Node, OrDefault
    <3>2. parsed' = [parsed EXCEPT !.snakes = Append(parsed.snakes, node)]
          /\ snake' = NewSnake
      BY <1>3, <2>2 DEF LeaveSnake
    <3> HIDE DEF node
    <3>3. Append(parsed.snakes, node) \in Seq(Node)
      BY <3>1 DEF ParsedInv, IsParsed
    <3> QED BY <3>2, <3>3, NewSnakeTyped DEF ParsedInv, IsParsed, Fields
  <2> QED BY <2>1, <2>2
<1> QED BY <1>1, <1>2, <1>3

\* While the text is read nothing is on the heap.
LEMMA HandoverReading ==
  ASSUME Inv,
         \/ SkipField \/ ReadGameId \/ ReadTimeout \/ ReadHazardDamage
         \/ ReadSize \/ ReadFood \/ ReadYouId
         \/ ReadSnakeId \/ ReadHealth \/ ReadLength \/ ReadBody
         \/ Enter \/ Leave \/ (LeaveSnake /\ ~ SnakeIsMissing)
  PROVE  HandoverInv'
<1>1. status = "parsing" /\ UNCHANGED <<status, heap, board, request>>
  BY DEF SkipField, ReadGameId, ReadTimeout, ReadHazardDamage, ReadSize,
         ReadFood, ReadYouId, ReadSnakeId, ReadHealth, ReadLength, ReadBody,
         Enter, Leave, LeaveSnake, Field, Reading
<1> QED BY <1>1 DEF Inv, HandoverInv

\* The text was refused, or accepted and validated: the building starts with
\* nothing.
LEMMA HandoverStop ==
  ASSUME Inv,
         \/ Start \/ Malformed \/ ArenaFull \/ EnterEmpty \/ LeaveRequest
         \/ (LeaveSnake /\ SnakeIsMissing)
  PROVE  Inv'
<1>1. /\ status \in {"start", "parsing"}
      /\ UNCHANGED <<parsed, snake, heap, board, request>>
      /\ status' \in {"parsing", "malformed", "no_memory", "missing_required",
                      "building"}
      /\ status' = "building" => ~ RequestIsMissing /\ IsValid(parsed)
  BY DEF Start, Malformed, ArenaFull, EnterEmpty, LeaveRequest, LeaveSnake,
         Stop
<1>2. heap = {} /\ board = NoBoard
  BY <1>1 DEF Inv, HandoverInv
<1>3. parsed.snakes \in Seq(Node)
  BY DEF Inv, ParsedInv, IsParsed
<1>4. BoardInv
  <2>1. IsBoard(NoBoard) /\ NoBoard.snakes = <<>>
    BY DEF NoBoard, IsBoard
  <2> QED BY <1>2, <1>3, <2>1 DEF BoardInv
<1>5. BoardInv' /\ (RequestIsMissing' <=> RequestIsMissing)
      /\ (IsValid(parsed)' <=> IsValid(parsed))
  BY <1>1, <1>4 DEF BoardInv, RequestIsMissing
<1> QED BY <1>1, <1>2, <1>5 DEF Inv, ParsedInv, HandoverInv, Failures

-----------------------------------------------------------------------------
(* The building. *)

\* BoardFree frees the whole heap.
LEMMA FreeAll ==
  ASSUME NEW b, NEW blocks, NEW result, blocks \subseteq BoardBlocks(b),
         FreeBoard(b, blocks, result)
  PROVE  heap' = {} /\ board' = NoBoard /\ status' = result
BY DEF FreeBoard

\* What stays as it is when nothing more is parsed.
LEMMA SameParsed ==
  ASSUME Inv, UNCHANGED <<parsed, snake>>
  PROVE  /\ ParsedInv' /\ (RequestIsMissing' <=> RequestIsMissing)
         /\ (IsValid(parsed)' <=> IsValid(parsed))
BY DEF Inv, ParsedInv, RequestIsMissing

\* An allocation failed, and everything was freed.
LEMMA HandoverFreed ==
  ASSUME Inv, UNCHANGED <<parsed, snake>>, heap' = {}, board' = NoBoard,
         status' \in {"no_memory", "released"}, request' = NoRequest
  PROVE  Inv'
BY SameParsed DEF Inv, HandoverInv, Failures

\* A part was added.
LEMMA HandoverBuilt ==
  ASSUME Inv, status = "building", UNCHANGED <<status, parsed, snake, request>>,
         BoardInv'
  PROVE  Inv'
BY SameParsed DEF Inv, HandoverInv

\* A record with the parts of a snake is one.
LEMMA NodeOf ==
  ASSUME NEW h \in Healths \cup {100}, NEW b \in Seq(Coords),
         NEW m \in Lengths \cup Nat
  PROVE  [health |-> h, body |-> b, length |-> m] \in Node
BY DEF Node

\* BoardCreate: the board and its ruleset, or nothing.
LEMMA HandoverCreate ==
  ASSUME Inv, CreateBoard
  PROVE  Inv'
<1>1. /\ status = "building" /\ UNCHANGED <<parsed, snake, request, board>>
      /\ BoardInv /\ heap = {} /\ request = NoRequest
  BY DEF CreateBoard, Building, Inv, HandoverInv, BoardInv
<1>2. CASE status' = "no_memory" /\ heap' = heap
  BY <1>1, <1>2, HandoverFreed DEF BoardInv, Inv
<1>3. CASE heap' = {0} \X {"board", "ruleset"} /\ status' = status
  BY <1>1, <1>3, HandoverBuilt DEF BoardInv, BoardBlocks
<1> QED BY <1>2, <1>3 DEF CreateBoard

\* BoardAddSnake: a snake that lost nothing is the next one of what was
\* parsed; after any other the board is freed, the incomplete snake with it.
LEMMA HandoverSnake ==
  ASSUME Inv, AddSnake
  PROVE  Inv'
<1> DEFINE n == Len(board.snakes) + 1
           node == parsed.snakes[n]
<1>1. /\ status = "building" /\ UNCHANGED <<parsed, snake, request>>
      /\ BoardInv /\ <<0, "board">> \in heap /\ request = NoRequest
      /\ n <= Len(parsed.snakes)
  BY DEF AddSnake, Building, Inv, HandoverInv
<1>2. CASE FreeBoard(board, heap, "no_memory")
  BY <1>1, <1>2, FreeAll, HandoverFreed DEF BoardInv
<1>3. ASSUME NEW lost \in SUBSET Parts(node),
             LET added == [board EXCEPT !.snakes =
                             Append(@, SnakeCopy(node, lost))]
                 blocks == heap \cup {<<0, "snakes">>}
                             \cup {n} \X (Parts(node) \ lost)
             IN  IF IsWhole(node, lost)
                 THEN heap' = blocks /\ board' = added /\ UNCHANGED status
                 ELSE FreeBoard(added, blocks, "no_memory")
      PROVE  Inv'
  <2> DEFINE copy == SnakeCopy(node, lost)
             added == [board EXCEPT !.snakes = Append(@, copy)]
             blocks == heap \cup {<<0, "snakes">>}
                         \cup {n} \X (Parts(node) \ lost)
  <2>1. node \in Node /\ copy \in Node /\ (lost = {} => copy = node)
    <3>1. parsed.snakes \in Seq(Node) /\ n \in 1 .. Len(parsed.snakes)
      BY <1>1 DEF Inv, ParsedInv, IsParsed, BoardInv
    <3>2. node \in Node
      BY <3>1
    <3> HIDE DEF node
    <3>3. [node EXCEPT !.body = <<>>] \in Node
      <4>1. PICK h \in Healths \cup {100}, b \in Seq(Coords),
                 m \in Lengths \cup Nat :
              node = [health |-> h, body |-> b, length |-> m]
        BY <3>2 DEF Node
      <4>2. [node EXCEPT !.body = <<>>]
              = [health |-> h, body |-> <<>>, length |-> m]
        BY <4>1
      <4>3. <<>> \in Seq(Coords)
        OBVIOUS
      <4>4. [health |-> h, body |-> <<>>, length |-> m] \in Node
        BY <4>1, <4>3, NodeOf
      <4> QED BY <4>2, <4>4
    <3> QED BY <3>2, <3>3 DEF SnakeCopy
  <2>2. Parts(node) \subseteq {"id", "name", "body"}
    BY DEF Parts
  <2> HIDE DEF copy, node
  <2>3. /\ board.snakes \in Seq(Node) /\ n = Len(board.snakes) + 1 /\ n \in Nat
        /\ added.snakes = Append(board.snakes, copy)
    BY <1>1 DEF BoardInv, IsBoard
  <2>4. /\ added.snakes \in Seq(Node) /\ Len(added.snakes) = n
        /\ \A k \in 1 .. n - 1 : added.snakes[k] = board.snakes[k]
        /\ added.snakes[n] = copy
    BY <2>1, <2>3, AppendProperties
  <2>8. IsBoard(added)
    <3>1. IsBoard(board) /\ Append(board.snakes, copy) \in Seq(Node)
      BY <1>1, <2>1, <2>3 DEF BoardInv
    <3> QED BY <3>1 DEF IsBoard
  <2>5. blocks \subseteq BoardBlocks(added)
    BY <1>1, <2>2, <2>3, <2>4 DEF BoardInv, BoardBlocks
  <2>6. CASE lost = {}
    <3>1. heap' = blocks /\ board' = added /\ status' = status
      BY <1>3, <2>6 DEF IsWhole, copy, node
    <3>2. (1 .. n) \X {"id", "name"} \subseteq blocks
      BY <1>1, <2>3, <2>6 DEF BoardInv, Parts
    <3> HIDE DEF added, blocks
    <3>3. BoardInv'
      <4>1. /\ IsBoard(added) /\ Len(added.snakes) = n
            /\ n <= Len(parsed.snakes)
            /\ blocks \subseteq BoardBlocks(added)
            /\ (1 .. n) \X {"id", "name"} \subseteq blocks
            /\ <<0, "board">> \in blocks
        BY <1>1, <2>3, <2>4, <2>5, <2>8, <3>2 DEF blocks
      <4>2. \A k \in 1 .. n : added.snakes[k] = parsed.snakes[k]
        BY <1>1, <2>1, <2>3, <2>4, <2>6 DEF BoardInv, node
      <4> QED BY <1>1, <3>1, <4>1, <4>2 DEF BoardInv
    <3> QED BY <1>1, <3>1, <3>3, HandoverBuilt
  <2>7. CASE lost # {}
    <3>1. FreeBoard(added, blocks, "no_memory")
      BY <1>3, <2>7 DEF IsWhole, copy, node
    <3> QED BY <1>1, <2>5, <3>1, FreeAll, HandoverFreed
  <2> QED BY <2>6, <2>7
<1> QED BY <1>2, <1>3 DEF AddSnake

\* Food and hazards leave the snakes alone.
LEMMA HandoverCells ==
  ASSUME Inv, AddFood \/ AddHazard
  PROVE  Inv'
<1>1. /\ status = "building" /\ UNCHANGED <<parsed, snake, request>>
      /\ BoardInv /\ <<0, "board">> \in heap /\ request = NoRequest
  BY DEF AddFood, AddHazard, Building, Inv, HandoverInv
<1>2. CASE FreeBoard(board, heap, "no_memory")
  BY <1>1, <1>2, FreeAll, HandoverFreed DEF BoardInv
<1>3. CASE ~ FreeBoard(board, heap, "no_memory")
  <2>1. /\ IsBoard(board') /\ board'.snakes = board.snakes
    <3>1. IsBoard(board) /\ parsed.food \in Seq(Coords)
          /\ parsed.hazards \in Seq(Coords)
      BY <1>1 DEF BoardInv, Inv, ParsedInv, IsParsed
    <3>2. \/ \E cells \in Seq(Coords) :
               board' = [board EXCEPT !.food = cells]
          \/ \E cells \in Seq(Coords) :
               board' = [board EXCEPT !.hazards = cells]
      <4>1. CASE AddFood
        <5> DEFINE n == Len(board.food) + 1
        <5>1. /\ n <= Len(parsed.food)
              /\ board' =
                   [board EXCEPT !.food = Append(board.food, parsed.food[n])]
          BY <1>3, <4>1 DEF AddFood
        <5>2. n \in 1 .. Len(parsed.food)
          BY <3>1, <5>1 DEF IsBoard
        <5>3. Append(board.food, parsed.food[n]) \in Seq(Coords)
          BY <3>1, <5>2 DEF IsBoard
        <5> QED BY <5>1, <5>3
      <4>2. CASE AddHazard
        <5> DEFINE n == Len(board.hazards) + 1
        <5>1. /\ n <= Len(parsed.hazards)
              /\ board' = [board EXCEPT !.hazards =
                             Append(board.hazards, parsed.hazards[n])]
          BY <1>3, <4>2 DEF AddHazard
        <5>2. n \in 1 .. Len(parsed.hazards)
          BY <3>1, <5>1 DEF IsBoard
        <5>3. Append(board.hazards, parsed.hazards[n]) \in Seq(Coords)
          BY <3>1, <5>2 DEF IsBoard
        <5> QED BY <5>1, <5>3
      <4> QED BY <4>1, <4>2
    <3> QED BY <3>1, <3>2 DEF IsBoard
  <2>2. /\ heap' \subseteq heap \cup {<<0, "food">>, <<0, "hazards">>}
        /\ heap \subseteq heap' /\ status' = status
    BY <1>1, <1>3 DEF AddFood, AddHazard
  <2>3. BoardInv'
    BY <1>1, <2>1, <2>2 DEF BoardInv, BoardBlocks
  <2> QED BY <1>1, <2>2, <2>3, HandoverBuilt
<1> QED BY <1>2, <1>3

\* As many snakes as were parsed, each as it was parsed, are all of them.
LEMMA HandoverFinish ==
  ASSUME Inv, Finish
  PROVE  Inv'
<1>1. /\ BoardInv /\ ~ RequestIsMissing /\ IsValid(parsed)
      /\ UNCHANGED <<parsed, snake, heap, board>> /\ status' = "ok"
      /\ request' = [timeout_ms |-> parsed.timeout_ms, board |-> board]
      /\ Len(board.snakes) = Len(parsed.snakes)
      /\ board.food = parsed.food /\ board.hazards = parsed.hazards
  BY DEF Finish, Inv, HandoverInv
<1>2. board.snakes = parsed.snakes
  <2>1. board.snakes \in Seq(Node) /\ parsed.snakes \in Seq(Node)
    BY <1>1 DEF BoardInv, IsBoard, Inv, ParsedInv, IsParsed
  <2> QED BY <1>1, <2>1, SeqEqual DEF BoardInv
<1>3. board = [snakes |-> parsed.snakes, food |-> parsed.food,
               hazards |-> parsed.hazards]
  BY <1>1, <1>2 DEF BoardInv, IsBoard
<1>4. BoardInv'
  BY <1>1 DEF BoardInv
<1> QED BY <1>1, <1>3, <1>4, SameParsed DEF Inv, HandoverInv

\* BsGameRequestFree frees the board that was handed over.
LEMMA HandoverFree ==
  ASSUME Inv, FreeRequest
  PROVE  Inv'
<1>1. /\ FreeBoard(board, heap, "released") /\ heap \subseteq BoardBlocks(board)
      /\ request' = NoRequest /\ UNCHANGED <<parsed, snake>>
  BY DEF FreeRequest, Inv, HandoverInv, BoardInv
<1> QED BY <1>1, FreeAll, HandoverFreed

\* The parser starts with nothing read and nothing on the heap.
LEMMA InvInit == Init => Inv
BY NewSnakeTyped DEF Init, Inv, ParsedInv, HandoverInv, IsParsed, Fields,
                     NewRequest, NoBoard, NoRequest

\* The invariant is inductive.
LEMMA InvStep ==
  ASSUME Inv, [Next]_vars
  PROVE  Inv'
<1>1. CASE \/ SkipField \/ ReadGameId \/ ReadTimeout \/ ReadHazardDamage
           \/ ReadSize \/ ReadFood \/ ReadYouId
  BY <1>1, ParsedField, HandoverReading DEF Inv
<1>2. CASE ReadSnakeId \/ ReadHealth \/ ReadLength \/ ReadBody
  BY <1>2, ParsedSnake, HandoverReading DEF Inv
<1>3. CASE Enter \/ Leave \/ (LeaveSnake /\ ~ SnakeIsMissing)
  BY <1>3, ParsedObject, HandoverReading DEF Inv
<1>4. CASE \/ Start \/ Malformed \/ ArenaFull \/ EnterEmpty \/ LeaveRequest
           \/ (LeaveSnake /\ SnakeIsMissing)
  BY <1>4, HandoverStop
<1>5. CASE CreateBoard \/ AddSnake \/ AddFood \/ AddHazard \/ Finish
           \/ FreeRequest
  BY <1>5, HandoverCreate, HandoverSnake, HandoverCells, HandoverFinish,
     HandoverFree
<1>6. CASE UNCHANGED vars
  BY <1>6, SameParsed DEF vars, Inv, HandoverInv, BoardInv
<1> QED BY <1>1, <1>2, <1>3, <1>4, <1>5, <1>6 DEF Next

\* BsParseGameRequest (battlesnake_json.c) hands over the board that was sent,
\* with every cell inside it, or reports a failure with nothing left on the
\* heap, whatever allocation failed; so does BsGameRequestFree after it.
THEOREM HandoverHolds == Spec => []HandoverIsWhole
<1>1. ASSUME Inv PROVE FailureOwnsNothing
  BY <1>1 DEF Inv, HandoverInv, FailureOwnsNothing, Failures
<1>2. ASSUME Inv PROVE AcceptedIsFaithful
  <2> SUFFICES ASSUME status = "ok" PROVE AcceptedIsFaithful
    BY DEF AcceptedIsFaithful
  <2>1. /\ ~ RequestIsMissing /\ IsValid(parsed) /\ BoardInv
        /\ request.board = board
        /\ board = [snakes |-> parsed.snakes, food |-> parsed.food,
                    hazards |-> parsed.hazards]
    BY <1>2 DEF Inv, HandoverInv
  <2>2. /\ board.snakes = parsed.snakes /\ board.food = parsed.food
        /\ board.hazards = parsed.hazards
    BY <2>1
  <2>3. parsed.width > 0 /\ parsed.height > 0
    BY <2>1 DEF IsValid
  <2>4. \A cell \in ToSet(parsed.food) \cup ToSet(parsed.hazards) :
          InBounds(cell, parsed.width, parsed.height)
    BY <2>1 DEF IsValid, ToSet
  <2>5. \A k \in DOMAIN parsed.snakes : \A cell \in ToSet(parsed.snakes[k].body) :
          InBounds(cell, parsed.width, parsed.height)
    BY <2>1 DEF IsValid, ToSet
  <2>6. parsed.has_game_id /\ parsed.has_you_id
    BY <2>1 DEF RequestIsMissing
  <2>7. (1 .. Len(board.snakes)) \X {"id", "name"} \subseteq heap
    BY <2>1 DEF BoardInv
  <2> QED BY <2>1, <2>2, <2>3, <2>4, <2>5, <2>6, <2>7 DEF AcceptedIsFaithful
<1>3. Inv => HandoverIsWhole
  BY <1>1, <1>2 DEF HandoverIsWhole
<1>4. Inv /\ [Next]_vars => Inv'
  BY InvStep
<1> QED BY <1>3, <1>4, InvInit, PTL DEF Spec
-----------------------------------------------------------------------------
(* Strings and integers. *)

MeasuredP == INSTANCE LoopsProofs WITH Step <- MeasureRound
WrittenP == INSTANCE LoopsProofs WITH Step <- WriteRound
TakenP == INSTANCE LoopsProofs WITH Step <- TakeDigit
NumeralP == INSTANCE LoopsProofs WITH Step <- AddDigit

\* The parser runs its loops as instances of Loops, the proofs as instances of
\* LoopsProofs: the same loops.
LEMMA TheSameLoops ==
  ASSUME NEW c, NEW base, NEW n
  PROVE  /\ Measured!Run(c, base, n) = MeasuredP!Run(c, base, n)
         /\ Written!Run(c, base, n) = WrittenP!Run(c, base, n)
         /\ Taken!Run(c, base, n) = TakenP!Run(c, base, n)
         /\ Numeral!Run(c, base, n) = NumeralP!Run(c, base, n)
BY DEF Measured!Run, MeasuredP!Run, Written!Run, WrittenP!Run, Taken!Run,
       TakenP!Run, Numeral!Run, NumeralP!Run

Codes == {code \in Nat : code <= 1114111}

\* bs_utf8_write puts down as many bytes as bs_utf8_len counts, and they decode
\* to the code point.
LEMMA Utf8IsExact ==
  ASSUME NEW code \in Codes
  PROVE  /\ Utf8Write(code) \in Seq(Int)
         /\ Len(Utf8Write(code)) = Utf8Len(code)
         /\ Utf8Len(code) = IF code < 128 THEN 1 ELSE IF code < 2048 THEN 2
                            ELSE IF code < 65536 THEN 3 ELSE 4
         /\ Decode(Utf8Write(code)) = code
<1> DEFINE one == Continuation(code, 1)
           two == Continuation(code, 64)
           three == Continuation(code, 4096)
<1>1. code \in Nat /\ code <= 1114111
  BY SMT DEF Codes
<1>2. /\ one = 128 + (code % 64) /\ one \in Int
      /\ two = 128 + ((code \div 64) % 64) /\ two \in Int
      /\ three = 128 + ((code \div 4096) % 64) /\ three \in Int
  <2>1. code \div 1 = code
    BY <1>1, SMT
  <2>2. /\ one = 128 + ((code \div 1) % 64)
        /\ two = 128 + ((code \div 64) % 64)
        /\ three = 128 + ((code \div 4096) % 64)
    BY SMT DEF Continuation
  <2>3. /\ code % 64 \in Int
        /\ (code \div 64) % 64 \in Int
        /\ (code \div 4096) % 64 \in Int
    BY <1>1, SMT
  <2> HIDE DEF one, two, three
  <2> QED BY <2>1, <2>2, <2>3, SMT
<1> HIDE DEF one, two, three
<1>3. CASE code <= 127
  <2>1. Utf8Write(code) = <<code>> /\ Utf8Len(code) = 1
    BY <1>3, SMT DEF Utf8Write, Utf8Len
  <2>2. Decode(<<code>>) = code
    BY SMT DEF Decode
  <2> QED BY <1>1, <1>3, <2>1, <2>2, SMT
<1>4. CASE 128 <= code /\ code <= 2047
  <2> DEFINE first == 192 + code \div 64
  <2>1. Utf8Write(code) = <<first, one>> /\ Utf8Len(code) = 2
    BY <1>1, <1>4, SMT DEF Utf8Write, Utf8Len, one
  <2>2. first \in Int /\ (first - 192) * 64 + (code % 64) = code
    BY <1>1, SMT
  <2> HIDE DEF first
  <2>3. Decode(<<first, one>>) = (first - 192) * 64 + (one - 128)
    BY SMT DEF Decode
  <2> QED BY <1>1, <1>2, <1>4, <2>1, <2>2, <2>3, SMT
<1>5. CASE 2048 <= code /\ code <= 65535
  <2> DEFINE first == 224 + code \div 4096
  <2>1. Utf8Write(code) = <<first, two, one>> /\ Utf8Len(code) = 3
    BY <1>1, <1>5, SMT DEF Utf8Write, Utf8Len, one, two
  <2>2. /\ first \in Int
        /\ ((first - 224) * 64 + ((code \div 64) % 64)) * 64 + (code % 64) = code
    BY <1>1, SMT
  <2> HIDE DEF first
  <2>3. Decode(<<first, two, one>>)
          = ((first - 224) * 64 + (two - 128)) * 64 + (one - 128)
    BY SMT DEF Decode
  <2> QED BY <1>1, <1>2, <1>5, <2>1, <2>2, <2>3, SMT
<1>6. CASE 65536 <= code
  <2> DEFINE first == 240 + code \div 262144
  <2>1. Utf8Write(code) = <<first, three, two, one>> /\ Utf8Len(code) = 4
    BY <1>1, <1>6, SMT DEF Utf8Write, Utf8Len, one, two, three
  <2>2. /\ first \in Int
        /\ (((first - 240) * 64 + ((code \div 4096) % 64)) * 64
              + ((code \div 64) % 64)) * 64 + (code % 64) = code
    BY <1>1, SMT
  <2> HIDE DEF first
  <2>3. Decode(<<first, three, two, one>>)
          = (((first - 240) * 64 + (three - 128)) * 64 + (two - 128)) * 64
              + (one - 128)
    BY SMT DEF Decode
  <2> QED BY <1>1, <1>2, <1>6, <2>1, <2>2, <2>3, SMT
<1> QED BY <1>1, <1>3, <1>4, <1>5, <1>6, SMT

\* A unit is written as it was measured.
LEMMA UnitIsExact ==
  ASSUME NEW text \in Seq(Unit), StringIsValid(text), NEW p \in DOMAIN text
  PROVE  /\ WrittenUnit(text, p) \in Seq(Int)
         /\ Len(WrittenUnit(text, p)) = MeasuredUnit(text, p)
         /\ MeasuredUnit(text, p) \in Int
         /\ IsCode(text[p]) /\ ~ IsLow(text[p]) =>
              LET code == IF IsHigh(text[p]) THEN Combined(text[p], text[p + 1])
                                             ELSE text[p].code
              IN  code \in Codes /\ WrittenUnit(text, p) = Utf8Write(code)
<1>1. text[p] \in Unit /\ UnitIsValid(text, p)
  BY DEF StringIsValid
<1>2. text[p].code \in Nat /\ text[p].code <= 65535
  BY <1>1, SMT DEF Unit
<1>3. ~ (IsHigh(text[p]) /\ IsLow(text[p]))
  BY <1>2, SMT DEF IsHigh, IsLow
<1>4. CASE IsHigh(text[p])
  <2> DEFINE code == Combined(text[p], text[p + 1])
  <2>1. p + 1 \in DOMAIN text /\ IsLow(text[p + 1])
    BY <1>1, <1>4 DEF UnitIsValid
  <2>2. text[p + 1].code \in Nat
    <3>1. text[p + 1] \in Unit
      BY <2>1
    <3> QED BY <3>1, SMT DEF Unit
  <2>3. code \in Codes
    <3> DEFINE high == text[p].code
               low == text[p + 1].code
    <3>1. /\ high \in Nat /\ 55296 <= high /\ high <= 56319
          /\ low \in Nat /\ 56320 <= low /\ low <= 57343
      BY <1>2, <1>4, <2>1, <2>2, SMT DEF IsHigh, IsLow
    <3>2. code = 65536 + (high - 55296) * 1024 + (low - 56320)
      BY SMT DEF Combined
    <3> HIDE DEF high, low, code
    <3> QED BY <3>1, <3>2, SMT DEF Codes
  <2>4. /\ WrittenUnit(text, p) = Utf8Write(code)
        /\ MeasuredUnit(text, p) = Utf8Len(code)
    BY <1>3, <1>4 DEF WrittenUnit, MeasuredUnit
  <2> HIDE DEF code
  <2>5. Utf8Len(code) \in Int
    BY <2>3, Utf8IsExact, SMT
  <2>6. /\ Utf8Write(code) \in Seq(Int)
        /\ Len(Utf8Write(code)) = Utf8Len(code)
    BY <2>3, Utf8IsExact, SMT
  <2> QED BY <1>4, <2>3, <2>4, <2>5, <2>6 DEF code
<1>5. CASE IsLow(text[p])
  <2>1. WrittenUnit(text, p) = <<>> /\ MeasuredUnit(text, p) = 0
    BY <1>3, <1>5 DEF WrittenUnit, MeasuredUnit
  <2> QED BY <1>5, <2>1
<1>6. CASE IsCode(text[p]) /\ ~ IsHigh(text[p]) /\ ~ IsLow(text[p])
  <2> DEFINE code == text[p].code
  <2>1. code \in Codes
    BY <1>2, SMT DEF Codes
  <2>2. /\ WrittenUnit(text, p) = Utf8Write(code)
        /\ MeasuredUnit(text, p) = Utf8Len(code)
    BY <1>6 DEF WrittenUnit, MeasuredUnit
  <2> HIDE DEF code
  <2>3. Utf8Len(code) \in Int
    BY <2>1, Utf8IsExact, SMT
  <2>4. /\ Utf8Write(code) \in Seq(Int)
        /\ Len(Utf8Write(code)) = Utf8Len(code)
    BY <2>1, Utf8IsExact, SMT
  <2> QED BY <1>6, <2>1, <2>2, <2>3, <2>4 DEF code
<1>7. CASE ~ IsCode(text[p])
  <2>1. ~ IsHigh(text[p]) /\ ~ IsLow(text[p])
    BY <1>7, SMT DEF IsHigh, IsLow
  <2>2. WrittenUnit(text, p) = <<65>> /\ MeasuredUnit(text, p) = 1
    BY <1>7, <2>1 DEF WrittenUnit, MeasuredUnit
  <2> QED BY <1>7, <2>2
<1> QED BY <1>4, <1>5, <1>6, <1>7

\* The buffer that was asked for is exactly filled.
LEMMA StringsAreExact ==
  ASSUME NEW text \in Seq(Unit)
  PROVE  StringIsExact(text)
<1> SUFFICES ASSUME StringIsValid(text) PROVE StringIsExact(text)
  BY SMT DEF StringIsExact
<1> DEFINE measured(n) == Measured!Run(text, 0, n)
           written(n) == Written!Run(text, <<>>, n)
           S == {n \in Nat : n <= Len(text) =>
                   written(n) \in Seq(Int) /\ Len(written(n)) = measured(n)}
<1>1. /\ measured(0) = 0 /\ written(0) = <<>>
      /\ \A n \in Nat :
           /\ measured(n + 1) = measured(n) + MeasuredUnit(text, n + 1)
           /\ written(n + 1) = written(n) \o WrittenUnit(text, n + 1)
  <2>1. /\ \A n : measured(n) = MeasuredP!Run(text, 0, n)
        /\ \A n : written(n) = WrittenP!Run(text, <<>>, n)
    BY TheSameLoops
  <2> HIDE DEF measured, written
  <2>2. /\ measured(0) = 0
        /\ \A n \in Nat : measured(n + 1) = MeasureRound(text, measured(n), n + 1)
    BY <2>1, MeasuredP!RunSteps
  <2>3. /\ written(0) = <<>>
        /\ \A n \in Nat : written(n + 1) = WriteRound(text, written(n), n + 1)
    BY <2>1, WrittenP!RunSteps
  <2> QED BY <2>2, <2>3 DEF MeasureRound, WriteRound
<1>2. MeasureString(text) = measured(Len(text)) /\ WriteString(text) = written(Len(text))
  BY DEF MeasureString, WriteString
<1> HIDE DEF measured, written
<1>3. 0 \in S
  <2>1. <<>> \in Seq(Int) /\ Len(<<>>) = 0
    OBVIOUS
  <2>2. written(0) \in Seq(Int) /\ Len(written(0)) = measured(0)
    BY <1>1, <2>1, Zenon
  <2> QED BY <2>2
<1>4. ASSUME NEW n \in Nat, n \in S PROVE n + 1 \in S
  <2> SUFFICES ASSUME n + 1 <= Len(text)
               PROVE  /\ written(n + 1) \in Seq(Int)
                      /\ Len(written(n + 1)) = measured(n + 1)
    OBVIOUS
  <2>1. n + 1 \in DOMAIN text /\ n <= Len(text)
    OBVIOUS
  <2>2. written(n) \in Seq(Int) /\ Len(written(n)) = measured(n)
    BY <1>4, <2>1
  <2>3. /\ WrittenUnit(text, n + 1) \in Seq(Int)
        /\ Len(WrittenUnit(text, n + 1)) = MeasuredUnit(text, n + 1)
    BY <2>1, UnitIsExact
  <2>4. /\ measured(n + 1) = measured(n) + MeasuredUnit(text, n + 1)
        /\ written(n + 1) = written(n) \o WrittenUnit(text, n + 1)
    BY <1>1
  <2>5. /\ written(n) \o WrittenUnit(text, n + 1) \in Seq(Int)
        /\ Len(written(n) \o WrittenUnit(text, n + 1))
             = Len(written(n)) + Len(WrittenUnit(text, n + 1))
    BY <2>2, <2>3, ConcatProperties
  <2> QED BY <2>2, <2>3, <2>4, <2>5
<1> HIDE DEF S
<1>5. Nat \subseteq S
  BY <1>3, <1>4, MeasuredP!Induction
<1>6. Len(text) \in Nat
  OBVIOUS
<1>7. Len(WriteString(text)) = MeasureString(text)
  BY <1>2, <1>5, <1>6 DEF S
<1>8. ASSUME NEW p \in DOMAIN text, IsCode(text[p]), ~ IsLow(text[p])
      PROVE  LET code == IF IsHigh(text[p]) THEN Combined(text[p], text[p + 1])
                                            ELSE text[p].code
                 bytes == WrittenUnit(text, p)
             IN  Decode(bytes) = code
                   /\ Len(bytes) = IF code < 128 THEN 1 ELSE IF code < 2048 THEN 2
                                   ELSE IF code < 65536 THEN 3 ELSE 4
  <2> DEFINE code == IF IsHigh(text[p]) THEN Combined(text[p], text[p + 1])
                                        ELSE text[p].code
  <2>1. code \in Codes /\ WrittenUnit(text, p) = Utf8Write(code)
    BY <1>8, UnitIsExact
  <2> HIDE DEF code
  <2>2. /\ Decode(Utf8Write(code)) = code
        /\ Len(Utf8Write(code)) = IF code < 128 THEN 1 ELSE IF code < 2048 THEN 2
                                  ELSE IF code < 65536 THEN 3 ELSE 4
    <3>1. code \in Codes
      BY <2>1, Zenon
    <3>2. Decode(Utf8Write(code)) = code
      BY <3>1, Utf8IsExact, SMT
    <3>3. Len(Utf8Write(code)) = Utf8Len(code)
      BY <3>1, Utf8IsExact, SMT
    <3>4. Utf8Len(code) = IF code < 128 THEN 1 ELSE IF code < 2048 THEN 2
                          ELSE IF code < 65536 THEN 3 ELSE 4
      BY <3>1, Utf8IsExact, SMT
    <3> QED BY <3>2, <3>3, <3>4, SMT
  <2> QED BY <2>1, <2>2, SMT DEF code
<1> QED BY <1>7, <1>8, SMT DEF StringIsExact

\* Digits are taken in as long as their numeral fits, which is seen in time.
LEMMA IntegersAreExact ==
  ASSUME NEW negative \in BOOLEAN, NEW digits \in Seq(0 .. 9)
  PROVE  IntegerIsExact(negative, digits)
<1> DEFINE limit == Limit(negative)
           number == [digits |-> digits, limit |-> limit]
           read(n) == Taken!Run(number, [ok |-> TRUE, value |-> 0], n)
           value(n) == Numeral!Run(digits, 0, n)
           AsFar(n) == /\ value(n) \in Nat
                       /\ read(n) = [ok |-> read(n).ok, value |-> read(n).value]
                       /\ read(n).ok \in BOOLEAN
                       /\ read(n).ok <=> value(n) <= limit
                       /\ read(n).ok => read(n).value = value(n)
           S == {n \in Nat : n <= Len(digits) => AsFar(n)}
<1>1. /\ value(0) = 0 /\ read(0) = [ok |-> TRUE, value |-> 0]
      /\ \A n \in Nat : /\ value(n + 1) = AddDigit(digits, value(n), n + 1)
                        /\ read(n + 1) = TakeDigit(number, read(n), n + 1)
  <2> HIDE DEF number
  <2>1. /\ \A n : value(n) = NumeralP!Run(digits, 0, n)
        /\ \A n : read(n) = TakenP!Run(number, [ok |-> TRUE, value |-> 0], n)
    BY TheSameLoops
  <2> HIDE DEF value, read
  <2>2. /\ value(0) = 0
        /\ \A n \in Nat : value(n + 1) = AddDigit(digits, value(n), n + 1)
    BY <2>1, NumeralP!RunSteps
  <2>3. /\ read(0) = [ok |-> TRUE, value |-> 0]
        /\ \A n \in Nat : read(n + 1) = TakeDigit(number, read(n), n + 1)
    BY <2>1, TakenP!RunSteps
  <2> QED BY <2>2, <2>3
<1>2. limit \in Nat /\ limit > 9
  BY IntMaxAssumption DEF Limit
<1>3. /\ value(Len(digits)) = Numeral!Run(digits, 0, Len(digits))
      /\ read(Len(digits)) = Taken!Run([digits |-> digits, limit |-> Limit(negative)],
                                       [ok |-> TRUE, value |-> 0], Len(digits))
  OBVIOUS
<1>4. number.digits = digits /\ number.limit = limit
  OBVIOUS
<1> HIDE DEF read, value, number, limit
<1>5. 0 \in S
  <2>1. value(0) = 0 /\ read(0) = [ok |-> TRUE, value |-> 0]
    BY <1>1
  <2>2. read(0).ok = TRUE /\ read(0).value = 0
    BY <2>1
  <2>3. read(0) = [ok |-> read(0).ok, value |-> read(0).value]
    BY <2>1
  <2>4. read(0).ok <=> value(0) <= limit
    BY <1>2, <2>1, <2>2
  <2>5. value(0) \in Nat /\ read(0).value = value(0) /\ read(0).ok \in BOOLEAN
    <3>1. value(0) \in Nat
      BY <2>1
    <3> QED BY <2>1, <2>2, <3>1, Zenon
  <2>6. AsFar(0)
    BY <2>3, <2>4, <2>5, Zenon
  <2> QED BY <2>6
<1>6. ASSUME NEW n \in Nat, n \in S PROVE n + 1 \in S
  <2> SUFFICES ASSUME n + 1 <= Len(digits) PROVE AsFar(n + 1)
    OBVIOUS
  <2> DEFINE digit == digits[n + 1]
             v == value(n)
  <2>1. digit \in 0 .. 9
    OBVIOUS
  <2>2. AsFar(n)
    BY <1>6
  <2>3. value(n + 1) = v * 10 + digit
    BY <1>1 DEF AddDigit
  <2>4. read(n + 1) = IF read(n).ok /\ StillFits(read(n).value, digit, limit)
                      THEN [read(n) EXCEPT !.value = @ * 10 + digit]
                      ELSE [read(n) EXCEPT !.ok = FALSE]
    BY <1>1, <1>4 DEF TakeDigit
  <2> HIDE DEF digit, v
  <2>5. v \in Nat
    BY <2>2 DEF v
  <2>6. StillFits(v, digit, limit) <=> v * 10 + digit <= limit
    BY <1>2, <2>1, <2>5 DEF StillFits
  <2>7. CASE read(n).ok /\ v * 10 + digit <= limit
    <3>1. read(n).value = v
      BY <2>2, <2>7 DEF v
    <3>2. read(n + 1) = [read(n) EXCEPT !.value = @ * 10 + digit]
      BY <2>4, <2>6, <2>7, <3>1
    <3>3. read(n + 1) = [ok |-> TRUE, value |-> v * 10 + digit]
      BY <2>2, <2>7, <3>1, <3>2
    <3>4. /\ read(n + 1).ok = TRUE /\ read(n + 1).value = v * 10 + digit
          /\ v * 10 + digit \in Nat
      BY <2>1, <2>5, <3>3
    <3> QED BY <2>3, <2>7, <3>3, <3>4
  <2>8. CASE ~ (read(n).ok /\ v * 10 + digit <= limit)
    <3>1. ~ (read(n).ok /\ StillFits(read(n).value, digit, limit))
      BY <2>2, <2>6, <2>8 DEF v
    <3>2. read(n + 1) = [read(n) EXCEPT !.ok = FALSE]
      BY <2>4, <3>1
    <3>3. read(n + 1) = [ok |-> FALSE, value |-> read(n).value]
      BY <2>2, <3>2
    <3>4. ~ (v * 10 + digit <= limit)
      <4>1. CASE ~ read(n).ok
        <5>1. ~ (v <= limit)
          BY <2>2, <4>1 DEF v
        <5> QED BY <1>2, <2>1, <2>5, <5>1
      <4>2. CASE read(n).ok
        BY <2>8, <4>2
      <4> QED BY <4>1, <4>2
    <3>5. v * 10 + digit \in Nat
      BY <2>1, <2>5
    <3>6. read(n + 1).ok = FALSE /\ read(n + 1).value = read(n).value
      BY <3>3
    <3> QED BY <2>3, <3>3, <3>4, <3>5, <3>6
  <2> QED BY <2>7, <2>8
<1>7. Nat \subseteq S
  <2> HIDE DEF S
  <2> QED BY <1>5, <1>6, TakenP!Induction
<1> DEFINE whole == value(Len(digits))
           done == read(Len(digits))
           signed == IF negative THEN 0 - whole ELSE whole
           bare == digits = <<>> \/ (digits[1] = 0 /\ Len(digits) > 1)
<1>8. /\ whole \in Nat /\ done.ok \in BOOLEAN
      /\ done.ok <=> whole <= limit
      /\ done.ok => done.value = whole
  <2>1. Len(digits) \in Nat
    OBVIOUS
  <2>2. AsFar(Len(digits))
    BY <1>7, <2>1
  <2> QED BY <2>2
<1>9. ParseInteger(negative, digits)
        = IF bare \/ ~ done.ok THEN [ok |-> FALSE, value |-> 0]
          ELSE [ok |-> TRUE, value |-> IF negative THEN 0 - done.value ELSE done.value]
  BY <1>3 DEF ParseInteger
<1>10. bare <=> ~ (digits # <<>> /\ (digits[1] = 0 => Len(digits) = 1))
  <2>1. Len(digits) \in Nat /\ (digits # <<>> <=> Len(digits) >= 1)
    BY EmptySeq
  <2> DEFINE empty == digits = <<>>
             zero == digits[1] = 0
             len == Len(digits)
  <2>2. (bare <=> empty \/ (zero /\ len > 1)) /\ (empty <=> ~ (len >= 1)) /\ len \in Nat
    BY <2>1
  <2> HIDE DEF bare, empty, zero, len
  <2>3. bare <=> ~ (~ empty /\ (zero => len = 1))
    BY <2>2
  <2> QED BY <2>3 DEF empty, zero, len
<1> HIDE DEF whole, done, bare
<1>11. signed \in (0 - IntMax - 1) .. IntMax <=> whole <= limit
  BY <1>8, IntMaxAssumption DEF limit, Limit
<1>12. /\ ParseInteger(negative, digits).ok
            <=> /\ digits # <<>>
                /\ digits[1] = 0 => Len(digits) = 1
                /\ signed \in (0 - IntMax - 1) .. IntMax
       /\ ParseInteger(negative, digits).ok
            => ParseInteger(negative, digits).value = signed
  BY <1>8, <1>9, <1>10, <1>11
<1>13. whole = Numeral!Run(digits, 0, Len(digits))
  BY <1>3 DEF whole
<1> QED BY <1>12, <1>13 DEF IntegerIsExact

\* bs_parse_string fills exactly the buffer that bs_measure_string asked for, in
\* the shortest UTF-8 form, for strings of any length; bs_parse_integer refuses
\* just the numbers that have a leading zero or do not fit, for any INT_MAX.
THEOREM LiteralsAreExactAlways == Spec => []LiteralsAreExact
<1>1. LiteralsAreExact
  <2>1. \A text \in Strings : StringIsExact(text)
    BY LiteralsAssumption, StringsAreExact
  <2>2. \A negative \in BOOLEAN : \A digits \in Digits :
          IntegerIsExact(negative, digits)
    BY LiteralsAssumption, IntegersAreExact
  <2> QED BY <2>1, <2>2 DEF LiteralsAreExact
<1> QED BY <1>1, PTL
=============================================================================
