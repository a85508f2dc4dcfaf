------------------------------ MODULE JsonText ------------------------------
(***************************************************************************)
(* How battlesnake_json.c reads the strings and integers of a request.  A  *)
(* string is read twice: once to measure how many bytes it decodes to, for *)
(* which the arena is asked, and once to write them.  An integer is read   *)
(* digit by digit with a check before each one that the result still fits. *)
(*                                                                         *)
(* A string between its quotes is a sequence of units: a plain byte, an    *)
(* escape of one byte, an escape with four hexadecimal digits, or one of   *)
(* the units that no string may have.                                      *)
(***************************************************************************)
EXTENDS Integers, Sequences, SequencesExt

CONSTANT IntMax   \* INT_MAX

ASSUME IntMaxAssumption == IntMax \in Nat /\ IntMax > 9

\* The kinds of units: "plain", a byte that stands for itself; "escape", as \n;
\* "code", \uXXXX; "control", a byte below 0x20; "bad", any other escape. Only
\* a "code" has a code that means anything.
Unit == [kind : {"plain", "escape", "code", "control", "bad"},
         code : {c \in Nat : c <= 65535}]
IsCode(unit) == unit.kind = "code"

IsHigh(unit) == IsCode(unit) /\ 55296 <= unit.code /\ unit.code <= 56319 \* d800 .. dbff
IsLow(unit) == IsCode(unit) /\ 56320 <= unit.code /\ unit.code <= 57343  \* dc00 .. dfff

\* The code point of a pair of surrogates.
Combined(high, low) == 65536 + (high.code - 55296) * 1024 + (low.code - 56320)

-----------------------------------------------------------------------------
(* Changed forms, one plausible bug each. *)

\* a code point from 0x800 on takes three bytes, a combined one as well
Utf8Len_Three(code) == IF code <= 127 THEN 1 ELSE IF code <= 2047 THEN 2 ELSE 3

-----------------------------------------------------------------------------
(* Strings. *)

Utf8Len(code) == IF code <= 127 THEN 1
                 ELSE IF code <= 2047 THEN 2
                 ELSE IF code <= 65535 THEN 3
                 ELSE 4

\* The continuation byte with the bits of that weight.
Continuation(code, weight) == 128 + ((code \div weight) % 64)

Utf8Write(code) ==
  IF code <= 127 THEN <<code>>
  ELSE IF code <= 2047 THEN <<192 + code \div 64, Continuation(code, 1)>>
  ELSE IF code <= 65535
  THEN <<224 + code \div 4096, Continuation(code, 64), Continuation(code, 1)>>
  ELSE <<240 + code \div 262144, Continuation(code, 4096), Continuation(code, 64),
         Continuation(code, 1)>>

\* The unit at p is the second half of a pair.
IsPaired(text, p) == p > 1 /\ IsHigh(text[p - 1])

\* bs_measure_string accepts the unit at p.
UnitIsValid(text, p) ==
  /\ text[p].kind \notin {"control", "bad"}
  /\ IsHigh(text[p]) => p < Len(text) /\ IsLow(text[p + 1])
  /\ IsLow(text[p]) => IsPaired(text, p)

StringIsValid(text) == \A p \in DOMAIN text : UnitIsValid(text, p)

\* What bs_measure_string counts for the unit at p.
MeasuredUnit(text, p) ==
  IF IsHigh(text[p]) THEN Utf8Len(Combined(text[p], text[p + 1]))
  ELSE IF IsLow(text[p]) THEN 0
  ELSE IF IsCode(text[p]) THEN Utf8Len(text[p].code)
  ELSE 1

MeasureRound(text, decoded_len, p) == decoded_len + MeasuredUnit(text, p)

Measured == INSTANCE Loops WITH Step <- MeasureRound

MeasureString(text) == Measured!Run(text, 0, Len(text))

\* What bs_parse_string writes for the unit at p; a byte is a byte.
WrittenUnit(text, p) ==
  IF IsHigh(text[p]) THEN Utf8Write(Combined(text[p], text[p + 1]))
  ELSE IF IsLow(text[p]) THEN <<>>
  ELSE IF IsCode(text[p]) THEN Utf8Write(text[p].code)
  ELSE <<65>>

WriteRound(text, value, p) == value \o WrittenUnit(text, p)

Written == INSTANCE Loops WITH Step <- WriteRound

WriteString(text) == Written!Run(text, <<>>, Len(text))

-----------------------------------------------------------------------------
(* Integers: a sign and digits. *)

Limit(negative) == IF negative THEN IntMax + 1 ELSE IntMax

\* The check before a digit is taken in.
StillFits(value, digit, limit) ==
  value <= (limit - digit) \div 10

\* The next digit is taken in, unless it or one before it did not fit.
TakeDigit(number, acc, k) ==
  IF acc.ok /\ StillFits(acc.value, number.digits[k], number.limit)
  THEN [acc EXCEPT !.value = @ * 10 + number.digits[k]]
  ELSE [acc EXCEPT !.ok = FALSE]

Taken == INSTANCE Loops WITH Step <- TakeDigit

ParseInteger(negative, digits) ==
  LET read == Taken!Run([digits |-> digits, limit |-> Limit(negative)],
                        [ok |-> TRUE, value |-> 0], Len(digits))
  IN  IF digits = <<>> \/ (digits[1] = 0 /\ Len(digits) > 1) \/ ~read.ok
      THEN [ok |-> FALSE, value |-> 0]
      ELSE [ok |-> TRUE, value |-> IF negative THEN 0 - read.value
                                               ELSE read.value]

-----------------------------------------------------------------------------
(* What reading them should mean. *)

\* The code point that well-formed UTF-8 bytes stand for.
Decode(bytes) ==
  LET low(n) == bytes[n] - 128
  IN  CASE Len(bytes) = 1 -> bytes[1]
        [] Len(bytes) = 2 -> (bytes[1] - 192) * 64 + low(2)
        [] Len(bytes) = 3 -> ((bytes[1] - 224) * 64 + low(2)) * 64 + low(3)
        [] OTHER -> (((bytes[1] - 240) * 64 + low(2)) * 64 + low(3)) * 64
                      + low(4)

\* The second reading writes exactly as many bytes as the first one counted,
\* and the bytes of an escape are the shortest that decode to its code point.
StringIsExact(text) ==
  StringIsValid(text) =>
    /\ Len(WriteString(text)) = MeasureString(text)
    /\ \A p \in DOMAIN text :
         IsCode(text[p]) /\ ~IsLow(text[p]) =>
           LET code == IF IsHigh(text[p]) THEN Combined(text[p], text[p + 1])
                                          ELSE text[p].code
               bytes == WrittenUnit(text, p)
           IN  Decode(bytes) = code
                 /\ Len(bytes) = IF code < 128 THEN 1 ELSE IF code < 2048 THEN 2
                                 ELSE IF code < 65536 THEN 3 ELSE 4

AddDigit(digits, n, k) == n * 10 + digits[k]

Numeral == INSTANCE Loops WITH Step <- AddDigit

\* An integer is refused exactly if it has a leading zero or does not fit.
IntegerIsExact(negative, digits) ==
  LET value == Numeral!Run(digits, 0, Len(digits))
      signed == IF negative THEN 0 - value ELSE value
      read == ParseInteger(negative, digits)
  IN  /\ read.ok <=> /\ digits # <<>>
                     /\ digits[1] = 0 => Len(digits) = 1
                     /\ signed \in (0 - IntMax - 1) .. IntMax
      /\ read.ok => read.value = signed
=============================================================================
