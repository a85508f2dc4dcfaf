--------------------------- MODULE MCJsonRequest ---------------------------
(***************************************************************************)
(* Requests with up to two snakes.  MCStrings has every string of up to    *)
(* three units, with a code point on each side of every bound; MCDigits    *)
(* every number of up to four digits, for integers of eight bits.          *)
(***************************************************************************)
EXTENDS JsonRequest

MCSizes == {0, 2, 3}
MCNegative == {0 - 1}
MCIntegers == {0 - 1, 0}
MCCoords == {<<0, 0>>, <<2, 1>>}

Units ==
  {[kind |-> k, code |-> 0] : k \in {"plain", "escape", "control", "bad"}}
    \cup {[kind |-> "code", code |-> c] :
            c \in {0, 127, 128, 2047, 2048, 55295, 55296, 56319, 56320, 57343,
                   57344, 65535}}
MCStrings == UNION {[1 .. n -> Units] : n \in 0 .. 3}
MCDigits == UNION {[1 .. n -> 0 .. 9] : n \in 0 .. 4}
=============================================================================
