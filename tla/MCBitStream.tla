---- MODULE MCBitStream ----
(***************************************************************************)
(* Bytes of three bits, 0 .. 7, of which 0 .. 3 are escaped after two      *)
(* zeros.  A number that needs one bit more than it is given is refused.   *)
(***************************************************************************)
EXTENDS BitStream

Symbol(op, value, count) == [op |-> op, value |-> value, count |-> count]

MCBytes == 0 .. 7

MCSymbols ==
    {Symbol("bits", 4, 2), Symbol("bits", 1, 4),
     Symbol("ue", 3, 0), Symbol("se", -1, 0), Symbol("se", 1, 0),
     Symbol("bytes", 0, 2), Symbol("bytes", 3, 1), Symbol("align", 0, 0)}

MCMoves == {-4, -1, 2}
====
