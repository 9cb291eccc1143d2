----------------------------- MODULE MCUnix2Dos -----------------------------
(* Unix2Dos on every text of at most MaxLen bytes over a line feed, a      *)
(* carriage return and one other byte.                                     *)
EXTENDS Unix2Dos, SequencesExt

CONSTANTS Char, MaxLen

MCByte == {LF, CR, Char}
MCText == BoundedSeq({LF, CR, Char}, MaxLen)
MCDosText == [t \in MCText |->
               FlattenSeq([k \in DOMAIN t |-> IF t[k] = LF THEN <<CR, LF>> ELSE <<t[k]>>])]

=============================================================================
