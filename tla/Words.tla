-------------------------------- MODULE Words --------------------------------
(***************************************************************************)
(* The 128 and 256 bit integers of an XDR ScVal come as two or four words,  *)
(* the most significant first, of which only the first is signed in a       *)
(* signed integer.  JSON and K have them as one number.  `>> 64` rounds     *)
(* down and `& _UINT64_MASK` keeps the low bits of the two's complement, of *)
(* a negative number as well, which is what \div and % do here.             *)
(***************************************************************************)
EXTENDS Integers, Sequences

CONSTANT WordBase    \* 2^64: one more than the largest unsigned word

\* A word has at least one bit, of which the sign takes the first.
ASSUME WordBaseAssumption == WordBase \in Nat \ {0} /\ WordBase % 2 = 0

UnsignedWord == 0 .. WordBase - 1
SignedWord   == -(WordBase \div 2) .. (WordBase \div 2) - 1

\* The word of weight WordBase^k of a number, but for the top one.
LowWord(n)  == n % WordBase
HighPart(n) == n \div WordBase

\* A mutant: the top word masked like the others.
Split2Masked(n) == <<LowWord(HighPart(n)), LowWord(n)>>

\* scval_from_json: the top word is shifted down and never masked.
Split2(n) == <<HighPart(n), LowWord(n)>>
Split4(n) == <<HighPart(HighPart(HighPart(n))), LowWord(HighPart(HighPart(n))),
               LowWord(HighPart(n)), LowWord(n)>>

\* scval_to_json: every word is shifted to its place and they are or-ed.
Join2(w) == w[1] * WordBase + w[2]
Join4(w) == ((w[1] * WordBase + w[2]) * WordBase + w[3]) * WordBase + w[4]
=============================================================================
