---------------------------- MODULE IntegerKeys ----------------------------
(***************************************************************************)
(* Keys that are made of integers, so that records are in the order of     *)
(* their numbers: in front the length of the integer, in LenBits bits, and *)
(* then as many bits of it.  A key is the sequence of its bytes.           *)
(*                                                                         *)
(* In the code an integer has 64 bits, its length 6, and a key 32 bytes;   *)
(* here the width of a length decides the rest.                            *)
(***************************************************************************)
EXTENDS Integers, Sequences, FiniteSetsExt

CONSTANTS LenBits, KeyBytes

IntBits  == 2^LenBits
MaxInt   == 2^IntBits - 1
IntBytes == (LenBits + IntBits - 1 + 7) \div 8    \* the bytes that hold the integer

ASSUME LenBitsAssumption  == LenBits \in Nat \ {0}
ASSUME KeyBytesAssumption == KeyBytes \in Nat /\ KeyBytes >= 2 * IntBytes

FloorLog2(x) == Max({b \in 0 .. IntBits : 2^b <= x})

(* fromInteger throws outside of this range.                               *)
InRange(n) == n <= MaxInt - 2

(* The first of the integers that have n's length.                         *)
Offset(bits) == 2^bits - 2

(* Bytes with a number of that many bits in front, and zeros behind it.    *)
LeftAligned(number, bits) ==
  [i \in 1 .. KeyBytes |->
     IF i > IntBytes THEN 0
     ELSE ((number * 2^(8 * IntBytes - bits)) \div 2^(8 * (IntBytes - i))) % 256]

(* Mutant: the integer itself follows its length.                          *)
FromIntegerNoOffset(n) ==
  LET bits == FloorLog2(n + 2) IN
  LeftAligned((bits - 1) * 2^bits + (n % 2^bits), LenBits + bits)

FromInteger(n) ==
  LET bits == FloorLog2(n + 2) IN
  LeftAligned((bits - 1) * 2^bits + (n - Offset(bits)), LenBits + bits)

(* toInteger throws if the second half of a key is not zero.               *)
IsInteger(key) == \A i \in KeyBytes \div 2 + 1 .. KeyBytes : key[i] = 0

ToInteger(key) ==
  LET number == MapThenFoldSet(+, 0, LAMBDA i : key[i] * 256^(IntBytes - i),
                               LAMBDA S : CHOOSE i \in S : TRUE, 1 .. IntBytes)
      bits   == number \div 2^(8 * IntBytes - LenBits) + 1
      rest   == number % 2^(8 * IntBytes - LenBits)
  IN  (rest \div 2^(8 * IntBytes - LenBits - bits) + Offset(bits)) % 2^IntBits

Before(k, l) == \E i \in DOMAIN k : k[i] < l[i] /\ \A j \in 1 .. i - 1 : k[j] = l[j]
=============================================================================
