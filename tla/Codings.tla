------------------------------ MODULE Codings ------------------------------
(***************************************************************************)
(* The conversions of src/util.c that texts and numbers of the card go     *)
(* through: characters of 7 bits and digits of 4 bits.  Bytes are numbers, *)
(* strings are sequences of them, counted from 1.                          *)
(***************************************************************************)
EXTENDS Naturals, Sequences, SequencesExt

CR == 13
Space == 32

\* tcore_util_unpack_gsm7bit: the character number k of the packed bytes s; of
\* 8 characters the last is the upper half of a byte that is already read.
Septet(s, k) ==
  LET r == k % 8
      pos == 7 * (k \div 8) + r
  IN IF r = 7 THEN s[pos] \div 2
     ELSE ((s[pos + 1] * 2^r) % 128) + (IF pos = 0 THEN 0 ELSE s[pos] \div 2^(8 - r))

\* Mutant: the loop forgets that a byte may hold the end of one more character.
UnpackWithoutExtra(s) == [k \in 1..Len(s) |-> Septet(s, k - 1)]

UnpackGsm7(s) ==
  [k \in 1..((8 * Len(s)) \div 7) |->
     IF Septet(s, k - 1) = CR THEN Space ELSE Septet(s, k - 1)]

\* tcore_util_pack_gsm7bit: the byte number p of the packed characters s; the
\* seven bits left when the text ends with the seventh character are a CR.
Octet(s, p) ==
  LET shift == p % 7
      i == p + p \div 7 + 1
      rest == IF i < Len(s) THEN (s[i + 1] * 2^(7 - shift)) % 256
              ELSE IF shift = 6 THEN 2 * CR
              ELSE 0
  IN IF i > Len(s) THEN 0 ELSE s[i] \div 2^shift + rest

PackGsm7(s) == [p \in 1..((7 * Len(s)) \div 8 + 1) |-> Octet(s, p - 1)]

\* tcore_util_convert_bcd2ascii: two digits per byte, the lower first.  10 to 13
\* are * # p and ?, 14 and 15 are fillers.
Digits(s) ==
  SelectSeq(FlattenSeq([i \in 1..Len(s) |-> <<s[i] % 16, s[i] \div 16>>]),
            LAMBDA d : d < 14)

\* NULL, here an empty string, if there may be more than max digits.
Bcd(s, max) == IF 2 * Len(s) > max THEN <<>> ELSE Digits(s)
=============================================================================
