------------------------------ MODULE MuxFrame ------------------------------
(***************************************************************************)
(* The frames of the multiplexer (src/mux.c): the encoder, the check of    *)
(* the header and the decoder, which is fed with whatever part of the      *)
(* stream a read returns.  Bytes are numbers from 0 to 255.                *)
(* A frame is <<F9, address, control, length (1 or 2), data, FCS, F9>>.    *)
(***************************************************************************)
EXTENDS Integers, Sequences, SequencesExt

Flag == 249
SABM == 47
UA   == 99
DM   == 15
DISC == 67
UIH  == 239
UI   == 3
MSC  == 227
CLD  == 195
Poll == 16

(* Exclusive or of two bytes, four bits at a time.                         *)
Nibbles ==
  [a \in 0..15 |-> [b \in 0..15 |->
     LET Bit(w) == w * ((a \div w + b \div w) % 2)
     IN Bit(8) + Bit(4) + Bit(2) + Bit(1)]]
ByteXor(a, b) == 16 * Nibbles[a \div 16][b \div 16] + Nibbles[a % 16][b % 16]

(* The entry of a byte is its remainder by the reversed polynomial 0x07.   *)
crc_table ==
  [b \in 0..255 |->
     LET r[n \in 0..8] == IF n = 0 THEN b
                          ELSE ByteXor(r[n - 1] \div 2, 224 * (r[n - 1] % 2))
     IN r[8]]

(* The register after the bytes of a header.                               *)
Fcs(header) ==
  LET f[n \in 0..Len(header)] ==
        IF n = 0 THEN 255 ELSE crc_table[ByteXor(f[n - 1], header[n])]
  IN f[Len(header)]

calc_crc(header) == 255 - Fcs(header)

AnyHeader(header, fcs) == TRUE

rcv_crc_check(header, fcs) == crc_table[ByteXor(Fcs(header), fcs)] = 207

(* EA and C/R are set in every frame that this code sends.                 *)
Encode(c, type, pf, data) ==
  LET n == Len(data)
      size == IF n < 128 THEN <<(2 * n + 1) % 256>>
              ELSE <<(2 * n) % 256, (n \div 128) % 256>>
      header == <<4 * c + 3, type + pf>> \o size
      covered == SubSeq(header, 1, IF n < 128 THEN 3 ELSE 4)
  IN <<Flag>> \o header \o data \o <<calc_crc(covered), Flag>>

-----------------------------------------------------------------------------
(* The decoder: `at` is decode_state, `buf` what mux_buffer holds of the   *)
(* frame, `left` is dec_length.                                            *)
Hunting == [at |-> "FLAG", buf |-> <<>>, left |-> 0]

After(bs, n) == SubSeq(bs, n + 1, Len(bs))

(* The bytes that a while loop of the decoder leaves.                      *)
UpTo(isFlag, bs) ==
  LET found == {i \in 1..Len(bs) : (bs[i] = Flag) = isFlag}
  IN IF found = {} THEN <<>> ELSE After(bs, Min(found) - 1)

(* One step of the decoder: its new state, what is left of the read, and   *)
(* the frame that is complete, or <<>>.                                    *)
Decoded(d, rest) == [dec |-> d, rest |-> rest, frame |-> <<>>]
Stored(d, at, b) == [d EXCEPT !.at = at, !.buf = Append(@, b)]

FlagHunt(d, bs) ==
  LET r == UpTo(TRUE, bs)
  IN IF r = <<>> THEN Decoded(Hunting, r)
     ELSE Decoded([Hunting EXCEPT !.at = "ADDR"], Tail(r))

AddrTake(d, bs) ==
  Decoded([d EXCEPT !.at = "CONTROL", !.buf = <<Flag, Head(bs)>>], Tail(bs))

AddrHunt(d, bs) ==
  LET r == UpTo(FALSE, bs)
  IN IF r = <<>> THEN Decoded(d, r)
     ELSE Decoded([d EXCEPT !.at = "CONTROL", !.buf = <<Flag, Head(r)>>], Tail(r))

ControlHunt(d, bs) == Decoded(Stored(d, "LENGTH1", Head(bs)), Tail(bs))

Length1Hunt(d, bs) ==
  LET b == Head(bs)
      next == IF b % 2 = 0 THEN "LENGTH2" ELSE IF b > 1 THEN "DATA" ELSE "FCS"
  IN Decoded([Stored(d, next, b) EXCEPT !.left = b \div 2], Tail(bs))

Length2Hunt(d, bs) ==
  Decoded([Stored(d, "DATA", Head(bs)) EXCEPT !.left = @ + 128 * Head(bs)], Tail(bs))

DataAnew(d, bs) ==
  LET n == IF d.left < Len(bs) THEN d.left ELSE Len(bs)
      next == IF d.left < Len(bs) THEN "FCS" ELSE "DATA"
  IN Decoded([at |-> next, buf |-> d.buf \o SubSeq(bs, 1, n), left |-> d.left],
             After(bs, n))

DataHunt(d, bs) ==
  LET n == IF d.left < Len(bs) THEN d.left ELSE Len(bs)
      next == IF d.left < Len(bs) THEN "FCS" ELSE "DATA"
  IN Decoded([at |-> next, buf |-> d.buf \o SubSeq(bs, 1, n), left |-> d.left - n],
             After(bs, n))

FcsHunt(d, bs) ==
  [dec |-> Hunting, rest |-> Tail(bs), frame |-> d.buf \o <<Head(bs), Flag>>]

Hunt(d, bs) ==
  CASE d.at = "FLAG"    -> FlagHunt(d, bs)
    [] d.at = "ADDR"    -> AddrHunt(d, bs)
    [] d.at = "CONTROL" -> ControlHunt(d, bs)
    [] d.at = "LENGTH1" -> Length1Hunt(d, bs)
    [] d.at = "LENGTH2" -> Length2Hunt(d, bs)
    [] d.at = "DATA"    -> DataHunt(d, bs)
    [] d.at = "FCS"     -> FcsHunt(d, bs)

(* What tcore_cmux_process_rcv_frame reads from a complete frame.          *)
Parse(f) ==
  LET long == f[4] % 2 = 0
      h == IF long THEN 4 ELSE 3
      n == IF long THEN 128 * f[5] + f[4] \div 2 ELSE f[4] \div 2
      pf == Poll * ((f[3] \div Poll) % 2)
  IN [channel |-> f[2] \div 4, type |-> f[3] - pf, pf |-> pf,
      data |-> SubSeq(f, h + 2, h + 1 + n),
      good |-> rcv_crc_check(SubSeq(f, 2, h + 1), f[h + 2 + n])]
=============================================================================
