----------------------------- MODULE MuxProofs -----------------------------
(***************************************************************************)
(* Proofs about Mux, for any channels, objects, callbacks and plugins, any *)
(* payloads of 15 bits of length, and whatever is read.                    *)
(*                                                                         *)
(* 1. The frames: the table of the check sequence is a bijection, so that  *)
(*    one byte wrong is always noticed; what a side encodes is what the    *)
(*    other one reads; and a step of the decoder takes it on in the stream *)
(*    of frames, wherever the reads cut it (HuntOn).                       *)
(* 2. The host: who uses which HAL, and which HAL has whose callbacks, in  *)
(*    whatever session and whatever is read (IInv).                        *)
(* 3. The flow of a session: what is on its way in both directions, what   *)
(*    the modem said and what this side made of it (FlowInv), for each     *)
(*    handler (Deed), each turn of the decoder (TakeTurn) and each step of *)
(*    the modem (Utters).                                                  *)
(***************************************************************************)
EXTENDS Mux, SeqLemmas, FiniteSetTheorems

Byte == 0..255

-----------------------------------------------------------------------------
(* Exclusive or *)

\* p, q, r and t are the bits of a.
Bits(a, p, q, r, t) == /\ p \in {0, 1} /\ q \in {0, 1} /\ r \in {0, 1} /\ t \in {0, 1}
                       /\ a = 8 * p + 4 * q + 2 * r + t

\* Four bits have bits.
LEMMA Split4 ==
  ASSUME NEW a \in 0..15
  PROVE  \E p, q, r, t : Bits(a, p, q, r, t)
<1>1. Bits(a, a \div 8, (a \div 4) % 2, (a \div 2) % 2, a % 2)
  BY DEF Bits
<1>2. QED
  BY <1>1

\* A digit of the exclusive or.
Other(x, y) == IF x = y THEN 0 ELSE 1

\* Exclusive or, bit by bit.
LEMMA NibbleOf ==
  ASSUME NEW a \in 0..15, NEW b \in 0..15, NEW p, NEW q, NEW r, NEW t, Bits(a, p, q, r, t),
         NEW u, NEW v, NEW w, NEW z, Bits(b, u, v, w, z)
  PROVE  Nibbles[a][b] = 8 * Other(p, u) + 4 * Other(q, v) + 2 * Other(r, w) + Other(t, z)
<1> DEFINE Bit(k) == k * ((a \div k + b \div k) % 2)
<1>1. Nibbles[a][b] = Bit(8) + Bit(4) + Bit(2) + Bit(1)
  BY DEF Nibbles
<1>2. a \div 8 = p /\ b \div 8 = u
  BY DEF Bits
<1>3. a \div 4 = 2 * p + q /\ b \div 4 = 2 * u + v
  BY DEF Bits
<1>4. a \div 2 = 4 * p + 2 * q + r /\ b \div 2 = 4 * u + 2 * v + w
  BY DEF Bits
<1>5. a \div 1 = a /\ b \div 1 = b
  OBVIOUS
<1>6. (p + u) % 2 = Other(p, u)
  BY DEF Bits, Other
<1>7. (2 * p + q + (2 * u + v)) % 2 = Other(q, v)
  BY DEF Bits, Other
<1>8. (4 * p + 2 * q + r + (4 * u + 2 * v + w)) % 2 = Other(r, w)
  BY DEF Bits, Other
<1>9. (a + b) % 2 = Other(t, z)
  BY DEF Bits, Other
<1>10. Bit(8) = 8 * Other(p, u) /\ Bit(4) = 4 * Other(q, v)
  BY <1>2, <1>3, <1>6, <1>7
<1>11. Bit(2) = 2 * Other(r, w) /\ Bit(1) = Other(t, z)
  BY <1>4, <1>5, <1>8, <1>9 DEF Bits, Other
<1>12. QED
  BY <1>1, <1>10, <1>11

\* What the proofs use of the table: 15 turns every bit.
LEMMA NibbleFacts ==
  ASSUME NEW a \in 0..15, NEW b \in 0..15
  PROVE  /\ Nibbles[a][b] \in 0..15
         /\ Nibbles[a][b] = Nibbles[b][a]
         /\ Nibbles[a][0] = a
         /\ Nibbles[a][b] = 15 <=> b = 15 - a
<1>1. PICK p, q, r, t : Bits(a, p, q, r, t)
  BY Split4
<1>2. PICK u, v, w, z : Bits(b, u, v, w, z)
  BY Split4
<1>3. Bits(0, 0, 0, 0, 0)
  BY DEF Bits
<1>4. Nibbles[a][b] = 8 * Other(p, u) + 4 * Other(q, v) + 2 * Other(r, w) + Other(t, z)
  BY <1>1, <1>2, NibbleOf
<1>5. Nibbles[b][a] = 8 * Other(u, p) + 4 * Other(v, q) + 2 * Other(w, r) + Other(z, t)
  BY <1>1, <1>2, NibbleOf
<1>6. Nibbles[a][0] = 8 * Other(p, 0) + 4 * Other(q, 0) + 2 * Other(r, 0) + Other(t, 0)
  BY <1>1, <1>3, NibbleOf
<1>7. Nibbles[a][b] \in 0..15
  BY <1>4 DEF Other
<1>8. Nibbles[a][b] = Nibbles[b][a]
  BY <1>4, <1>5 DEF Other
<1>9. Nibbles[a][0] = a
  BY <1>1, <1>6 DEF Other, Bits
<1>10. Nibbles[a][b] = 15 <=> b = 15 - a
  BY <1>1, <1>2, <1>4 DEF Other, Bits
<1>11. QED
  BY <1>7, <1>8, <1>9, <1>10

\* What was added to a can be told from the sum.
LEMMA NibbleInjective ==
  ASSUME NEW a \in 0..15, NEW b \in 0..15, NEW c \in 0..15, Nibbles[a][b] = Nibbles[a][c]
  PROVE  b = c
<1>1. PICK p, q, r, t : Bits(a, p, q, r, t)
  BY Split4
<1>2. PICK u, v, w, z : Bits(b, u, v, w, z)
  BY Split4
<1>3. PICK k, l, m, n : Bits(c, k, l, m, n)
  BY Split4
<1>4. Nibbles[a][b] = 8 * Other(p, u) + 4 * Other(q, v) + 2 * Other(r, w) + Other(t, z)
  BY <1>1, <1>2, NibbleOf
<1>5. Nibbles[a][c] = 8 * Other(p, k) + 4 * Other(q, l) + 2 * Other(r, m) + Other(t, n)
  BY <1>1, <1>3, NibbleOf
<1>6. Other(p, u) = Other(p, k) /\ Other(q, v) = Other(q, l) /\ Other(r, w) = Other(r, m)
      /\ Other(t, z) = Other(t, n)
  <2>2. \A x, y : Other(x, y) \in {0, 1}
    BY DEF Other
  <2>3. PICK x1 \in {0, 1}, x2 \in {0, 1}, x3 \in {0, 1}, x4 \in {0, 1} :
          x1 = Other(p, u) /\ x2 = Other(q, v) /\ x3 = Other(r, w) /\ x4 = Other(t, z)
    BY <2>2
  <2>4. PICK y1 \in {0, 1}, y2 \in {0, 1}, y3 \in {0, 1}, y4 \in {0, 1} :
          y1 = Other(p, k) /\ y2 = Other(q, l) /\ y3 = Other(r, m) /\ y4 = Other(t, n)
    BY <2>2
  <2>5. 8 * x1 + 4 * x2 + 2 * x3 + x4 = 8 * y1 + 4 * y2 + 2 * y3 + y4
    BY <1>4, <1>5, <2>3, <2>4
  <2>6. x1 = y1 /\ x2 = y2 /\ x3 = y3 /\ x4 = y4
    BY <2>5
  <2>7. QED
    BY <2>3, <2>4, <2>6
<1>7. u = k /\ v = l /\ w = m /\ z = n
  BY <1>1, <1>2, <1>3, <1>6 DEF Other, Bits
<1>8. QED
  BY <1>2, <1>3, <1>7 DEF Bits

\* The same of two bytes: 255 turns every bit.
LEMMA XorFacts ==
  ASSUME NEW a \in Byte, NEW b \in Byte
  PROVE  /\ ByteXor(a, b) \in Byte
         /\ ByteXor(a, b) = ByteXor(b, a)
         /\ ByteXor(a, 0) = a
         /\ ByteXor(a, b) = 255 <=> b = 255 - a
<1>1. PICK i \in 0..15, j \in 0..15 : a = 16 * i + j /\ a \div 16 = i /\ a % 16 = j
  BY DEF Byte
<1>2. PICK k \in 0..15, l \in 0..15 : b = 16 * k + l /\ b \div 16 = k /\ b % 16 = l
  BY DEF Byte
<1>3. ByteXor(a, b) = 16 * Nibbles[i][k] + Nibbles[j][l]
  BY <1>1, <1>2 DEF ByteXor
<1>4. ByteXor(b, a) = 16 * Nibbles[k][i] + Nibbles[l][j]
  BY <1>1, <1>2 DEF ByteXor
<1>5. ByteXor(a, 0) = 16 * Nibbles[i][0] + Nibbles[j][0]
  BY <1>1 DEF ByteXor
<1>6. PICK x \in 0..15, y \in 0..15 : x = Nibbles[i][k] /\ y = Nibbles[j][l]
  BY NibbleFacts
<1>7. /\ x = Nibbles[k][i] /\ y = Nibbles[l][j] /\ Nibbles[i][0] = i /\ Nibbles[j][0] = j
      /\ (x = 15 <=> k = 15 - i) /\ (y = 15 <=> l = 15 - j)
  BY <1>6, NibbleFacts
<1>8. 16 * x + y \in Byte
  BY DEF Byte
<1>9. 16 * x + y = 255 <=> x = 15 /\ y = 15
  OBVIOUS
<1>10. b = 255 - a <=> k = 15 - i /\ l = 15 - j
  BY <1>1, <1>2
<1>11. QED
  BY <1>1, <1>3, <1>4, <1>5, <1>6, <1>7, <1>8, <1>9, <1>10

\* What was added to a byte can be told from the sum.
LEMMA XorInjective ==
  ASSUME NEW a \in Byte, NEW b \in Byte, NEW c \in Byte, ByteXor(a, b) = ByteXor(a, c)
  PROVE  b = c
<1>1. PICK i \in 0..15, j \in 0..15 : a \div 16 = i /\ a % 16 = j
  BY DEF Byte
<1>2. PICK k \in 0..15, l \in 0..15 : b = 16 * k + l /\ b \div 16 = k /\ b % 16 = l
  BY DEF Byte
<1>3. PICK m \in 0..15, n \in 0..15 : c = 16 * m + n /\ c \div 16 = m /\ c % 16 = n
  BY DEF Byte
<1>4. ByteXor(a, b) = 16 * Nibbles[i][k] + Nibbles[j][l]
  BY <1>1, <1>2 DEF ByteXor
<1>5. ByteXor(a, c) = 16 * Nibbles[i][m] + Nibbles[j][n]
  BY <1>1, <1>3 DEF ByteXor
<1>6. PICK x \in 0..15, y \in 0..15 : x = Nibbles[i][k] /\ y = Nibbles[j][l]
  BY NibbleFacts
<1>7. PICK s \in 0..15, t \in 0..15 : s = Nibbles[i][m] /\ t = Nibbles[j][n]
  BY NibbleFacts
<1>8. 16 * x + y = 16 * s + t
  BY <1>4, <1>5, <1>6, <1>7
<1>9. x = s /\ y = t
  BY <1>8
<1>10. k = m /\ l = n
  BY <1>6, <1>7, <1>9, NibbleInjective
<1>11. QED
  BY <1>2, <1>3, <1>10

-----------------------------------------------------------------------------
(* The table of the check sequence *)

\* One bit of the division that makes the table.
Shift(x) == ByteXor(x \div 2, 224 * (x % 2))

\* A byte stays a byte.
LEMMA ShiftType ==
  ASSUME NEW x \in Byte
  PROVE  Shift(x) \in Byte
<1>1. x \div 2 \in Byte /\ 224 * (x % 2) \in Byte
  BY DEF Byte
<1>2. QED
  BY <1>1, XorFacts DEF Shift

\* The top bit of the result is the bottom bit of x.
LEMMA ShiftTop ==
  ASSUME NEW x \in Byte
  PROVE  Shift(x) >= 128 <=> x % 2 = 1
<1>1. PICK y \in 0..127 : y = x \div 2
  BY DEF Byte
<1>2. CASE x % 2 = 0
  <2>1. 224 * (x % 2) = 0 /\ y \in Byte
    BY <1>2 DEF Byte
  <2>2. Shift(x) = y
    BY <1>1, <2>1, XorFacts DEF Shift
  <2>3. QED
    BY <1>2, <2>2
<1>3. CASE x % 2 = 1
  <2>1. PICK i \in 0..7, j \in 0..15 : y \div 16 = i /\ y % 16 = j
    OBVIOUS
  <2>2. 224 * (x % 2) = 224 /\ 224 \div 16 = 14 /\ 224 % 16 = 0
    BY <1>3
  <2>3. Shift(x) = 16 * Nibbles[i][14] + Nibbles[j][0]
    BY <1>1, <2>1, <2>2 DEF Shift, ByteXor
  <2>4. PICK p, q, r, t : Bits(i, p, q, r, t)
    BY Split4
  <2>5. p = 0
    BY <2>4 DEF Bits
  <2>6. Bits(14, 1, 1, 1, 0)
    BY DEF Bits
  <2>7. Nibbles[i][14] = 8 * Other(p, 1) + 4 * Other(q, 1) + 2 * Other(r, 1) + Other(t, 0)
    BY <2>4, <2>6, NibbleOf
  <2>8. \A u, v : Other(u, v) \in {0, 1}
    BY DEF Other
  <2>9. Other(p, 1) = 1
    BY <2>5 DEF Other
  <2>10. PICK k \in Int : k = Nibbles[i][14] /\ k >= 8
    BY <2>7, <2>8, <2>9
  <2>11. PICK l \in 0..15 : l = Nibbles[j][0]
    BY NibbleFacts
  <2>12. QED
    BY <1>3, <2>3, <2>10, <2>11
<1>4. x % 2 \in {0, 1}
  BY DEF Byte
<1>5. QED
  BY <1>2, <1>3, <1>4

\* The bit that left can be told from the bit that came: nothing is lost.
LEMMA ShiftInjective ==
  ASSUME NEW x \in Byte, NEW y \in Byte, Shift(x) = Shift(y)
  PROVE  x = y
<1>1. x % 2 = 1 <=> y % 2 = 1
  BY ShiftTop
<1>2. PICK c \in {0, 1} : c = x % 2 /\ c = y % 2
  BY <1>1 DEF Byte
<1>3. PICK k \in Byte : k = 224 * c
  BY DEF Byte
<1>4. PICK u \in Byte, v \in Byte : u = x \div 2 /\ v = y \div 2
  <2>1. \A z \in Byte : z \div 2 \in Byte
    BY DEF Byte
  <2>2. QED
    BY <2>1
<1>5. ByteXor(u, k) = ByteXor(v, k)
  BY <1>2, <1>3, <1>4 DEF Shift
<1>6. ByteXor(k, u) = ByteXor(k, v)
  BY <1>5, XorFacts
<1>7. u = v
  BY <1>6, XorInjective
<1>8. QED
  BY <1>2, <1>4, <1>7 DEF Byte

\* Any entry is the result of eight turns.
LEMMA TableEntry ==
  ASSUME NEW b \in Byte
  PROVE  crc_table[b] = Shift(Shift(Shift(Shift(Shift(Shift(Shift(Shift(b))))))))
<1> DEFINE G(k) == [n \in 0..8 |-> IF n = 0 THEN b ELSE Shift(k[n - 1])]
           r == CHOOSE k : k = G(k)
           H == [v \in Byte |-> [e \in {0} |-> Shift(v)]]
           s == [i \in 1..8 |-> 0]
<1>1. crc_table[b] = r[8]
  BY DEF crc_table, Shift, Byte
<1>2. \E k : k = G(k)
  <2>1. H \in [Byte -> [{0} -> Byte]] /\ s \in Seq({0}) /\ Len(s) = 8
    BY ShiftType
  <2>2. (\A v \in Byte : H[v][0] = Shift(v)) /\ \A i \in 1..8 : s[i] = 0
    OBVIOUS
  <2> HIDE DEF H, s
  <2>3. PICK g \in [0..Len(s) -> Byte] : Turns(g, s, b, H)
    BY <2>1, LoopExists
  <2>4. /\ g \in [0..8 -> Byte] /\ g[0] = b
        /\ \A i \in 1..8 : g[i] = H[g[i - 1]][s[i]]
    BY <2>1, <2>3 DEF Turns
  <2>5. ASSUME NEW i \in 1..8 PROVE g[i] = Shift(g[i - 1])
    <3>1. i - 1 \in 0..8
      OBVIOUS
    <3>2. g[i - 1] \in Byte /\ s[i] = 0
      BY <2>2, <2>4, <3>1
    <3>3. QED
      BY <2>2, <2>4, <3>2
  <2>6. \A n \in 0..8 : g[n] = IF n = 0 THEN b ELSE Shift(g[n - 1])
    <3>1. \A n \in 0..8 : n = 0 \/ n \in 1..8
      OBVIOUS
    <3>2. QED
      BY <2>4, <2>5, <3>1
  <2>7. g = [n \in 0..8 |-> g[n]]
    BY <2>4
  <2>8. g = G(g)
    BY <2>6, <2>7
  <2>9. QED
    BY <2>8
<1>3. r = G(r)
  <2> HIDE DEF G
  <2>1. QED
    BY <1>2
<1> HIDE DEF r
<1>4. r[0] = b /\ \A n \in 1..8 : r[n] = Shift(r[n - 1])
  <2>1. \A n \in 0..8 : r[n] = IF n = 0 THEN b ELSE Shift(r[n - 1])
    BY <1>3
  <2>2. QED
    BY <2>1
<1>5. /\ r[1] = Shift(b) /\ r[2] = Shift(r[1]) /\ r[3] = Shift(r[2]) /\ r[4] = Shift(r[3])
      /\ r[5] = Shift(r[4]) /\ r[6] = Shift(r[5]) /\ r[7] = Shift(r[6]) /\ r[8] = Shift(r[7])
  <2>1. 1 - 1 = 0 /\ 2 - 1 = 1 /\ 3 - 1 = 2 /\ 4 - 1 = 3 /\ 5 - 1 = 4 /\ 6 - 1 = 5
        /\ 7 - 1 = 6 /\ 8 - 1 = 7
    OBVIOUS
  <2>2. QED
    BY <1>4, <2>1
<1>6. QED
  BY <1>1, <1>5

\* The entries are bytes.
LEMMA TableType ==
  ASSUME NEW b \in Byte
  PROVE  crc_table[b] \in Byte
  BY TableEntry, ShiftType

\* No two entries are the same: eight times nothing is lost.
LEMMA TableInjective ==
  ASSUME NEW a \in Byte, NEW b \in Byte, crc_table[a] = crc_table[b]
  PROVE  a = b
<1> DEFINE a1 == Shift(a)
           a2 == Shift(a1)
           a3 == Shift(a2)
           a4 == Shift(a3)
           a5 == Shift(a4)
           a6 == Shift(a5)
           a7 == Shift(a6)
           b1 == Shift(b)
           b2 == Shift(b1)
           b3 == Shift(b2)
           b4 == Shift(b3)
           b5 == Shift(b4)
           b6 == Shift(b5)
           b7 == Shift(b6)
<1>1. Shift(a7) = Shift(b7)
  BY TableEntry
<1>2. /\ a1 \in Byte /\ a2 \in Byte /\ a3 \in Byte /\ a4 \in Byte /\ a5 \in Byte
      /\ a6 \in Byte /\ a7 \in Byte
  BY ShiftType
<1>3. /\ b1 \in Byte /\ b2 \in Byte /\ b3 \in Byte /\ b4 \in Byte /\ b5 \in Byte
      /\ b6 \in Byte /\ b7 \in Byte
  BY ShiftType
<1>4. /\ a1 = Shift(a) /\ a2 = Shift(a1) /\ a3 = Shift(a2) /\ a4 = Shift(a3)
      /\ a5 = Shift(a4) /\ a6 = Shift(a5) /\ a7 = Shift(a6)
      /\ b1 = Shift(b) /\ b2 = Shift(b1) /\ b3 = Shift(b2) /\ b4 = Shift(b3)
      /\ b5 = Shift(b4) /\ b6 = Shift(b5) /\ b7 = Shift(b6)
  OBVIOUS
<1> HIDE DEF a1, a2, a3, a4, a5, a6, a7, b1, b2, b3, b4, b5, b6, b7
<1>5. a7 = b7 /\ (a7 = b7 => a6 = b6) /\ (a6 = b6 => a5 = b5) /\ (a5 = b5 => a4 = b4)
  BY <1>1, <1>2, <1>3, <1>4, ShiftInjective
<1>6. (a4 = b4 => a3 = b3) /\ (a3 = b3 => a2 = b2) /\ (a2 = b2 => a1 = b1) /\ (a1 = b1 => a = b)
  BY <1>2, <1>3, <1>4, ShiftInjective
<1>7. QED
  BY <1>5, <1>6

\* A turn, if the bits of the byte are known.
LEMMA ShiftEven ==
  ASSUME NEW x \in Byte, NEW y \in Byte, x = 2 * y
  PROVE  Shift(x) = y
<1>1. x \div 2 = y /\ 224 * (x % 2) = 0
  BY DEF Byte
<1>2. QED
  BY <1>1, XorFacts DEF Shift

\* What the shift does to an odd byte, bit by bit.
LEMMA ShiftOdd ==
  ASSUME NEW x \in Byte, NEW i \in 0..15, NEW j \in 0..15, x = 32 * i + 2 * j + 1,
         NEW p, NEW q, NEW r, NEW t, Bits(i, p, q, r, t)
  PROVE  Shift(x) = 128 * Other(p, 1) + 64 * Other(q, 1) + 32 * Other(r, 1) + 16 * Other(t, 0) + j
<1>1. x \div 2 = 16 * i + j /\ x % 2 = 1
  OBVIOUS
<1>2. (16 * i + j) \div 16 = i /\ (16 * i + j) % 16 = j /\ 224 \div 16 = 14 /\ 224 % 16 = 0
  OBVIOUS
<1>3. Shift(x) = 16 * Nibbles[i][14] + Nibbles[j][0]
  BY <1>1, <1>2 DEF Shift, ByteXor
<1>4. Bits(14, 1, 1, 1, 0)
  BY DEF Bits
<1>5. Nibbles[i][14] = 8 * Other(p, 1) + 4 * Other(q, 1) + 2 * Other(r, 1) + Other(t, 0)
  BY <1>4, NibbleOf
<1>6. Nibbles[j][0] = j
  BY NibbleFacts
<1>7. \A u, v : Other(u, v) \in {0, 1}
  BY DEF Other
<1>8. PICK k \in Int, l \in Int, m \in Int, n \in Int :
        k = Other(p, 1) /\ l = Other(q, 1) /\ m = Other(r, 1) /\ n = Other(t, 0)
  BY <1>7
<1>9. QED
  BY <1>3, <1>5, <1>6, <1>8

\* 255 leaves 207, the remainder that a good frame leaves (mux.c: rcv_crc_check).
LEMMA TableLast == crc_table[255] = 207
<1>1. Shift(255) = 159
  <2>1. Bits(7, 0, 1, 1, 1) /\ 255 = 32 * 7 + 2 * 15 + 1
    BY DEF Bits
  <2>2. QED
    BY <2>1, ShiftOdd DEF Other, Byte
<1>2. Shift(159) = 175
  <2>1. Bits(4, 0, 1, 0, 0) /\ 159 = 32 * 4 + 2 * 15 + 1
    BY DEF Bits
  <2>2. QED
    BY <2>1, ShiftOdd DEF Other, Byte
<1>3. Shift(175) = 183
  <2>1. Bits(5, 0, 1, 0, 1) /\ 175 = 32 * 5 + 2 * 7 + 1
    BY DEF Bits
  <2>2. QED
    BY <2>1, ShiftOdd DEF Other, Byte
<1>4. Shift(183) = 187
  <2>1. Bits(5, 0, 1, 0, 1) /\ 183 = 32 * 5 + 2 * 11 + 1
    BY DEF Bits
  <2>2. QED
    BY <2>1, ShiftOdd DEF Other, Byte
<1>5. Shift(187) = 189
  <2>1. Bits(5, 0, 1, 0, 1) /\ 187 = 32 * 5 + 2 * 13 + 1
    BY DEF Bits
  <2>2. QED
    BY <2>1, ShiftOdd DEF Other, Byte
<1>6. Shift(189) = 190
  <2>1. Bits(5, 0, 1, 0, 1) /\ 189 = 32 * 5 + 2 * 14 + 1
    BY DEF Bits
  <2>2. QED
    BY <2>1, ShiftOdd DEF Other, Byte
<1>7. Shift(190) = 95
  BY ShiftEven DEF Byte
<1>8. Shift(95) = 207
  <2>1. Bits(2, 0, 0, 1, 0) /\ 95 = 32 * 2 + 2 * 15 + 1
    BY DEF Bits
  <2>2. QED
    BY <2>1, ShiftOdd DEF Other, Byte
<1>9. 255 \in Byte
  BY DEF Byte
<1>10. QED
  BY <1>1, <1>2, <1>3, <1>4, <1>5, <1>6, <1>7, <1>8, <1>9, TableEntry

-----------------------------------------------------------------------------
(* The check sequence of a header *)

\* f is the register after each byte of s.
FcsTurns(f, s) ==
  f[0] = 255 /\ \A i \in 1..Len(s) : f[i] = crc_table[ByteXor(f[i - 1], s[i])]

\* A loop over bytes has turns.
LEMMA BytesLoop ==
  ASSUME NEW s \in Seq(Byte), NEW v \in Byte, NEW H \in [Byte -> [Byte -> Byte]]
  PROVE  \E g \in [0..Len(s) -> Byte] : Turns(g, s, v, H)
BY LoopExists

\* The loop of calc_crc has these turns.
LEMMA FcsLoop ==
  ASSUME NEW s \in Seq(Byte)
  PROVE  \E f \in [0..Len(s) -> Byte] : FcsTurns(f, s) /\ Fcs(s) = f[Len(s)]
<1> DEFINE m == Len(s)
           G(k) == [n \in 0..m |-> IF n = 0 THEN 255 ELSE crc_table[ByteXor(k[n - 1], s[n])]]
           r == CHOOSE k : k = G(k)
           H == [v \in Byte |-> [e \in Byte |-> crc_table[ByteXor(v, e)]]]
<1>1. Fcs(s) = r[m]
  BY DEF Fcs
<1>2. m \in Nat /\ \A i \in 1..m : s[i] \in Byte
  BY LenProperties, ElementOfSeq
<1>3. 255 \in Byte /\ \A v, e \in Byte : crc_table[ByteXor(v, e)] \in Byte
  <2>1. 255 \in Byte
    BY DEF Byte
  <2>2. \A v, e \in Byte : crc_table[ByteXor(v, e)] \in Byte
    BY TableType, XorFacts
  <2>3. QED
    BY <2>1, <2>2
<1>4. PICK g \in [0..m -> Byte] : FcsTurns(g, s)
  <2>1. H \in [Byte -> [Byte -> Byte]]
    BY <1>3
  <2>2. \A v, e \in Byte : H[v][e] = crc_table[ByteXor(v, e)]
    OBVIOUS
  <2> HIDE DEF H
  <2>3. PICK g \in [0..Len(s) -> Byte] : Turns(g, s, 255, H)
    BY <1>3, <2>1, BytesLoop
  <2>4. g[0] = 255 /\ \A i \in 1..m : g[i] = H[g[i - 1]][s[i]]
    BY <2>3 DEF Turns
  <2>5. ASSUME NEW i \in 1..m PROVE g[i] = crc_table[ByteXor(g[i - 1], s[i])]
    <3>1. i - 1 \in 0..m
      BY <1>2
    <3>2. g[i - 1] \in Byte /\ s[i] \in Byte
      BY <1>2, <2>3, <3>1
    <3>3. QED
      BY <2>2, <2>4, <3>2
  <2>6. QED
    BY <2>3, <2>4, <2>5 DEF FcsTurns
<1> HIDE DEF m
<1>5. r = G(r)
  <2>1. g[0] = 255 /\ \A i \in 1..m : g[i] = crc_table[ByteXor(g[i - 1], s[i])]
    BY <1>4 DEF FcsTurns, m
  <2>2. \A n \in 0..m : n = 0 \/ n \in 1..m
    BY <1>2
  <2>3. \A n \in 0..m : g[n] = IF n = 0 THEN 255 ELSE crc_table[ByteXor(g[n - 1], s[n])]
    BY <2>1, <2>2
  <2>4. g = [n \in 0..m |-> g[n]]
    BY <1>4
  <2>5. g = G(g)
    BY <2>3, <2>4
  <2> HIDE DEF G
  <2>6. QED
    BY <2>5
<1>6. \A n \in 0..m : r[n] = IF n = 0 THEN 255 ELSE crc_table[ByteXor(r[n - 1], s[n])]
  <2> HIDE DEF r
  <2>1. QED
    BY <1>5
<1>7. DOMAIN r = 0..m /\ r = [n \in 0..m |-> r[n]]
  <2> HIDE DEF r
  <2> DEFINE E(n) == IF n = 0 THEN 255 ELSE crc_table[ByteXor(r[n - 1], s[n])]
  <2>1. r = [n \in 0..m |-> E(n)]
    BY <1>5
  <2> HIDE DEF E
  <2>2. DOMAIN r = 0..m /\ \A n \in 0..m : r[n] = E(n)
    BY <2>1
  <2>3. QED
    BY <2>1, <2>2
<1> HIDE DEF r
<1>8. r[0] = 255 /\ \A i \in 1..m : r[i] = crc_table[ByteXor(r[i - 1], s[i])]
  <2>1. 0 \in 0..m /\ \A i \in 1..m : i \in 0..m /\ i # 0
    BY <1>2
  <2>2. QED
    BY <1>6, <2>1
<1>9. \A n \in 0..m : r[n] \in Byte
  <2> DEFINE U == {n \in Nat : n <= m => r[n] \in Byte}
  <2>1. 0 \in U
    BY <1>3, <1>8
  <2>2. ASSUME NEW n \in Nat, n \in U, n + 1 <= m PROVE r[n + 1] \in Byte
    <3>1. n + 1 \in 1..m /\ (n + 1) - 1 = n /\ n <= m
      BY <1>2, <2>2
    <3>2. r[n] \in Byte /\ s[n + 1] \in Byte
      BY <1>2, <2>2, <3>1
    <3>3. r[n + 1] = crc_table[ByteXor(r[n], s[n + 1])]
      BY <1>8, <3>1
    <3>4. QED
      BY <1>3, <3>2, <3>3
  <2>3. \A n \in Nat : n \in U => n + 1 \in U
    BY <2>2
  <2>4. Nat \subseteq U
    <3> HIDE DEF U
    <3>1. QED
      BY <2>1, <2>3, SetInduction
  <2>5. QED
    BY <1>2, <2>4
<1>10. r \in [0..m -> Byte]
  BY <1>7, <1>9
<1>11. QED
  BY <1>1, <1>8, <1>10 DEF FcsTurns, m

\* The register and the check sequence are bytes.
LEMMA FcsType ==
  ASSUME NEW s \in Seq(Byte)
  PROVE  Fcs(s) \in Byte /\ calc_crc(s) = 255 - Fcs(s) /\ calc_crc(s) \in Byte
<1>1. PICK f \in [0..Len(s) -> Byte] : Fcs(s) = f[Len(s)]
  BY FcsLoop
<1>2. Len(s) \in 0..Len(s)
  BY LenProperties
<1>3. PICK x \in Byte : x = Fcs(s)
  BY <1>1, <1>2
<1>4. 255 - x \in Byte
  BY DEF Byte
<1>5. QED
  BY <1>3, <1>4 DEF calc_crc

\* One byte of the header is another.
DiffersAt(s, t, i) ==
  /\ Len(s) = Len(t) /\ i \in 1..Len(s) /\ s[i] # t[i]
  /\ \A j \in 1..Len(s) : j # i => s[j] = t[j]

\* Headers that differ in one byte have different check sequences: after that byte
\* the registers differ, and each byte that is the same keeps them apart.
LEMMA FcsDiffers ==
  ASSUME NEW s \in Seq(Byte), NEW t \in Seq(Byte), NEW i, DiffersAt(s, t, i)
  PROVE  Fcs(s) # Fcs(t)
<1>1. PICK f \in [0..Len(s) -> Byte] : FcsTurns(f, s) /\ Fcs(s) = f[Len(s)]
  BY FcsLoop
<1>2. PICK g \in [0..Len(t) -> Byte] : FcsTurns(g, t) /\ Fcs(t) = g[Len(t)]
  BY FcsLoop
<1>3. PICK m \in Nat : m = Len(s) /\ m = Len(t)
  BY LenProperties DEF DiffersAt
<1>4. /\ i \in 1..m /\ s[i] # t[i] /\ \A j \in 1..m : j # i => s[j] = t[j]
      /\ \A j \in 1..m : s[j] \in Byte /\ t[j] \in Byte
  BY <1>3, ElementOfSeq DEF DiffersAt
<1>5. /\ f[0] = 255 /\ \A j \in 1..m : f[j] = crc_table[ByteXor(f[j - 1], s[j])]
      /\ g[0] = 255 /\ \A j \in 1..m : g[j] = crc_table[ByteXor(g[j - 1], t[j])]
  BY <1>1, <1>2, <1>3 DEF FcsTurns
<1>6. \A j \in 0..m : f[j] \in Byte /\ g[j] \in Byte
  BY <1>1, <1>2, <1>3
<1> DEFINE Holds(n) == (n < i => f[n] = g[n]) /\ (n >= i => f[n] # g[n])
           U == {n \in Nat : n <= m => Holds(n)}
<1>7. 0 \in U
  BY <1>4, <1>5
<1>8. ASSUME NEW n \in Nat, n \in U, n + 1 <= m PROVE Holds(n + 1)
  <2>1. n \in 0..m /\ n + 1 \in 1..m /\ (n + 1) - 1 = n /\ Holds(n)
    BY <1>3, <1>8
  <2>2. PICK a \in Byte, b \in Byte, u \in Byte, v \in Byte :
          a = f[n] /\ b = g[n] /\ u = s[n + 1] /\ v = t[n + 1]
    BY <1>4, <1>6, <2>1
  <2>3. f[n + 1] = crc_table[ByteXor(a, u)] /\ g[n + 1] = crc_table[ByteXor(b, v)]
    BY <1>5, <2>1, <2>2
  <2>4. CASE n + 1 < i
    <3>1. a = b /\ u = v
      BY <1>4, <2>1, <2>2, <2>4
    <3>2. QED
      BY <1>4, <2>3, <2>4, <3>1
  <2>5. CASE n + 1 = i
    <3>1. a = b /\ u # v
      BY <1>4, <2>1, <2>2, <2>5
    <3>2. ByteXor(a, u) # ByteXor(a, v)
      BY <3>1, XorInjective
    <3>3. crc_table[ByteXor(a, u)] # crc_table[ByteXor(a, v)]
      BY <3>2, XorFacts, TableInjective
    <3>4. QED
      BY <2>3, <2>5, <3>1, <3>3
  <2>6. CASE n + 1 > i
    <3>1. a # b /\ u = v
      BY <1>4, <2>1, <2>2, <2>6
    <3>2. ByteXor(u, a) # ByteXor(u, b)
      BY <3>1, XorInjective
    <3>3. ByteXor(a, u) = ByteXor(u, a) /\ ByteXor(b, u) = ByteXor(u, b)
      BY XorFacts
    <3>4. crc_table[ByteXor(a, u)] # crc_table[ByteXor(b, u)]
      BY <3>2, <3>3, XorFacts, TableInjective
    <3>5. QED
      BY <1>4, <2>3, <2>6, <3>1, <3>4
  <2>7. QED
    BY <1>4, <2>4, <2>5, <2>6
<1>9. \A n \in Nat : n \in U => n + 1 \in U
  BY <1>8
<1>10. Nat \subseteq U
  <2> HIDE DEF U
  <2>1. QED
    BY <1>7, <1>9, SetInduction
<1>11. Holds(m)
  BY <1>10
<1>12. QED
  BY <1>1, <1>2, <1>3, <1>4, <1>11

\* The check accepts the one value that was computed.
LEMMA CheckExact ==
  ASSUME NEW s \in Seq(Byte), NEW x \in Byte
  PROVE  rcv_crc_check(s, x) <=> x = 255 - Fcs(s)
<1>1. PICK a \in Byte : a = Fcs(s)
  BY FcsType
<1>2. PICK y \in Byte : y = ByteXor(a, x)
  BY XorFacts
<1>3. rcv_crc_check(s, x) <=> crc_table[y] = 207
  BY <1>1, <1>2 DEF rcv_crc_check
<1>4. 255 \in Byte
  BY DEF Byte
<1>5. crc_table[y] = 207 <=> y = 255
  BY <1>4, TableLast, TableInjective
<1>6. y = 255 <=> x = 255 - a
  BY <1>2, XorFacts
<1>7. QED
  BY <1>1, <1>3, <1>5, <1>6

-----------------------------------------------------------------------------
(* Frames *)

\* What a frame says of its own length.
HeadLen(w) == IF w[4] % 2 = 0 THEN 5 ELSE 4
DataLen(w) == IF w[4] % 2 = 0 THEN 128 * w[5] + w[4] \div 2 ELSE w[4] \div 2

\* What the decoder takes for a frame, damaged or not.
Shapes ==
  {w \in Seq(Byte) :
     /\ 6 <= Len(w) /\ Len(w) = HeadLen(w) + DataLen(w) + 2
     /\ w[1] = Flag /\ w[2] # Flag /\ w[Len(w)] = Flag}

\* What the check sequence is about.
Cover(w) == SubSeq(w, 2, HeadLen(w))

\* A frame's parts.
LEMMA ShapeFacts ==
  ASSUME NEW w \in Shapes
  PROVE  /\ w \in Seq(Byte) /\ Len(w) \in Nat /\ 6 <= Len(w)
         /\ HeadLen(w) \in {4, 5} /\ DataLen(w) \in Nat
         /\ Len(w) = HeadLen(w) + DataLen(w) + 2
         /\ w[1] = Flag /\ w[2] # Flag /\ w[Len(w)] = Flag
         /\ \A i \in 1..Len(w) : w[i] \in Byte
<1>1. w \in Seq(Byte) /\ Len(w) \in Nat /\ 6 <= Len(w)
  BY LenProperties DEF Shapes
<1>2. \A i \in 1..Len(w) : w[i] \in Byte
  BY <1>1, ElementOfSeq
<1>3. PICK a \in Byte, b \in Byte : a = w[4] /\ b = w[5]
  BY <1>1, <1>2
<1>4. HeadLen(w) \in {4, 5} /\ DataLen(w) \in Nat
  <2>1. a \div 2 \in Nat /\ 128 * b + a \div 2 \in Nat
    BY DEF Byte
  <2>2. DataLen(w) \in Nat
    BY <1>3, <2>1 DEF DataLen
  <2>3. QED
    BY <2>2 DEF HeadLen
<1>5. QED
  BY <1>1, <1>2, <1>4 DEF Shapes

\* The bytes that the check sequence covers.
LEMMA CoverFacts ==
  ASSUME NEW w \in Shapes
  PROVE  /\ Cover(w) \in Seq(Byte) /\ Len(Cover(w)) = HeadLen(w) - 1
         /\ \A j \in 1..(HeadLen(w) - 1) : Cover(w)[j] = w[j + 1]
<1>1. PICK k \in {4, 5} : k = HeadLen(w)
  BY ShapeFacts
<1>2. \A i \in 2..k : w[i] \in Byte
  BY <1>1, ShapeFacts
<1>3. /\ SubSeq(w, 2, k) \in Seq(Byte)
      /\ Len(SubSeq(w, 2, k)) = IF 2 <= k THEN k - 2 + 1 ELSE 0
      /\ \A i \in 1..(k - 2 + 1) : SubSeq(w, 2, k)[i] = w[2 + i - 1]
  BY <1>1, <1>2, SubSeqProperties
<1>4. \A i \in 1..(k - 1) : i \in 1..(k - 2 + 1) /\ 2 + i - 1 = i + 1
  BY <1>1
<1>5. k - 2 + 1 = k - 1 /\ 2 <= k
  BY <1>1
<1>6. QED
  BY <1>1, <1>3, <1>4, <1>5 DEF Cover

\* tcore_cmux_process_rcv_frame reads the fields of any frame of this shape.
LEMMA ParseFields ==
  ASSUME NEW w \in Shapes, NEW p, p = Parse(w)
  PROVE  /\ p.channel = w[2] \div 4
         /\ p.pf = Poll * ((w[3] \div Poll) % 2) /\ p.type = w[3] - p.pf
         /\ p.data = SubSeq(w, HeadLen(w) + 1, HeadLen(w) + DataLen(w))
         /\ p.good <=> w[Len(w) - 1] = 255 - Fcs(Cover(w))
<1>1. PICK k \in {4, 5}, n \in Nat, m \in Nat :
        k = HeadLen(w) /\ n = DataLen(w) /\ m = Len(w) /\ m = k + n + 2
  BY ShapeFacts
<1>2. /\ (IF w[4] % 2 = 0 THEN 4 ELSE 3) = k - 1
      /\ (IF w[4] % 2 = 0 THEN 128 * w[5] + w[4] \div 2 ELSE w[4] \div 2) = n
  BY <1>1 DEF HeadLen, DataLen
<1>3. (k - 1) + 2 = k + 1 /\ (k - 1) + 1 + n = k + n /\ (k - 1) + 1 = k /\ (k - 1) + 2 + n = m - 1
  BY <1>1
<1> DEFINE R(hd, len, g) ==
      [channel |-> w[2] \div 4, type |-> w[3] - Poll * ((w[3] \div Poll) % 2),
       pf |-> Poll * ((w[3] \div Poll) % 2), data |-> SubSeq(w, hd + 2, hd + 1 + len), good |-> g]
           good(hd, len) == rcv_crc_check(SubSeq(w, 2, hd + 1), w[hd + 2 + len])
<1>4. p = R(k - 1, n, good(k - 1, n))
  <2> DEFINE S(hd, len) == R(hd, len, good(hd, len))
  <2>1. p = S(IF w[4] % 2 = 0 THEN 4 ELSE 3,
              IF w[4] % 2 = 0 THEN 128 * w[5] + w[4] \div 2 ELSE w[4] \div 2)
    BY DEF Parse
  <2>2. p = S(k - 1, n)
    <3> HIDE DEF S
    <3>1. QED
      BY <1>2, <2>1
  <2>3. QED
    BY <2>2
<1>5. SubSeq(w, 2, k) = Cover(w)
  BY <1>1 DEF Cover
<1>6. w[m - 1] \in Byte
  <2>1. m - 1 \in 1..Len(w)
    BY <1>1
  <2>2. QED
    BY <2>1, ShapeFacts
<1>7. rcv_crc_check(Cover(w), w[m - 1]) <=> w[m - 1] = 255 - Fcs(Cover(w))
  BY <1>6, CoverFacts, CheckExact
<1>8. good(k - 1, n) <=> w[m - 1] = 255 - Fcs(Cover(w))
  BY <1>3, <1>5, <1>7
<1> HIDE DEF good
<1>9. /\ p.channel = w[2] \div 4
      /\ p.pf = Poll * ((w[3] \div Poll) % 2) /\ p.type = w[3] - p.pf
      /\ p.data = SubSeq(w, (k - 1) + 2, (k - 1) + 1 + n) /\ p.good = good(k - 1, n)
  BY <1>4
<1>10. QED
  BY <1>1, <1>3, <1>8, <1>9

-----------------------------------------------------------------------------
(* tcore_encode_cmux_frame *)

\* The commands of a frame.
Types == {SABM, UA, DM, DISC, UIH, UI}

\* The parts of a frame, one after the other.
FourParts(d, a, s, k, z) ==
  LET m == Len(s)
      n == Len(k)
  IN /\ Len(d) = m + n + 3
     /\ d[1] = a[1] /\ d[m + n + 2] = z[1] /\ d[m + n + 3] = z[2]
     /\ \A i \in 1..m : d[i + 1] = s[i]
     /\ \A i \in 1..n : d[m + 1 + i] = k[i]

\* Where the bytes of the four parts are.
LEMMA JoinedParts ==
  ASSUME NEW S, NEW a \in Seq(S), NEW s \in Seq(S), NEW data \in Seq(S), NEW z \in Seq(S),
         Len(a) = 1, Len(z) = 2
  PROVE  /\ Cat(Cat(Cat(a, s), data), z) \in Seq(S)
         /\ FourParts(Cat(Cat(Cat(a, s), data), z), a, s, data, z)
<1> DEFINE d == Cat(Cat(Cat(a, s), data), z)
<1>z. PICK m \in Nat, n \in Nat : m = Len(s) /\ n = Len(data)
  BY LenProperties
<1>a. PICK b \in Seq(S) : b = Cat(a, s) /\ Joined(b, a, s)
  BY CatProperties, CatJoined
<1>b. PICK c \in Seq(S) : c = Cat(b, data) /\ Joined(c, b, data)
  BY CatProperties, CatJoined
<1>c. d \in Seq(S) /\ Joined(d, c, z)
  BY <1>a, <1>b, CatProperties, CatJoined
<1> HIDE DEF d
<1>1. /\ Len(b) = m + 1 /\ b[1] = a[1]
      /\ \A i \in 1..m : b[1 + i] = s[i]
  BY <1>a, <1>z DEF Joined
<1>2. /\ Len(c) = m + n + 1
      /\ \A i \in 1..(m + 1) : c[i] = b[i]
      /\ \A i \in 1..n : c[m + 1 + i] = data[i]
  BY <1>1, <1>b, <1>z DEF Joined
<1>3. /\ Len(d) = m + n + 3
      /\ \A i \in 1..(m + n + 1) : d[i] = c[i]
      /\ \A i \in 1..2 : d[m + n + 1 + i] = z[i]
  BY <1>2, <1>c DEF Joined
<1>4. d[1] = a[1]
  <2>1. 1 \in 1..(m + n + 1) /\ 1 \in 1..(m + 1)
    OBVIOUS
  <2>2. QED
    BY <1>1, <1>2, <1>3, <2>1
<1>5. d[m + n + 2] = z[1] /\ d[m + n + 3] = z[2]
  <2>1. 1 \in 1..2 /\ 2 \in 1..2 /\ m + n + 1 + 1 = m + n + 2 /\ m + n + 1 + 2 = m + n + 3
    OBVIOUS
  <2>2. d[m + n + 1 + 1] = z[1] /\ d[m + n + 1 + 2] = z[2]
    BY <1>3, <2>1
  <2>3. QED
    BY <2>1, <2>2
<1>6. ASSUME NEW i \in 1..m PROVE d[i + 1] = s[i]
  <2>1. i + 1 \in 1..(m + 1) /\ i + 1 \in 1..(m + n + 1) /\ 1 + i = i + 1
    OBVIOUS
  <2>2. d[i + 1] = c[i + 1] /\ c[i + 1] = b[i + 1]
    BY <1>2, <1>3, <2>1
  <2>3. b[1 + i] = s[i]
    BY <1>1
  <2>4. QED
    BY <2>1, <2>2, <2>3
<1>7. ASSUME NEW i \in 1..n PROVE d[m + 1 + i] = data[i]
  <2>1. m + 1 + i \in 1..(m + n + 1)
    OBVIOUS
  <2>2. QED
    BY <1>2, <1>3, <2>1
<1>8. QED
  BY <1>3, <1>4, <1>5, <1>6, <1>7, <1>c, <1>z DEF FourParts, d

\* A frame of a header, data and a check sequence.
Assembly(s, data, x) == <<Flag>> \o s \o data \o <<x, Flag>>

\* Where the parts of a frame are.
Laid(w, s, data, x) ==
  LET m == Len(s)
      n == Len(data)
  IN /\ Len(w) = m + n + 3
     /\ w[1] = Flag /\ w[m + n + 2] = x /\ w[m + n + 3] = Flag
     /\ \A i \in 1..m : w[i + 1] = s[i]
     /\ \A i \in 1..n : w[m + 1 + i] = data[i]

\* Where its bytes are.
LEMMA Assembled ==
  ASSUME NEW s \in Seq(Byte), NEW data \in Seq(Byte), NEW x \in Byte
  PROVE  /\ Assembly(s, data, x) \in Seq(Byte)
         /\ Laid(Assembly(s, data, x), s, data, x)
<1> DEFINE a == <<Flag>>
           z == <<x, Flag>>
           w == Assembly(s, data, x)
<1>1. a \in Seq(Byte) /\ Len(a) = 1 /\ a[1] = Flag
  BY DEF Flag, Byte
<1>2. z \in Seq(Byte) /\ Len(z) = 2 /\ z[1] = x /\ z[2] = Flag
  BY DEF Flag, Byte
<1>3. w = a \o s \o data \o z
  BY DEF Assembly
<1> HIDE DEF a, z
<1>4. w = Cat(Cat(Cat(a, s), data), z)
  BY <1>3 DEF Cat
<1> HIDE DEF w
<1>5. w \in Seq(Byte) /\ FourParts(w, a, s, data, z)
  BY <1>1, <1>2, <1>4, JoinedParts
<1>6. Laid(w, s, data, x)
  BY <1>1, <1>2, <1>5 DEF FourParts, Laid
<1>7. QED
  BY <1>5, <1>6 DEF w

\* The length bytes of a frame.
LEMMA Sized ==
  ASSUME NEW n \in Nat, n < 128 * 256
  PROVE  /\ n < 128 => /\ (2 * n + 1) % 256 \in Byte /\ ((2 * n + 1) % 256) % 2 = 1
                       /\ ((2 * n + 1) % 256) \div 2 = n
         /\ n >= 128 => /\ (2 * n) % 256 \in Byte /\ (n \div 128) % 256 \in Byte
                        /\ ((2 * n) % 256) % 2 = 0
                        /\ 128 * ((n \div 128) % 256) + ((2 * n) % 256) \div 2 = n
<1>1. CASE n < 128
  <2>1. (2 * n + 1) % 256 = 2 * n + 1
    BY <1>1
  <2>2. QED
    BY <1>1, <2>1 DEF Byte
<1>2. CASE n >= 128
  <2>1. PICK k \in 0..255, l \in 0..127 : n = 128 * k + l
    <3>1. n = 128 * (n \div 128) + (n % 128) /\ n \div 128 \in 0..255 /\ n % 128 \in 0..127
      OBVIOUS
    <3> DEFINE k == n \div 128
               l == n % 128
    <3>2. n = 128 * k + l /\ k \in 0..255 /\ l \in 0..127
      BY <3>1
    <3> HIDE DEF k, l
    <3>3. QED
      BY <3>2
  <2>2. n \div 128 = k /\ k % 256 = k
    BY <2>1
  <2>3. (2 * n) % 256 = 2 * l
    BY <2>1
  <2>4. QED
    BY <1>2, <2>1, <2>2, <2>3 DEF Byte
<1>3. QED
  BY <1>1, <1>2

\* What a frame that is not damaged says.
Says(w, c, type, pf, data) ==
  LET p == Parse(w)
  IN p.good /\ p.channel = c /\ p.type = type /\ p.pf = pf /\ p.data = data

\* The third byte holds the type and the poll bit.
LEMMA Control ==
  ASSUME NEW type \in Types, NEW pf \in {0, Poll}
  PROVE  /\ type + pf \in Byte /\ Poll * (((type + pf) \div Poll) % 2) = pf
         /\ (type + pf) - pf = type
  BY DEF Types, SABM, UA, DM, DISC, UIH, UI, Poll, Byte

\* A header of k - 1 bytes, its payload and its check sequence make a frame.
LEMMA Framed ==
  ASSUME NEW s \in Seq(Byte), NEW data \in Seq(Byte), NEW k \in {4, 5}, Len(s) = k - 1,
         NEW n \in Nat, n = Len(data),
         NEW w, w = Assembly(s, data, calc_crc(s)),
         s[1] # Flag,
         HeadLen(w) = k, DataLen(w) = n
  PROVE  w \in Shapes /\ Cover(w) = s /\ w[Len(w) - 1] = 255 - Fcs(Cover(w))
         /\ SubSeq(w, k + 1, k + n) = data
<1> DEFINE x == calc_crc(s)
           m == k - 1
<1>1. x \in Byte /\ x = 255 - Fcs(s)
  <2>1. PICK f \in Byte : f = Fcs(s)
    BY FcsType
  <2>2. 255 - f \in Byte
    BY DEF Byte
  <2>3. QED
    BY <2>1, <2>2 DEF calc_crc
<1>2. m \in Nat /\ m = Len(s) /\ m + 1 = k /\ m + n + 3 = k + n + 2 /\ m + n + 2 = k + n + 1
  OBVIOUS
<1>0. w = Assembly(s, data, x)
  OBVIOUS
<1> HIDE DEF x, m
<1>3. /\ w \in Seq(Byte) /\ Len(w) = m + n + 3
      /\ w[1] = Flag /\ w[m + n + 2] = x /\ w[m + n + 3] = Flag
      /\ \A i \in 1..m : w[i + 1] = s[i]
      /\ \A i \in 1..n : w[m + 1 + i] = data[i]
  <2>1. w \in Seq(Byte) /\ Laid(w, s, data, x)
    BY <1>0, <1>1, Assembled
  <2>2. QED
    BY <1>2, <2>1 DEF Laid
<1>4. w[2] = s[1]
  <2>1. 1 \in 1..m /\ 1 + 1 = 2
    BY <1>2
  <2>2. w[1 + 1] = s[1]
    BY <1>3, <2>1
  <2>3. QED
    BY <2>1, <2>2
<1>5. w \in Shapes
  <2>1. 6 <= Len(w) /\ Len(w) = k + n + 2
    BY <1>2, <1>3
  <2>2. w[Len(w)] = Flag
    BY <1>3
  <2>3. QED
    BY <1>3, <1>4, <2>1, <2>2 DEF Shapes
<1>6. Cover(w) = s
  <2>1. Cover(w) \in Seq(Byte) /\ Len(Cover(w)) = m /\ \A j \in 1..m : Cover(w)[j] = w[j + 1]
    BY <1>2, <1>5, CoverFacts
  <2>2. \A j \in 1..m : Cover(w)[j] = s[j]
    BY <1>3, <2>1
  <2>3. QED
    BY <1>2, <2>1, <2>2, SeqEqual
<1>7. w[Len(w) - 1] = 255 - Fcs(Cover(w))
  <2>1. Len(w) - 1 = m + n + 2
    BY <1>2, <1>3
  <2>2. QED
    BY <1>1, <1>3, <1>6, <2>1
<1>8. SubSeq(w, k + 1, k + n) = data
  <2>0. \A i \in (k + 1)..(k + n) : i \in 1..Len(w)
    BY <1>2, <1>3
  <2>1. \A i \in (k + 1)..(k + n) : w[i] \in Byte
    BY <1>3, <2>0, ElementOfSeq
  <2>2. /\ SubSeq(w, k + 1, k + n) \in Seq(Byte)
        /\ Len(SubSeq(w, k + 1, k + n)) = IF k + 1 <= k + n THEN k + n - (k + 1) + 1 ELSE 0
        /\ \A i \in 1..(k + n - (k + 1) + 1) : SubSeq(w, k + 1, k + n)[i] = w[k + 1 + i - 1]
    BY <2>1, SubSeqProperties
  <2>3. (IF k + 1 <= k + n THEN k + n - (k + 1) + 1 ELSE 0) = n /\ k + n - (k + 1) + 1 = n
    OBVIOUS
  <2>4. \A i \in 1..n : k + 1 + i - 1 = m + 1 + i
    BY <1>2
  <2>5. \A i \in 1..n : SubSeq(w, k + 1, k + n)[i] = data[i]
    BY <1>3, <2>2, <2>3, <2>4
  <2>6. QED
    BY <2>2, <2>3, <2>5, SeqEqual
<1>9. QED
  BY <1>5, <1>6, <1>7, <1>8

\* All of a sequence.
LEMMA Whole ==
  ASSUME NEW S, NEW s \in Seq(S), NEW m, m = Len(s)
  PROVE  SubSeq(s, 1, m) = s
<1>1. m \in Nat /\ \A i \in 1..m : s[i] \in S
  BY LenProperties, ElementOfSeq
<1>2. /\ SubSeq(s, 1, m) \in Seq(S)
      /\ Len(SubSeq(s, 1, m)) = IF 1 <= m THEN m - 1 + 1 ELSE 0
      /\ \A i \in 1..(m - 1 + 1) : SubSeq(s, 1, m)[i] = s[1 + i - 1]
  BY <1>1, SubSeqProperties
<1>3. m - 1 + 1 = m /\ (IF 1 <= m THEN m - 1 + 1 ELSE 0) = m /\ \A i \in 1..m : 1 + i - 1 = i
  BY <1>1
<1>4. QED
  BY <1>2, <1>3, SeqEqual

\* The first length byte and the one behind it.
LEMMA Fourth ==
  ASSUME NEW s \in Seq(Byte), NEW data \in Seq(Byte)
  PROVE  /\ Len(s) >= 3 => Assembly(s, data, calc_crc(s))[4] = s[3]
         /\ Len(s) >= 4 => Assembly(s, data, calc_crc(s))[5] = s[4]
<1> DEFINE x == calc_crc(s)
           w == Assembly(s, data, x)
<1>1. x \in Byte
  <2>1. PICK f \in Byte : f = Fcs(s)
    BY FcsType
  <2>2. 255 - f \in Byte
    BY DEF Byte
  <2>3. QED
    BY <2>1, <2>2 DEF calc_crc
<1>0. w = Assembly(s, data, x)
  OBVIOUS
<1> HIDE DEF x, w
<1>2. PICK m \in Nat, n \in Nat : m = Len(s) /\ n = Len(data)
  BY LenProperties
<1>3. \A i \in 1..m : w[i + 1] = s[i]
  <2>1. Laid(w, s, data, x)
    BY <1>0, <1>1, Assembled
  <2>2. QED
    BY <1>2, <2>1 DEF Laid
<1>4. m >= 3 => w[4] = s[3]
  <2>1. m >= 3 => 3 \in 1..m /\ 3 + 1 = 4
    OBVIOUS
  <2>2. QED
    BY <1>3, <2>1
<1>5. m >= 4 => w[5] = s[4]
  <2>1. m >= 4 => 4 \in 1..m /\ 4 + 1 = 5
    OBVIOUS
  <2>2. QED
    BY <1>3, <2>1
<1>6. QED
  BY <1>2, <1>4, <1>5 DEF w, x

\* A header with one length byte, and one with two.
LEMMA Headers ==
  ASSUME NEW a \in Byte, NEW b \in Byte, NEW x \in Byte
  PROVE  /\ <<a, b>> \o <<x>> \in Seq(Byte) /\ Len(<<a, b>> \o <<x>>) = 3
         /\ (<<a, b>> \o <<x>>)[1] = a /\ (<<a, b>> \o <<x>>)[2] = b
         /\ (<<a, b>> \o <<x>>)[3] = x
         /\ \A y \in Byte :
              LET s == <<a, b>> \o <<x, y>>
              IN s \in Seq(Byte) /\ Len(s) = 4 /\ s[1] = a /\ s[2] = b /\ s[3] = x /\ s[4] = y
  OBVIOUS

\* The headers that tcore_encode_cmux_frame makes (mux.c:470-556).
ShortHeader(c, type, pf, n) == <<4 * c + 3, type + pf>> \o <<(2 * n + 1) % 256>>
LongHeader(c, type, pf, n) == <<4 * c + 3, type + pf>> \o <<(2 * n) % 256, (n \div 128) % 256>>

\* The two forms of a frame.
LEMMA EncodeForms ==
  ASSUME NEW c, NEW type, NEW pf, NEW data
  PROVE  Encode(c, type, pf, data) =
           LET s == ShortHeader(c, type, pf, Len(data))
               t == LongHeader(c, type, pf, Len(data))
           IN IF Len(data) < 128 THEN Assembly(s, data, calc_crc(SubSeq(s, 1, 3)))
              ELSE Assembly(t, data, calc_crc(SubSeq(t, 1, 4)))
<1>1. CASE Len(data) < 128
  BY <1>1, Zenon DEF Encode, ShortHeader, Assembly
<1>2. CASE ~(Len(data) < 128)
  BY <1>2, Zenon DEF Encode, LongHeader, Assembly
<1>3. QED
  BY <1>1, <1>2

\* What a frame with a header of k - 1 bytes says.
LEMMA Spoken ==
  ASSUME NEW c \in 0..7, NEW type \in Types, NEW pf \in {0, Poll}, NEW data \in Seq(Byte),
         NEW k \in {4, 5}, NEW s \in Seq(Byte), Len(s) = k - 1, s[1] = 4 * c + 3, s[2] = type + pf,
         NEW w, w = Assembly(s, data, calc_crc(s)), HeadLen(w) = k, DataLen(w) = Len(data)
  PROVE  w \in Shapes /\ Says(w, c, type, pf, data)
<1>1. PICK a \in Byte : a = 4 * c + 3 /\ a # Flag /\ a \div 4 = c
  BY DEF Byte, Flag
<1>2. PICK b \in Byte : b = type + pf /\ Poll * ((b \div Poll) % 2) = pf /\ b - pf = type
  <2>1. /\ type + pf \in Byte /\ Poll * (((type + pf) \div Poll) % 2) = pf
        /\ (type + pf) - pf = type
    BY Control, Zenon
  <2> DEFINE b == type + pf
  <2>2. b \in Byte /\ b = type + pf /\ Poll * ((b \div Poll) % 2) = pf /\ b - pf = type
    BY <2>1
  <2> HIDE DEF b
  <2>3. QED
    BY <2>2
<1>3. PICK n \in Nat : n = Len(data)
  BY LenProperties
<1>7. /\ w \in Shapes /\ Cover(w) = s /\ w[Len(w) - 1] = 255 - Fcs(Cover(w))
      /\ SubSeq(w, k + 1, k + n) = data
  BY <1>1, <1>3, Framed
<1>8. w[2] = a /\ w[3] = b
  <2>1. /\ \A j \in 1..(k - 1) : Cover(w)[j] = w[j + 1]
    BY <1>7, CoverFacts
  <2>2. 1 \in 1..(k - 1) /\ 2 \in 1..(k - 1) /\ 1 + 1 = 2 /\ 2 + 1 = 3
    OBVIOUS
  <2>3. Cover(w)[1] = w[1 + 1] /\ Cover(w)[2] = w[2 + 1]
    BY <2>1, <2>2
  <2>4. QED
    BY <1>1, <1>2, <1>7, <2>2, <2>3
<1> DEFINE p == Parse(w)
<1>10. /\ p.channel = w[2] \div 4
       /\ p.pf = Poll * ((w[3] \div Poll) % 2) /\ p.type = w[3] - p.pf
       /\ p.data = SubSeq(w, HeadLen(w) + 1, HeadLen(w) + DataLen(w))
       /\ p.good <=> w[Len(w) - 1] = 255 - Fcs(Cover(w))
  BY <1>7, ParseFields
<1> HIDE DEF p
<1>11. p.channel = c /\ p.pf = pf /\ p.type = type
  BY <1>1, <1>2, <1>8, <1>10
<1>12. p.data = data /\ p.good
  BY <1>3, <1>7, <1>10
<1>13. QED
  BY <1>7, <1>11, <1>12 DEF Says, p

\* Two length bytes hold 15 bits.
Fits(data) == Len(data) < 128 * 256

(***************************************************************************)
(* What one side encodes the other side reads: the command, its poll bit,  *)
(* the channel and the data, of either length, pass the check of the       *)
(* header.  (mux.c:470-556 and 818-881)                                    *)
(***************************************************************************)
THEOREM Encoded ==
  ASSUME NEW c \in 0..7, NEW type \in Types, NEW pf \in {0, Poll}, NEW data \in Seq(Byte),
         Fits(data)
  PROVE  /\ Encode(c, type, pf, data) \in Shapes
         /\ Says(Encode(c, type, pf, data), c, type, pf, data)
<1> DEFINE a == 4 * c + 3
           b == type + pf
           w == Encode(c, type, pf, data)
<1>1. a \in Byte
  BY DEF Byte
<1>2. b \in Byte
  BY Control
<1>3. PICK n \in Nat : n = Len(data)
  BY LenProperties
<1>4. /\ n < 128 => w = Assembly(ShortHeader(c, type, pf, n), data,
                                 calc_crc(SubSeq(ShortHeader(c, type, pf, n), 1, 3)))
      /\ ~(n < 128) => w = Assembly(LongHeader(c, type, pf, n), data,
                                    calc_crc(SubSeq(LongHeader(c, type, pf, n), 1, 4)))
  BY <1>3, EncodeForms
<1> HIDE DEF w
<1>5. CASE n < 128
  <2> DEFINE x == (2 * n + 1) % 256
             s == ShortHeader(c, type, pf, n)
  <2>1. x \in Byte /\ x % 2 = 1 /\ x \div 2 = n
    BY <1>3, <1>5, Sized DEF Fits
  <2>2. s = <<a, b>> \o <<x>>
    BY DEF ShortHeader
  <2> HIDE DEF x, s, a, b
  <2>3. s \in Seq(Byte) /\ Len(s) = 3 /\ s[1] = a /\ s[2] = b /\ s[3] = x
    BY <1>1, <1>2, <2>1, <2>2, Headers
  <2>4. w = Assembly(s, data, calc_crc(SubSeq(s, 1, 3)))
    BY <1>4, <1>5 DEF s
  <2>5. SubSeq(s, 1, 3) = s
    BY <2>3, Whole
  <2>6. w = Assembly(s, data, calc_crc(s))
    BY <2>4, <2>5
  <2>7. w[4] = x
    <3>1. Len(s) >= 3
      BY <2>3
    <3>2. QED
      BY <2>3, <2>6, <3>1, Fourth
  <2>8. HeadLen(w) = 4 /\ DataLen(w) = n /\ Len(s) = 4 - 1
    BY <2>1, <2>3, <2>7 DEF HeadLen, DataLen
  <2>9. s[1] = 4 * c + 3 /\ s[2] = type + pf
    BY <2>3 DEF a, b
  <2>10. QED
    BY <1>3, <2>3, <2>6, <2>8, <2>9, Spoken DEF w
<1>6. CASE ~(n < 128)
  <2> DEFINE x == (2 * n) % 256
             y == (n \div 128) % 256
             s == LongHeader(c, type, pf, n)
  <2>0. n >= 128
    BY <1>6
  <2>1. x \in Byte /\ y \in Byte /\ x % 2 = 0 /\ 128 * y + x \div 2 = n
    BY <1>3, <2>0, Sized DEF Fits
  <2>2. s = <<a, b>> \o <<x, y>>
    BY DEF LongHeader
  <2> HIDE DEF x, y, s, a, b
  <2>3. s \in Seq(Byte) /\ Len(s) = 4 /\ s[1] = a /\ s[2] = b /\ s[3] = x /\ s[4] = y
    BY <1>1, <1>2, <2>1, <2>2, Headers
  <2>4. w = Assembly(s, data, calc_crc(SubSeq(s, 1, 4)))
    BY <1>4, <1>6 DEF s
  <2>5. SubSeq(s, 1, 4) = s
    BY <2>3, Whole
  <2>6. w = Assembly(s, data, calc_crc(s))
    BY <2>4, <2>5
  <2>7. w[4] = x /\ w[5] = y
    <3>1. Len(s) >= 3 /\ Len(s) >= 4
      BY <2>3
    <3>2. QED
      BY <2>3, <2>6, <3>1, Fourth
  <2>8. HeadLen(w) = 5 /\ DataLen(w) = n /\ Len(s) = 5 - 1
    BY <2>1, <2>3, <2>7 DEF HeadLen, DataLen
  <2>9. s[1] = 4 * c + 3 /\ s[2] = type + pf
    BY <2>3 DEF a, b
  <2>10. QED
    BY <1>3, <2>3, <2>6, <2>8, <2>9, Spoken DEF w
<1>7. QED
  BY <1>5, <1>6

\* One bit of a byte.
OneBit == {1, 2, 4, 8, 16, 32, 64, 128}

\* One bit of a byte turned makes another byte; the address of one of the first
\* eight channels is not the flag by it.
LEMMA FlippedBit ==
  ASSUME NEW a \in Byte, NEW b \in OneBit
  PROVE  /\ ByteXor(a, b) \in Byte /\ ByteXor(a, b) # a
         /\ a < 32 => ByteXor(a, b) # Flag
<1>1. b \in Byte /\ 0 \in Byte /\ b # 0
  BY DEF OneBit, Byte
<1>2. ByteXor(a, b) \in Byte /\ ByteXor(a, 0) = a
  BY <1>1, XorFacts
<1>3. ByteXor(a, b) # a
  BY <1>1, <1>2, XorInjective
<1>4. ASSUME a < 32 PROVE ByteXor(a, b) # Flag
  <2>1. PICK i \in 0..15, j \in 0..15 : a \div 16 = i /\ a % 16 = j /\ i < 2
    <3>1. a \div 16 \in 0..15 /\ a % 16 \in 0..15 /\ a \div 16 < 2
      BY <1>4 DEF Byte
    <3>2. QED
      BY <3>1
  <2>2. PICK k \in 0..15, l \in 0..15 : b \div 16 = k /\ b % 16 = l /\ k <= 8
    <3>1. b \div 16 \in 0..15 /\ b % 16 \in 0..15 /\ b \div 16 <= 8
      BY DEF OneBit
    <3>2. QED
      BY <3>1
  <2>3. PICK x \in 0..15, y \in 0..15 : x = Nibbles[i][k] /\ y = Nibbles[j][l]
    BY NibbleFacts
  <2>4. x # 15
    <3>1. x = 15 <=> k = 15 - i
      BY <2>3, NibbleFacts
    <3>2. QED
      BY <2>1, <2>2, <3>1
  <2>5. ByteXor(a, b) = 16 * x + y
    BY <2>1, <2>2, <2>3 DEF ByteXor
  <2>6. QED
    BY <2>4, <2>5 DEF Flag
<1>5. QED
  BY <1>2, <1>3, <1>4

\* Frame v is frame w but for byte i, which no length depends on.
Scratched(v, w, i) ==
  /\ v \in Seq(Byte) /\ Len(v) = Len(w) /\ i \in {2, 3, Len(w) - 1}
  /\ v[i] # w[i] /\ v[2] # Flag
  /\ \A j \in 1..Len(w) : j # i => v[j] = w[j]

\* A frame with another address, control or check byte is as long as it was.
LEMMA ScratchedShape ==
  ASSUME NEW w \in Shapes, NEW v, NEW i, Scratched(v, w, i)
  PROVE  v \in Shapes /\ HeadLen(v) = HeadLen(w) /\ DataLen(v) = DataLen(w)
<1>1. PICK k \in {4, 5}, n \in Nat, m \in Nat :
        /\ k = HeadLen(w) /\ n = DataLen(w) /\ m = Len(w) /\ m = k + n + 2 /\ 6 <= m
        /\ w[1] = Flag /\ w[m] = Flag
  BY ShapeFacts
<1>2. v[1] = w[1] /\ v[m] = w[m] /\ v[4] = w[4]
  <2>1. 1 \in 1..m /\ m \in 1..m /\ 4 \in 1..m /\ 1 # i /\ m # i /\ 4 # i
    BY <1>1 DEF Scratched
  <2>2. QED
    BY <1>1, <2>1 DEF Scratched
<1>3. HeadLen(v) = k
  BY <1>1, <1>2 DEF HeadLen
<1>4. k = 5 => v[5] = w[5]
  <2>1. k = 5 => 5 \in 1..m /\ 5 # i
    BY <1>1 DEF Scratched
  <2>2. QED
    BY <1>1, <2>1 DEF Scratched
<1>5. DataLen(v) = n
  <2>1. w[4] % 2 = 0 => k = 5
    BY <1>1 DEF HeadLen
  <2>2. QED
    BY <1>1, <1>2, <1>4, <2>1 DEF DataLen
<1>6. v \in Shapes
  BY <1>1, <1>2, <1>3, <1>5 DEF Shapes, Scratched
<1>7. QED
  BY <1>1, <1>3, <1>5, <1>6

\* It is not good any more: its check sequence, or what that covers, differs in one
\* byte.
LEMMA ScratchedBad ==
  ASSUME NEW w \in Shapes, NEW v, NEW i, Scratched(v, w, i), Parse(w).good
  PROVE  v \in Shapes /\ ~Parse(v).good
<1>1. PICK k \in {4, 5}, m \in Nat :
        k = HeadLen(w) /\ m = Len(w) /\ 6 <= m /\ m >= k + 2
  BY ShapeFacts
<1>2. v \in Shapes /\ HeadLen(v) = k /\ Len(v) = m /\ v \in Seq(Byte) /\ w \in Seq(Byte)
  BY <1>1, ScratchedShape, ShapeFacts
<1>3. /\ Cover(w) \in Seq(Byte) /\ Len(Cover(w)) = k - 1
      /\ \A j \in 1..(k - 1) : Cover(w)[j] = w[j + 1]
  BY <1>1, CoverFacts
<1>4. /\ Cover(v) \in Seq(Byte) /\ Len(Cover(v)) = k - 1
      /\ \A j \in 1..(k - 1) : Cover(v)[j] = v[j + 1]
  BY <1>2, CoverFacts
<1>5. w[m - 1] = 255 - Fcs(Cover(w))
  BY <1>1, ParseFields
<1>6. ASSUME v[m - 1] = 255 - Fcs(Cover(v)) PROVE FALSE
  <2>1. CASE i = m - 1
    <3>1. \A j \in 1..(k - 1) : j + 1 \in 1..m /\ j + 1 # i
      BY <1>1, <2>1
    <3>2. \A j \in 1..(k - 1) : Cover(v)[j] = Cover(w)[j]
      BY <1>1, <1>3, <1>4, <3>1 DEF Scratched
    <3>3. Cover(v) = Cover(w)
      BY <1>3, <1>4, <3>2, SeqEqual
    <3>4. v[m - 1] = w[m - 1]
      BY <1>5, <1>6, <3>3
    <3>5. QED
      BY <2>1, <3>4 DEF Scratched
  <2>2. CASE i \in {2, 3}
    <3>1. PICK e \in 1..(k - 1) : e + 1 = i
      <4>1. i - 1 \in 1..(k - 1) /\ (i - 1) + 1 = i
        BY <2>2
      <4>2. QED
        BY <4>1
    <3>2. Cover(v)[e] # Cover(w)[e]
      BY <1>3, <1>4, <3>1 DEF Scratched
    <3>3. ASSUME NEW j \in 1..(k - 1), j # e PROVE Cover(v)[j] = Cover(w)[j]
      <4>1. j + 1 \in 1..m /\ j + 1 # i
        BY <1>1, <3>1, <3>3
      <4>2. v[j + 1] = w[j + 1]
        BY <1>1, <4>1 DEF Scratched
      <4>3. QED
        BY <1>3, <1>4, <4>2
    <3>4. DiffersAt(Cover(v), Cover(w), e)
      BY <1>3, <1>4, <3>2, <3>3 DEF DiffersAt
    <3>5. Fcs(Cover(v)) # Fcs(Cover(w))
      BY <1>3, <1>4, <3>4, FcsDiffers
    <3>6. v[m - 1] = w[m - 1]
      <4>1. m - 1 \in 1..m /\ m - 1 # i
        BY <1>1, <2>2
      <4>2. QED
        BY <1>1, <4>1 DEF Scratched
    <3>7. PICK x \in Byte, y \in Byte : x = Fcs(Cover(v)) /\ y = Fcs(Cover(w))
      BY <1>3, <1>4, FcsType
    <3>8. 255 - x = 255 - y
      BY <1>5, <1>6, <3>6, <3>7
    <3>9. x = y
      BY <3>8 DEF Byte
    <3>10. QED
      BY <3>5, <3>7, <3>9
  <2>3. QED
    BY <1>1, <2>1, <2>2 DEF Scratched
<1>7. Parse(v).good <=> v[m - 1] = 255 - Fcs(Cover(v))
  BY <1>2, ParseFields
<1>8. QED
  BY <1>2, <1>6, <1>7

(***************************************************************************)
(* A frame of the eight channels with one bit of its address, control or   *)
(* check byte wrong is as long as it was, and is refused: no two headers   *)
(* that differ in one byte have the same check sequence.  (mux.c:864-876)  *)
(***************************************************************************)
THEOREM Damaged ==
  ASSUME NEW w \in Shapes, Parse(w).good, w[2] < 32, NEW b \in OneBit,
         NEW i \in {2, 3, Len(w) - 1}
  PROVE  /\ [w EXCEPT ![i] = ByteXor(w[i], b)] \in Shapes
         /\ ~Parse([w EXCEPT ![i] = ByteXor(w[i], b)]).good
<1> DEFINE x == ByteXor(w[i], b)
           v == [w EXCEPT ![i] = x]
<1>1. PICK m \in Nat : m = Len(w) /\ 6 <= m /\ w \in Seq(Byte) /\ w[2] # Flag
  BY ShapeFacts
<1>2. i \in 1..m /\ w[i] \in Byte
  <2>1. i \in 1..m
    BY <1>1
  <2>2. QED
    BY <1>1, <2>1, ShapeFacts
<1>3. x \in Byte /\ x # w[i] /\ (w[i] < 32 => x # Flag)
  BY <1>2, FlippedBit
<1> HIDE DEF x
<1>4. /\ v \in Seq(Byte) /\ Len(v) = m /\ v[i] = x
      /\ \A j \in 1..m : j # i => v[j] = w[j]
  BY <1>1, <1>2, <1>3, ExceptSeq
<1> HIDE DEF v
<1>5. v[2] # Flag
  <2>1. 2 \in 1..m
    BY <1>1
  <2>2. QED
    BY <1>1, <1>3, <1>4, <2>1
<1>6. Scratched(v, w, i)
  BY <1>1, <1>3, <1>4, <1>5 DEF Scratched
<1>7. v \in Shapes /\ ~Parse(v).good
  BY <1>6, ScratchedBad
<1>8. QED
  BY <1>7 DEF v, x

-----------------------------------------------------------------------------
(* Cutting a sequence *)

\* The two parts of a sequence that is cut after n elements.
LEMMA CutFacts ==
  ASSUME NEW S, NEW s \in Seq(S), NEW n \in Nat, n <= Len(s)
  PROVE  /\ After(s, n) \in Seq(S) /\ Len(After(s, n)) = Len(s) - n
         /\ \A i \in 1..(Len(s) - n) : After(s, n)[i] = s[n + i]
         /\ SubSeq(s, 1, n) \in Seq(S) /\ Len(SubSeq(s, 1, n)) = n
         /\ \A i \in 1..n : SubSeq(s, 1, n)[i] = s[i]
         /\ Cat(SubSeq(s, 1, n), After(s, n)) = s
<1>1. PICK m \in Nat : m = Len(s) /\ n <= m
  BY LenProperties
<1>2. \A i \in 1..m : s[i] \in S
  BY <1>1, ElementOfSeq
<1>3. /\ SubSeq(s, n + 1, m) \in Seq(S)
      /\ Len(SubSeq(s, n + 1, m)) = IF n + 1 <= m THEN m - (n + 1) + 1 ELSE 0
      /\ \A i \in 1..(m - (n + 1) + 1) : SubSeq(s, n + 1, m)[i] = s[n + 1 + i - 1]
  <2>1. \A i \in (n + 1)..m : s[i] \in S
    BY <1>1, <1>2
  <2>2. QED
    BY <2>1, SubSeqProperties
<1>4. /\ SubSeq(s, 1, n) \in Seq(S)
      /\ Len(SubSeq(s, 1, n)) = IF 1 <= n THEN n - 1 + 1 ELSE 0
      /\ \A i \in 1..(n - 1 + 1) : SubSeq(s, 1, n)[i] = s[1 + i - 1]
  <2>1. \A i \in 1..n : s[i] \in S
    BY <1>1, <1>2
  <2>2. QED
    BY <2>1, SubSeqProperties
<1>5. /\ m - (n + 1) + 1 = m - n /\ (IF n + 1 <= m THEN m - (n + 1) + 1 ELSE 0) = m - n
      /\ \A i \in 1..(m - n) : n + 1 + i - 1 = n + i
      /\ n - 1 + 1 = n /\ (IF 1 <= n THEN n - 1 + 1 ELSE 0) = n
      /\ \A i \in 1..n : 1 + i - 1 = i
  BY <1>1
<1>6. /\ After(s, n) \in Seq(S) /\ Len(After(s, n)) = m - n
      /\ \A i \in 1..(m - n) : After(s, n)[i] = s[n + i]
  BY <1>1, <1>3, <1>5 DEF After
<1>7. /\ SubSeq(s, 1, n) \in Seq(S) /\ Len(SubSeq(s, 1, n)) = n
      /\ \A i \in 1..n : SubSeq(s, 1, n)[i] = s[i]
  BY <1>4, <1>5
<1>8. Cat(SubSeq(s, 1, n), After(s, n)) = s
  <2> DEFINE a == SubSeq(s, 1, n)
             b == After(s, n)
             c == Cat(a, b)
  <2>1. c \in Seq(S) /\ Joined(c, a, b)
    BY <1>6, <1>7, CatProperties, CatJoined
  <2> HIDE DEF a, b, c
  <2>2. Len(c) = m /\ (\A i \in 1..n : c[i] = a[i]) /\ \A i \in 1..(m - n) : c[n + i] = b[i]
    BY <1>1, <1>6, <1>7, <2>1 DEF Joined, a, b
  <2>3. ASSUME NEW i \in 1..m PROVE c[i] = s[i]
    <3>1. CASE i <= n
      <4>1. i \in 1..n
        BY <3>1
      <4>2. QED
        BY <1>7, <2>2, <4>1 DEF a
    <3>2. CASE i > n
      <4>1. PICK j \in 1..(m - n) : n + j = i
        <5>1. i - n \in 1..(m - n) /\ n + (i - n) = i
          BY <3>2
        <5>2. QED
          BY <5>1
      <4>2. QED
        BY <1>6, <2>2, <4>1 DEF b
    <3>3. QED
      BY <3>1, <3>2
  <2>4. c = s
    BY <1>1, <2>1, <2>2, <2>3, SeqEqual
  <2>5. QED
    BY <2>4 DEF a, b, c
<1>9. QED
  BY <1>1, <1>6, <1>7, <1>8

\* What two ways of cutting the same bytes have in common.
LEMMA CutBoth ==
  ASSUME NEW S, NEW a \in Seq(S), NEW k \in Seq(S), NEW e \in Seq(S), NEW f \in Seq(S),
         Cat(a, k) = Cat(e, f), NEW n \in Nat, n <= Len(a), n <= Len(e)
  PROVE  /\ SubSeq(a, 1, n) = SubSeq(e, 1, n)
         /\ Cat(After(a, n), k) = Cat(After(e, n), f)
<1> DEFINE a1 == SubSeq(a, 1, n)
           a2 == After(a, n)
           e1 == SubSeq(e, 1, n)
           e2 == After(e, n)
<1>1. a1 \in Seq(S) /\ a2 \in Seq(S) /\ Len(a1) = n /\ Cat(a1, a2) = a
  BY CutFacts
<1>2. e1 \in Seq(S) /\ e2 \in Seq(S) /\ Len(e1) = n /\ Cat(e1, e2) = e
  BY CutFacts
<1> HIDE DEF a1, a2, e1, e2
<1>3. Cat(a1, Cat(a2, k)) = Cat(e1, Cat(e2, f))
  BY <1>1, <1>2, CatAssociative
<1>4. Cat(a2, k) \in Seq(S) /\ Cat(e2, f) \in Seq(S)
  BY <1>1, <1>2, CatProperties
<1>5. a1 = e1 /\ Cat(a2, k) = Cat(e2, f)
  BY <1>1, <1>2, <1>3, <1>4, SameParts
<1>6. QED
  BY <1>5 DEF a1, a2, e1, e2

\* A cut after the first.
LEMMA AfterOne ==
  ASSUME NEW S, NEW s \in Seq(S), s # <<>>
  PROVE  /\ Len(s) \in Nat /\ 1 <= Len(s)
         /\ Head(s) = s[1] /\ s[1] \in S /\ Tail(s) = After(s, 1) /\ Tail(s) \in Seq(S)
         /\ Len(Tail(s)) = Len(s) - 1
<1>1. PICK m \in Nat : m = Len(s) /\ 1 <= m
  BY LenProperties, EmptySeq
<1>2. Head(s) = s[1] /\ Tail(s) = SubSeq(s, 2, Len(s))
  OBVIOUS
<1>3. Tail(s) = After(s, 1)
  <2>1. 1 + 1 = 2
    OBVIOUS
  <2>2. QED
    BY <1>2, <2>1 DEF After
<1>4. /\ After(s, 1) \in Seq(S) /\ Len(After(s, 1)) = Len(s) - 1
  BY <1>1, CutFacts
<1>5. s[1] \in S
  BY <1>1, ElementOfSeq
<1>6. QED
  BY <1>1, <1>2, <1>3, <1>4, <1>5

\* A second cut.
LEMMA AfterAfter ==
  ASSUME NEW S, NEW s \in Seq(S), NEW k \in Nat, NEW n \in Nat, k + n <= Len(s)
  PROVE  /\ After(After(s, k), n) = After(s, k + n)
         /\ Cat(SubSeq(s, 1, k), SubSeq(After(s, k), 1, n)) = SubSeq(s, 1, k + n)
<1>1. PICK m \in Nat : m = Len(s) /\ k + n <= m /\ k <= m
  BY LenProperties
<1> DEFINE a == SubSeq(s, 1, k)
           r == After(s, k)
           b == SubSeq(r, 1, n)
           c == After(r, n)
           d == SubSeq(s, 1, k + n)
           e == After(s, k + n)
<1>2. a \in Seq(S) /\ r \in Seq(S) /\ Len(a) = k /\ Len(r) = m - k /\ Cat(a, r) = s
  BY <1>1, CutFacts
<1>3. n <= m - k /\ k + n \in Nat
  BY <1>1
<1> HIDE DEF a, r
<1>4. b \in Seq(S) /\ c \in Seq(S) /\ Len(b) = n /\ Cat(b, c) = r
  BY <1>2, <1>3, CutFacts
<1>5. d \in Seq(S) /\ e \in Seq(S) /\ Len(d) = k + n /\ Cat(d, e) = s
  BY <1>1, <1>3, CutFacts
<1> HIDE DEF b, c, d, e
<1>6. Cat(Cat(a, b), c) = Cat(d, e)
  BY <1>2, <1>4, <1>5, CatAssociative
<1>7. Cat(a, b) \in Seq(S) /\ Len(Cat(a, b)) = k + n
  BY <1>2, <1>4, CatProperties, CatJoined DEF Joined
<1>8. Cat(a, b) = d /\ c = e
  BY <1>4, <1>5, <1>6, <1>7, SameParts
<1>9. QED
  BY <1>8 DEF a, b, c, d, e, r

-----------------------------------------------------------------------------
(* The bytes that a while loop of the decoder leaves *)

\* The loops end at once, after the first byte, or with the read.
LEMMA UpToFirst ==
  ASSUME NEW bs \in Seq(Byte), bs # <<>>, NEW b \in BOOLEAN
  PROVE  /\ (bs[1] = Flag) = b => UpTo(b, bs) = bs
         /\ (bs[1] = Flag) # b /\ Len(bs) = 1 => UpTo(b, bs) = <<>>
         /\ (bs[1] = Flag) # b /\ Len(bs) > 1 /\ (bs[2] = Flag) = b => UpTo(b, bs) = Tail(bs)
<1> DEFINE found == {i \in 1..Len(bs) : (bs[i] = Flag) = b}
<1>1. PICK m \in Nat : m = Len(bs) /\ 1 <= m
  BY AfterOne
<1>2. UpTo(b, bs) = IF found = {} THEN <<>> ELSE After(bs, Min(found) - 1)
  BY DEF UpTo
<1>3. \A x \in found : (\A y \in found : x <= y) => Min(found) = x
  <2>1. found \subseteq Nat
    BY <1>1
  <2>2. \A x, y \in found : x <= y /\ y <= x => x = y
    BY <2>1
  <2> HIDE DEF found
  <2>3. QED
    BY <2>2 DEF Min
<1>4. ASSUME (bs[1] = Flag) = b PROVE UpTo(b, bs) = bs
  <2>1. 1 \in found /\ \A y \in found : 1 <= y
    BY <1>1, <1>4
  <2>2. Min(found) = 1
    BY <1>3, <2>1
  <2>3. UpTo(b, bs) = After(bs, 1 - 1)
    BY <1>2, <2>1, <2>2
  <2>4. 1 - 1 = 0 /\ 0 + 1 = 1
    OBVIOUS
  <2>5. After(bs, 0) = bs
    BY <1>1, <2>4, Whole DEF After
  <2>6. QED
    BY <2>3, <2>4, <2>5
<1>5. ASSUME (bs[1] = Flag) # b, Len(bs) = 1 PROVE UpTo(b, bs) = <<>>
  <2>1. found = {}
    BY <1>5
  <2>2. QED
    BY <1>2, <2>1
<1>6. ASSUME (bs[1] = Flag) # b, Len(bs) > 1, (bs[2] = Flag) = b PROVE UpTo(b, bs) = Tail(bs)
  <2>1. 2 \in found /\ \A y \in found : 2 <= y
    BY <1>1, <1>6
  <2>2. Min(found) = 2
    BY <1>3, <2>1
  <2>3. UpTo(b, bs) = After(bs, 2 - 1)
    BY <1>2, <2>1, <2>2
  <2>4. 2 - 1 = 1
    OBVIOUS
  <2>5. QED
    BY <2>3, <2>4, AfterOne
<1>7. QED
  BY <1>4, <1>5, <1>6

-----------------------------------------------------------------------------
(* Where the decoder is in the stream *)

\* The states of tcore_cmux_rcv_from_hal (mux.c:885-891).
Decoding == {"FLAG", "ADDR", "CONTROL", "LENGTH1", "LENGTH2", "DATA", "FCS"}
IsDecoder(d) ==
  /\ DOMAIN d = {"at", "buf", "left"} /\ d.at \in Decoding /\ d.buf \in Seq(Byte)

\* The decoder has taken k bytes of frame w.
Inside(d, w, k) ==
  /\ k \in 1..(Len(w) - 2)
  /\ \/ d.at = "ADDR" /\ k = 1
     \/ d.at = "CONTROL" /\ k = 2
     \/ d.at = "LENGTH1" /\ k = 3
     \/ d.at = "LENGTH2" /\ k = 4 /\ HeadLen(w) = 5 /\ d.left = w[4] \div 2
     \/ d.at = "DATA" /\ k >= HeadLen(w) /\ d.left = HeadLen(w) + DataLen(w) - k
     \/ d.at = "FCS" /\ k = HeadLen(w) + DataLen(w)
  /\ k > 1 => d.buf = SubSeq(w, 1, k)

\* The decoder, the bytes that it will get and the frames that it has not completed:
\* it is between two frames, before or after the closing flag of the first, or in one.
Aligned(d, bytes, q) ==
  /\ IsDecoder(d) /\ bytes \in Seq(Byte) /\ q \in Seq(Shapes)
  /\ \/ d.at \in {"FLAG", "ADDR"} /\ bytes = FlattenSeq(q)
     \/ d.at = "FLAG" /\ bytes = Cat(<<Flag>>, FlattenSeq(q))
     \/ /\ q # <<>>
        /\ \E k \in Nat : /\ Inside(d, Head(q), k)
                          /\ bytes = Cat(After(Head(q), k), FlattenSeq(Tail(q)))

\* The bytes of frames, those of the first and of the rest.
LEMMA FramesBytes ==
  ASSUME NEW q \in Seq(Shapes)
  PROVE  /\ FlattenSeq(q) \in Seq(Byte)
         /\ q # <<>> => /\ Head(q) \in Shapes /\ Tail(q) \in Seq(Shapes)
                        /\ FlattenSeq(q) = Cat(Head(q), FlattenSeq(Tail(q)))
<1>1. Shapes \subseteq Seq(Byte)
  BY DEF Shapes
<1>2. q \in Seq(Seq(Byte))
  BY <1>1
<1>3. FlattenSeq(q) \in Seq(Byte)
  BY <1>2, FlatType
<1>4. ASSUME q # <<>>
      PROVE  /\ Head(q) \in Shapes /\ Tail(q) \in Seq(Shapes)
             /\ FlattenSeq(q) = Cat(Head(q), FlattenSeq(Tail(q)))
  <2>1. Head(q) \in Shapes /\ Tail(q) \in Seq(Shapes)
    BY <1>4, AfterOne
  <2>2. FlattenSeq(q) = Cat(Head(q), FlattenSeq(Tail(q)))
    BY <1>2, <1>4, FlatHead DEF Cat
  <2>3. QED
    BY <2>1, <2>2
<1>5. QED
  BY <1>3, <1>4

\* In the middle of a frame, the next byte of the stream is the frame's.
LEMMA MidByte ==
  ASSUME NEW w \in Shapes, NEW k \in Nat, k <= Len(w) - 2,
         NEW rest \in Seq(Byte), rest # <<>>, NEW L \in Seq(Byte), NEW F \in Seq(Byte),
         Cat(rest, L) = Cat(After(w, k), F)
  PROVE  /\ Head(rest) = w[k + 1] /\ w[k + 1] \in Byte
         /\ Cat(Tail(rest), L) = Cat(After(w, k + 1), F)
         /\ Append(SubSeq(w, 1, k), w[k + 1]) = SubSeq(w, 1, k + 1)
<1>1. PICK m \in Nat : m = Len(w) /\ w \in Seq(Byte) /\ k + 1 <= m /\ k <= m
  BY ShapeFacts
<1> DEFINE p == After(w, k)
<1>2. p \in Seq(Byte) /\ Len(p) = m - k /\ \A i \in 1..(m - k) : p[i] = w[k + i]
  BY <1>1, CutFacts
<1> HIDE DEF p
<1>3. p # <<>> /\ 1 \in 1..(m - k)
  <2>1. Len(p) # 0 /\ 1 \in 1..(m - k)
    BY <1>1, <1>2
  <2>2. Len(<<>>) = 0
    OBVIOUS
  <2>3. QED
    BY <2>1, <2>2
<1>4. rest[1] = p[1]
  BY <1>2, <1>3, SameStart DEF p
<1>5. Head(rest) = rest[1] /\ Tail(rest) = After(rest, 1) /\ 1 <= Len(rest)
  BY AfterOne
<1>6. 1 <= Len(p)
  BY <1>1, <1>2
<1>7. Cat(After(rest, 1), L) = Cat(After(p, 1), F)
  BY <1>2, <1>5, <1>6, CutBoth DEF p
<1>8. After(p, 1) = After(w, k + 1)
  BY <1>1, AfterAfter DEF p
<1>9. w[k + 1] \in Byte
  <2>1. k + 1 \in 1..m
    BY <1>1
  <2>2. QED
    BY <1>1, <2>1, ElementOfSeq
<1>10. Append(SubSeq(w, 1, k), w[k + 1]) = SubSeq(w, 1, k + 1)
  <2>1. k < Len(w)
    BY <1>1
  <2>2. QED
    BY <1>1, <2>1, Beginning
<1>11. QED
  BY <1>2, <1>3, <1>4, <1>5, <1>7, <1>8, <1>9, <1>10

\* And so are the next bytes.
LEMMA MidBytes ==
  ASSUME NEW w \in Shapes, NEW k \in Nat, NEW n \in Nat, k + n <= Len(w),
         NEW rest \in Seq(Byte), n <= Len(rest), NEW L \in Seq(Byte), NEW F \in Seq(Byte),
         Cat(rest, L) = Cat(After(w, k), F)
  PROVE  /\ Cat(SubSeq(w, 1, k), SubSeq(rest, 1, n)) = SubSeq(w, 1, k + n)
         /\ Cat(After(rest, n), L) = Cat(After(w, k + n), F)
<1>1. PICK m \in Nat : m = Len(w) /\ w \in Seq(Byte) /\ k + n <= m /\ k <= m
  BY ShapeFacts
<1> DEFINE p == After(w, k)
<1>2. p \in Seq(Byte) /\ Len(p) = m - k /\ n <= m - k
  BY <1>1, CutFacts
<1>3. After(p, n) = After(w, k + n) /\ Cat(SubSeq(w, 1, k), SubSeq(p, 1, n)) = SubSeq(w, 1, k + n)
  BY <1>1, AfterAfter
<1> HIDE DEF p
<1>4. n <= Len(p) /\ Cat(rest, L) = Cat(p, F)
  BY <1>2 DEF p
<1>5. SubSeq(rest, 1, n) = SubSeq(p, 1, n) /\ Cat(After(rest, n), L) = Cat(After(p, n), F)
  BY <1>2, <1>4, CutBoth
<1>6. QED
  BY <1>3, <1>5

\* Between two frames, the next byte is a flag and the one behind it is not.
LEMMA StartByte ==
  ASSUME NEW q \in Seq(Shapes), NEW rest \in Seq(Byte), rest # <<>>, NEW L \in Seq(Byte),
         Cat(rest, L) = FlattenSeq(q)
  PROVE  /\ q # <<>> /\ rest[1] = Flag
         /\ Cat(Tail(rest), L) = Cat(After(Head(q), 1), FlattenSeq(Tail(q)))
<1>1. q # <<>>
  <2>1. SUFFICES ASSUME q = <<>> PROVE FALSE
    OBVIOUS
  <2>2. Cat(rest, L) = <<>>
    BY <2>1, FlatEmpty
  <2>3. Len(Cat(rest, L)) = Len(rest) + Len(L) /\ Len(L) \in Nat /\ Len(rest) \in Nat /\ 1 <= Len(rest)
    BY CatJoined, AfterOne, LenProperties DEF Joined
  <2>4. Len(<<>>) = 0
    OBVIOUS
  <2>5. QED
    BY <2>2, <2>3, <2>4
<1> DEFINE w == Head(q)
           F == FlattenSeq(Tail(q))
<1>2. w \in Shapes /\ F \in Seq(Byte) /\ Cat(rest, L) = Cat(w, F)
  BY <1>1, FramesBytes
<1> HIDE DEF w, F
<1>3. After(w, 0) = w /\ w \in Seq(Byte) /\ 0 <= Len(w) - 2 /\ w[1] = Flag
  <2>1. w \in Seq(Byte) /\ 6 <= Len(w) /\ Len(w) \in Nat /\ w[1] = Flag
    BY <1>2, ShapeFacts
  <2>2. 0 + 1 = 1 /\ 0 <= Len(w) - 2
    BY <2>1
  <2>3. QED
    BY <2>1, <2>2, Whole DEF After
<1>4. Cat(rest, L) = Cat(After(w, 0), F)
  BY <1>2, <1>3
<1>5. 0 + 1 = 1
  OBVIOUS
<1>6. Head(rest) = w[0 + 1] /\ Cat(Tail(rest), L) = Cat(After(w, 0 + 1), F)
  BY <1>2, <1>3, <1>4, MidByte
<1>7. Head(rest) = rest[1]
  BY AfterOne
<1>8. QED
  BY <1>1, <1>3, <1>5, <1>6, <1>7 DEF w, F

-----------------------------------------------------------------------------
(* A step of the decoder *)

\* A step takes a byte, or goes from the end of the data to the check sequence.
ToDo(d, s) == 2 * Len(s) - IF d.at = "FCS" THEN 1 ELSE 0

\* The step goes on in the stream, or completes its first frame.
Onward(r, d, rest, L, q) ==
  /\ r.rest \in Seq(Byte) /\ ToDo(r.dec, r.rest) < ToDo(d, rest)
  /\ \/ r.frame = <<>> /\ Aligned(r.dec, Cat(r.rest, L), q)
     \/ q # <<>> /\ r.frame = Head(q) /\ Aligned(r.dec, Cat(r.rest, L), Tail(q))

\* A step that takes a byte has less to do.
LEMMA Taken ==
  ASSUME NEW d, d.at # "FCS", NEW rest \in Seq(Byte), rest # <<>>,
         NEW e, NEW s \in Seq(Byte), Len(s) < Len(rest)
  PROVE  ToDo(e, s) < ToDo(d, rest)
<1>1. PICK m \in Nat, n \in Nat : m = Len(rest) /\ n = Len(s) /\ n < m
  BY LenProperties
<1>2. 2 * n - 1 < 2 * m /\ 2 * n < 2 * m
  BY <1>1
<1>3. QED
  BY <1>1, <1>2 DEF ToDo

\* The decoder at the start, and after a flag.
LEMMA Hunts == IsDecoder(Hunting) /\ Hunting.at = "FLAG"
               /\ IsDecoder([Hunting EXCEPT !.at = "ADDR"])
               /\ [Hunting EXCEPT !.at = "ADDR"].at = "ADDR"
  BY DEF Hunting, IsDecoder, Decoding

\* FLAG_HUNT: the closing flag of the last frame or the opening one of the next.
LEMMA FlagHuntOn ==
  ASSUME NEW d, NEW rest \in Seq(Byte), rest # <<>>, NEW L \in Seq(Byte), NEW q,
         Aligned(d, Cat(rest, L), q), d.at = "FLAG"
  PROVE  Onward(FlagHunt(d, rest), d, rest, L, q)
<1> DEFINE r == FlagHunt(d, rest)
           e == [Hunting EXCEPT !.at = "ADDR"]
           one == <<Flag>>
<1>1. q \in Seq(Shapes) /\ FlattenSeq(q) \in Seq(Byte)
  BY FramesBytes DEF Aligned
<1>2. Cat(rest, L) = FlattenSeq(q) \/ Cat(rest, L) = Cat(one, FlattenSeq(q))
  <2>1. \A w, k : ~Inside(d, w, k)
    BY DEF Inside
  <2>2. QED
    BY <2>1 DEF Aligned
<1>3. /\ one \in Seq(Byte) /\ Len(one) = 1 /\ one[1] = Flag /\ one # <<>>
      /\ After(one, 1) = <<>>
  BY DEF Flag, Byte, After
<1> HIDE DEF one
<1>4. rest[1] = Flag
  <2>1. CASE Cat(rest, L) = FlattenSeq(q)
    BY <1>1, <2>1, StartByte
  <2>2. CASE Cat(rest, L) = Cat(one, FlattenSeq(q))
    <3>1. rest[1] = one[1]
      BY <1>1, <1>3, <2>2, SameStart
    <3>2. QED
      BY <1>3, <3>1
  <2>3. QED
    BY <1>2, <2>1, <2>2
<1>5. UpTo(TRUE, rest) = rest
  <2>1. (rest[1] = Flag) = TRUE
    BY <1>4
  <2>2. QED
    BY <2>1, UpToFirst
<1>6. r = Decoded(e, Tail(rest))
  BY <1>5 DEF FlagHunt
<1>7. r.dec = e /\ r.rest = Tail(rest) /\ r.frame = <<>>
  BY <1>6 DEF Decoded
<1>8. Tail(rest) \in Seq(Byte) /\ Len(Tail(rest)) < Len(rest) /\ Tail(rest) = After(rest, 1)
      /\ 1 <= Len(rest)
  BY AfterOne
<1>9. IsDecoder(e) /\ e.at = "ADDR"
  BY Hunts
<1> HIDE DEF r, e
<1>10. Cat(Tail(rest), L) \in Seq(Byte)
  BY <1>8, CatProperties
<1>11. Aligned(e, Cat(Tail(rest), L), q)
  <2>1. CASE Cat(rest, L) = FlattenSeq(q)
    <3>1. q # <<>> /\ Cat(Tail(rest), L) = Cat(After(Head(q), 1), FlattenSeq(Tail(q)))
      BY <1>1, <2>1, StartByte
    <3>2. 1 \in 1..(Len(Head(q)) - 2) /\ ~(1 > 1) /\ 1 \in Nat
      BY <1>1, <3>1, FramesBytes, ShapeFacts
    <3>3. Inside(e, Head(q), 1)
      BY <1>9, <3>2 DEF Inside
    <3>4. QED
      BY <1>1, <1>9, <1>10, <3>1, <3>2, <3>3 DEF Aligned
  <2>2. CASE Cat(rest, L) = Cat(one, FlattenSeq(q))
    <3>1. Cat(After(rest, 1), L) = Cat(After(one, 1), FlattenSeq(q))
      BY <1>1, <1>3, <1>8, <2>2, CutBoth
    <3>2. Cat(<<>>, FlattenSeq(q)) = FlattenSeq(q)
      BY <1>1, CatProperties
    <3>3. Cat(Tail(rest), L) = FlattenSeq(q)
      BY <1>3, <1>8, <3>1, <3>2
    <3>4. QED
      BY <1>1, <1>9, <1>10, <3>3 DEF Aligned
  <2>3. QED
    BY <1>2, <2>1, <2>2
<1>12. ToDo(e, Tail(rest)) < ToDo(d, rest)
  <2>1. d.at # "FCS"
    OBVIOUS
  <2>2. QED
    BY <1>8, <2>1, Taken
<1>13. QED
  BY <1>7, <1>8, <1>11, <1>12 DEF Onward, r

\* What the decoder has of the frame it is in.
LEMMA Amid ==
  ASSUME NEW d, NEW bytes, NEW q, Aligned(d, bytes, q), d.at \notin {"FLAG", "ADDR"}
  PROVE  /\ IsDecoder(d) /\ q \in Seq(Shapes) /\ q # <<>> /\ Head(q) \in Shapes
         /\ FlattenSeq(Tail(q)) \in Seq(Byte)
         /\ \E k \in Nat : /\ Inside(d, Head(q), k)
                           /\ bytes = Cat(After(Head(q), k), FlattenSeq(Tail(q)))
<1>1. /\ IsDecoder(d) /\ q \in Seq(Shapes) /\ q # <<>>
      /\ \E k \in Nat : /\ Inside(d, Head(q), k)
                        /\ bytes = Cat(After(Head(q), k), FlattenSeq(Tail(q)))
  BY DEF Aligned
<1>2. Head(q) \in Shapes /\ Tail(q) \in Seq(Shapes)
  BY <1>1, FramesBytes
<1>3. FlattenSeq(Tail(q)) \in Seq(Byte)
  BY <1>2, FramesBytes
<1>4. QED
  BY <1>1, <1>2, <1>3

\* One byte of the frame is stored.
LEMMA OneByte ==
  ASSUME NEW d, NEW rest \in Seq(Byte), rest # <<>>, NEW L \in Seq(Byte),
         NEW q \in Seq(Shapes), q # <<>>, NEW k \in Nat, k <= Len(Head(q)) - 2,
         Cat(rest, L) = Cat(After(Head(q), k), FlattenSeq(Tail(q))), d.at # "FCS",
         NEW e, IsDecoder(e), Inside(e, Head(q), k + 1)
  PROVE  Onward(Decoded(e, Tail(rest)), d, rest, L, q)
<1> DEFINE r == Decoded(e, Tail(rest))
<1>1. r.dec = e /\ r.rest = Tail(rest) /\ r.frame = <<>>
  BY DEF Decoded
<1> HIDE DEF r
<1>2. Head(q) \in Shapes /\ Tail(q) \in Seq(Shapes)
  BY FramesBytes
<1>3. FlattenSeq(Tail(q)) \in Seq(Byte)
  BY <1>2, FramesBytes
<1>4. Cat(Tail(rest), L) = Cat(After(Head(q), k + 1), FlattenSeq(Tail(q)))
  BY <1>2, <1>3, MidByte
<1>5. Tail(rest) \in Seq(Byte) /\ Len(Tail(rest)) < Len(rest)
  BY AfterOne
<1>6. Cat(Tail(rest), L) \in Seq(Byte)
  BY <1>5, CatProperties
<1>7. Aligned(e, Cat(Tail(rest), L), q)
  <2>1. k + 1 \in Nat
    OBVIOUS
  <2>2. QED
    BY <1>4, <1>6, <2>1 DEF Aligned
<1>8. ToDo(e, Tail(rest)) < ToDo(d, rest)
  BY <1>5, Taken
<1>9. QED
  BY <1>1, <1>5, <1>7, <1>8 DEF Onward, r

\* ADDR_HUNT: a second flag is passed over, the address is stored.
LEMMA AddrHuntOn ==
  ASSUME NEW d, NEW rest \in Seq(Byte), rest # <<>>, NEW L \in Seq(Byte), NEW q,
         Aligned(d, Cat(rest, L), q), d.at = "ADDR"
  PROVE  Onward(AddrHunt(d, rest), d, rest, L, q)
<1> DEFINE E(b) == [d EXCEPT !.at = "CONTROL", !.buf = <<Flag, b>>]
           w == Head(q)
<1>1. q \in Seq(Shapes) /\ FlattenSeq(q) \in Seq(Byte) /\ IsDecoder(d)
  BY FramesBytes DEF Aligned
<1>2. \A b : E(b).at = "CONTROL" /\ E(b).buf = <<Flag, b>> /\ DOMAIN E(b) = {"at", "buf", "left"}
  BY <1>1 DEF IsDecoder
<1>3. \/ Cat(rest, L) = FlattenSeq(q)
      \/ q # <<>> /\ Cat(rest, L) = Cat(After(w, 1), FlattenSeq(Tail(q)))
  <2>1. \A u, k : Inside(d, u, k) => k = 1
    BY DEF Inside
  <2>2. QED
    BY <2>1 DEF Aligned
<1>4. q # <<>>
  BY <1>1, <1>3, StartByte
<1>5. w \in Shapes /\ Tail(q) \in Seq(Shapes) /\ 6 <= Len(w) /\ w[1] = Flag /\ w[2] # Flag
      /\ w[2] \in Byte /\ w \in Seq(Byte) /\ Len(w) \in Nat
  <2>1. w \in Shapes /\ Tail(q) \in Seq(Shapes)
    BY <1>1, <1>4, FramesBytes
  <2>2. 6 <= Len(w) /\ w[1] = Flag /\ w[2] # Flag /\ w \in Seq(Byte) /\ Len(w) \in Nat
        /\ \A i \in 1..Len(w) : w[i] \in Byte
    BY <2>1, ShapeFacts
  <2>3. 2 \in 1..Len(w)
    BY <2>2
  <2>4. QED
    BY <2>1, <2>2, <2>3
<1>6. FlattenSeq(Tail(q)) \in Seq(Byte)
  BY <1>5, FramesBytes
<1>7. 1 \in Nat /\ 2 \in Nat /\ 1 <= Len(w) - 2 /\ 1 + 1 = 2 /\ 2 \in 1..(Len(w) - 2) /\ 2 > 1
      /\ 1 \in 1..(Len(w) - 2) /\ ~(1 > 1)
  BY <1>5
<1>8. IsDecoder(E(w[2])) /\ Inside(E(w[2]), w, 2)
  <2> DEFINE e == E(w[2])
  <2>1. e.at = "CONTROL" /\ e.buf = <<Flag, w[2]>> /\ DOMAIN e = {"at", "buf", "left"}
    BY <1>2
  <2> HIDE DEF e
  <2> DEFINE pair == <<Flag, w[2]>>
  <2>2. pair \in Seq(Byte) /\ Len(pair) = 2 /\ pair[1] = w[1] /\ pair[2] = w[2]
    BY <1>5 DEF Flag, Byte
  <2>3. SubSeq(w, 1, 2) = pair
    <3> HIDE DEF pair
    <3>1. /\ SubSeq(w, 1, 2) \in Seq(Byte) /\ Len(SubSeq(w, 1, 2)) = 2
          /\ \A i \in 1..2 : SubSeq(w, 1, 2)[i] = w[i]
      BY <1>5, CutFacts
    <3>2. \A i \in 1..2 : i = 1 \/ i = 2
      OBVIOUS
    <3>3. QED
      BY <2>2, <3>1, <3>2, SeqEqual
  <2>4. IsDecoder(e)
    BY <2>1, <2>2 DEF IsDecoder, Decoding
  <2>5. Inside(e, w, 2)
    BY <1>7, <2>1, <2>3 DEF Inside
  <2>6. QED
    BY <2>4, <2>5 DEF e
<1> HIDE DEF E
<1>9. d.at # "FCS"
  OBVIOUS
<1>10. CASE Cat(rest, L) = Cat(After(w, 1), FlattenSeq(Tail(q)))
  <2>1. Head(rest) = w[2]
    BY <1>5, <1>6, <1>7, <1>10, MidByte
  <2>2. UpTo(FALSE, rest) = rest
    <3>1. (rest[1] = Flag) = FALSE
      BY <1>5, <2>1, AfterOne
    <3>2. QED
      BY <3>1, UpToFirst
  <2>3. AddrHunt(d, rest) = Decoded(E(w[2]), Tail(rest))
    BY <2>1, <2>2 DEF AddrHunt, E
  <2>4. Onward(Decoded(E(w[2]), Tail(rest)), d, rest, L, q)
    <3>1. Inside(E(w[2]), w, 1 + 1)
      BY <1>7, <1>8
    <3>2. QED
      BY <1>1, <1>4, <1>7, <1>8, <1>9, <1>10, <3>1, OneByte
  <2>5. QED
    BY <2>3, <2>4
<1>11. CASE Cat(rest, L) = FlattenSeq(q)
  <2>1. rest[1] = Flag /\ Cat(Tail(rest), L) = Cat(After(w, 1), FlattenSeq(Tail(q)))
    BY <1>1, <1>11, StartByte
  <2>2. Tail(rest) \in Seq(Byte) /\ Len(Tail(rest)) < Len(rest) /\ Tail(rest) = After(rest, 1)
        /\ 1 <= Len(rest) /\ Len(rest) \in Nat /\ Len(Tail(rest)) = Len(rest) - 1
    BY AfterOne
  <2>3. (rest[1] = Flag) # FALSE
    BY <2>1
  <2>4. CASE Len(rest) = 1
    <3>1. Tail(rest) = <<>>
      <4>1. Len(Tail(rest)) = 0
        BY <2>2, <2>4
      <4>2. QED
        BY <2>2, <4>1, EmptySeq
    <3>2. UpTo(FALSE, rest) = <<>>
      BY <2>3, <2>4, UpToFirst
    <3>3. AddrHunt(d, rest) = Decoded(d, Tail(rest))
      BY <3>1, <3>2 DEF AddrHunt
    <3> DEFINE r == Decoded(d, Tail(rest))
    <3>4. r.dec = d /\ r.rest = Tail(rest) /\ r.frame = <<>>
      BY DEF Decoded
    <3> HIDE DEF r
    <3>5. Inside(d, w, 1)
      BY <1>7 DEF Inside
    <3>6. Aligned(d, Cat(Tail(rest), L), q)
      <4>1. Cat(Tail(rest), L) \in Seq(Byte)
        BY <2>2, CatProperties
      <4>2. QED
        BY <1>1, <1>4, <1>7, <2>1, <3>5, <4>1 DEF Aligned
    <3>7. ToDo(d, Tail(rest)) < ToDo(d, rest)
      BY <1>9, <2>2, Taken
    <3>8. Onward(r, d, rest, L, q)
      BY <2>2, <3>4, <3>6, <3>7 DEF Onward
    <3>9. QED
      BY <3>3, <3>8 DEF r
  <2>5. CASE Len(rest) > 1
    <3> DEFINE s == Tail(rest)
    <3>1. s \in Seq(Byte) /\ s # <<>>
      <4>1. Len(s) # 0
        BY <2>2, <2>5
      <4>2. Len(<<>>) = 0
        OBVIOUS
      <4>3. QED
        BY <2>2, <4>1, <4>2
    <3>2. Cat(s, L) = Cat(After(w, 1), FlattenSeq(Tail(q)))
      BY <2>1
    <3>3. s[1] = rest[2]
      <4>1. \A i \in 1..(Len(rest) - 1) : After(rest, 1)[i] = rest[1 + i]
        BY <2>2, CutFacts
      <4>2. 1 \in 1..(Len(rest) - 1)
        BY <2>2, <2>5
      <4>3. QED
        BY <1>7, <2>2, <4>1, <4>2
    <3> HIDE DEF s
    <3>4. Head(s) = w[2] /\ Head(s) = s[1]
      BY <1>5, <1>6, <1>7, <3>1, <3>2, MidByte, AfterOne
    <3>5. UpTo(FALSE, rest) = s
      <4>1. (rest[2] = Flag) = FALSE
        BY <1>5, <3>3, <3>4
      <4>2. QED
        BY <2>3, <2>5, <4>1, UpToFirst DEF s
    <3>6. AddrHunt(d, rest) = Decoded(E(w[2]), Tail(s))
      BY <3>1, <3>4, <3>5 DEF AddrHunt, E
    <3>7. Onward(Decoded(E(w[2]), Tail(s)), d, s, L, q)
      <4>1. Inside(E(w[2]), w, 1 + 1)
        BY <1>7, <1>8
      <4>2. QED
        BY <1>1, <1>4, <1>7, <1>8, <1>9, <3>1, <3>2, <4>1, OneByte
    <3>8. ToDo(d, s) < ToDo(d, rest)
      BY <1>9, <2>2, <3>1, Taken DEF s
    <3> DEFINE r == Decoded(E(w[2]), Tail(s))
    <3>9. ToDo(r.dec, r.rest) < ToDo(d, s) /\ r.rest = Tail(s)
      BY <3>7 DEF Onward, Decoded
    <3>10. ToDo(r.dec, r.rest) \in Int /\ ToDo(d, s) \in Int /\ ToDo(d, rest) \in Int
      <4>1. r.rest \in Seq(Byte)
        BY <3>7 DEF Onward
      <4> HIDE DEF r
      <4>2. Len(r.rest) \in Nat /\ Len(s) \in Nat /\ Len(rest) \in Nat
        BY <3>1, <4>1, LenProperties
      <4>3. QED
        BY <4>2 DEF ToDo
    <3>11. ToDo(r.dec, r.rest) < ToDo(d, rest)
      <4> HIDE DEF r
      <4>1. QED
        BY <3>8, <3>9, <3>10
    <3>12. Onward(r, d, rest, L, q)
      <4> HIDE DEF r
      <4>1. Onward(r, d, s, L, q)
        BY <3>7 DEF r
      <4>2. QED
        BY <3>11, <4>1 DEF Onward
    <3>13. QED
      BY <3>6, <3>12
  <2>6. QED
    BY <2>2, <2>4, <2>5
<1>12. QED
  BY <1>3, <1>10, <1>11

\* In the middle of a frame, what a step of one byte reads and stores.
NextOf(d, rest, L, q, k) ==
  /\ Inside(d, Head(q), k) /\ k <= Len(Head(q)) - 2
  /\ Cat(rest, L) = Cat(After(Head(q), k), FlattenSeq(Tail(q)))
  /\ Head(rest) = Head(q)[k + 1] /\ Head(rest) \in Byte
  /\ k > 1 => Append(d.buf, Head(rest)) = SubSeq(Head(q), 1, k + 1)

\* In the middle of a frame the next byte of the read is the frame's next one.
LEMMA NextByte ==
  ASSUME NEW d, NEW rest \in Seq(Byte), rest # <<>>, NEW L \in Seq(Byte), NEW q,
         Aligned(d, Cat(rest, L), q), d.at \notin {"FLAG", "ADDR"}
  PROVE  /\ IsDecoder(d) /\ q \in Seq(Shapes) /\ q # <<>> /\ Head(q) \in Shapes
         /\ \E k \in Nat : NextOf(d, rest, L, q, k)
<1> DEFINE w == Head(q)
           F == FlattenSeq(Tail(q))
<1>1. IsDecoder(d) /\ q \in Seq(Shapes) /\ q # <<>> /\ w \in Shapes /\ F \in Seq(Byte)
  BY Amid
<1>2. PICK k \in Nat : Inside(d, w, k) /\ Cat(rest, L) = Cat(After(w, k), F)
  BY Amid
<1> HIDE DEF w, F
<1>3. k <= Len(w) - 2
  <2>1. Len(w) \in Nat
    BY <1>1, ShapeFacts
  <2>2. k \in 1..(Len(w) - 2)
    BY <1>2 DEF Inside
  <2>3. QED
    BY <2>1, <2>2
<1>4. /\ Head(rest) = w[k + 1] /\ w[k + 1] \in Byte
      /\ Append(SubSeq(w, 1, k), w[k + 1]) = SubSeq(w, 1, k + 1)
  BY <1>1, <1>2, <1>3, MidByte
<1>5. k > 1 => d.buf = SubSeq(w, 1, k)
  BY <1>2 DEF Inside
<1>6. NextOf(d, rest, L, q, k)
  BY <1>2, <1>3, <1>4, <1>5 DEF NextOf, w, F
<1>7. QED
  BY <1>1, <1>6 DEF w

\* A step that stores the next byte.
LEMMA StoredOn ==
  ASSUME NEW d, IsDecoder(d), d.at \notin {"FLAG", "ADDR", "DATA", "FCS"},
         NEW rest \in Seq(Byte), rest # <<>>, NEW L \in Seq(Byte),
         NEW q \in Seq(Shapes), q # <<>>, NEW k \in Nat, NextOf(d, rest, L, q, k), k > 1,
         NEW e, DOMAIN e = {"at", "buf", "left"}, e.at \in {"LENGTH1", "LENGTH2", "DATA", "FCS"},
         e.buf = Append(d.buf, Head(rest)),
         k + 1 <= Len(Head(q)) - 2,
         \/ e.at = "LENGTH1" /\ k = 2
         \/ e.at = "LENGTH2" /\ k = 3 /\ HeadLen(Head(q)) = 5 /\ e.left = Head(q)[4] \div 2
         \/ /\ e.at = "DATA" /\ k + 1 >= HeadLen(Head(q))
            /\ e.left = HeadLen(Head(q)) + DataLen(Head(q)) - (k + 1)
         \/ e.at = "FCS" /\ k + 1 = HeadLen(Head(q)) + DataLen(Head(q))
  PROVE  Onward(Decoded(e, Tail(rest)), d, rest, L, q)
<1> DEFINE w == Head(q)
<1>1. w \in Shapes
  BY FramesBytes
<1>2. w \in Seq(Byte) /\ Len(w) \in Nat
  BY <1>1, ShapeFacts
<1> HIDE DEF w
<1>3. k <= Len(w) - 2 /\ Cat(rest, L) = Cat(After(w, k), FlattenSeq(Tail(q)))
      /\ e.buf = SubSeq(w, 1, k + 1)
  BY DEF NextOf, w
<1>4. IsDecoder(e)
  <2>1. SubSeq(w, 1, k + 1) \in Seq(Byte)
    <3>1. k + 1 \in Nat /\ k + 1 <= Len(w)
      BY <1>2, <1>3
    <3>2. QED
      BY <1>2, <3>1, CutFacts
  <2>2. e.at \in Decoding
    BY DEF Decoding
  <2>3. QED
    BY <1>3, <2>1, <2>2 DEF IsDecoder
<1>5. Inside(e, w, k + 1)
  <2>1. k + 1 \in 1..(Len(w) - 2)
    BY <1>2 DEF w
  <2>2. k = 2 => k + 1 = 3
    OBVIOUS
  <2>3. k = 3 => k + 1 = 4
    OBVIOUS
  <2>4. \/ e.at = "LENGTH1" /\ k + 1 = 3
        \/ e.at = "LENGTH2" /\ k + 1 = 4 /\ HeadLen(w) = 5 /\ e.left = w[4] \div 2
        \/ e.at = "DATA" /\ k + 1 >= HeadLen(w) /\ e.left = HeadLen(w) + DataLen(w) - (k + 1)
        \/ e.at = "FCS" /\ k + 1 = HeadLen(w) + DataLen(w)
    BY <2>2, <2>3 DEF w
  <2>5. QED
    BY <1>3, <2>1, <2>4 DEF Inside
<1>6. d.at # "FCS"
  OBVIOUS
<1>7. QED
  BY <1>3, <1>4, <1>5, <1>6, OneByte DEF w

\* CONTROL_HUNT
LEMMA ControlHuntOn ==
  ASSUME NEW d, NEW rest \in Seq(Byte), rest # <<>>, NEW L \in Seq(Byte), NEW q,
         Aligned(d, Cat(rest, L), q), d.at = "CONTROL"
  PROVE  Onward(ControlHunt(d, rest), d, rest, L, q)
<1> DEFINE e == Stored(d, "LENGTH1", Head(rest))
<1>1. IsDecoder(d) /\ q \in Seq(Shapes) /\ q # <<>> /\ Head(q) \in Shapes
  BY NextByte
<1>2. PICK k \in Nat : NextOf(d, rest, L, q, k)
  BY NextByte
<1>3. k = 2 /\ k > 1
  BY <1>2 DEF NextOf, Inside
<1>4. k + 1 <= Len(Head(q)) - 2
  <2>1. Len(Head(q)) \in Nat /\ 6 <= Len(Head(q))
    BY <1>1, ShapeFacts
  <2>2. QED
    BY <1>3, <2>1
<1>5. /\ DOMAIN e = {"at", "buf", "left"} /\ e.at = "LENGTH1"
      /\ e.buf = Append(d.buf, Head(rest))
  BY <1>1 DEF Stored, IsDecoder
<1>6. ControlHunt(d, rest) = Decoded(e, Tail(rest))
  BY DEF ControlHunt
<1> HIDE DEF e
<1>7. QED
  BY <1>1, <1>2, <1>3, <1>4, <1>5, <1>6, StoredOn

\* LENGTH1_HUNT: the last bit says whether there is a second length byte.
LEMMA Length1HuntOn ==
  ASSUME NEW d, NEW rest \in Seq(Byte), rest # <<>>, NEW L \in Seq(Byte), NEW q,
         Aligned(d, Cat(rest, L), q), d.at = "LENGTH1"
  PROVE  Onward(Length1Hunt(d, rest), d, rest, L, q)
<1> DEFINE b == Head(rest)
           next == IF b % 2 = 0 THEN "LENGTH2" ELSE IF b > 1 THEN "DATA" ELSE "FCS"
           e == [Stored(d, next, b) EXCEPT !.left = b \div 2]
           w == Head(q)
<1>1. IsDecoder(d) /\ q \in Seq(Shapes) /\ q # <<>> /\ w \in Shapes
  BY NextByte
<1>2. PICK k \in Nat : NextOf(d, rest, L, q, k)
  BY NextByte
<1>3. k = 3 /\ k > 1
  BY <1>2 DEF NextOf, Inside
<1>4. b = w[4] /\ b \in Byte
  <2>1. k + 1 = 4
    BY <1>3
  <2>2. QED
    BY <1>2, <2>1 DEF NextOf
<1>5. Length1Hunt(d, rest) = Decoded(e, Tail(rest))
  BY DEF Length1Hunt
<1>6. /\ DOMAIN e = {"at", "buf", "left"} /\ e.at = next
      /\ e.buf = Append(d.buf, b) /\ e.left = b \div 2
  BY <1>1 DEF Stored, IsDecoder
<1> HIDE DEF e, w
<1>7. Len(w) \in Nat /\ 6 <= Len(w) /\ HeadLen(w) \in {4, 5} /\ DataLen(w) \in Nat
      /\ Len(w) = HeadLen(w) + DataLen(w) + 2
  BY <1>1, ShapeFacts
<1>8. k + 1 <= Len(w) - 2 /\ k + 1 = 4
  BY <1>3, <1>7
<1>9. \/ e.at = "LENGTH1" /\ k = 2
      \/ e.at = "LENGTH2" /\ k = 3 /\ HeadLen(w) = 5 /\ e.left = w[4] \div 2
      \/ /\ e.at = "DATA" /\ k + 1 >= HeadLen(w)
         /\ e.left = HeadLen(w) + DataLen(w) - (k + 1)
      \/ e.at = "FCS" /\ k + 1 = HeadLen(w) + DataLen(w)
  <2>1. CASE b % 2 = 0
    <3>1. HeadLen(w) = 5 /\ e.at = "LENGTH2"
      BY <1>4, <1>6, <2>1 DEF HeadLen
    <3>2. QED
      BY <1>3, <1>4, <1>6, <3>1
  <2>2. CASE b % 2 # 0
    <3>1. HeadLen(w) = 4 /\ DataLen(w) = b \div 2
      BY <1>4, <2>2 DEF HeadLen, DataLen
    <3>2. CASE b > 1
      <4>1. e.at = "DATA"
        BY <1>6, <2>2, <3>2
      <4>2. k + 1 >= HeadLen(w) /\ e.left = HeadLen(w) + DataLen(w) - (k + 1)
        <5> HIDE DEF b
        <5>1. PICK n \in Nat : n = DataLen(w)
          BY <1>7
        <5>2. 4 + n - 4 = n
          OBVIOUS
        <5>3. QED
          BY <1>6, <1>8, <3>1, <5>1, <5>2
      <4>3. QED
        BY <4>1, <4>2
    <3>3. CASE ~(b > 1)
      <4>1. e.at = "FCS"
        BY <1>6, <2>2, <3>3
      <4>2. b = 1
        <5>1. PICK x \in 0..255 : x = b
          BY <1>4 DEF Byte
        <5>2. x % 2 # 0 /\ ~(x > 1)
          BY <2>2, <3>3, <5>1
        <5> HIDE DEF b
        <5>3. x = 1
          BY <5>2
        <5>4. QED
          BY <5>1, <5>3
      <4>3. DataLen(w) = 0
        <5>1. 1 \div 2 = 0
          OBVIOUS
        <5>2. QED
          BY <3>1, <4>2, <5>1
      <4>4. QED
        BY <1>8, <3>1, <4>1, <4>3
    <3>4. QED
      BY <3>2, <3>3
  <2>3. QED
    BY <2>1, <2>2
<1>10. e.at \in {"LENGTH1", "LENGTH2", "DATA", "FCS"}
  BY <1>6
<1> HIDE DEF b
<1>11. QED
  BY <1>1, <1>2, <1>3, <1>5, <1>6, <1>8, <1>9, <1>10, StoredOn DEF w, b

\* LENGTH2_HUNT: the length has 15 bits.
LEMMA Length2HuntOn ==
  ASSUME NEW d, NEW rest \in Seq(Byte), rest # <<>>, NEW L \in Seq(Byte), NEW q,
         Aligned(d, Cat(rest, L), q), d.at = "LENGTH2"
  PROVE  Onward(Length2Hunt(d, rest), d, rest, L, q)
<1> DEFINE b == Head(rest)
           e == [Stored(d, "DATA", b) EXCEPT !.left = d.left + 128 * b]
           w == Head(q)
<1>1. IsDecoder(d) /\ q \in Seq(Shapes) /\ q # <<>> /\ w \in Shapes
  BY NextByte
<1>2. PICK k \in Nat : NextOf(d, rest, L, q, k)
  BY NextByte
<1>3. k = 4 /\ k > 1 /\ HeadLen(w) = 5 /\ d.left = w[4] \div 2
  BY <1>2 DEF NextOf, Inside
<1>4. b = w[5] /\ b \in Byte
  <2>1. k + 1 = 5
    BY <1>3
  <2>2. QED
    BY <1>2, <2>1 DEF NextOf
<1>5. Length2Hunt(d, rest) = Decoded(e, Tail(rest))
  BY <1>1 DEF Length2Hunt, Stored, IsDecoder
<1>6. /\ DOMAIN e = {"at", "buf", "left"} /\ e.at = "DATA"
      /\ e.buf = Append(d.buf, b) /\ e.left = d.left + 128 * b
  BY <1>1 DEF Stored, IsDecoder
<1> HIDE DEF e, w
<1>7. Len(w) \in Nat /\ 6 <= Len(w) /\ DataLen(w) \in Nat
      /\ Len(w) = HeadLen(w) + DataLen(w) + 2 /\ w[4] \in Byte
  <2>1. 4 \in 1..Len(w)
    BY <1>1, ShapeFacts
  <2>2. QED
    BY <1>1, <2>1, ShapeFacts
<1>8. k + 1 <= Len(w) - 2 /\ k + 1 = 5
  BY <1>3, <1>7
<1>9. DataLen(w) = 128 * w[5] + w[4] \div 2
  BY <1>3 DEF HeadLen, DataLen
<1>10. k + 1 >= HeadLen(w) /\ e.left = HeadLen(w) + DataLen(w) - (k + 1)
  <2>1. PICK x \in 0..255, y \in 0..255 : x = w[4] /\ y = w[5]
    BY <1>4, <1>7 DEF Byte
  <2>2. x \div 2 \in Nat /\ 5 + (128 * y + x \div 2) - 5 = x \div 2 + 128 * y
    OBVIOUS
  <2>3. e.left = x \div 2 + 128 * y
    BY <1>3, <1>4, <1>6, <2>1
  <2>4. DataLen(w) = 128 * y + x \div 2
    BY <1>9, <2>1
  <2>5. QED
    BY <1>3, <1>8, <2>2, <2>3, <2>4
<1>11. e.at \in {"LENGTH1", "LENGTH2", "DATA", "FCS"}
  BY <1>6
<1> HIDE DEF b
<1>12. QED
  BY <1>1, <1>2, <1>3, <1>5, <1>6, <1>8, <1>10, <1>11, StoredOn DEF w, b

\* DATA_HUNT: all the data that are left, or as many as there are in this read.
LEMMA DataHuntOn ==
  ASSUME NEW d, NEW rest \in Seq(Byte), rest # <<>>, NEW L \in Seq(Byte), NEW q,
         Aligned(d, Cat(rest, L), q), d.at = "DATA"
  PROVE  Onward(DataHunt(d, rest), d, rest, L, q)
<1> DEFINE n == IF d.left < Len(rest) THEN d.left ELSE Len(rest)
           next == IF d.left < Len(rest) THEN "FCS" ELSE "DATA"
           e == [at |-> next, buf |-> Cat(d.buf, SubSeq(rest, 1, n)), left |-> d.left - n]
           w == Head(q)
           F == FlattenSeq(Tail(q))
<1>1. IsDecoder(d) /\ q \in Seq(Shapes) /\ q # <<>> /\ w \in Shapes /\ F \in Seq(Byte)
  BY Amid
<1>2. PICK k \in Nat : Inside(d, w, k) /\ Cat(rest, L) = Cat(After(w, k), F)
  BY Amid
<1> DEFINE r == Decoded(e, After(rest, n))
<1>3. DataHunt(d, rest) = r
  BY DEF DataHunt, Cat
<1>4. e.at = next /\ e.buf = Cat(d.buf, SubSeq(rest, 1, n)) /\ e.left = d.left - n
      /\ DOMAIN e = {"at", "buf", "left"}
  OBVIOUS
<1>5. r.dec = e /\ r.rest = After(rest, n) /\ r.frame = <<>>
  BY DEF Decoded
<1> HIDE DEF e, r, w, F
<1>6. PICK m \in Nat, l \in Nat, x \in Nat, y \in Nat :
        m = Len(w) /\ l = Len(rest) /\ x = HeadLen(w) /\ y = DataLen(w)
  BY <1>1, ShapeFacts, LenProperties
<1>7. m = x + y + 2 /\ x \in {4, 5} /\ w \in Seq(Byte)
  BY <1>1, <1>6, ShapeFacts
<1>8. k >= x /\ d.left = x + y - k /\ k \in 1..(m - 2)
  BY <1>2, <1>6 DEF Inside
<1>9. PICK z \in Nat : z = d.left
  <2>1. x + y - k \in Nat
    BY <1>7, <1>8
  <2>2. QED
    BY <1>8, <2>1
<1>10. z = x + y - k /\ n = (IF z < l THEN z ELSE l) /\ next = (IF z < l THEN "FCS" ELSE "DATA")
  BY <1>6, <1>8, <1>9
<1>11. n \in Nat /\ n <= l /\ n <= z
  BY <1>10
<1> HIDE DEF n, next
<1>12. k + n <= m /\ k + n <= m - 2
  BY <1>7, <1>8, <1>10, <1>11
<1>13. /\ Cat(SubSeq(w, 1, k), SubSeq(rest, 1, n)) = SubSeq(w, 1, k + n)
       /\ Cat(After(rest, n), L) = Cat(After(w, k + n), F)
  BY <1>1, <1>2, <1>6, <1>11, <1>12, MidBytes
<1>14. d.buf = SubSeq(w, 1, k)
  <2>1. k > 1
    BY <1>7, <1>8
  <2>2. QED
    BY <1>2, <2>1 DEF Inside
<1>15. e.buf = SubSeq(w, 1, k + n)
  BY <1>4, <1>13, <1>14
<1>16. After(rest, n) \in Seq(Byte) /\ Len(After(rest, n)) = l - n
  BY <1>6, <1>11, CutFacts
<1>17. IsDecoder(e)
  <2>1. SubSeq(w, 1, k + n) \in Seq(Byte)
    <3>1. k + n \in Nat
      BY <1>11
    <3>2. QED
      BY <1>6, <1>7, <1>12, <3>1, CutFacts
  <2>2. e.at \in Decoding
    BY <1>4 DEF next, Decoding
  <2>3. QED
    BY <1>4, <1>15, <2>1, <2>2 DEF IsDecoder
<1>18. Inside(e, w, k + n)
  <2>1. k + n \in 1..(m - 2) /\ k + n > 1
    BY <1>7, <1>8, <1>11, <1>12
  <2>2. CASE z < l
    <3>1. n = z /\ e.at = "FCS"
      BY <1>4, <1>10, <2>2
    <3>2. k + n = x + y
      BY <1>8, <1>10, <3>1
    <3>3. QED
      BY <1>6, <1>15, <2>1, <3>1, <3>2 DEF Inside
  <2>3. CASE ~(z < l)
    <3>1. n = l /\ e.at = "DATA" /\ e.left = z - n
      BY <1>4, <1>9, <1>10, <2>3
    <3>2. z - n = x + y - (k + n) /\ k + n >= x
      BY <1>8, <1>10, <1>11
    <3>3. QED
      BY <1>6, <1>15, <2>1, <3>1, <3>2 DEF Inside
  <2>4. QED
    BY <2>2, <2>3
<1>19. Aligned(e, Cat(After(rest, n), L), q)
  <2>1. Cat(After(rest, n), L) \in Seq(Byte)
    BY <1>16, CatProperties
  <2>2. k + n \in Nat
    BY <1>11
  <2>3. QED
    BY <1>1, <1>13, <1>17, <1>18, <2>1, <2>2 DEF Aligned, w, F
<1>20. ToDo(e, After(rest, n)) < ToDo(d, rest)
  <2>1. 1 <= l
    BY <1>6, AfterOne
  <2>2. ToDo(d, rest) = 2 * l
    <3>1. d.at # "FCS" /\ 2 * l - 0 = 2 * l
      OBVIOUS
    <3>2. QED
      BY <1>6, <3>1 DEF ToDo
  <2>3. CASE e.at = "FCS"
    <3>1. ToDo(e, After(rest, n)) = 2 * (l - n) - 1
      BY <1>16, <2>3 DEF ToDo
    <3>2. 2 * (l - n) - 1 < 2 * l
      BY <1>11
    <3>3. QED
      BY <2>2, <3>1, <3>2
  <2>4. CASE e.at # "FCS"
    <3>1. n = l
      BY <1>4, <1>10, <2>4
    <3>2. ToDo(e, After(rest, n)) = 2 * (l - n) - 0
      BY <1>16, <2>4 DEF ToDo
    <3>3. 2 * (l - n) - 0 < 2 * l
      BY <2>1, <3>1
    <3>4. QED
      BY <2>2, <3>2, <3>3
  <2>5. QED
    BY <2>3, <2>4
<1>21. Onward(r, d, rest, L, q)
  BY <1>5, <1>16, <1>19, <1>20 DEF Onward
<1>22. QED
  BY <1>3, <1>21

\* FCS_HUNT: the frame is complete, its last flag still to come.
LEMMA FcsHuntOn ==
  ASSUME NEW d, NEW rest \in Seq(Byte), rest # <<>>, NEW L \in Seq(Byte), NEW q,
         Aligned(d, Cat(rest, L), q), d.at = "FCS"
  PROVE  Onward(FcsHunt(d, rest), d, rest, L, q)
<1> DEFINE w == Head(q)
           F == FlattenSeq(Tail(q))
           r == FcsHunt(d, rest)
           one == <<Flag>>
           two == <<Head(rest), Flag>>
<1>1. IsDecoder(d) /\ q \in Seq(Shapes) /\ q # <<>> /\ w \in Shapes /\ Tail(q) \in Seq(Shapes)
      /\ F \in Seq(Byte)
  BY Amid, FramesBytes
<1>2. PICK k \in Nat : NextOf(d, rest, L, q, k)
  BY NextByte
<1>3. r.dec = Hunting /\ r.rest = Tail(rest) /\ r.frame = d.buf \o two
  BY DEF FcsHunt
<1> HIDE DEF r
<1>4. one \in Seq(Byte) /\ Len(one) = 1 /\ one[1] = Flag
  BY DEF Flag, Byte
<1>5. Head(rest) \in Byte
  BY <1>2 DEF NextOf
<1>6. two \in Seq(Byte) /\ Len(two) = 2 /\ two[1] = Head(rest) /\ two[2] = Flag
  BY <1>5 DEF Flag, Byte
<1> HIDE DEF one, two, w, F
<1>7. PICK m \in Nat : m = Len(w) /\ 6 <= m
  BY <1>1, ShapeFacts
<1>8. w \in Seq(Byte) /\ w[m] = Flag /\ m = HeadLen(w) + DataLen(w) + 2
      /\ HeadLen(w) \in Nat /\ DataLen(w) \in Nat
  <2>1. /\ w \in Seq(Byte) /\ w[Len(w)] = Flag /\ Len(w) = HeadLen(w) + DataLen(w) + 2
        /\ HeadLen(w) \in {4, 5} /\ DataLen(w) \in Nat
    BY <1>1, ShapeFacts
  <2>2. QED
    BY <1>7, <2>1
<1>9. Inside(d, w, k) /\ Cat(rest, L) = Cat(After(w, k), F) /\ Head(rest) = w[k + 1]
  BY <1>2 DEF NextOf, w, F
<1>10. k = HeadLen(w) + DataLen(w) /\ (k > 1 => d.buf = SubSeq(w, 1, k))
  BY <1>9 DEF Inside
<1>11. /\ k = m - 2 /\ k > 1 /\ k + 1 = m - 1 /\ k + 2 = m
       /\ k \in Nat /\ k + 1 \in Nat /\ k <= Len(w) /\ k <= Len(w) - 2 /\ k + 1 <= Len(w)
  <2>1. k = m - 2
    BY <1>7, <1>8, <1>10
  <2>2. /\ k > 1 /\ k + 1 = m - 1 /\ k + 2 = m /\ k \in Nat /\ k + 1 \in Nat
        /\ k <= m /\ k <= m - 2 /\ k + 1 <= m
    BY <1>7, <2>1
  <2>3. QED
    BY <1>7, <2>1, <2>2
<1>12. w \in Seq(Byte) /\ k \in Nat /\ k <= Len(w)
  BY <1>8, <1>11
<1>13. w \in Seq(Byte) /\ k + 1 \in Nat /\ k + 1 <= Len(w) /\ Len(w) - (k + 1) = 1
  <2>0. m \in Nat /\ k = m - 2
    BY <1>7, <1>11
  <2>1. m - (k + 1) = 1
    <3>1. k + 1 = m - 1
      BY <1>11
    <3>2. m - (m - 1) = 1
      BY <2>0
    <3>3. QED
      BY <3>1, <3>2, Zenon
  <2>2. QED
    BY <1>7, <1>8, <1>11, <2>1
<1>14. d.buf \in Seq(Byte) /\ Len(d.buf) = k /\ \A i \in 1..k : d.buf[i] = w[i]
  <2>1. d.buf = SubSeq(w, 1, k)
    BY <1>10, <1>11
  <2>2. QED
    BY <1>12, <2>1, CutFacts
<1>15. r.frame = w
  <2> DEFINE u == Cat(d.buf, two)
  <2>1. u \in Seq(Byte) /\ Joined(u, d.buf, two)
    BY <1>6, <1>14, CatProperties, CatJoined
  <2>2. r.frame = u
    BY <1>3 DEF Cat
  <2> HIDE DEF u
  <2>3. /\ Len(u) = k + 2 /\ \A i \in 1..k : u[i] = w[i]
    BY <1>6, <1>14, <2>1 DEF Joined
  <2>4. u[k + 1] = two[1] /\ u[k + 2] = two[2]
    <3>1. 1 \in 1..2 /\ 2 \in 1..2
      OBVIOUS
    <3>2. QED
      BY <1>6, <1>14, <2>1, <3>1 DEF Joined
  <2>5. \A i \in 1..m : i \in 1..k \/ i = k + 1 \/ i = k + 2
    BY <1>11
  <2>6. \A i \in 1..m : u[i] = w[i]
    BY <1>6, <1>8, <1>9, <1>11, <2>3, <2>4, <2>5
  <2>7. Len(u) = Len(w)
    BY <1>7, <1>11, <2>3
  <2>8. u = w
    BY <1>7, <1>8, <2>1, <2>6, <2>7, SeqEqual
  <2>9. QED
    BY <2>2, <2>8
<1>16. Tail(rest) \in Seq(Byte) /\ Len(Tail(rest)) = Len(rest) - 1 /\ Len(rest) \in Nat
  BY AfterOne
<1>17. Cat(Tail(rest), L) = Cat(one, F)
  <2>1. Cat(Tail(rest), L) = Cat(After(w, k + 1), F)
    BY <1>1, <1>9, <1>11, MidByte
  <2>2. After(w, k + 1) = one
    <3> DEFINE p == After(w, k + 1)
    <3>1. /\ p \in Seq(Byte) /\ Len(p) = Len(w) - (k + 1)
          /\ \A i \in 1..(Len(w) - (k + 1)) : p[i] = w[(k + 1) + i]
      BY <1>13, CutFacts
    <3> HIDE DEF p
    <3>2. Len(w) - (k + 1) = 1 /\ 1 \in 1..1 /\ (k + 1) + 1 = m
      BY <1>11, <1>13
    <3>3. Len(p) = 1 /\ p[1] = Flag
      BY <1>8, <3>1, <3>2
    <3>4. \A i \in 1..1 : i = 1
      OBVIOUS
    <3>5. p = one
      BY <1>4, <3>1, <3>3, <3>4, SeqEqual
    <3>6. QED
      BY <3>5 DEF p
  <2>3. QED
    BY <2>1, <2>2
<1>18. Aligned(Hunting, Cat(Tail(rest), L), Tail(q))
  <2>1. Cat(Tail(rest), L) \in Seq(Byte)
    BY <1>16, CatProperties
  <2>2. QED
    BY <1>1, <1>17, <2>1, Hunts DEF Aligned, one, F
<1>19. ToDo(Hunting, Tail(rest)) < ToDo(d, rest)
  <2>1. PICK l \in Nat : l = Len(rest) /\ Len(Tail(rest)) = l - 1
    BY <1>16
  <2>2. 2 * (l - 1) - 0 < 2 * l - 1
    OBVIOUS
  <2>3. Hunting.at # "FCS"
    BY Hunts
  <2>4. QED
    BY <2>1, <2>2, <2>3 DEF ToDo
<1>20. QED
  BY <1>1, <1>3, <1>15, <1>16, <1>18, <1>19 DEF Onward, w, r

(***************************************************************************)
(* The decoder is in step after each of its steps if it was before: it has *)
(* less to do, and is as far in the same frames, or has completed the      *)
(* first of them and is before the rest; whatever the frames hold, flags   *)
(* and frames included, and however the stream is cut into what is read    *)
(* now (rest) and what is not yet (L).  (mux.c:893-1012)                   *)
(***************************************************************************)
THEOREM HuntOn ==
  ASSUME NEW d, NEW rest \in Seq(Byte), rest # <<>>, NEW L \in Seq(Byte), NEW q,
         Aligned(d, Cat(rest, L), q)
  PROVE  Onward(Hunt(d, rest), d, rest, L, q)
<1>1. d.at \in Decoding
  BY DEF Aligned, IsDecoder
<1>2. CASE d.at = "FLAG"
  BY <1>2, FlagHuntOn DEF Hunt
<1>3. CASE d.at = "ADDR"
  BY <1>3, AddrHuntOn DEF Hunt
<1>4. CASE d.at = "CONTROL"
  BY <1>4, ControlHuntOn DEF Hunt
<1>5. CASE d.at = "LENGTH1"
  BY <1>5, Length1HuntOn DEF Hunt
<1>6. CASE d.at = "LENGTH2"
  BY <1>6, Length2HuntOn DEF Hunt
<1>7. CASE d.at = "DATA"
  BY <1>7, DataHuntOn DEF Hunt
<1>8. CASE d.at = "FCS"
  BY <1>8, FcsHuntOn DEF Hunt
<1>9. QED
  BY <1>1, <1>2, <1>3, <1>4, <1>5, <1>6, <1>7, <1>8 DEF Decoding

\* When all is read, no frame is missing and the decoder is in none.
LEMMA AlignedEmpty ==
  ASSUME NEW d, NEW q, Aligned(d, <<>>, q)
  PROVE  q = <<>> /\ d.at \in {"FLAG", "ADDR"}
<1> DEFINE F == FlattenSeq(q)
           one == <<Flag>>
<1>1. q \in Seq(Shapes) /\ F \in Seq(Byte)
  BY FramesBytes DEF Aligned
<1>2. Len(one) = 1 /\ one \in Seq(Byte)
  BY DEF Flag, Byte
<1>3. Len(<<>>) = 0
  OBVIOUS
<1>4. \/ d.at \in {"FLAG", "ADDR"} /\ <<>> = F
      \/ d.at = "FLAG" /\ <<>> = Cat(one, F)
      \/ /\ q # <<>>
         /\ \E k \in Nat : Inside(d, Head(q), k)
                           /\ <<>> = Cat(After(Head(q), k), FlattenSeq(Tail(q)))
  BY DEF Aligned
<1> HIDE DEF F, one
<1>5. <<>> # Cat(one, F)
  <2>1. Len(Cat(one, F)) = 1 + Len(F) /\ Len(F) \in Nat
    <3>1. Joined(Cat(one, F), one, F)
      BY <1>1, <1>2, CatJoined
    <3>2. QED
      BY <1>2, <3>1 DEF Joined
  <2>2. 1 + Len(F) # 0
    BY <2>1
  <2>3. QED
    BY <1>3, <2>1, <2>2
<1>6. ASSUME q # <<>>, NEW k \in Nat, Inside(d, Head(q), k),
             <<>> = Cat(After(Head(q), k), FlattenSeq(Tail(q)))
      PROVE  FALSE
  <2> DEFINE w == Head(q)
             G == FlattenSeq(Tail(q))
  <2>1. w \in Shapes /\ Tail(q) \in Seq(Shapes)
    BY <1>1, <1>6, FramesBytes
  <2>2. G \in Seq(Byte)
    BY <2>1, FramesBytes
  <2> HIDE DEF w, G
  <2>3. Len(w) \in Nat /\ w \in Seq(Byte)
    BY <2>1, ShapeFacts
  <2>4. k \in 1..(Len(w) - 2)
    BY <1>6 DEF Inside, w
  <2>5. After(w, k) \in Seq(Byte) /\ Len(After(w, k)) = Len(w) - k
    <3>1. k <= Len(w)
      BY <2>3, <2>4
    <3>2. QED
      BY <2>3, <3>1, CutFacts
  <2>6. Len(Cat(After(w, k), G)) = (Len(w) - k) + Len(G) /\ Len(G) \in Nat
    BY <2>2, <2>5, CatJoined DEF Joined
  <2>7. (Len(w) - k) + Len(G) # 0
    BY <2>3, <2>4, <2>6
  <2>8. QED
    BY <1>3, <1>6, <2>6, <2>7 DEF w, G
<1>7. d.at \in {"FLAG", "ADDR"} /\ <<>> = F
  BY <1>4, <1>5, <1>6
<1>8. ASSUME q # <<>> PROVE FALSE
  <2> DEFINE w == Head(q)
             G == FlattenSeq(Tail(q))
  <2>1. w \in Shapes /\ Tail(q) \in Seq(Shapes) /\ F = Cat(w, G)
    BY <1>1, <1>8, FramesBytes DEF F
  <2>2. G \in Seq(Byte)
    BY <2>1, FramesBytes
  <2> HIDE DEF w, G
  <2>3. Len(w) \in Nat /\ w \in Seq(Byte) /\ 6 <= Len(w)
    BY <2>1, ShapeFacts
  <2>4. Len(Cat(w, G)) = Len(w) + Len(G) /\ Len(G) \in Nat
    BY <2>2, <2>3, CatJoined DEF Joined
  <2>5. Len(w) + Len(G) # 0
    BY <2>3, <2>4
  <2>6. QED
    BY <1>3, <1>7, <2>1, <2>4, <2>5
<1>9. QED
  BY <1>7, <1>8

-----------------------------------------------------------------------------
(* The host *)

\* The fields of the process's state.
Fields == {"open", "chan", "count", "dec", "mode", "hals", "hal", "cbs", "reg", "out",
           "up", "got", "acted", "whole", "meddled", "fault"}

\* The types of the process s in session n.
HostType(s, n) ==
  /\ DOMAIN s = Fields
  /\ s.open \in BOOLEAN /\ s.up \in BOOLEAN /\ s.whole \in BOOLEAN
  /\ s.chan \in [Channels -> ChannelStates] /\ s.count \in Nat
  /\ s.mode = IF s.open THEN "TRANSPARENT" ELSE "AT"
  /\ s.hals = {Phy} \cup IF s.open THEN {Logical(n, c) : c \in Channels} ELSE {}
  /\ s.reg \subseteq s.hals \X Cbs
  /\ s.cbs \subseteq Cbs /\ s.fault \subseteq {"freed", "null"}
  /\ DOMAIN s.hal = Objects

\* A callback that no plugin meddled with is registered with the physical HAL, and
\* with the one that its object uses; what is registered with a logical HAL belongs
\* to an object that uses it; and there are no others.
Heard(s) ==
  /\ \A k \in s.cbs \ s.meddled :
       /\ <<Phy, k>> \in s.reg
       /\ s.hal[Owner[k]] \in s.hals => <<s.hal[Owner[k]], k>> \in s.reg
  /\ \A r \in s.reg :
       /\ r[2] \in s.cbs \/ (r[1] = Phy /\ r[2] \in s.meddled)
       /\ r[1] \in {Phy, s.hal[Owner[r[2]]]}

\* Objects that the plugin lacks stay with the physical HAL; without gaps the
\* others have one that is there.
Placed(s) ==
  /\ present \subseteq Objects
  /\ \A o \in Objects \ present : s.hal[o] = Phy
  /\ Gapless => "freed" \notin s.fault /\ \A o \in present : s.hal[o] \in s.hals

\* What holds of the process s in session n.
HostInv(s, n) == HostType(s, n) /\ Heard(s) /\ Placed(s)

-----------------------------------------------------------------------------
(* The objects of the channels *)

\* An object has a channel, a callback an object.
LEMMA ChannelFacts ==
  /\ \A o \in Objects : ChannelOf(o) \in Channels
  /\ \A k \in Cbs : Owner[k] \in Objects
<1>1. \A o \in Objects : \E c \in Channels : o \in ToSet(ObjectNames[c])
  BY DEF Objects
<1>2. \A o \in Objects : ChannelOf(o) \in Channels
  BY <1>1 DEF ChannelOf
<1>3. QED
  BY <1>2, MuxAssumption

\* The objects that a close sends back: those of the plugin, and all of them if no
\* channel has a gap.
LEMMA RevertedPresent ==
  Reverted \subseteq present /\ (Gapless => present \cap Objects \subseteq Reverted)
<1>1. ASSUME NEW o \in Reverted PROVE o \in present
  <2>1. PICK c \in Channels :
          \E i \in DOMAIN ObjectNames[c] :
            o = ObjectNames[c][i] /\ \A k \in 1..i : ObjectNames[c][k] \in present
    BY DEF Reverted
  <2>0. PICK i \in DOMAIN ObjectNames[c] :
          o = ObjectNames[c][i] /\ \A k \in 1..i : ObjectNames[c][k] \in present
    BY <2>1
  <2>2. i \in 1..i
    <3>1. DOMAIN ObjectNames[c] = 1..Len(ObjectNames[c]) /\ Len(ObjectNames[c]) \in Nat
      BY MuxAssumption, LenProperties
    <3>2. QED
      BY <3>1
  <2>3. QED
    BY <2>0, <2>2
<1>2. ASSUME Gapless, NEW o \in present \cap Objects PROVE o \in Reverted
  <2>1. PICK c \in Channels : o \in ToSet(ObjectNames[c])
    BY DEF Objects
  <2>2. PICK i \in DOMAIN ObjectNames[c] : o = ObjectNames[c][i]
    BY <2>1 DEF ToSet
  <2>3. \A k \in 1..i : ObjectNames[c][k] \in present
    BY <1>2, <2>2 DEF Gapless
  <2>4. QED
    BY <2>2, <2>3 DEF Reverted
<1>3. QED
  BY <1>1, <1>2

-----------------------------------------------------------------------------
(* Steps of the process that leave the HALs *)

\* What the handlers of frames do, short of closing.
LEMMA Keeps ==
  ASSUME NEW s, NEW t, NEW n, HostInv(s, n),
         DOMAIN t = Fields, t.open = s.open, t.mode = s.mode, t.hals = s.hals, t.hal = s.hal,
         t.cbs = s.cbs, t.reg = s.reg, t.meddled = s.meddled,
         t.fault \subseteq s.fault \cup {"null"},
         t.chan \in [Channels -> ChannelStates], t.count \in Nat,
         t.up \in BOOLEAN, t.whole \in BOOLEAN
  PROVE  HostInv(t, n)
<1>1. HostType(t, n)
  BY DEF HostInv, HostType
<1>2. Heard(t)
  BY DEF HostInv, Heard
<1>3. Placed(t)
  BY DEF HostInv, Placed
<1>4. QED
  BY <1>1, <1>2, <1>3 DEF HostInv

\* An answer leaves the HALs.
LEMMA OutKeeps ==
  ASSUME NEW s, NEW n, HostInv(s, n), NEW c, NEW type, NEW pf
  PROVE  HostInv(Out(s, c, type, pf), n) /\ Out(s, c, type, pf).open = s.open
<1> DEFINE t == Out(s, c, type, pf)
<1>1. /\ DOMAIN t = Fields
      /\ \A f \in Fields \ {"out"} : t[f] = s[f]
  BY DEF Out, HostInv, HostType, Fields
<1> HIDE DEF t
<1>2. /\ t.open = s.open /\ t.mode = s.mode /\ t.hals = s.hals /\ t.hal = s.hal
      /\ t.cbs = s.cbs /\ t.reg = s.reg /\ t.meddled = s.meddled /\ t.fault = s.fault
      /\ t.chan = s.chan /\ t.count = s.count /\ t.up = s.up /\ t.whole = s.whole
  BY <1>1 DEF Fields
<1>3. /\ s.up \in BOOLEAN /\ s.whole \in BOOLEAN /\ s.chan \in [Channels -> ChannelStates]
      /\ s.count \in Nat
  BY DEF HostInv, HostType
<1>4. /\ t.up \in BOOLEAN /\ t.whole \in BOOLEAN /\ t.chan \in [Channels -> ChannelStates]
      /\ t.count \in Nat /\ t.fault \subseteq s.fault \cup {"null"}
  BY <1>2, <1>3
<1>5. HostInv(t, n)
  BY <1>1, <1>2, <1>4, Keeps
<1>6. QED
  BY <1>2, <1>5 DEF t

\* The fields that only opening, closing and the plugins change.
Held == {"open", "mode", "hals", "hal", "cbs", "reg", "meddled", "fault", "whole"}

\* Nor does anything matter that is not of the HALs.
LEMMA HeldKeeps ==
  ASSUME NEW s, NEW t, NEW n, HostInv(s, n),
         DOMAIN t = Fields, \A f \in Held : t[f] = s[f],
         t.chan \in [Channels -> ChannelStates], t.count \in Nat, t.up \in BOOLEAN
  PROVE  HostInv(t, n) /\ t.open = s.open
<1>1. /\ t.open = s.open /\ t.mode = s.mode /\ t.hals = s.hals /\ t.hal = s.hal
      /\ t.cbs = s.cbs /\ t.reg = s.reg /\ t.meddled = s.meddled /\ t.fault = s.fault
      /\ t.whole = s.whole
  BY DEF Held
<1>2. s.whole \in BOOLEAN
  BY DEF HostInv, HostType
<1>3. t.whole \in BOOLEAN /\ t.fault \subseteq s.fault \cup {"null"}
  BY <1>1, <1>2
<1>4. QED
  BY <1>1, <1>3, Keeps

-----------------------------------------------------------------------------
(* tcore_object_set_hal *)

\* The callbacks that leave a HAL's table, and those that join one.
LeftBy(s, os) ==
  {<<s.hal[Owner[k]], k>> : k \in {j \in CbsOf(s, os) : HalMode(s, s.hal[Owner[j]]) = "AT"}}
JoinedBy(s, to) ==
  {<<to[Owner[k]], k>> : k \in {j \in CbsOf(s, DOMAIN to) : HalMode(s, to[Owner[j]]) = "AT"}}

\* tcore_object_set_hal changes HALs and their tables.
LEMMA SetHalFields ==
  ASSUME NEW s, DOMAIN s = Fields, NEW to, NEW t, t = SetHal(s, to)
  PROVE  /\ DOMAIN t = Fields
         /\ \A f \in Fields \ {"hal", "reg", "fault"} : t[f] = s[f]
         /\ t.hal = [o \in Objects |-> IF o \in DOMAIN to THEN to[o] ELSE s.hal[o]]
         /\ t.reg = (s.reg \ LeftBy(s, DOMAIN to)) \cup JoinedBy(s, to)
         /\ t.fault \subseteq s.fault \cup {"freed"}
         /\ (\A o \in DOMAIN to : s.hal[o] \in s.hals) => t.fault = s.fault
<1> DEFINE left == LeftBy(s, DOMAIN to)
           joined == JoinedBy(s, to)
           hal == [o \in Objects |-> IF o \in DOMAIN to THEN to[o] ELSE s.hal[o]]
           moved == [s EXCEPT !.hal = hal, !.reg = (s.reg \ left) \cup joined]
<1>1. t = IF \A o \in DOMAIN to : s.hal[o] \in s.hals THEN moved ELSE Fault(moved, "freed")
  BY DEF SetHal, LeftBy, JoinedBy
<1> HIDE DEF left, joined, hal
<1>2. /\ DOMAIN moved = Fields /\ moved.hal = hal /\ moved.reg = (s.reg \ left) \cup joined
      /\ \A f \in Fields \ {"hal", "reg"} : moved[f] = s[f]
      /\ moved.fault = s.fault
  BY DEF Fields
<1> HIDE DEF moved
<1>3. /\ DOMAIN Fault(moved, "freed") = Fields
      /\ \A f \in Fields \ {"fault"} : Fault(moved, "freed")[f] = moved[f]
      /\ Fault(moved, "freed").fault = moved.fault \cup {"freed"}
  BY <1>2 DEF Fault, Fields
<1>4. CASE \A o \in DOMAIN to : s.hal[o] \in s.hals
  BY <1>1, <1>2, <1>4 DEF left, joined, hal, Fields
<1>5. CASE ~\A o \in DOMAIN to : s.hal[o] \in s.hals
  BY <1>1, <1>2, <1>3, <1>5 DEF left, joined, hal, Fields
<1>6. QED
  BY <1>4, <1>5

-----------------------------------------------------------------------------
(* Opening and closing *)

\* The HALs there are.
LEMMA HalTypes ==
  ASSUME NEW s, NEW n, HostInv(s, n)
  PROVE  /\ DOMAIN s = Fields /\ s.reg \subseteq s.hals \X Cbs /\ s.cbs \subseteq Cbs
         /\ s.open => s.mode = "TRANSPARENT"
         /\ ~s.open => s.mode = "AT" /\ s.hals = {Phy}
         /\ Phy \in s.hals
  BY DEF HostInv, HostType

\* While the physical HAL is transparent, a callback leaves logical HALs only.
LEMMA LeftLogical ==
  ASSUME NEW s, s.mode = "TRANSPARENT", NEW os
  PROVE  \A x \in LeftBy(s, os) : \E k \in CbsOf(s, os) :
           x = <<s.hal[Owner[k]], k>> /\ s.hal[Owner[k]] # Phy
<1>1. ASSUME NEW x \in LeftBy(s, os)
      PROVE  \E k \in CbsOf(s, os) : x = <<s.hal[Owner[k]], k>> /\ s.hal[Owner[k]] # Phy
  <2>1. PICK k \in CbsOf(s, os) :
          x = <<s.hal[Owner[k]], k>> /\ HalMode(s, s.hal[Owner[k]]) = "AT"
    BY DEF LeftBy
  <2>2. s.hal[Owner[k]] # Phy
    BY <2>1 DEF HalMode
  <2>3. QED
    BY <2>1, <2>2
<1>2. QED
  BY <1>1

\* tcore_cmux_close
LEMMA CloseKeeps ==
  ASSUME NEW s, NEW n, HostInv(s, n), s.open
  PROVE  HostInv(Close(s), n)
<1> DEFINE u == Told(s)
           to == [o \in Reverted |-> Phy]
           back == SetHal(u, to)
           closed == [c \in Channels |-> "CLOSED"]
           t == Close(s)
<1>1. /\ DOMAIN s = Fields /\ s.reg \subseteq s.hals \X Cbs /\ s.cbs \subseteq Cbs
      /\ s.mode = "TRANSPARENT" /\ Phy \in s.hals
  BY HalTypes
<1>2. /\ DOMAIN u = Fields
      /\ \A f \in Fields \ {"out"} : u[f] = s[f]
  BY <1>1 DEF Told, Fields
<1> HIDE DEF u
<1>3. DOMAIN to = Reverted /\ \A o \in Reverted : to[o] = Phy
  OBVIOUS
<1> HIDE DEF to
<1>4. /\ DOMAIN back = Fields
      /\ \A f \in Fields \ {"hal", "reg", "fault"} : back[f] = u[f]
      /\ back.hal = [o \in Objects |-> IF o \in DOMAIN to THEN to[o] ELSE u.hal[o]]
      /\ back.reg = (u.reg \ LeftBy(u, DOMAIN to)) \cup JoinedBy(u, to)
      /\ back.fault \subseteq u.fault \cup {"freed"}
      /\ (\A o \in DOMAIN to : u.hal[o] \in u.hals) => back.fault = u.fault
  BY <1>2, SetHalFields
<1>5. /\ u.mode = "TRANSPARENT" /\ u.cbs = s.cbs /\ u.hal = s.hal /\ u.reg = s.reg
      /\ u.hals = s.hals /\ u.fault = s.fault /\ u.count = s.count /\ u.up = s.up
      /\ u.whole = s.whole /\ u.meddled = s.meddled
  BY <1>1, <1>2 DEF Fields
<1>6. JoinedBy(u, to) = {}
  <2>1. \A k \in CbsOf(u, DOMAIN to) : Owner[k] \in DOMAIN to
    BY DEF CbsOf
  <2>2. \A k \in CbsOf(u, DOMAIN to) : HalMode(u, to[Owner[k]]) # "AT"
    BY <1>3, <1>5, <2>1 DEF HalMode
  <2>3. QED
    BY <2>2 DEF JoinedBy
<1>7. \A x \in LeftBy(u, DOMAIN to) : x[1] # Phy
  BY <1>5, LeftLogical
<1> HIDE DEF back
<1>8. /\ t = [back EXCEPT !.open = FALSE, !.chan = closed, !.mode = "AT", !.hals = {Phy},
                          !.reg = {r \in back.reg : r[1] = Phy}]
  BY DEF Close, back, u, to
<1> HIDE DEF t, closed
<1>9. /\ DOMAIN t = Fields /\ t.open = FALSE /\ t.chan = closed /\ t.mode = "AT"
      /\ t.hals = {Phy} /\ t.reg = {r \in back.reg : r[1] = Phy}
      /\ \A f \in Fields \ {"open", "chan", "mode", "hals", "reg"} : t[f] = back[f]
  BY <1>4, <1>8 DEF Fields
<1>10. /\ t.count = s.count /\ t.up = s.up /\ t.whole = s.whole /\ t.cbs = s.cbs
       /\ t.meddled = s.meddled /\ t.hal = back.hal /\ t.fault = back.fault
  BY <1>4, <1>5, <1>9 DEF Fields
<1>11. t.reg = {r \in s.reg : r[1] = Phy}
  BY <1>4, <1>5, <1>6, <1>7, <1>9
<1>12. \A o \in Objects : t.hal[o] = IF o \in Reverted THEN Phy ELSE s.hal[o]
  BY <1>3, <1>4, <1>5, <1>10
<1>13. HostType(t, n)
  <2>1. /\ s.up \in BOOLEAN /\ s.whole \in BOOLEAN /\ s.count \in Nat
        /\ s.fault \subseteq {"freed", "null"}
    BY DEF HostInv, HostType
  <2>2. t.fault \subseteq {"freed", "null"}
    BY <1>4, <1>5, <1>10, <2>1
  <2>3. t.chan \in [Channels -> ChannelStates]
    BY <1>9 DEF closed, ChannelStates
  <2>4. t.reg \subseteq {Phy} \X Cbs
    BY <1>1, <1>11
  <2>5. DOMAIN t.hal = Objects
    BY <1>4, <1>10
  <2>6. t.open \in BOOLEAN /\ t.up \in BOOLEAN /\ t.whole \in BOOLEAN /\ t.count \in Nat
    BY <1>9, <1>10, <2>1
  <2>7. QED
    BY <1>1, <1>9, <1>10, <2>2, <2>3, <2>4, <2>5, <2>6 DEF HostType
<1>14. Heard(t)
  <2>1. ASSUME NEW k \in t.cbs \ t.meddled
        PROVE  <<Phy, k>> \in t.reg /\ (t.hal[Owner[k]] \in t.hals => <<t.hal[Owner[k]], k>> \in t.reg)
    <3>1. <<Phy, k>> \in s.reg
      BY <1>10, <2>1 DEF HostInv, Heard
    <3>2. <<Phy, k>> \in t.reg
      BY <1>11, <3>1
    <3>3. QED
      BY <1>9, <3>2
  <2>2. ASSUME NEW r \in t.reg
        PROVE  /\ r[2] \in t.cbs \/ (r[1] = Phy /\ r[2] \in t.meddled)
               /\ r[1] \in {Phy, t.hal[Owner[r[2]]]}
    BY <1>10, <1>11, <2>2 DEF HostInv, Heard
  <2>3. QED
    BY <2>1, <2>2 DEF Heard
<1>15. Placed(t)
  <2>1. \A o \in Objects \ present : t.hal[o] = Phy
    BY <1>12 DEF HostInv, Placed
  <2>2. ASSUME Gapless PROVE "freed" \notin t.fault /\ \A o \in present : t.hal[o] \in t.hals
    <3>1. "freed" \notin s.fault /\ \A o \in present : s.hal[o] \in s.hals
      BY <2>2 DEF HostInv, Placed
    <3>2. t.fault = s.fault
      BY <1>3, <1>4, <1>5, <1>10, <3>1, RevertedPresent
    <3>3. \A o \in present \cap Objects : t.hal[o] = Phy
      BY <1>12, <2>2, RevertedPresent
    <3>4. present \subseteq Objects
      BY DEF HostInv, Placed
    <3>5. QED
      BY <1>9, <3>1, <3>2, <3>3, <3>4
  <2>3. QED
    BY <2>1, <2>2 DEF HostInv, Placed
<1>16. QED
  BY <1>13, <1>14, <1>15 DEF HostInv, t

\* tcore_cmux_init
LEMMA StartKeeps ==
  ASSUME NEW s, NEW n \in Nat, HostInv(s, n), ~s.open
  PROVE  HostInv(Start(s, n + 1), n + 1)
<1> DEFINE m == n + 1
           logical == {Logical(m, c) : c \in Channels}
           asked == [i \in 1..Cardinality(Channels) |-> Encode(i - 1, SABM, Poll, <<>>)]
           waiting == [c \in Channels |-> "SABM_SEND_WAITING_FOR_UA"]
           u == Opened(s, m)
           to == [o \in present |-> Logical(m, ChannelOf(o))]
           t == Start(s, m)
<1>1. /\ DOMAIN s = Fields /\ s.reg \subseteq {Phy} \X Cbs /\ s.cbs \subseteq Cbs
      /\ s.mode = "AT" /\ s.hals = {Phy} /\ present \subseteq Objects
      /\ s.up \in BOOLEAN /\ s.whole \in BOOLEAN /\ s.count \in Nat
      /\ s.fault \subseteq {"freed", "null"}
  BY HalTypes DEF HostInv, HostType, Placed
<1>2. \A c : Logical(m, c) # Phy
  <2>1. m # 0
    OBVIOUS
  <2> HIDE DEF m
  <2>2. QED
    BY <2>1 DEF Logical, Phy
<1>3. u = [s EXCEPT !.open = TRUE, !.mode = "TRANSPARENT", !.up = FALSE, !.chan = waiting,
                    !.hals = s.hals \cup logical, !.out = asked]
  BY <1>1 DEF Opened, Fields
<1> HIDE DEF m, logical, asked, waiting, u
<1>4. /\ DOMAIN u = Fields /\ u.open = TRUE /\ u.mode = "TRANSPARENT" /\ u.up = FALSE
      /\ u.chan = waiting /\ u.hals = s.hals \cup logical
      /\ \A f \in Fields \ {"open", "mode", "up", "chan", "hals", "out"} : u[f] = s[f]
  BY <1>1, <1>3 DEF Fields
<1>5. /\ u.count = s.count /\ u.whole = s.whole /\ u.cbs = s.cbs /\ u.reg = s.reg
      /\ u.hal = s.hal /\ u.meddled = s.meddled /\ u.fault = s.fault
  BY <1>4 DEF Fields
<1>6. DOMAIN to = present /\ \A o \in present : to[o] = Logical(m, ChannelOf(o))
  OBVIOUS
<1>7. t = SetHal(u, to)
  BY DEF Start, Linked, u
<1> HIDE DEF to, t
<1>8. /\ DOMAIN t = Fields
      /\ \A f \in Fields \ {"hal", "reg", "fault"} : t[f] = u[f]
      /\ t.hal = [o \in Objects |-> IF o \in DOMAIN to THEN to[o] ELSE u.hal[o]]
      /\ t.reg = (u.reg \ LeftBy(u, DOMAIN to)) \cup JoinedBy(u, to)
      /\ t.fault \subseteq u.fault \cup {"freed"}
      /\ (\A o \in DOMAIN to : u.hal[o] \in u.hals) => t.fault = u.fault
  BY <1>4, <1>7, SetHalFields
<1>9. /\ t.open = TRUE /\ t.mode = "TRANSPARENT" /\ t.up = FALSE /\ t.chan = waiting
      /\ t.hals = s.hals \cup logical /\ t.count = s.count /\ t.whole = s.whole
      /\ t.cbs = s.cbs /\ t.meddled = s.meddled
  BY <1>4, <1>5, <1>8 DEF Fields
<1>10. \A o \in Objects : t.hal[o] = IF o \in present THEN Logical(m, ChannelOf(o)) ELSE s.hal[o]
  BY <1>5, <1>6, <1>8
<1>11. \A x \in LeftBy(u, DOMAIN to) : x \notin s.reg
  <2>1. \A x \in LeftBy(u, DOMAIN to) : \E k \in CbsOf(u, DOMAIN to) :
          x = <<u.hal[Owner[k]], k>> /\ u.hal[Owner[k]] # Phy
    BY <1>4, LeftLogical
  <2>2. \A x \in s.reg : x[1] = Phy
    BY <1>1
  <2>3. QED
    BY <2>1, <2>2
<1>12. t.reg = s.reg \cup JoinedBy(u, to)
  BY <1>5, <1>8, <1>11
<1>13. JoinedBy(u, to) = {<<Logical(m, ChannelOf(Owner[k])), k>> : k \in {j \in s.cbs : Owner[j] \in present}}
  <2>1. CbsOf(u, DOMAIN to) = {j \in s.cbs : Owner[j] \in present}
    BY <1>5, <1>6 DEF CbsOf
  <2>2. \A j \in CbsOf(u, DOMAIN to) :
          to[Owner[j]] = Logical(m, ChannelOf(Owner[j])) /\ HalMode(u, to[Owner[j]]) = "AT"
    BY <1>2, <1>6, <2>1 DEF HalMode
  <2>3. {j \in CbsOf(u, DOMAIN to) : HalMode(u, to[Owner[j]]) = "AT"}
          = {j \in s.cbs : Owner[j] \in present}
    BY <2>1, <2>2
  <2>4. QED
    BY <2>1, <2>2, <2>3 DEF JoinedBy
<1>14. \A o \in present : Logical(m, ChannelOf(o)) \in t.hals
  BY <1>1, <1>9, ChannelFacts DEF logical
<1>15. HostType(t, m)
  <2>1. t.fault \subseteq {"freed", "null"}
    BY <1>1, <1>5, <1>8
  <2>2. t.chan \in [Channels -> ChannelStates]
    BY <1>9 DEF waiting, ChannelStates
  <2>3. t.reg \subseteq t.hals \X Cbs
    BY <1>1, <1>9, <1>12, <1>13, <1>14
  <2>4. DOMAIN t.hal = Objects
    BY <1>8
  <2>5. t.hals = {Phy} \cup {Logical(m, c) : c \in Channels}
    BY <1>1, <1>9 DEF logical
  <2>6. t.open \in BOOLEAN /\ t.up \in BOOLEAN /\ t.whole \in BOOLEAN /\ t.count \in Nat
    BY <1>1, <1>9
  <2>7. t.cbs \subseteq Cbs
    BY <1>1, <1>9
  <2>8. QED
    BY <1>8, <1>9, <2>1, <2>2, <2>3, <2>4, <2>5, <2>6, <2>7 DEF HostType
<1>16. Heard(t)
  <2>1. ASSUME NEW k \in t.cbs \ t.meddled
        PROVE  <<Phy, k>> \in t.reg /\ (t.hal[Owner[k]] \in t.hals => <<t.hal[Owner[k]], k>> \in t.reg)
    <3>1. k \in s.cbs \ s.meddled /\ <<Phy, k>> \in s.reg /\ Owner[k] \in Objects
      BY <1>1, <1>9, <2>1, ChannelFacts DEF HostInv, Heard
    <3>2. CASE Owner[k] \in present
      BY <1>10, <1>12, <1>13, <3>1, <3>2
    <3>3. CASE Owner[k] \notin present
      <4>1. t.hal[Owner[k]] = Phy
        BY <1>10, <3>1, <3>3 DEF HostInv, Placed
      <4>2. QED
        BY <1>12, <3>1, <4>1
    <3>4. QED
      BY <3>2, <3>3
  <2>2. ASSUME NEW r \in t.reg
        PROVE  /\ r[2] \in t.cbs \/ (r[1] = Phy /\ r[2] \in t.meddled)
               /\ r[1] \in {Phy, t.hal[Owner[r[2]]]}
    <3>1. CASE r \in s.reg
      <4>1. r[1] = Phy
        BY <1>1, <3>1
      <4>2. r[2] \in s.cbs \/ r[2] \in s.meddled
        BY <3>1 DEF HostInv, Heard
      <4>3. QED
        BY <1>9, <4>1, <4>2
    <3>2. CASE r \in JoinedBy(u, to)
      <4>1. PICK k \in s.cbs : Owner[k] \in present /\ r = <<Logical(m, ChannelOf(Owner[k])), k>>
        BY <1>13, <3>2
      <4>2. Owner[k] \in Objects
        BY <1>1, <4>1
      <4>3. QED
        BY <1>9, <1>10, <4>1, <4>2
    <3>3. QED
      BY <1>12, <3>1, <3>2
  <2>3. QED
    BY <2>1, <2>2 DEF Heard
<1>17. Placed(t)
  <2>1. \A o \in Objects \ present : t.hal[o] = Phy
    BY <1>10 DEF HostInv, Placed
  <2>2. \A o \in present : t.hal[o] \in t.hals
    BY <1>1, <1>10, <1>14
  <2>3. ASSUME Gapless PROVE "freed" \notin t.fault
    <3>1. "freed" \notin s.fault /\ \A o \in present : s.hal[o] \in s.hals
      BY <2>3 DEF HostInv, Placed
    <3>2. \A o \in DOMAIN to : u.hal[o] \in u.hals
      BY <1>4, <1>5, <1>6, <3>1
    <3>3. QED
      BY <1>5, <1>8, <3>1, <3>2
  <2>4. QED
    BY <1>1, <2>1, <2>2, <2>3 DEF Placed
<1>18. QED
  BY <1>15, <1>16, <1>17 DEF HostInv, t, m

-----------------------------------------------------------------------------
(* tcore_cmux_process_rcv_frame and what it calls *)

\* The types of the rest.
LEMMA Typed ==
  ASSUME NEW s, NEW n, HostInv(s, n)
  PROVE  /\ DOMAIN s = Fields /\ s.chan \in [Channels -> ChannelStates]
         /\ s.count \in Nat /\ s.up \in BOOLEAN
  BY DEF HostInv, HostType

\* UI and UIH: a close-down of the modem closes.
LEMMA OnDataKeeps ==
  ASSUME NEW s, NEW n, HostInv(s, n), s.open, NEW c, NEW data
  PROVE  HostInv(OnData(s, c, data), n)
<1>1. CASE c # 0
  <2> DEFINE t == [s EXCEPT !.got[c] = Append(@, data)]
  <2>1. /\ DOMAIN t = Fields
        /\ \A f \in Fields \ {"got"} : t[f] = s[f]
    BY Typed DEF Fields
  <2>2. OnData(s, c, data) = t
    BY <1>1 DEF OnData
  <2> HIDE DEF t
  <2>3. /\ \A f \in Held : t[f] = s[f]
        /\ t.chan = s.chan /\ t.count = s.count /\ t.up = s.up
    BY <2>1 DEF Fields, Held
  <2>4. t.chan \in [Channels -> ChannelStates] /\ t.count \in Nat /\ t.up \in BOOLEAN
    BY <2>3, Typed
  <2>5. QED
    BY <2>1, <2>2, <2>3, <2>4, HeldKeeps
<1>2. CASE c = 0
  <2>1. OnData(s, c, data) \in {s, Close(s)}
    BY <1>2 DEF OnData
  <2>2. HostInv(Close(s), n)
    BY CloseKeeps
  <2>3. QED
    BY <2>1, <2>2
<1>3. QED
  BY <1>1, <1>2

\* A change of the channels' states.
LEMMA ChanKeeps ==
  ASSUME NEW s, NEW n, HostInv(s, n), NEW c, NEW x \in ChannelStates
  PROVE  HostInv([s EXCEPT !.chan[c] = x], n)
<1> DEFINE t == [s EXCEPT !.chan[c] = x]
<1>1. DOMAIN s = Fields /\ s.chan \in [Channels -> ChannelStates]
      /\ s.count \in Nat /\ s.up \in BOOLEAN
  BY Typed
<1>2. /\ DOMAIN t = Fields /\ t.chan = [s.chan EXCEPT ![c] = x]
      /\ \A f \in Fields \ {"chan"} : t[f] = s[f]
  BY <1>1 DEF Fields
<1> HIDE DEF t
<1>3. (\A f \in Held : t[f] = s[f]) /\ t.count = s.count /\ t.up = s.up
  BY <1>2 DEF Fields, Held
<1>4. t.chan \in [Channels -> ChannelStates]
  BY <1>1, <1>2
<1>5. t.count \in Nat /\ t.up \in BOOLEAN
  BY <1>1, <1>3
<1>6. HostInv(t, n)
  BY <1>2, <1>3, <1>4, <1>5, HeldKeeps
<1>7. QED
  BY <1>6 DEF t

\* UA
LEMMA OnUAKeeps ==
  ASSUME NEW s, NEW n, HostInv(s, n), NEW c
  PROVE  HostInv(OnUA(s, c), n)
<1>1. CASE s.chan[c] # "SABM_SEND_WAITING_FOR_UA"
  BY <1>1 DEF OnUA
<1>2. CASE s.chan[c] = "SABM_SEND_WAITING_FOR_UA"
  <2> DEFINE all == s.count + 1 = Cardinality(Channels)
             there == "modem" \in present
             count == IF all /\ there THEN 0 ELSE s.count + 1
             isUp == s.up \/ (all /\ there)
             t == OnUA(s, c)
  <2>1. DOMAIN s = Fields /\ s.chan \in [Channels -> ChannelStates]
        /\ s.count \in Nat /\ s.up \in BOOLEAN
    BY Typed
  <2>2. count \in Nat
    BY <2>1
  <2>3. isUp \in BOOLEAN
    OBVIOUS
  <2>4. t = [s EXCEPT !.chan[c] = "ESTABLISHED", !.count = count, !.up = isUp]
    BY <1>2, <2>1 DEF OnUA, Fields
  <2> HIDE DEF t, count, isUp, all, there
  <2>5. /\ DOMAIN t = Fields /\ t.chan = [s.chan EXCEPT ![c] = "ESTABLISHED"]
        /\ t.count = count /\ t.up = isUp
        /\ \A f \in Fields \ {"chan", "count", "up"} : t[f] = s[f]
    BY <2>1, <2>4 DEF Fields
  <2>6. \A f \in Held : t[f] = s[f]
    BY <2>5 DEF Fields, Held
  <2>7. t.chan \in [Channels -> ChannelStates]
    BY <2>1, <2>5 DEF ChannelStates
  <2>8. t.count \in Nat /\ t.up \in BOOLEAN
    BY <2>2, <2>3, <2>5
  <2>9. HostInv(t, n)
    BY <2>5, <2>6, <2>7, <2>8, HeldKeeps
  <2>10. QED
    BY <2>9 DEF t
<1>3. QED
  BY <1>1, <1>2

\* DISC: that of channel 0 closes.
LEMMA OnDISCKeeps ==
  ASSUME NEW s, NEW n, HostInv(s, n), s.open, NEW c, NEW pf
  PROVE  HostInv(OnDISC(s, c, pf), n)
<1> DEFINE answered == Out(s, c, IF s.chan[c] = "CLOSED" THEN DM ELSE UA, Poll)
<1>1. OnDISC(s, c, pf) \in {s, answered, Close(answered)}
  BY DEF OnDISC
<1>2. HostInv(answered, n) /\ answered.open = s.open
  BY OutKeeps
<1> HIDE DEF answered
<1>3. HostInv(Close(answered), n)
  BY <1>2, CloseKeeps
<1>4. QED
  BY <1>1, <1>2, <1>3

\* SABM
LEMMA OnSABMKeeps ==
  ASSUME NEW s, NEW n, HostInv(s, n), NEW c, NEW pf
  PROVE  HostInv(OnSABM(s, c, pf), n)
<1> DEFINE u == Out(s, c, UA, Poll)
<1>1. OnSABM(s, c, pf) \in {s, [u EXCEPT !.chan[c] = "ESTABLISHED"]}
  BY DEF OnSABM
<1>2. HostInv(u, n)
  BY OutKeeps
<1>3. "ESTABLISHED" \in ChannelStates
  BY DEF ChannelStates
<1> HIDE DEF u
<1>4. HostInv([u EXCEPT !.chan[c] = "ESTABLISHED"], n)
  BY <1>2, <1>3, ChanKeeps
<1>5. QED
  BY <1>1, <1>2, <1>4

\* tcore_cmux_process_channel_data
LEMMA ChannelDataKeeps ==
  ASSUME NEW s, NEW n, HostInv(s, n), s.open, NEW f
  PROVE  HostInv(ProcessChannelData(s, f), n)
<1> DEFINE c == f.channel
           acted == s.acted \cup {<<c, f.type, f.pf>>}
           t == [s EXCEPT !.acted = acted]
<1>1. DOMAIN s = Fields /\ s.chan \in [Channels -> ChannelStates]
      /\ s.count \in Nat /\ s.up \in BOOLEAN
  BY Typed
<1>2. ProcessChannelData(s, f) \in
        {OnData(t, c, f.data), OnUA(t, c), OnDM(t, c), OnDISC(t, c, f.pf), OnSABM(t, c, f.pf), t}
  BY <1>1 DEF ProcessChannelData, Fields
<1> HIDE DEF acted
<1>3. DOMAIN t = Fields /\ \A x \in Fields \ {"acted"} : t[x] = s[x]
  BY <1>1 DEF Fields
<1> HIDE DEF t, c
<1>4. (\A x \in Held : t[x] = s[x]) /\ t.chan = s.chan /\ t.count = s.count /\ t.up = s.up
  BY <1>3 DEF Fields, Held
<1>5. t.chan \in [Channels -> ChannelStates] /\ t.count \in Nat /\ t.up \in BOOLEAN
  BY <1>1, <1>4
<1>6. HostInv(t, n) /\ t.open
  BY <1>3, <1>4, <1>5, HeldKeeps
<1>7. HostInv(OnDM(t, c), n)
  <2>1. "CLOSED" \in ChannelStates
    BY DEF ChannelStates
  <2>2. QED
    BY <1>6, <2>1, ChanKeeps DEF OnDM
<1>8. HostInv(OnData(t, c, f.data), n)
  BY <1>6, OnDataKeeps
<1>9. HostInv(OnUA(t, c), n)
  BY <1>6, OnUAKeeps
<1>10. HostInv(OnDISC(t, c, f.pf), n)
  BY <1>6, OnDISCKeeps
<1>11. HostInv(OnSABM(t, c, f.pf), n)
  BY <1>6, OnSABMKeeps
<1>12. QED
  BY <1>2, <1>6, <1>7, <1>8, <1>9, <1>10, <1>11

\* tcore_cmux_process_rcv_frame
LEMMA FrameKeeps ==
  ASSUME NEW s, NEW n, HostInv(s, n), NEW frame
  PROVE  HostInv(ProcessFrame(s, frame), n)
<1>1. CASE ~s.open
  <2> DEFINE t == Fault(s, "null")
  <2>1. DOMAIN s = Fields
    BY Typed
  <2>2. /\ DOMAIN t = Fields /\ t.fault = s.fault \cup {"null"}
        /\ \A x \in Fields \ {"fault"} : t[x] = s[x]
    BY <2>1 DEF Fault, Fields
  <2> HIDE DEF t
  <2>3. /\ t.open = s.open /\ t.mode = s.mode /\ t.hals = s.hals /\ t.hal = s.hal
        /\ t.cbs = s.cbs /\ t.reg = s.reg /\ t.meddled = s.meddled
        /\ t.chan = s.chan /\ t.count = s.count /\ t.up = s.up /\ t.whole = s.whole
    BY <2>2 DEF Fields
  <2>4. /\ s.chan \in [Channels -> ChannelStates] /\ s.count \in Nat
        /\ s.up \in BOOLEAN /\ s.whole \in BOOLEAN
    BY DEF HostInv, HostType
  <2>5. /\ t.chan \in [Channels -> ChannelStates] /\ t.count \in Nat
        /\ t.up \in BOOLEAN /\ t.whole \in BOOLEAN
    BY <2>3, <2>4
  <2>6. HostInv(t, n)
    BY <2>2, <2>3, <2>5, Keeps
  <2>7. QED
    BY <1>1, <2>6 DEF ProcessFrame, t
<1>2. CASE s.open
  <2>1. HostInv(ProcessChannelData(s, Parse(frame)), n)
    BY <1>2, ChannelDataKeeps
  <2>2. QED
    BY <1>2, <2>1 DEF ProcessFrame
<1>3. QED
  BY <1>1, <1>2

\* A step of the decoder, with the frame it completes.
LEMMA TakeKeeps ==
  ASSUME NEW x, NEW n, HostInv(x.s, n)
  PROVE  HostInv(Take(x).s, n)
<1> DEFINE s == x.s
           d == Hunt(s.dec, x.rest)
           dec == d.dec
           t == [s EXCEPT !.dec = dec]
<1>0. DOMAIN s = Fields /\ s.chan \in [Channels -> ChannelStates]
      /\ s.count \in Nat /\ s.up \in BOOLEAN
  BY Typed
<1>1. Take(x).s \in {s, t, ProcessFrame(t, d.frame)}
  BY DEF Take
<1> HIDE DEF d, dec, s
<1>2. DOMAIN t = Fields /\ \A f \in Fields \ {"dec"} : t[f] = s[f]
  BY <1>0 DEF Fields
<1> HIDE DEF t
<1>3. (\A f \in Held : t[f] = s[f]) /\ t.chan = s.chan /\ t.count = s.count /\ t.up = s.up
  BY <1>2 DEF Fields, Held
<1>4. t.chan \in [Channels -> ChannelStates] /\ t.count \in Nat /\ t.up \in BOOLEAN
  BY <1>0, <1>3
<1>5. HostInv(s, n)
  BY DEF s
<1>6. HostInv(t, n)
  BY <1>2, <1>3, <1>4, <1>5, HeldKeeps
<1>7. HostInv(ProcessFrame(t, d.frame), n)
  BY <1>6, FrameKeeps
<1>8. QED
  BY <1>1, <1>5, <1>6, <1>7

-----------------------------------------------------------------------------
(* tcore_cmux_rcv_from_hal: the loop over what was read *)

\* The turns of the loop: g[i] is what i steps of the decoder make of start.
Steps(g, m, start) ==
  /\ DOMAIN g = 0..m /\ g = [i \in 0..m |-> g[i]]
  /\ g[0] = start /\ \A i \in 1..m : g[i] = Take(g[i - 1])

\* The turns are there, of any read.
LEMMA StepsExist ==
  ASSUME NEW start, NEW m \in Nat
  PROVE  \E g : Steps(g, m, start)
<1> DEFINE U == {k \in Nat : \E g : Steps(g, k, start)}
<1>1. 0 \in U
  <2> DEFINE g == [i \in 0..0 |-> start]
  <2>1. DOMAIN g = 0..0 /\ g = [i \in 0..0 |-> g[i]] /\ g[0] = start
    OBVIOUS
  <2>2. \A i \in 1..0 : g[i] = Take(g[i - 1])
    OBVIOUS
  <2> HIDE DEF g
  <2>3. Steps(g, 0, start)
    BY <2>1, <2>2 DEF Steps
  <2>4. QED
    BY <2>3
<1>2. ASSUME NEW k \in Nat, NEW g, Steps(g, k, start)
      PROVE  \E f : Steps(f, k + 1, start)
  <2> DEFINE f == [i \in 0..(k + 1) |-> IF i <= k THEN g[i] ELSE Take(g[k])]
  <2>1. DOMAIN f = 0..(k + 1) /\ f = [i \in 0..(k + 1) |-> f[i]]
    OBVIOUS
  <2>2. (\A i \in 0..k : f[i] = g[i]) /\ f[k + 1] = Take(g[k])
    OBVIOUS
  <2> HIDE DEF f
  <2>3. g[0] = start /\ \A i \in 1..k : g[i] = Take(g[i - 1])
    BY <1>2 DEF Steps
  <2>4. f[0] = start
    BY <2>2, <2>3
  <2>5. ASSUME NEW i \in 1..(k + 1) PROVE f[i] = Take(f[i - 1])
    <3>1. CASE i = k + 1
      <4>1. i - 1 = k /\ k \in 0..k
        BY <3>1
      <4>2. QED
        BY <2>2, <3>1, <4>1
    <3>2. CASE i # k + 1
      <4>1. i \in 1..k /\ i \in 0..k /\ i - 1 \in 0..k
        BY <3>2
      <4>2. QED
        BY <2>2, <2>3, <4>1
    <3>3. QED
      BY <3>1, <3>2
  <2>6. Steps(f, k + 1, start)
    BY <2>1, <2>4, <2>5 DEF Steps
  <2>7. QED
    BY <2>6
<1>3. \A k \in Nat : k \in U => k + 1 \in U
  BY <1>2
<1>4. Nat \subseteq U
  <2> HIDE DEF U
  <2>1. QED
    BY <1>1, <1>3, SetInduction
<1>5. QED
  BY <1>4

\* Each of them keeps the invariant.
LEMMA StepsKeep ==
  ASSUME NEW g, NEW m \in Nat, NEW start, Steps(g, m, start), NEW n, HostInv(start.s, n)
  PROVE  HostInv(g[m].s, n)
<1> DEFINE U == {k \in Nat : k <= m => HostInv(g[k].s, n)}
<1>1. g[0] = start /\ \A i \in 1..m : g[i] = Take(g[i - 1])
  BY DEF Steps
<1>2. 0 \in U
  BY <1>1
<1>3. ASSUME NEW k \in Nat, k <= m => HostInv(g[k].s, n), k + 1 <= m
      PROVE  HostInv(g[k + 1].s, n)
  <2>1. k + 1 \in 1..m /\ (k + 1) - 1 = k /\ k <= m
    BY <1>3
  <2>2. g[k + 1] = Take(g[k])
    BY <1>1, <2>1
  <2>3. HostInv(Take(g[k]).s, n)
    BY <1>3, <2>1, TakeKeeps
  <2>4. QED
    BY <2>2, <2>3
<1>4. \A k \in Nat : k \in U => k + 1 \in U
  BY <1>3
<1>5. Nat \subseteq U
  <2> HIDE DEF U
  <2>1. QED
    BY <1>2, <1>4, SetInduction
<1>6. QED
  BY <1>5

\* Receive is the last of them.
LEMMA ReceiveTurns ==
  ASSUME NEW s, NEW bs, Len(bs) \in Nat
  PROVE  \E g : /\ Steps(g, 2 * Len(bs), [s |-> s, rest |-> bs])
               /\ Receive(s, bs) = g[2 * Len(bs)].s
<1> DEFINE m == 2 * Len(bs)
           start == [s |-> s, rest |-> bs]
           G(k) == [i \in 0..m |-> IF i = 0 THEN start ELSE Take(k[i - 1])]
           turn == CHOOSE k : k = G(k)
<1>1. m \in Nat
  OBVIOUS
<1>2. Receive(s, bs) = turn[m].s
  BY DEF Receive
<1> HIDE DEF m, start
<1>4. PICK g : Steps(g, m, start)
  BY <1>1, StepsExist
<1>5. g = G(g)
  <2>1. g = [i \in 0..m |-> g[i]]
    BY <1>4 DEF Steps
  <2>2. \A i \in 0..m : i = 0 \/ i \in 1..m
    BY <1>1
  <2>3. \A i \in 0..m : g[i] = IF i = 0 THEN start ELSE Take(g[i - 1])
    BY <1>4, <2>2 DEF Steps
  <2>4. [i \in 0..m |-> g[i]] = G(g)
    BY <2>3
  <2> HIDE DEF G
  <2>5. QED
    BY <2>1, <2>4
<1>6. turn = G(turn)
  <2> HIDE DEF G
  <2>1. QED
    BY <1>5
<1> HIDE DEF turn
<1>7. Steps(turn, m, start)
  <2>1. turn = [i \in 0..m |-> turn[i]] /\ DOMAIN turn = 0..m
    <3> DEFINE F(i) == IF i = 0 THEN start ELSE Take(turn[i - 1])
    <3>1. turn = [i \in 0..m |-> F(i)]
      BY <1>6
    <3> HIDE DEF F
    <3>2. DOMAIN turn = 0..m /\ \A i \in 0..m : turn[i] = F(i)
      BY <3>1
    <3>3. QED
      BY <3>1, <3>2
  <2>2. \A i \in 0..m : turn[i] = IF i = 0 THEN start ELSE Take(turn[i - 1])
    BY <1>6
  <2>3. 0 \in 0..m /\ \A i \in 1..m : i \in 0..m /\ i # 0
    BY <1>1
  <2>4. turn[0] = start /\ \A i \in 1..m : turn[i] = Take(turn[i - 1])
    BY <2>2, <2>3
  <2>5. QED
    BY <2>1, <2>4 DEF Steps
<1>8. QED
  BY <1>2, <1>7 DEF m, start

\* So a read keeps it, whatever is read.
LEMMA ReceiveKeeps ==
  ASSUME NEW s, NEW n, HostInv(s, n), NEW bs, Len(bs) \in Nat
  PROVE  HostInv(Receive(s, bs), n)
<1> DEFINE m == 2 * Len(bs)
           start == [s |-> s, rest |-> bs]
<1>1. m \in Nat /\ HostInv(start.s, n)
  OBVIOUS
<1>2. PICK g : Steps(g, m, start) /\ Receive(s, bs) = g[m].s
  BY ReceiveTurns
<1> HIDE DEF m, start
<1>3. QED
  BY <1>1, <1>2, StepsKeep

-----------------------------------------------------------------------------
(* The plugins' calls *)

\* What a step makes of the process.
LEMMA DoKeeps ==
  ASSUME NEW s, NEW n, HostInv(s, n), Do(s), present' = present, session' = n
  PROVE  HostInv(h, session)' /\ h'.out = <<>>
<1> DEFINE t == [s EXCEPT !.out = <<>>]
<1>1. DOMAIN s = Fields /\ s.chan \in [Channels -> ChannelStates]
      /\ s.count \in Nat /\ s.up \in BOOLEAN
  BY Typed
<1>2. h' = t
  BY DEF Do
<1>3. /\ DOMAIN t = Fields /\ t.out = <<>>
      /\ \A f \in Fields \ {"out"} : t[f] = s[f]
  BY <1>1 DEF Fields
<1> HIDE DEF t
<1>4. (\A f \in Held : t[f] = s[f]) /\ t.chan = s.chan /\ t.count = s.count /\ t.up = s.up
  BY <1>3 DEF Fields, Held
<1>5. t.chan \in [Channels -> ChannelStates] /\ t.count \in Nat /\ t.up \in BOOLEAN
  BY <1>1, <1>4
<1>6. HostInv(t, n)
  BY <1>3, <1>4, <1>5, HeldKeeps
<1>7. HostInv(h', session')
  BY <1>2, <1>6
<1>8. HostInv(h, session)'
  BY <1>7 DEF HostInv, HostType, Heard, Placed, Gapless
<1>9. QED
  BY <1>2, <1>3, <1>8

\* An object sends.
LEMMA SendKeeps ==
  ASSUME NEW n, HostInv(h, n), NEW o \in Objects, h.hal[o] # Phy, NEW out
  PROVE  HostInv(IF h.hal[o] \in h.hals THEN [h EXCEPT !.out = out] ELSE Fault(h, "freed"), n)
<1>1. DOMAIN h = Fields /\ h.chan \in [Channels -> ChannelStates]
      /\ h.count \in Nat /\ h.up \in BOOLEAN
  BY Typed
<1>2. CASE h.hal[o] \in h.hals
  <2> DEFINE t == [h EXCEPT !.out = out]
  <2>1. DOMAIN t = Fields /\ \A f \in Fields \ {"out"} : t[f] = h[f]
    BY <1>1 DEF Fields
  <2> HIDE DEF t
  <2>2. (\A f \in Held : t[f] = h[f]) /\ t.chan = h.chan /\ t.count = h.count /\ t.up = h.up
    BY <2>1 DEF Fields, Held
  <2>3. t.chan \in [Channels -> ChannelStates] /\ t.count \in Nat /\ t.up \in BOOLEAN
    BY <1>1, <2>2
  <2>4. HostInv(t, n)
    BY <2>1, <2>2, <2>3, HeldKeeps
  <2>5. QED
    BY <1>2, <2>4 DEF t
<1>3. CASE h.hal[o] \notin h.hals
  <2> DEFINE t == Fault(h, "freed")
  <2>1. /\ DOMAIN t = Fields /\ t.fault = h.fault \cup {"freed"}
        /\ \A f \in Fields \ {"fault"} : t[f] = h[f]
    BY <1>1 DEF Fault, Fields
  <2> HIDE DEF t
  <2>2. /\ t.open = h.open /\ t.mode = h.mode /\ t.hals = h.hals /\ t.hal = h.hal
        /\ t.cbs = h.cbs /\ t.reg = h.reg /\ t.meddled = h.meddled
        /\ t.chan = h.chan /\ t.count = h.count /\ t.up = h.up /\ t.whole = h.whole
    BY <2>1 DEF Fields
  <2>3. HostType(t, n)
    BY <2>1, <2>2 DEF HostInv, HostType
  <2>4. Heard(t)
    BY <2>2 DEF HostInv, Heard
  <2>5. ~Gapless
    BY <1>3 DEF HostInv, Placed
  <2>6. Placed(t)
    BY <2>2, <2>5 DEF HostInv, Placed
  <2>7. HostInv(t, n)
    BY <2>3, <2>4, <2>6 DEF HostInv
  <2>8. QED
    BY <1>3, <2>7 DEF t
<1>4. QED
  BY <1>2, <1>3

\* What both calls may rely on.
LEMMA MirroredFacts ==
  ASSUME NEW n, HostInv(h, n), NEW k, h.hal[Owner[k]] \in h.hals
  PROVE  /\ \A r \in Mirrored(k) : r = <<h.hal[Owner[k]], k>>
         /\ ~h.open => h.hal[Owner[k]] = Phy /\ Mirrored(k) = {<<Phy, k>>}
         /\ h.hal[Owner[k]] # Phy => Mirrored(k) = {<<h.hal[Owner[k]], k>>}
  BY HalTypes DEF Mirrored, HalMode

\* A callback that is added, before, during or after a session.
LEMMA AddKeeps ==
  ASSUME NEW n, HostInv(h, n), NEW k \in Cbs, Owner[k] \in present,
         h.hal[Owner[k]] \in h.hals, NEW t, DOMAIN t = Fields,
         t.cbs = h.cbs \cup {k}, t.reg = h.reg \cup Mirrored(k),
         t.meddled = IF h.open THEN h.meddled \cup {k} ELSE h.meddled,
         \A f \in Fields \ {"cbs", "reg", "meddled"} : t[f] = h[f]
  PROVE  HostInv(t, n)
<1>1. /\ t.open = h.open /\ t.mode = h.mode /\ t.hals = h.hals /\ t.hal = h.hal
      /\ t.chan = h.chan /\ t.count = h.count /\ t.up = h.up /\ t.whole = h.whole
      /\ t.fault = h.fault
  BY DEF Fields
<1>2. /\ \A r \in Mirrored(k) : r = <<h.hal[Owner[k]], k>>
      /\ ~h.open => h.hal[Owner[k]] = Phy /\ Mirrored(k) = {<<Phy, k>>}
  BY MirroredFacts
<1>3. HostType(t, n)
  <2>1. h.reg \subseteq h.hals \X Cbs /\ h.cbs \subseteq Cbs
    BY HalTypes
  <2>2. t.reg \subseteq t.hals \X Cbs /\ t.cbs \subseteq Cbs
    BY <1>1, <1>2, <2>1
  <2>3. QED
    BY <1>1, <2>2 DEF HostInv, HostType
<1>4. Heard(t)
  <2>1. ASSUME NEW j \in t.cbs \ t.meddled
        PROVE  <<Phy, j>> \in t.reg /\ (t.hal[Owner[j]] \in t.hals => <<t.hal[Owner[j]], j>> \in t.reg)
    <3>1. CASE j \in h.cbs
      BY <1>1, <2>1, <3>1 DEF HostInv, Heard
    <3>2. CASE j = k
      BY <1>1, <1>2, <2>1, <3>2
    <3>3. QED
      BY <2>1, <3>1, <3>2
  <2>2. ASSUME NEW r \in t.reg
        PROVE  /\ r[2] \in t.cbs \/ (r[1] = Phy /\ r[2] \in t.meddled)
               /\ r[1] \in {Phy, t.hal[Owner[r[2]]]}
    <3>1. CASE r \in h.reg
      BY <1>1, <3>1 DEF HostInv, Heard
    <3>2. CASE r \in Mirrored(k)
      BY <1>1, <1>2, <3>2
    <3>3. QED
      BY <2>2, <3>1, <3>2
  <2>3. QED
    BY <2>1, <2>2 DEF Heard
<1>5. Placed(t)
  BY <1>1 DEF HostInv, Placed
<1>6. QED
  BY <1>3, <1>4, <1>5 DEF HostInv

\* A callback that is deleted.
LEMMA DelKeeps ==
  ASSUME NEW n, HostInv(h, n), NEW k \in Cbs, Owner[k] \in present,
         h.hal[Owner[k]] \in h.hals, NEW t, DOMAIN t = Fields,
         t.cbs = h.cbs \ {k}, t.reg = h.reg \ Mirrored(k),
         t.meddled = IF h.open THEN h.meddled \cup {k} ELSE h.meddled,
         \A f \in Fields \ {"cbs", "reg", "meddled"} : t[f] = h[f]
  PROVE  HostInv(t, n)
<1>1. /\ t.open = h.open /\ t.mode = h.mode /\ t.hals = h.hals /\ t.hal = h.hal
      /\ t.chan = h.chan /\ t.count = h.count /\ t.up = h.up /\ t.whole = h.whole
      /\ t.fault = h.fault
  BY DEF Fields
<1>2. /\ \A r \in Mirrored(k) : r = <<h.hal[Owner[k]], k>>
      /\ ~h.open => h.hal[Owner[k]] = Phy /\ Mirrored(k) = {<<Phy, k>>}
      /\ h.hal[Owner[k]] # Phy => Mirrored(k) = {<<h.hal[Owner[k]], k>>}
  BY MirroredFacts
<1>3. HostType(t, n)
  <2>1. h.reg \subseteq h.hals \X Cbs /\ h.cbs \subseteq Cbs
    BY HalTypes
  <2>2. t.reg \subseteq t.hals \X Cbs /\ t.cbs \subseteq Cbs
    BY <1>1, <2>1
  <2>3. QED
    BY <1>1, <2>2 DEF HostInv, HostType
<1>4. Heard(t)
  <2>1. ASSUME NEW j \in t.cbs \ t.meddled
        PROVE  <<Phy, j>> \in t.reg /\ (t.hal[Owner[j]] \in t.hals => <<t.hal[Owner[j]], j>> \in t.reg)
    <3>1. j # k /\ j \in h.cbs \ h.meddled
      BY <2>1
    <3>2. <<Phy, j>> \in h.reg /\ (h.hal[Owner[j]] \in h.hals => <<h.hal[Owner[j]], j>> \in h.reg)
      BY <3>1 DEF HostInv, Heard
    <3>3. \A x : <<x, j>> \notin Mirrored(k)
      BY <1>2, <3>1
    <3>4. QED
      BY <1>1, <3>2, <3>3
  <2>2. ASSUME NEW r \in t.reg
        PROVE  /\ r[2] \in t.cbs \/ (r[1] = Phy /\ r[2] \in t.meddled)
               /\ r[1] \in {Phy, t.hal[Owner[r[2]]]}
    <3>1. /\ r \in h.reg /\ r \notin Mirrored(k)
          /\ r[2] \in h.cbs \/ (r[1] = Phy /\ r[2] \in h.meddled)
          /\ r[1] \in {Phy, h.hal[Owner[r[2]]]}
      BY <2>2 DEF HostInv, Heard
    <3>2. CASE r[2] # k
      BY <1>1, <3>1, <3>2
    <3>3. CASE r[2] = k
      <4>1. r = <<r[1], k>>
        BY <3>1, <3>3, HalTypes
      <4>2. r[1] = Phy
        BY <1>2, <3>1, <3>3, <4>1
      <4>3. h.open
        BY <1>2, <3>1, <4>1, <4>2
      <4>4. QED
        BY <1>1, <3>3, <4>2, <4>3
    <3>4. QED
      BY <3>2, <3>3
  <2>3. QED
    BY <2>1, <2>2 DEF Heard
<1>5. Placed(t)
  BY <1>1 DEF HostInv, Placed
<1>6. QED
  BY <1>3, <1>4, <1>5 DEF HostInv

-----------------------------------------------------------------------------
(* What is on the line is a sequence, so that a read takes a number of turns *)

\* A sequence, of whatever.
IsSeq(s) == \E S : s \in Seq(S)

\* Two sequences in a row.
LEMMA SeqJoined ==
  ASSUME NEW a, NEW b, IsSeq(a), IsSeq(b)
  PROVE  IsSeq(a \o b)
<1>1. PICK S : a \in Seq(S)
  BY DEF IsSeq
<1>2. PICK T : b \in Seq(T)
  BY DEF IsSeq
<1>3. a \in Seq(S \cup T)
  <2>1. S \subseteq S \cup T
    OBVIOUS
  <2>2. QED
    BY <1>1, <2>1
<1>4. b \in Seq(S \cup T)
  <2>1. T \subseteq S \cup T
    OBVIOUS
  <2>2. QED
    BY <1>2, <2>1
<1>5. a \o b \in Seq(S \cup T)
  BY <1>3, <1>4, ConcatProperties
<1>6. QED
  BY <1>5 DEF IsSeq

\* One element.
LEMMA One ==
  ASSUME NEW x PROVE IsSeq(<<x>>)
<1>1. <<x>> \in Seq({x})
  OBVIOUS
<1>2. QED
  BY <1>1 DEF IsSeq

\* Two elements.
LEMMA Two ==
  ASSUME NEW x, NEW y PROVE IsSeq(<<x, y>>)
<1>1. <<x, y>> \in Seq({x, y})
  OBVIOUS
<1>2. QED
  BY <1>1 DEF IsSeq

\* A frame is a sequence.
LEMMA Frames ==
  ASSUME NEW c, NEW type, NEW pf, NEW data, IsSeq(data)
  PROVE  IsSeq(Encode(c, type, pf, data))
<1> DEFINE n == Len(data)
           size == IF n < 128 THEN <<(2 * n + 1) % 256>>
                   ELSE <<(2 * n) % 256, (n \div 128) % 256>>
           header == <<4 * c + 3, type + pf>> \o size
           covered == SubSeq(header, 1, IF n < 128 THEN 3 ELSE 4)
           crc == calc_crc(covered)
<1>1. Encode(c, type, pf, data) = <<Flag>> \o header \o data \o <<crc, Flag>>
  BY DEF Encode
<1>2. IsSeq(size)
  BY One, Two
<1> HIDE DEF size, covered, crc
<1>3. IsSeq(header)
  BY <1>2, Two, SeqJoined
<1> HIDE DEF header
<1>4. IsSeq(<<Flag>>) /\ IsSeq(<<crc, Flag>>)
  BY One, Two
<1>5. IsSeq(<<Flag>> \o header)
  BY <1>3, <1>4, SeqJoined
<1>6. IsSeq(<<Flag>> \o header \o data)
  BY <1>5, SeqJoined
<1>7. IsSeq(<<Flag>> \o header \o data \o <<crc, Flag>>)
  BY <1>4, <1>6, SeqJoined
<1>8. QED
  BY <1>1, <1>7

\* So is a damaged one.
LEMMA Flipped ==
  ASSUME NEW s, IsSeq(s), NEW i, NEW x
  PROVE  IsSeq([s EXCEPT ![i] = x])
<1>1. PICK S : s \in Seq(S)
  BY DEF IsSeq
<1>2. S \subseteq S \cup {x}
  OBVIOUS
<1>3. s \in Seq(S \cup {x})
  BY <1>1, <1>2
<1>4. [s EXCEPT ![i] = x] \in Seq(S \cup {x})
  <2>1. CASE i \in 1..Len(s)
    BY <1>3, <2>1, ExceptSeq
  <2>2. CASE i \notin 1..Len(s)
    <3>1. DOMAIN s = 1..Len(s) /\ s = [j \in 1..Len(s) |-> s[j]]
      BY <1>1, LenProperties
    <3>2. [s EXCEPT ![i] = x] = s
      BY <2>2, <3>1
    <3>3. QED
      BY <1>3, <3>2
  <2>3. QED
    BY <2>1, <2>2
<1>5. QED
  BY <1>4 DEF IsSeq

\* The modem's frames leave a sequence on the line.
LEMMA SayKeeps ==
  ASSUME IsSeq(line), NEW c, NEW type, NEW pf, NEW data, IsSeq(data), NEW why, NEW cost,
         Say(c, type, pf, data, why, cost)
  PROVE  IsSeq(line')
<1> DEFINE frame == Encode(c, type, pf, data)
<1>1. IsSeq(frame)
  BY Frames
<1>2. \/ line' = line \o frame
      \/ \E i \in {2, 3, 4, Len(frame) - 1}, b \in Flips :
           line' = line \o [frame EXCEPT ![i] = ByteXor(@, b)]
  BY DEF Say
<1> HIDE DEF frame
<1>3. ASSUME NEW i, NEW b PROVE IsSeq([frame EXCEPT ![i] = ByteXor(@, b)])
  <2>1. PICK x : [frame EXCEPT ![i] = ByteXor(@, b)] = [frame EXCEPT ![i] = x]
    OBVIOUS
  <2>2. QED
    BY <1>1, <2>1, Flipped
<1>4. QED
  BY <1>1, <1>2, <1>3, SeqJoined

\* So does a read.
LEMMA ReadOff ==
  ASSUME IsSeq(line), NEW n \in Nat, n <= Len(line)
  PROVE  IsSeq(After(line, n)) /\ Len(SubSeq(line, 1, n)) \in Nat
<1>1. PICK S : line \in Seq(S)
  BY DEF IsSeq
<1>2. Len(line) \in Nat
  BY <1>1, LenProperties
<1>3. /\ SubSeq(line, n + 1, Len(line)) \in Seq(S)
      /\ SubSeq(line, 1, n) \in Seq(S)
  <2>1. \A i \in (n + 1)..Len(line) : i \in 1..Len(line)
    BY <1>2
  <2>2. \A i \in 1..n : i \in 1..Len(line)
    BY <1>2
  <2>3. QED
    BY <1>1, <1>2, <2>1, <2>2, SubSeqProperties, ElementOfSeq
<1>4. QED
  BY <1>3, LenProperties DEF After, IsSeq

-----------------------------------------------------------------------------
(* The inductive invariant *)

\* The inductive invariant of the host.
IInv ==
  /\ HostInv(h, session) /\ h.out = <<>>
  /\ session \in Nat /\ IsSeq(line)

\* It holds at the start.
LEMMA InitIInv == Init => IInv
<1>1. SUFFICES ASSUME Init PROVE IInv
  OBVIOUS
<1> DEFINE known == {k \in Early : Owner[k] \in present}
<1>2. /\ session = 0 /\ line = <<>> /\ present \in Plugs /\ h = HostInit
  BY <1>1 DEF Init
<1>3. present \subseteq Objects
  BY <1>2, MuxAssumption
<1>4. known \subseteq Cbs
  BY MuxAssumption
<1>5. h = [open |-> FALSE, chan |-> [c \in Channels |-> "CLOSED"],
           count |-> 0, dec |-> Hunting, mode |-> "AT",
           hals |-> {Phy}, hal |-> [o \in Objects |-> Phy],
           cbs |-> known, reg |-> {Phy} \X known, out |-> <<>>, up |-> FALSE,
           got |-> [c \in Channels |-> <<>>], acted |-> {}, whole |-> TRUE,
           meddled |-> {}, fault |-> {}]
  BY <1>2 DEF HostInit
<1> HIDE DEF known
<1>6. /\ DOMAIN h = Fields /\ h.open = FALSE /\ h.chan = [c \in Channels |-> "CLOSED"]
      /\ h.count = 0 /\ h.mode = "AT" /\ h.hals = {Phy} /\ h.hal = [o \in Objects |-> Phy]
      /\ h.cbs = known /\ h.reg = {Phy} \X known /\ h.out = <<>> /\ h.up = FALSE
      /\ h.whole = TRUE /\ h.meddled = {} /\ h.fault = {}
  BY <1>5 DEF Fields
<1>7. HostType(h, session)
  <2>1. h.chan \in [Channels -> ChannelStates]
    BY <1>6 DEF ChannelStates
  <2>2. h.reg \subseteq h.hals \X Cbs
    BY <1>4, <1>6
  <2>3. h.mode = IF h.open THEN "TRANSPARENT" ELSE "AT"
    BY <1>6
  <2>4. h.hals = {Phy} \cup IF h.open THEN {Logical(session, c) : c \in Channels} ELSE {}
    BY <1>6
  <2>5. h.count \in Nat /\ h.cbs \subseteq Cbs /\ DOMAIN h.hal = Objects
        /\ h.fault \subseteq {"freed", "null"}
    BY <1>4, <1>6
  <2>6. h.open \in BOOLEAN
    BY <1>6
  <2>7. h.up \in BOOLEAN
    BY <1>6
  <2>8. h.whole \in BOOLEAN
    BY <1>6
  <2>9. QED
    BY <1>6, <2>1, <2>2, <2>3, <2>4, <2>5, <2>6, <2>7, <2>8 DEF HostType
<1>8. Heard(h)
  <2>1. \A k \in known : Owner[k] \in Objects
    BY <1>4, ChannelFacts
  <2>2. \A k \in known : <<Phy, k>> \in h.reg /\ h.hal[Owner[k]] = Phy
    BY <1>6, <2>1
  <2>3. \A r \in h.reg : r[1] = Phy /\ r[2] \in known
    BY <1>6
  <2>4. QED
    BY <1>6, <2>2, <2>3 DEF Heard
<1>9. Placed(h)
  BY <1>3, <1>6 DEF Placed
<1>10. IsSeq(line)
  <2>1. <<>> \in Seq({})
    OBVIOUS
  <2>2. QED
    BY <1>2, <2>1 DEF IsSeq
<1>11. QED
  BY <1>2, <1>6, <1>7, <1>8, <1>9, <1>10 DEF IInv, HostInv

\* One step of each action: opening,
LEMMA CmuxInitStep == IInv /\ CmuxInit => IInv'
<1>1. SUFFICES ASSUME IInv, CmuxInit PROVE IInv'
  OBVIOUS
<1>2. /\ ~h.open /\ Do(Start(h, session + 1)) /\ session' = session + 1
      /\ present' = present /\ line' = line
  BY <1>1 DEF CmuxInit
<1>3. session \in Nat /\ HostInv(h, session) /\ IsSeq(line)
  BY <1>1 DEF IInv
<1>4. HostInv(Start(h, session + 1), session + 1)
  BY <1>2, <1>3, StartKeeps
<1>5. HostInv(h, session)' /\ h'.out = <<>>
  BY <1>2, <1>4, DoKeeps
<1>6. session' \in Nat /\ IsSeq(line')
  BY <1>2, <1>3
<1>7. QED
  BY <1>5, <1>6 DEF IInv, IsSeq

\* closing,
LEMMA CmuxCloseStep == IInv /\ CmuxClose => IInv'
<1>1. SUFFICES ASSUME IInv, CmuxClose PROVE IInv'
  OBVIOUS
<1>2. /\ h.open /\ Do(Close(h)) /\ session' = session
      /\ present' = present /\ line' = line
  BY <1>1 DEF CmuxClose
<1>3. session \in Nat /\ HostInv(h, session) /\ IsSeq(line)
  BY <1>1 DEF IInv
<1>4. HostInv(Close(h), session)
  BY <1>2, <1>3, CloseKeeps
<1>5. HostInv(h, session)' /\ h'.out = <<>>
  BY <1>2, <1>4, DoKeeps
<1>6. QED
  BY <1>2, <1>3, <1>5 DEF IInv, IsSeq

\* A read in AT mode leaves the mux.
LEMMA WholeKeeps ==
  ASSUME NEW n, HostInv(h, n)
  PROVE  HostInv([h EXCEPT !.whole = FALSE], n)
<1> DEFINE t == [h EXCEPT !.whole = FALSE]
<1>1. DOMAIN h = Fields
  BY Typed
<1>2. /\ DOMAIN t = Fields /\ t.whole = FALSE /\ \A f \in Fields \ {"whole"} : t[f] = h[f]
  BY <1>1 DEF Fields
<1> HIDE DEF t
<1>3. /\ t.open = h.open /\ t.mode = h.mode /\ t.hals = h.hals /\ t.hal = h.hal
      /\ t.cbs = h.cbs /\ t.reg = h.reg /\ t.meddled = h.meddled /\ t.fault = h.fault
      /\ t.chan = h.chan /\ t.count = h.count /\ t.up = h.up
  BY <1>2 DEF Fields
<1>4. /\ h.chan \in [Channels -> ChannelStates] /\ h.count \in Nat /\ h.up \in BOOLEAN
  BY Typed
<1>5. /\ t.chan \in [Channels -> ChannelStates] /\ t.count \in Nat
      /\ t.up \in BOOLEAN /\ t.whole \in BOOLEAN
  BY <1>2, <1>3, <1>4
<1>6. HostInv(t, n)
  BY <1>2, <1>3, <1>5, Keeps
<1>7. QED
  BY <1>6 DEF t

\* a read of any size,
LEMMA ReadStep ==
  ASSUME IInv, NEW n \in Nat, n <= Len(line), Read(n)
  PROVE  IInv'
<1>1. /\ present' = present /\ session' = session /\ line' = After(line, n)
      /\ Do(IF h.mode = "TRANSPARENT" THEN Receive(h, SubSeq(line, 1, n))
            ELSE [h EXCEPT !.whole = FALSE])
  BY DEF Read
<1>2. session \in Nat /\ HostInv(h, session) /\ IsSeq(line)
  BY DEF IInv
<1>3. IsSeq(line') /\ Len(SubSeq(line, 1, n)) \in Nat
  BY <1>1, <1>2, ReadOff
<1>4. HostInv(Receive(h, SubSeq(line, 1, n)), session)
  BY <1>2, <1>3, ReceiveKeeps
<1>5. HostInv([h EXCEPT !.whole = FALSE], session)
  BY <1>2, WholeKeeps
<1>6. HostInv(h, session)' /\ h'.out = <<>>
  <2>1. CASE h.mode = "TRANSPARENT"
    <3>1. Do(Receive(h, SubSeq(line, 1, n)))
      BY <1>1, <2>1
    <3>2. QED
      BY <1>1, <1>4, <3>1, DoKeeps
  <2>2. CASE h.mode # "TRANSPARENT"
    <3>1. Do([h EXCEPT !.whole = FALSE])
      BY <1>1, <2>2
    <3>2. QED
      BY <1>1, <1>5, <3>1, DoKeeps
  <2>3. QED
    BY <2>1, <2>2
<1>7. QED
  BY <1>1, <1>2, <1>3, <1>6 DEF IInv, IsSeq

\* of all there is,
LEMMA ReadAllStep == IInv /\ ReadAll => IInv'
<1>1. SUFFICES ASSUME IInv, ReadAll PROVE IInv'
  OBVIOUS
<1>2. PICK S : line \in Seq(S)
  BY <1>1 DEF IInv, IsSeq
<1>3. Len(line) \in Nat /\ Len(line) <= Len(line)
  BY <1>2, LenProperties
<1>4. Read(Len(line))
  BY <1>1 DEF ReadAll
<1>5. QED
  BY <1>1, <1>3, <1>4, ReadStep

\* of a part,
LEMMA ReadPartStep == IInv /\ ReadPart => IInv'
<1>1. SUFFICES ASSUME IInv, ReadPart PROVE IInv'
  OBVIOUS
<1>2. PICK S : line \in Seq(S)
  BY <1>1 DEF IInv, IsSeq
<1>3. PICK n \in Reads : n < Len(line) /\ Read(n)
  BY <1>1 DEF ReadPart
<1>4. n \in Nat /\ n <= Len(line)
  BY <1>2, <1>3, LenProperties, MuxAssumption
<1>5. QED
  BY <1>1, <1>3, <1>4, ReadStep

\* an object's request,
LEMMA HalSendStep == ASSUME NEW o \in Objects PROVE IInv /\ HalSend(o) => IInv'
<1>1. SUFFICES ASSUME IInv, HalSend(o) PROVE IInv'
  OBVIOUS
<1> DEFINE out == <<Encode(h.hal[o][2], UIH, 0, <<65>>)>>
           s == IF h.hal[o] \in h.hals THEN [h EXCEPT !.out = out] ELSE Fault(h, "freed")
<1>2. /\ h.hal[o] # Phy /\ Do(s) /\ session' = session
      /\ present' = present /\ line' = line
  BY <1>1 DEF HalSend
<1>3. session \in Nat /\ HostInv(h, session) /\ IsSeq(line)
  BY <1>1 DEF IInv
<1> HIDE DEF out
<1>4. HostInv(s, session)
  BY <1>2, <1>3, SendKeeps
<1> HIDE DEF s
<1>5. HostInv(h, session)' /\ h'.out = <<>>
  BY <1>2, <1>4, DoKeeps
<1>6. QED
  BY <1>2, <1>3, <1>5 DEF IInv, IsSeq

\* a callback that comes,
LEMMA AddCallbackStep == ASSUME NEW k \in Cbs PROVE IInv /\ AddCallback(k) => IInv'
<1>1. SUFFICES ASSUME IInv, AddCallback(k) PROVE IInv'
  OBVIOUS
<1> DEFINE cbs == h.cbs \cup {k}
           reg == h.reg \cup Mirrored(k)
           meddled == IF h.open THEN h.meddled \cup {k} ELSE h.meddled
           t == [h EXCEPT !.cbs = cbs, !.reg = reg, !.meddled = meddled]
<1>2. session \in Nat /\ HostInv(h, session) /\ IsSeq(line) /\ DOMAIN h = Fields
  BY <1>1, Typed DEF IInv
<1>3. /\ Do([[h EXCEPT !.cbs = cbs, !.reg = reg] EXCEPT !.meddled = IF h.open THEN @ \cup {k} ELSE @])
      /\ session' = session /\ present' = present /\ line' = line
      /\ Owner[k] \in present /\ h.hal[Owner[k]] \in h.hals
  BY <1>1 DEF AddCallback, Meddle
<1> HIDE DEF cbs, reg
<1>4. [[h EXCEPT !.cbs = cbs, !.reg = reg] EXCEPT !.meddled = IF h.open THEN @ \cup {k} ELSE @] = t
  BY <1>2 DEF Fields
<1> HIDE DEF meddled
<1>5. /\ DOMAIN t = Fields /\ t.cbs = cbs /\ t.reg = reg /\ t.meddled = meddled
      /\ \A f \in Fields \ {"cbs", "reg", "meddled"} : t[f] = h[f]
  BY <1>2 DEF Fields
<1>6. Do(t)
  BY <1>3, <1>4
<1> HIDE DEF t
<1>7. HostInv(t, session)
  BY <1>2, <1>3, <1>5, AddKeeps DEF cbs, reg, meddled
<1>8. HostInv(h, session)' /\ h'.out = <<>>
  BY <1>3, <1>6, <1>7, DoKeeps
<1>9. QED
  BY <1>2, <1>3, <1>8 DEF IInv, IsSeq

\* or goes,
LEMMA DelCallbackStep == ASSUME NEW k \in Cbs PROVE IInv /\ DelCallback(k) => IInv'
<1>1. SUFFICES ASSUME IInv, DelCallback(k) PROVE IInv'
  OBVIOUS
<1> DEFINE cbs == h.cbs \ {k}
           reg == h.reg \ Mirrored(k)
           meddled == IF h.open THEN h.meddled \cup {k} ELSE h.meddled
           t == [h EXCEPT !.cbs = cbs, !.reg = reg, !.meddled = meddled]
<1>2. session \in Nat /\ HostInv(h, session) /\ IsSeq(line) /\ DOMAIN h = Fields
  BY <1>1, Typed DEF IInv
<1>3. /\ Do([[h EXCEPT !.cbs = cbs, !.reg = reg] EXCEPT !.meddled = IF h.open THEN @ \cup {k} ELSE @])
      /\ session' = session /\ present' = present /\ line' = line
      /\ Owner[k] \in present /\ h.hal[Owner[k]] \in h.hals
  BY <1>1 DEF DelCallback, Meddle
<1> HIDE DEF cbs, reg
<1>4. [[h EXCEPT !.cbs = cbs, !.reg = reg] EXCEPT !.meddled = IF h.open THEN @ \cup {k} ELSE @] = t
  BY <1>2 DEF Fields
<1> HIDE DEF meddled
<1>5. /\ DOMAIN t = Fields /\ t.cbs = cbs /\ t.reg = reg /\ t.meddled = meddled
      /\ \A f \in Fields \ {"cbs", "reg", "meddled"} : t[f] = h[f]
  BY <1>2 DEF Fields
<1>6. Do(t)
  BY <1>3, <1>4
<1> HIDE DEF t
<1>7. HostInv(t, session)
  BY <1>2, <1>3, <1>5, DelKeeps DEF cbs, reg, meddled
<1>8. HostInv(h, session)' /\ h'.out = <<>>
  BY <1>3, <1>6, <1>7, DoKeeps
<1>9. QED
  BY <1>2, <1>3, <1>8 DEF IInv, IsSeq

-----------------------------------------------------------------------------
(* The modem *)

\* an answer of the modem,
LEMMA ModemAnswerStep == IInv /\ ModemAnswer => IInv'
<1>1. SUFFICES ASSUME IInv, ModemAnswer PROVE IInv'
  OBVIOUS
<1> DEFINE f == Parse(Head(up))
           c == f.channel
<1>2. present' = present /\ h' = h /\ session' = session
  BY <1>1 DEF ModemAnswer
<1>3. HostInv(h, session) /\ h.out = <<>> /\ session \in Nat /\ IsSeq(line)
  BY <1>1 DEF IInv
<1>4. \/ Say(c, UA, Poll, <<>>, {}, 0)
      \/ Say(c, DM, Poll, <<>>, {"refused"}, 1)
      \/ Say(c, IF c \in on THEN UA ELSE DM, Poll, <<>>, {}, 0)
      \/ line' = line
  BY <1>1 DEF ModemAnswer
<1>5. IsSeq(<<>>)
  <2>1. <<>> \in Seq({})
    OBVIOUS
  <2>2. QED
    BY <2>1 DEF IsSeq
<1> HIDE DEF f, c
<1>6. IsSeq(line')
  BY <1>3, <1>4, <1>5, SayKeeps
<1>7. HostInv(h, session)'
  <2>1. HostInv(h', session')
    BY <1>2, <1>3
  <2>2. QED
    BY <1>2, <2>1 DEF HostInv, HostType, Heard, Placed, Gapless
<1>8. QED
  BY <1>2, <1>3, <1>6, <1>7 DEF IInv, IsSeq

\* what it sends on its own,
LEMMA ModemSendStep == IInv /\ ModemSend => IInv'
<1>1. SUFFICES ASSUME IInv, ModemSend PROVE IInv'
  OBVIOUS
<1>2. present' = present /\ h' = h /\ session' = session
  BY <1>1 DEF ModemSend
<1>3. HostInv(h, session) /\ h.out = <<>> /\ session \in Nat /\ IsSeq(line)
  BY <1>1 DEF IInv
<1>4. IsSeq(<<>>)
  <2>1. <<>> \in Seq({})
    OBVIOUS
  <2>2. QED
    BY <2>1 DEF IsSeq
<1>5. \A d \in Payloads : IsSeq(d)
  BY MuxAssumption DEF IsSeq
<1>6. IsSeq(<<MSC, 1>>) /\ IsSeq(<<CLD, 1>>) /\ IsSeq(<<65>>)
  BY One, Two
<1>7. IsSeq(line')
  <2>1. CASE \E c \in on \ {0} : \E d \in Payloads : Say(c, UIH, 0, d, {}, 1)
    BY <1>3, <1>5, <2>1, SayKeeps
  <2>2. CASE Say(0, UIH, 0, <<MSC, 1>>, {}, 1) \/ Say(0, UIH, 0, <<CLD, 1>>, {"closed"}, 1)
    BY <1>3, <1>6, <2>2, SayKeeps
  <2>3. CASE \E c \in on : \E pf \in {0, Poll} :
               Say(c, DISC, pf, <<>>, IF pf = Poll /\ c = 0 THEN {"closed"} ELSE {}, 1)
    BY <1>3, <1>4, <2>3, SayKeeps
  <2>4. CASE \E c \in Channels \ {0} : \E pf \in {0, Poll} :
               Say(c, SABM, pf, <<>>, IF pf = Poll THEN {"asked"} ELSE {}, 1)
    BY <1>3, <1>4, <2>4, SayKeeps
  <2>5. CASE \E c \in Channels \ {0} : Say(c, UIH, 0, <<65>>, {"late"}, 1)
    BY <1>3, <1>6, <2>5, SayKeeps
  <2>6. QED
    BY <1>1, <2>1, <2>2, <2>3, <2>4, <2>5, Zenon DEF ModemSend
<1>8. HostInv(h, session)'
  <2>1. HostInv(h', session')
    BY <1>2, <1>3
  <2>2. QED
    BY <1>2, <2>1 DEF HostInv, HostType, Heard, Placed, Gapless
<1>9. QED
  BY <1>2, <1>3, <1>7, <1>8 DEF IInv, IsSeq

\* or nothing.
LEMMA StutterStep == IInv /\ UNCHANGED vars => IInv'
<1>1. SUFFICES ASSUME IInv, UNCHANGED vars PROVE IInv'
  OBVIOUS
<1>2. present' = present /\ h' = h /\ session' = session /\ line' = line
  BY <1>1 DEF vars
<1>3. HostInv(h, session) /\ h.out = <<>> /\ session \in Nat /\ IsSeq(line)
  BY <1>1 DEF IInv
<1>4. HostInv(h, session)'
  <2>1. HostInv(h', session')
    BY <1>2, <1>3
  <2>2. QED
    BY <1>2, <2>1 DEF HostInv, HostType, Heard, Placed, Gapless
<1>5. QED
  BY <1>2, <1>3, <1>4 DEF IInv, IsSeq

\* Every step keeps the invariant.
LEMMA NextStep == IInv /\ [Next]_vars => IInv'
  BY CmuxInitStep, CmuxCloseStep, ReadAllStep, ReadPartStep, HalSendStep, AddCallbackStep,
     DelCallbackStep, ModemAnswerStep, ModemSendStep, StutterStep DEF Next

-----------------------------------------------------------------------------
(* Theorems *)

\* It always holds.
LEMMA MuxInv == Spec => []IInv
  BY InitIInv, NextStep, PTL DEF Spec

\* Callbacks follow because the physical HAL's table keeps what it had while the
\* objects are away (Heard).
LEMMA Follows == IInv => CallbacksFollow
<1>1. SUFFICES ASSUME IInv PROVE CallbacksFollow
  OBVIOUS
<1>2. HostInv(h, session) /\ h.out = <<>>
  BY <1>1 DEF IInv
<1>3. TypeOK
  BY <1>2 DEF TypeOK, HostInv, HostType
<1>4. \A k \in h.cbs \ h.meddled :
        h.hal[Owner[k]] \in h.hals => <<h.hal[Owner[k]], k>> \in h.reg
  BY <1>2 DEF HostInv, Heard
<1>5. \A r \in h.reg : r[2] \in h.cbs \/ (r[1] = Phy /\ r[2] \in h.meddled)
  BY <1>2 DEF HostInv, Heard
<1>6. QED
  BY <1>3, <1>4, <1>5 DEF CallbacksFollow

(* The events of an object are heard on the HAL it uses, before, during and  *)
(* after a session, whatever is read and whenever either side closes, and no *)
(* AT channel keeps a callback that is gone, except those that a plugin adds *)
(* or deletes while the mux is open.  (mux.c:1139, 1221, 1238 with           *)
(* core_object.c:304-338)                                                    *)
THEOREM CallbacksFollowHolds == Spec => []CallbacksFollow
  BY MuxInv, Follows, PTL

\* The first half of NothingFreedInUse: what the objects use is there.
NoneFreed ==
  Gapless => "freed" \notin h.fault /\ \A o \in present : h.hal[o] \in h.hals

\* What an object is heard on is a HAL that exists, and at most two HALs hear an
\* object: the physical one and the one it uses.
HeardOnItsOwn == \A r \in h.reg : r[1] \in h.hals \cap {Phy, h.hal[Owner[r[2]]]}

(* No core object of the plugin keeps a logical HAL that is freed, and no    *)
(* freed HAL is used, if a channel's objects have none that the plugin lacks *)
(* before one that it has: whatever the modem sends, however the reads cut   *)
(* it, and whoever closes the mux.  (mux.c:1193-1235)                        *)
THEOREM NoneFreedHolds == Spec => []NoneFreed
<1>1. IInv => NoneFreed
  BY DEF IInv, HostInv, Placed, NoneFreed
<1>2. QED
  BY <1>1, MuxInv, PTL

(* No event is heard on a HAL that is freed, nor on another object's.        *)
(* (mux.c:1238 with core_object.c:304-338)                                   *)
THEOREM HeardOnItsOwnHolds == Spec => []HeardOnItsOwn
<1>1. IInv => HeardOnItsOwn
  BY HalTypes DEF IInv, HostInv, Heard, HeardOnItsOwn
<1>2. QED
  BY <1>1, MuxInv, PTL

-----------------------------------------------------------------------------
(* The session: what is on the way between the modem and this side *)

\* A frame of this command in this channel.
IsA(w, type, c) == Parse(w).type = type /\ Parse(w).channel = c

\* A frame for which this side closes the mux.
Ends(w) ==
  LET p == Parse(w)
  IN /\ p.good /\ p.channel = 0
     /\ \/ p.type \in {UI, UIH} /\ p.data # <<>> /\ p.data[1] = CLD
        \/ p.type = DISC /\ p.pf # 0

\* Channel, command and poll bit: what the history `said` records.
Kind(w) == <<Parse(w).channel, Parse(w).type, Parse(w).pf>>

\* The frames of this side.
Mine == {w \in Shapes : Parse(w).channel \in Channels}

\* What a frame carries in channel c.
Part(w, c) ==
  LET p == Parse(w)
  IN IF p.good /\ p.channel = c /\ p.type \in {UI, UIH} THEN <<p.data>> ELSE <<>>
DataOf(q, c) == FlattenSeq([i \in 1..Len(q) |-> Part(q[i], c)])

\* In what follows s is the process, q the frames that it has not completed, U those
\* that it has sent and the modem has not seen, and e the rest of the state.
Env == [on |-> on, agreed |-> agreed, said |-> said, sent |-> sent, odd |-> odd]

\* What the modem said is what is acted upon, now or later.
Said(s, q, e) ==
  /\ s.acted \subseteq e.said
  /\ \A i \in 1..Len(q) : Parse(q[i]).good => Kind(q[i]) \in e.said

\* What the modem sent is what the channels have got and what is on the way.
Data(s, q, e) ==
  s.whole => /\ s.got \in [Channels -> Seq(Seq(Byte))]
             /\ \A c \in Channels \ {0} : Cat(s.got[c], DataOf(q, c)) = e.sent[c]

\* While the mux is open nothing is disconnected by this side, and each
\* acknowledgement is of a channel.
Answers(s, q, U, e) ==
  s.open => /\ \A i \in 1..Len(U) : Parse(U[i]).type # DISC
            /\ \A i \in 1..Len(q) : Parse(q[i]).good /\ Parse(q[i]).type = UA
                                      => Parse(q[i]).channel \in e.agreed

\* The acknowledgements counted are of different channels.
Waiting == "SABM_SEND_WAITING_FOR_UA"
Counted(s, e) ==
  /\ \E C \in SUBSET e.agreed : s.count = Cardinality(C) /\ \A c \in C : s.chan[c] # Waiting
  /\ s.up => e.agreed = Channels

\* The modem has left the mux and is not asked back.
Over(U, e) == 0 \notin e.on /\ \A i \in 1..Len(U) : ~IsA(U[i], SABM, 0)

\* It leaves the mux with the last frame, and comes back with the first of a session.
Asked(q, U, e) == \A i \in 1..Len(U) : IsA(U[i], SABM, 0) => i = 1 /\ e.on = {} /\ q = <<>>
AtEnd(q, U, e) ==
  \A i \in 1..Len(q) : /\ Parse(q[i]).good /\ IsA(q[i], DM, 0) => Over(U, e)
                       /\ Ends(q[i]) => i = Len(q) /\ Over(U, e)
Leaves(U) == \E i \in 1..Len(U) : /\ IsA(U[i], DISC, 0)
                                  /\ \A j \in i..Len(U) : ~IsA(U[j], SABM, 0)
Ending(s, q, U, e) ==
  /\ s.open => Asked(q, U, e) /\ AtEnd(q, U, e) /\ (s.chan[0] = "CLOSED" => Over(U, e))
  /\ ~s.open => Over(U, e) \/ Leaves(U)

\* None of W has happened.
Plain(e, W) == e.odd \cap W = {}

\* q is what is on its way to this side, U what is on its way to the modem. Each
\* part holds as long as nothing that spoils it has happened.
Flow(s, q, U, e) ==
  /\ q \in Seq(Shapes) /\ U \in Seq(Mine)
  /\ Said(s, q, e) /\ Data(s, q, e)
  /\ Plain(e, {"stale"}) => Answers(s, q, U, e)
  /\ Plain(e, {"stale", "count"}) => Counted(s, e)
  /\ Plain(e, {"stale", "late"}) => Ending(s, q, U, e)

\* What holds even when a fault has ended the process.
Kept(s, e) ==
  /\ s.acted \subseteq e.said
  /\ s.up /\ Plain(e, {"stale", "count"}) => e.agreed = Channels
  /\ "null" \in s.fault => ~Plain(e, {"stale", "late"})

\* The modem serves no channel without channel 0.
Modem(e) ==
  /\ e.on \subseteq Channels /\ e.agreed \subseteq Channels /\ (e.on # {} => 0 \in e.on)
  /\ e.sent \in [Channels -> Seq(Seq(Byte))]

-----------------------------------------------------------------------------
(* Frames *)

\* The channels are the first of the eight.
LEMMA ChannelNumbers ==
  /\ Channels \subseteq 0..7 /\ 0 \in Channels /\ IsFiniteSet(Channels)
  /\ Channels = 0..(Cardinality(Channels) - 1) /\ Cardinality(Channels) \in 1..8
<1>1. PICK n \in 1..8 : n = Cardinality(Channels) /\ Channels = 0..(n - 1)
  BY MuxAssumption
<1>2. 0..(n - 1) \subseteq 0..7 /\ 0 \in 0..(n - 1) /\ n - 1 \in Int
  OBVIOUS
<1>3. IsFiniteSet(0..(n - 1))
  BY <1>2, FS_Interval
<1>4. QED
  BY <1>1, <1>2, <1>3

\* A frame that one side sends is what the other side reads.
LEMMA Sent ==
  ASSUME NEW c \in Channels, NEW type \in Types, NEW pf \in {0, Poll}, NEW data \in Seq(Byte),
         Fits(data)
  PROVE  LET w == Encode(c, type, pf, data)
         IN /\ w \in Mine /\ Parse(w).good /\ Kind(w) = <<c, type, pf>> /\ Parse(w).data = data
            /\ w[2] < 32
<1> DEFINE w == Encode(c, type, pf, data)
<1>1. c \in 0..7
  BY ChannelNumbers
<1>2. w \in Shapes /\ Says(w, c, type, pf, data)
  BY <1>1, Encoded
<1> HIDE DEF w
<1>3. Parse(w).good /\ Parse(w).channel = c /\ Kind(w) = <<c, type, pf>> /\ Parse(w).data = data
  BY <1>2 DEF Says, Kind
<1>4. w[2] < 32
  <2>1. Parse(w).channel = w[2] \div 4
    BY <1>2, ParseFields
  <2>2. w[2] \in 0..255
    <3>1. 2 \in 1..Len(w) /\ \A i \in 1..Len(w) : w[i] \in Byte
      BY <1>2, ShapeFacts
    <3>2. QED
      BY <3>1 DEF Byte
  <2>3. PICK x \in 0..255 : x = w[2]
    BY <2>2
  <2>4. x \div 4 \in 0..7
    BY <1>1, <1>3, <2>1, <2>3
  <2>5. x < 32
    BY <2>4
  <2>6. QED
    BY <2>3, <2>5
<1>5. w \in Mine
  BY <1>2, <1>3 DEF Mine
<1>6. QED
  BY <1>3, <1>4, <1>5 DEF w

\* The payloads that the model's modem makes itself.
LEMMA Short ==
  /\ <<>> \in Seq(Byte) /\ Fits(<<>>) /\ \A x \in Byte : <<x>> \in Seq(Byte) /\ Fits(<<x>>)
  /\ \A x, y \in Byte : <<x, y>> \in Seq(Byte) /\ Fits(<<x, y>>)
<1>1. 0 < 128 * 256 /\ 1 < 128 * 256 /\ 2 < 128 * 256
  OBVIOUS
<1>2. \A x, y : Len(<<>>) = 0 /\ Len(<<x>>) = 1 /\ Len(<<x, y>>) = 2
  OBVIOUS
<1>3. Fits(<<>>) /\ \A x, y : Fits(<<x>>) /\ Fits(<<x, y>>)
  BY <1>1, <1>2 DEF Fits
<1>4. <<>> \in Seq(Byte) /\ \A x \in Byte : <<x>> \in Seq(Byte)
  OBVIOUS
<1>5. \A x, y \in Byte : <<x, y>> \in Seq(Byte)
  OBVIOUS
<1>6. QED
  BY <1>3, <1>4, <1>5

-----------------------------------------------------------------------------
(* What the frames on the way carry *)

\* A frame holds at most one payload for a channel.
LEMMA PartType ==
  ASSUME NEW w \in Shapes, NEW c
  PROVE  Part(w, c) \in Seq(Seq(Byte))
<1> DEFINE d == Parse(w).data
<1>1. d \in Seq(Byte)
  <2>1. d = SubSeq(w, HeadLen(w) + 1, HeadLen(w) + DataLen(w))
    BY ParseFields
  <2>2. /\ w \in Seq(Byte) /\ Len(w) \in Nat /\ HeadLen(w) \in {4, 5} /\ DataLen(w) \in Nat
        /\ Len(w) = HeadLen(w) + DataLen(w) + 2
    BY ShapeFacts
  <2>3. HeadLen(w) + 1 \in 1..Len(w) /\ HeadLen(w) + DataLen(w) \in 1..Len(w)
        /\ HeadLen(w) + 1 \in Int /\ HeadLen(w) + DataLen(w) \in Int
    BY <2>2
  <2>4. QED
    BY <2>1, <2>2, <2>3, SubSeqProperties
<1> HIDE DEF d
<1>2. <<d>> \in Seq(Seq(Byte)) /\ <<>> \in Seq(Seq(Byte))
  BY <1>1
<1>3. Part(w, c) \in {<<d>>, <<>>}
  BY DEF Part, d
<1>4. QED
  BY <1>2, <1>3

\* What a frame adds at the end, and takes from the front.
LEMMA DataOfFacts ==
  ASSUME NEW q \in Seq(Shapes), NEW c
  PROVE  /\ DataOf(q, c) \in Seq(Seq(Byte)) /\ DataOf(<<>>, c) = <<>>
         /\ \A w \in Shapes : DataOf(Append(q, w), c) = Cat(DataOf(q, c), Part(w, c))
         /\ q # <<>> => DataOf(q, c) = Cat(Part(Head(q), c), DataOf(Tail(q), c))
<1> DEFINE P(r) == [i \in 1..Len(r) |-> Part(r[i], c)]
           S == Seq(Seq(Byte))
<1>1. ASSUME NEW r \in Seq(Shapes)
      PROVE  P(r) \in Seq(S) /\ Len(P(r)) = Len(r) /\ \A i \in 1..Len(r) : P(r)[i] = Part(r[i], c)
  <2>1. \A i \in 1..Len(r) : r[i] \in Shapes
    BY <1>1, ElementOfSeq
  <2>2. \A i \in 1..Len(r) : Part(r[i], c) \in S
    BY <2>1, PartType
  <2> HIDE DEF S
  <2>3. Len(r) \in Nat
    BY <1>1, LenProperties
  <2>4. QED
    BY <2>2, <2>3
<1>2. DataOf(q, c) \in S
  <2>1. P(q) \in Seq(Seq(Seq(Byte)))
    BY <1>1
  <2>2. FlattenSeq(P(q)) \in Seq(Seq(Byte))
    <3> HIDE DEF P
    <3>1. QED
      BY <2>1, FlatType
  <2>3. QED
    BY <2>2 DEF DataOf
<1>3. DataOf(<<>>, c) = <<>>
  <2>1. P(<<>>) = <<>>
    <3>1. 1..Len(<<>>) = {}
      OBVIOUS
    <3>2. P(<<>>) \in Seq(S) /\ Len(P(<<>>)) = 0
      <4>1. <<>> \in Seq(Shapes) /\ Len(<<>>) = 0
        OBVIOUS
      <4> HIDE DEF P, S
      <4>2. QED
        BY <1>1, <4>1
    <3> HIDE DEF P, S
    <3>3. QED
      BY <3>2, EmptySeq
  <2>2. QED
    BY <2>1, FlatEmpty DEF DataOf
<1>4. ASSUME NEW w \in Shapes
      PROVE  DataOf(Append(q, w), c) = Cat(DataOf(q, c), Part(w, c))
  <2> DEFINE p == P(q)
             r == P(Append(q, w))
             x == Part(w, c)
  <2>1. Append(q, w) \in Seq(Shapes) /\ Len(Append(q, w)) = Len(q) + 1 /\ Len(q) \in Nat
        /\ \A i \in 1..Len(q) : Append(q, w)[i] = q[i]
        /\ Append(q, w)[Len(q) + 1] = w
    BY AppendProperties, LenProperties
  <2>2. /\ p \in Seq(S) /\ Len(p) = Len(q) /\ \A i \in 1..Len(q) : p[i] = Part(q[i], c)
    BY <1>1
  <2>3. /\ r \in Seq(S) /\ Len(r) = Len(q) + 1
        /\ \A i \in 1..(Len(q) + 1) : r[i] = Part(Append(q, w)[i], c)
    <3> HIDE DEF P, S
    <3>1. QED
      BY <1>1, <2>1
  <2>4. x \in S
    BY PartType
  <2>5. DataOf(q, c) = FlattenSeq(p) /\ DataOf(Append(q, w), c) = FlattenSeq(r)
    BY DEF DataOf
  <2> HIDE DEF p, r, P
  <2>6. r = Append(p, x)
    <3> HIDE DEF x, S
    <3>1. /\ Append(p, x) \in Seq(S) /\ Len(Append(p, x)) = Len(q) + 1
          /\ \A i \in 1..Len(q) : Append(p, x)[i] = p[i]
          /\ Append(p, x)[Len(q) + 1] = x
      BY <2>2, <2>4, AppendProperties
    <3>2. \A i \in 1..Len(q) : i \in 1..(Len(q) + 1)
      BY <2>1
    <3>3. Len(q) + 1 \in 1..(Len(q) + 1)
      BY <2>1
    <3>4. \A i \in 1..(Len(q) + 1) : i \in 1..Len(q) \/ i = Len(q) + 1
      BY <2>1
    <3>5. \A i \in 1..Len(q) : r[i] = Append(p, x)[i]
      BY <2>1, <2>2, <2>3, <3>1, <3>2
    <3>6. r[Len(q) + 1] = Append(p, x)[Len(q) + 1]
      BY <2>1, <2>3, <3>1, <3>3 DEF x
    <3>7. \A i \in 1..(Len(q) + 1) : r[i] = Append(p, x)[i]
      BY <3>4, <3>5, <3>6
    <3>8. QED
      BY <2>3, <3>1, <3>7, SeqEqual
  <2>7. FlattenSeq(Append(p, x)) = FlattenSeq(p) \o x
    <3>1. p \in Seq(Seq(Seq(Byte))) /\ x \in Seq(Seq(Byte))
      BY <2>2, <2>4
    <3> HIDE DEF x
    <3>2. QED
      BY <3>1, FlatAppend
  <2>8. QED
    BY <2>5, <2>6, <2>7 DEF Cat
<1>5. ASSUME q # <<>>
      PROVE  DataOf(q, c) = Cat(Part(Head(q), c), DataOf(Tail(q), c))
  <2> DEFINE p == P(q)
             r == P(Tail(q))
  <2>1. Tail(q) \in Seq(Shapes) /\ Len(Tail(q)) = Len(q) - 1 /\ Len(q) \in Nat /\ 1 <= Len(q)
        /\ Head(q) = q[1] /\ Tail(q) = After(q, 1)
    BY <1>5, AfterOne
  <2>2. \A i \in 1..(Len(q) - 1) : Tail(q)[i] = q[1 + i]
    BY <2>1, CutFacts
  <2>3. /\ p \in Seq(S) /\ Len(p) = Len(q) /\ \A i \in 1..Len(q) : p[i] = Part(q[i], c)
    BY <1>1
  <2>4. /\ r \in Seq(S) /\ Len(r) = Len(q) - 1
        /\ \A i \in 1..(Len(q) - 1) : r[i] = Part(Tail(q)[i], c)
    <3> HIDE DEF P, S
    <3>1. QED
      BY <1>1, <2>1
  <2>5. DataOf(q, c) = FlattenSeq(p) /\ DataOf(Tail(q), c) = FlattenSeq(r)
    BY DEF DataOf
  <2> HIDE DEF p, r, P
  <2>6. p # <<>>
    <3>1. Len(p) # 0 /\ Len(<<>>) = 0
      BY <2>1, <2>3
    <3>2. QED
      BY <3>1
  <2>7. FlattenSeq(p) = Head(p) \o FlattenSeq(Tail(p))
    <3>1. p \in Seq(Seq(Seq(Byte)))
      BY <2>3
    <3>2. QED
      BY <2>6, <3>1, FlatHead
  <2>8. Head(p) = Part(Head(q), c)
    <3>1. Head(p) = p[1] /\ 1 \in 1..Len(q)
      BY <2>1, <2>3, <2>6, AfterOne
    <3>2. QED
      BY <2>1, <2>3, <3>1
  <2>9. Tail(p) = r
    <3>1. Tail(p) \in Seq(S) /\ Len(Tail(p)) = Len(q) - 1 /\ Tail(p) = After(p, 1)
      BY <2>3, <2>6, AfterOne
    <3>2. \A i \in 1..(Len(q) - 1) : Tail(p)[i] = p[1 + i]
      <4>1. 1 <= Len(p) /\ 1 \in Nat
        BY <2>1, <2>3
      <4>2. \A i \in 1..(Len(p) - 1) : After(p, 1)[i] = p[1 + i]
        BY <2>3, <4>1, CutFacts
      <4>3. QED
        BY <2>3, <3>1, <4>2
    <3>3. \A i \in 1..(Len(q) - 1) : 1 + i \in 1..Len(q)
      BY <2>1
    <3>4. \A i \in 1..(Len(q) - 1) : Tail(p)[i] = r[i]
      <4>1. TAKE i \in 1..(Len(q) - 1)
      <4>2. Tail(p)[i] = p[1 + i] /\ 1 + i \in 1..Len(q)
        BY <3>2, <3>3
      <4>3. p[1 + i] = Part(q[1 + i], c)
        BY <2>3, <4>2
      <4>4. r[i] = Part(q[1 + i], c)
        BY <2>2, <2>4
      <4>5. QED
        BY <4>2, <4>3, <4>4
    <3> HIDE DEF S
    <3>5. QED
      BY <2>4, <3>1, <3>4, SeqEqual
  <2>10. QED
    BY <2>5, <2>7, <2>8, <2>9 DEF Cat
<1>6. QED
  BY <1>2, <1>3, <1>4, <1>5

-----------------------------------------------------------------------------
(* What the handling of a frame does *)

\* X is what this side sends when it closes.
Closed(s, t, X) ==
  /\ DOMAIN t = Fields /\ t.open = FALSE /\ t.chan = [c \in Channels |-> "CLOSED"]
  /\ t.count = s.count /\ t.dec = s.dec /\ t.up = s.up /\ t.got = s.got
  /\ t.acted = s.acted /\ t.whole = s.whole
  /\ t.fault \subseteq s.fault \cup {"freed"}
  /\ X \in Seq(Mine) /\ t.out = Cat(s.out, X)
  /\ \A i \in 1..Len(X) : Parse(X[i]).type = DISC
  /\ s.chan[0] # "CLOSED" => \E i \in 1..Len(X) : IsA(X[i], DISC, 0)

\* tcore_cmux_close tells the open channels and resets; the counter stays.
LEMMA CloseFields ==
  ASSUME NEW s, NEW n, HostInv(s, n), s.open
  PROVE  \E X : Closed(s, Close(s), X)
<1> DEFINE N == Cardinality(Channels)
           all == [i \in 1..N |-> i - 1]
           T == {c \in Channels : s.chan[c] # "CLOSED"}
           kept == Keep(all, T)
           X == [i \in DOMAIN kept |-> Encode(kept[i], DISC, Poll, <<>>)]
           u == Told(s)
           to == [o \in Reverted |-> Phy]
           back == SetHal(u, to)
           t == Close(s)
<1>1. DOMAIN s = Fields
  BY Typed
<1>2. u = [s EXCEPT !.out = Cat(s.out, X)]
  BY <1>1 DEF Told, Cat, Fields
<1>3. all \in Seq(Channels) /\ Len(all) = N /\ \A i \in 1..N : all[i] = i - 1
  <2>1. PICK m \in 1..8 : m = N /\ Channels = 0..(m - 1)
    BY ChannelNumbers
  <2>2. \A i \in 1..m : i - 1 \in 0..(m - 1)
    OBVIOUS
  <2>3. m \in Nat
    BY <2>1
  <2>4. QED
    BY <2>1, <2>2, <2>3
<1>4. 1 \in 1..N /\ all[1] = 0
  <2>1. N \in 1..8
    BY ChannelNumbers
  <2>2. 1 \in 1..N /\ 1 - 1 = 0
    BY <2>1
  <2>3. QED
    BY <1>3, <2>2
<1> HIDE DEF all
<1>5. kept \in Seq(Channels) /\ Len(kept) \in Nat /\ DOMAIN kept = 1..Len(kept)
      /\ \A i \in 1..Len(kept) : kept[i] \in Channels
  <2>1. kept \in Seq(Channels)
    BY <1>3, KeepType
  <2>2. QED
    BY <2>1, LenProperties, ElementOfSeq
<1>6. s.chan[0] # "CLOSED" => \E j \in 1..Len(kept) : kept[j] = 0
  <2>1. ASSUME s.chan[0] # "CLOSED" PROVE \E j \in 1..Len(kept) : kept[j] = 0
    <3>1. all[1] \in T /\ 1 \in 1..Len(all)
      BY <1>3, <1>4, <2>1, ChannelNumbers
    <3>2. \E j \in 1..Len(kept) : kept[j] = all[1]
      <4> HIDE DEF T
      <4>1. all \in Seq(Channels)
        BY <1>3
      <4>2. \E j \in 1..Len(Keep(all, T)) : Keep(all, T)[j] = all[1]
        BY <3>1, <4>1, KeepHas
      <4>3. QED
        BY <4>2
    <3>3. QED
      BY <1>4, <3>2
  <2>2. QED
    BY <2>1
<1> HIDE DEF kept
<1>7. X \in Seq(Mine) /\ Len(X) = Len(kept)
      /\ \A i \in 1..Len(X) : Parse(X[i]).type = DISC /\ Parse(X[i]).channel = kept[i]
  <2> DEFINE D(c) == Encode(c, DISC, Poll, <<>>)
  <2>1. \A c \in Channels : D(c) \in Mine /\ Kind(D(c)) = <<c, DISC, Poll>>
    BY Sent, Short DEF Types
  <2>2. \A c \in Channels : Parse(D(c)).type = DISC /\ Parse(D(c)).channel = c
    BY <2>1 DEF Kind
  <2>3. X = [i \in 1..Len(kept) |-> D(kept[i])]
    BY <1>5
  <2> HIDE DEF D, X
  <2>4. X \in Seq(Mine) /\ Len(X) = Len(kept) /\ \A i \in 1..Len(kept) : X[i] = D(kept[i])
    BY <1>5, <2>1, <2>3
  <2>5. QED
    BY <1>5, <2>2, <2>4
<1> HIDE DEF X
<1>8. s.chan[0] # "CLOSED" => \E i \in 1..Len(X) : IsA(X[i], DISC, 0)
  BY <1>6, <1>7 DEF IsA
<1>9. DOMAIN u = Fields /\ u.out = Cat(s.out, X) /\ \A f \in Fields \ {"out"} : u[f] = s[f]
  BY <1>1, <1>2 DEF Fields
<1> HIDE DEF u
<1>10. DOMAIN to = Reverted
  OBVIOUS
<1> HIDE DEF to
<1>11. /\ DOMAIN back = Fields
       /\ \A f \in Fields \ {"hal", "reg", "fault"} : back[f] = u[f]
       /\ back.hal = [o \in Objects |-> IF o \in DOMAIN to THEN to[o] ELSE u.hal[o]]
       /\ back.reg = (u.reg \ LeftBy(u, DOMAIN to)) \cup JoinedBy(u, to)
       /\ back.fault \subseteq u.fault \cup {"freed"}
       /\ (\A o \in DOMAIN to : u.hal[o] \in u.hals) => back.fault = u.fault
  <2>1. DOMAIN u = Fields
    BY <1>9
  <2>2. QED
    BY <2>1, SetHalFields
<1> DEFINE closed == [c \in Channels |-> "CLOSED"]
           reg == {r \in back.reg : r[1] = Phy}
<1>12. t = [back EXCEPT !.open = FALSE, !.chan = closed, !.mode = "AT", !.hals = {Phy},
                        !.reg = reg]
  BY DEF Close, u, to
<1> HIDE DEF back, closed, reg, t
<1>13. /\ DOMAIN t = Fields /\ t.open = FALSE /\ t.chan = closed
       /\ \A f \in Fields \ {"open", "chan", "mode", "hals", "reg"} : t[f] = back[f]
  BY <1>11, <1>12 DEF Fields
<1>14. /\ t.count = s.count /\ t.dec = s.dec /\ t.up = s.up /\ t.got = s.got
       /\ t.acted = s.acted /\ t.whole = s.whole /\ t.out = Cat(s.out, X)
  BY <1>9, <1>11, <1>13 DEF Fields
<1>15. t.fault \subseteq s.fault \cup {"freed"}
  BY <1>9, <1>11, <1>13 DEF Fields
<1>16. Closed(s, t, X)
  BY <1>7, <1>8, <1>13, <1>14, <1>15 DEF Closed, closed
<1>17. QED
  BY <1>16 DEF t

\* What a channel got: payloads.
GotType == [Channels -> Seq(Seq(Byte))]

\* An acknowledgement that counts.
Tally(s, t, w) ==
  \E c \in Channels :
    /\ IsA(w, UA, c) /\ s.chan[c] = Waiting /\ t.chan[c] # Waiting
    /\ \/ t.count = s.count + 1 /\ t.up = s.up
       \/ t.count = 0 /\ s.count + 1 = Cardinality(Channels)

\* What a handler of the frame w makes of s; X is what it sends.
Deed(s, t, w, X) ==
  /\ t.dec = s.dec /\ t.whole = s.whole /\ t.acted = s.acted
  /\ t.fault \subseteq s.fault \cup {"freed"}
  /\ X \in Seq(Mine) /\ t.out = Cat(s.out, X)
  /\ \A i \in 1..Len(X) : /\ Parse(X[i]).type # SABM
                          /\ t.open => Parse(X[i]).type # DISC
  /\ s.got \in GotType => /\ t.got \in GotType
                         /\ \A c \in Channels \ {0} : t.got[c] = Cat(s.got[c], Part(w, c))
  /\ t.open /\ t.chan[0] = "CLOSED" => s.chan[0] = "CLOSED" \/ IsA(w, DM, 0)
  /\ ~t.open => Ends(w)
  /\ \A c \in Channels : t.chan[c] = Waiting => s.chan[c] = Waiting
  /\ (t.count = s.count /\ t.up = s.up) \/ Tally(s, t, w)

\* A frame of channel 0, or one that is no data, adds nothing to what the others get.
LEMMA Silent ==
  ASSUME NEW s, NEW w, Parse(w).channel = 0 \/ Parse(w).type \notin {UI, UIH}
  PROVE  s.got \in GotType => \A c \in Channels \ {0} : s.got[c] = Cat(s.got[c], Part(w, c))
<1>1. \A c \in Channels \ {0} : Part(w, c) = <<>>
  BY DEF Part
<1>2. s.got \in GotType => \A c \in Channels \ {0} : s.got[c] \in Seq(Seq(Byte))
  BY DEF GotType
<1>3. \A x \in Seq(Seq(Byte)) : x = Cat(x, <<>>)
  BY CatProperties
<1>4. QED
  BY <1>1, <1>2, <1>3

\* A frame that does nothing.
LEMMA Silence ==
  ASSUME NEW s, DOMAIN s = Fields, s.open, s.out \in Seq(Mine), NEW w,
         Parse(w).channel = 0 \/ Parse(w).type \notin {UI, UIH}
  PROVE  Deed(s, s, w, <<>>)
<1>1. <<>> \in Seq(Mine) /\ 1..Len(<<>>) = {} /\ s.out = Cat(s.out, <<>>)
  <2>1. <<>> \in Seq(Mine) /\ 1..Len(<<>>) = {}
    OBVIOUS
  <2>2. QED
    BY <2>1, CatProperties
<1>2. s.got \in GotType => \A c \in Channels \ {0} : s.got[c] = Cat(s.got[c], Part(w, c))
  BY Silent
<1>3. \A i \in 1..Len(<<>>) : FALSE
  BY <1>1
<1>4. QED
  BY <1>1, <1>2, <1>3 DEF Deed

\* A frame that closes.
LEMMA CloseDeed ==
  ASSUME NEW s, NEW t, NEW X, Closed(s, t, X), NEW w, Ends(w)
  PROVE  Deed(s, t, w, X)
<1>1. /\ t.dec = s.dec /\ t.whole = s.whole /\ t.acted = s.acted /\ ~t.open
      /\ t.fault \subseteq s.fault \cup {"freed"} /\ t.got = s.got
      /\ X \in Seq(Mine) /\ t.out = Cat(s.out, X) /\ t.count = s.count /\ t.up = s.up
  BY DEF Closed
<1>2. \A i \in 1..Len(X) : Parse(X[i]).type # SABM
  BY DEF Closed, DISC, SABM
<1>3. Parse(w).channel = 0
  BY DEF Ends
<1>4. s.got \in GotType => \A c \in Channels \ {0} : s.got[c] = Cat(s.got[c], Part(w, c))
  BY <1>3, Silent
<1>5. \A c \in Channels : t.chan[c] # Waiting
  BY DEF Closed, Waiting
<1>6. QED
  BY <1>1, <1>2, <1>4, <1>5 DEF Deed

\* The commands that answer.
Replies == {UA, DM}

\* t is s with one more frame to send, which is an answer.
Replied(s, t) ==
  /\ DOMAIN t = Fields /\ \A f \in Fields \ {"out"} : t[f] = s[f]
  /\ \E x \in Mine : t.out = Cat(s.out, <<x>>) /\ Parse(x).type \notin {SABM, DISC}

\* An answer is a frame on its way.
LEMMA OutFields ==
  ASSUME NEW s, DOMAIN s = Fields, s.out \in Seq(Mine), NEW c \in Channels, NEW type \in Replies
  PROVE  Replied(s, Out(s, c, type, Poll))
<1> DEFINE t == Out(s, c, type, Poll)
<1> DEFINE x == Encode(c, type, Poll, <<>>)
<1>1. x \in Mine /\ Kind(x) = <<c, type, Poll>>
  <2>1. type \in Types
    BY DEF Types, Replies
  <2>2. QED
    BY <2>1, Sent, Short
<1>2. Parse(x).type \notin {SABM, DISC}
  <2> HIDE DEF x
  <2>1. Parse(x).type = type
    BY <1>1 DEF Kind
  <2>2. QED
    BY <2>1 DEF Replies, UA, DM, SABM, DISC
<1>3. t = [s EXCEPT !.out = Append(s.out, x)]
  BY DEF Out, Fields
<1> HIDE DEF x, t
<1>4. DOMAIN t = Fields /\ t.out = Append(s.out, x) /\ \A f \in Fields \ {"out"} : t[f] = s[f]
  BY <1>3 DEF Fields
<1>5. Append(s.out, x) = Cat(s.out, <<x>>)
  <2>1. s.out \in Seq(Mine) /\ <<>> \in Seq(Mine)
    OBVIOUS
  <2>2. s.out \o Append(<<>>, x) = (s.out \o <<>>) \o <<x>>
    BY <1>1, <2>1, AppendConcat
  <2>3. s.out \o Append(<<>>, x) = Append(s.out \o <<>>, x)
    BY <1>1, <2>1, AppendConcat
  <2>4. s.out \o <<>> = s.out
    BY <2>1
  <2>5. QED
    BY <2>2, <2>3, <2>4 DEF Cat
<1>6. Replied(s, t)
  BY <1>1, <1>2, <1>4, <1>5 DEF Replied
<1>7. QED
  BY <1>6 DEF t

\* What the handlers are called with.
Ready(s, n, w) ==
  /\ HostInv(s, n) /\ s.open /\ s.out \in Seq(Mine)
  /\ w \in Shapes /\ Parse(w).good /\ Parse(w).channel \in Channels

\* UI and UIH
LEMMA DataDeed ==
  ASSUME NEW s, NEW n, NEW w, Ready(s, n, w), Parse(w).type \in {UI, UIH}
  PROVE  \E X : Deed(s, OnData(s, Parse(w).channel, Parse(w).data), w, X)
<1> DEFINE c == Parse(w).channel
           d == Parse(w).data
<1>1. DOMAIN s = Fields /\ s.open /\ s.out \in Seq(Mine) /\ w \in Shapes /\ Parse(w).good
      /\ c \in Channels /\ HostInv(s, n)
  BY Typed DEF Ready
<1>2. CASE c = 0
  <2>1. Parse(w).channel = 0
    BY <1>2
  <2>2. CASE d # <<>> /\ d[1] = CLD
    <3>1. Ends(w)
      BY <1>1, <2>1, <2>2 DEF Ends
    <3>2. PICK X : Closed(s, Close(s), X)
      BY <1>1, CloseFields
    <3>3. Deed(s, Close(s), w, X)
      BY <3>1, <3>2, CloseDeed
    <3>4. OnData(s, c, d) = Close(s)
      BY <1>2, <2>2 DEF OnData
    <3>5. QED
      BY <3>3, <3>4
  <2>3. CASE ~(d # <<>> /\ d[1] = CLD)
    <3>1. Deed(s, s, w, <<>>)
      BY <1>1, <2>1, Silence
    <3>2. OnData(s, c, d) = s
      BY <1>2, <2>3 DEF OnData
    <3>3. QED
      BY <3>1, <3>2
  <2>4. QED
    BY <2>2, <2>3
<1>3. CASE c # 0
  <2> DEFINE t == [s EXCEPT !.got[c] = Append(s.got[c], d)]
  <2>1. OnData(s, c, d) = t
    BY <1>1, <1>3 DEF OnData, Fields
  <2>2. Part(w, c) = <<d>> /\ <<d>> \in Seq(Seq(Byte)) /\ \A k \in Channels \ {c} : Part(w, k) = <<>>
    <3>1. Part(w, c) = <<d>> /\ \A k \in Channels \ {c} : Part(w, k) = <<>>
      BY <1>1 DEF Part
    <3>2. QED
      BY <1>1, <3>1, PartType
  <2>3. d \in Seq(Byte)
    <3> HIDE DEF d
    <3>1. <<d>>[1] = d /\ Len(<<d>>) = 1 /\ 1 \in 1..1
      OBVIOUS
    <3>2. QED
      BY <2>2, <3>1, ElementOfSeq
  <2> HIDE DEF c, d
  <2>4. /\ DOMAIN t = Fields /\ t.got = [s.got EXCEPT ![c] = Append(s.got[c], d)]
        /\ \A f \in Fields \ {"got"} : t[f] = s[f]
    BY <1>1 DEF Fields
  <2> HIDE DEF t
  <2>5. /\ t.dec = s.dec /\ t.whole = s.whole /\ t.acted = s.acted /\ t.fault = s.fault
        /\ t.out = s.out /\ t.open = s.open /\ t.chan = s.chan /\ t.count = s.count /\ t.up = s.up
    BY <2>4 DEF Fields
  <2>6. ASSUME s.got \in GotType
        PROVE  t.got \in GotType /\ \A k \in Channels \ {0} : t.got[k] = Cat(s.got[k], Part(w, k))
    <3>1. s.got[c] \in Seq(Seq(Byte)) /\ DOMAIN s.got = Channels
          /\ \A k \in Channels : s.got[k] \in Seq(Seq(Byte))
      BY <1>1, <2>6 DEF GotType
    <3>2. Append(s.got[c], d) \in Seq(Seq(Byte))
      BY <2>3, <3>1
    <3>3. t.got \in GotType
      BY <2>4, <2>6, <3>2 DEF GotType
    <3>4. Append(s.got[c], d) = Cat(s.got[c], <<d>>)
      <4>1. <<>> \in Seq(Seq(Byte))
        OBVIOUS
      <4>2. s.got[c] \o Append(<<>>, d) = (s.got[c] \o <<>>) \o <<d>>
        BY <2>3, <3>1, <4>1, AppendConcat
      <4>3. s.got[c] \o Append(<<>>, d) = Append(s.got[c] \o <<>>, d)
        BY <2>3, <3>1, <4>1, AppendConcat
      <4>4. Cat(s.got[c], <<>>) = s.got[c]
        BY <3>1, <4>1, CatProperties
      <4>5. QED
        BY <4>2, <4>3, <4>4 DEF Cat
    <3>5. t.got[c] = Cat(s.got[c], Part(w, c))
      BY <1>1, <2>2, <2>4, <3>1, <3>4
    <3>6. ASSUME NEW k \in Channels \ {0}, k # c PROVE t.got[k] = Cat(s.got[k], Part(w, k))
      <4>1. t.got[k] = s.got[k]
        BY <2>4, <3>1, <3>6
      <4>2. Part(w, k) = <<>> /\ s.got[k] \in Seq(Seq(Byte)) /\ <<>> \in Seq(Seq(Byte))
        BY <2>2, <3>1, <3>6
      <4>3. Cat(s.got[k], <<>>) = s.got[k]
        BY <4>2, CatProperties
      <4>4. QED
        BY <4>1, <4>2, <4>3
    <3>7. QED
      BY <3>3, <3>5, <3>6
  <2>7. <<>> \in Seq(Mine) /\ (\A i \in 1..Len(<<>>) : FALSE) /\ s.out = Cat(s.out, <<>>)
    <3>1. <<>> \in Seq(Mine) /\ \A i \in 1..Len(<<>>) : FALSE
      OBVIOUS
    <3>2. QED
      BY <1>1, <3>1, CatProperties
  <2>8. Deed(s, t, w, <<>>)
    BY <1>1, <2>5, <2>6, <2>7 DEF Deed
  <2>9. QED
    BY <2>1, <2>8 DEF c, d
<1>4. QED
  BY <1>2, <1>3

\* UA: the only handler that counts.
LEMMA UADeed ==
  ASSUME NEW s, NEW n, NEW w, Ready(s, n, w), Parse(w).type = UA
  PROVE  \E X : Deed(s, OnUA(s, Parse(w).channel), w, X)
<1> DEFINE c == Parse(w).channel
<1>1. /\ DOMAIN s = Fields /\ s.open /\ s.out \in Seq(Mine) /\ w \in Shapes /\ Parse(w).good
      /\ c \in Channels /\ HostInv(s, n)
      /\ s.chan \in [Channels -> ChannelStates] /\ s.count \in Nat /\ s.up \in BOOLEAN
  BY Typed DEF Ready
<1>2. Parse(w).type \notin {UI, UIH}
  BY DEF UA, UI, UIH
<1>3. CASE s.chan[c] # Waiting
  <2>1. Deed(s, s, w, <<>>)
    BY <1>1, <1>2, Silence
  <2>2. OnUA(s, c) = s
    BY <1>3 DEF OnUA, Waiting
  <2>3. QED
    BY <2>1, <2>2
<1>4. CASE s.chan[c] = Waiting
  <2> DEFINE all == s.count + 1 = Cardinality(Channels)
             there == "modem" \in present
             count == IF all /\ there THEN 0 ELSE s.count + 1
             isUp == s.up \/ (all /\ there)
             t == OnUA(s, c)
  <2>1. t = [s EXCEPT !.chan[c] = "ESTABLISHED", !.count = count, !.up = isUp]
    BY <1>1, <1>4 DEF OnUA, Fields, Waiting
  <2>2. \/ count = s.count + 1 /\ isUp = s.up
        \/ count = 0 /\ s.count + 1 = Cardinality(Channels)
    <3>1. CASE all /\ there
      BY <3>1
    <3>2. CASE ~(all /\ there)
      <4>1. count = s.count + 1
        BY <3>2
      <4>2. isUp = s.up
        BY <1>1, <3>2, Zenon
      <4>3. QED
        BY <4>1, <4>2
    <3>3. QED
      BY <3>1, <3>2
  <2> HIDE DEF c, t, count, isUp, all, there
  <2>3. /\ DOMAIN t = Fields /\ t.chan = [s.chan EXCEPT ![c] = "ESTABLISHED"]
        /\ t.count = count /\ t.up = isUp
        /\ \A f \in Fields \ {"chan", "count", "up"} : t[f] = s[f]
    BY <1>1, <2>1 DEF Fields
  <2>4. /\ t.dec = s.dec /\ t.whole = s.whole /\ t.acted = s.acted /\ t.fault = s.fault
        /\ t.out = s.out /\ t.open = s.open /\ t.got = s.got
    BY <2>3 DEF Fields
  <2>5. t.chan[c] = "ESTABLISHED" /\ \A k \in Channels \ {c} : t.chan[k] = s.chan[k]
    BY <1>1, <2>3
  <2>6. Tally(s, t, w)
    <3>1. IsA(w, UA, c)
      BY DEF IsA, c
    <3>2. t.chan[c] # Waiting
      BY <2>5 DEF Waiting
    <3>3. QED
      BY <1>1, <1>4, <2>2, <2>3, <3>1, <3>2 DEF Tally
  <2>7. <<>> \in Seq(Mine) /\ (\A i \in 1..Len(<<>>) : FALSE) /\ s.out = Cat(s.out, <<>>)
    <3>1. <<>> \in Seq(Mine) /\ \A i \in 1..Len(<<>>) : FALSE
      OBVIOUS
    <3>2. QED
      BY <1>1, <3>1, CatProperties
  <2>8. s.got \in GotType => \A k \in Channels \ {0} : s.got[k] = Cat(s.got[k], Part(w, k))
    BY <1>2, Silent
  <2>9. /\ t.chan[0] = "CLOSED" => s.chan[0] = "CLOSED"
        /\ \A k \in Channels : t.chan[k] = Waiting => s.chan[k] = Waiting
    <3>1. \A k \in Channels : t.chan[k] \in {"ESTABLISHED", s.chan[k]}
      BY <2>5
    <3>2. QED
      BY <3>1, ChannelNumbers DEF Waiting
  <2>10. Deed(s, t, w, <<>>)
    BY <1>1, <2>4, <2>6, <2>7, <2>8, <2>9 DEF Deed
  <2>11. QED
    BY <2>10 DEF t, c
<1>5. QED
  BY <1>3, <1>4

\* A handler that changes the state of its channel and sends X.
LEMMA ChanDeed ==
  ASSUME NEW s, NEW n, NEW w, Ready(s, n, w), Parse(w).type \notin {UI, UIH},
         NEW t, DOMAIN t = Fields, \A f \in Fields \ {"out", "chan"} : t[f] = s[f],
         NEW x \in {"CLOSED", "ESTABLISHED"}, t.chan \in {s.chan, [s.chan EXCEPT ![Parse(w).channel] = x]},
         x = "CLOSED" => Parse(w).type = DM,
         NEW X \in Seq(Mine), t.out = Cat(s.out, X),
         \A i \in 1..Len(X) : Parse(X[i]).type \notin {SABM, DISC}
  PROVE  Deed(s, t, w, X)
<1> DEFINE c == Parse(w).channel
<1>1. /\ DOMAIN s = Fields /\ s.open /\ c \in Channels /\ s.chan \in [Channels -> ChannelStates]
  BY Typed DEF Ready
<1>2. /\ t.dec = s.dec /\ t.whole = s.whole /\ t.acted = s.acted /\ t.fault = s.fault
      /\ t.open = s.open /\ t.got = s.got /\ t.count = s.count /\ t.up = s.up
  BY DEF Fields
<1>3. s.got \in GotType => \A k \in Channels \ {0} : s.got[k] = Cat(s.got[k], Part(w, k))
  BY Silent
<1>4. \A k \in Channels : t.chan[k] = s.chan[k] \/ (k = c /\ t.chan[k] = x)
  <2> HIDE DEF c
  <2>1. t.chan \in {s.chan, [s.chan EXCEPT ![c] = x]}
    BY DEF c
  <2>2. QED
    BY <1>1, <2>1
<1>5. \A k \in Channels : t.chan[k] = Waiting => s.chan[k] = Waiting
  BY <1>4 DEF Waiting
<1>6. t.chan[0] = "CLOSED" => s.chan[0] = "CLOSED" \/ IsA(w, DM, 0)
  BY <1>4, ChannelNumbers DEF IsA
<1>7. QED
  BY <1>1, <1>2, <1>3, <1>5, <1>6 DEF Deed

\* DM
LEMMA DMDeed ==
  ASSUME NEW s, NEW n, NEW w, Ready(s, n, w), Parse(w).type = DM
  PROVE  \E X : Deed(s, OnDM(s, Parse(w).channel), w, X)
<1> DEFINE c == Parse(w).channel
           t == [s EXCEPT !.chan[c] = "CLOSED"]
<1>1. DOMAIN s = Fields /\ s.out \in Seq(Mine)
  BY Typed DEF Ready
<1>2. /\ DOMAIN t = Fields /\ t.chan = [s.chan EXCEPT ![c] = "CLOSED"]
      /\ \A f \in Fields \ {"chan"} : t[f] = s[f]
  BY <1>1 DEF Fields
<1>3. OnDM(s, c) = t
  BY DEF OnDM
<1> HIDE DEF t
<1>4. t.out = s.out
  BY <1>2 DEF Fields
<1>5. <<>> \in Seq(Mine) /\ (\A i \in 1..Len(<<>>) : FALSE) /\ t.out = Cat(s.out, <<>>)
  <2>1. <<>> \in Seq(Mine) /\ \A i \in 1..Len(<<>>) : FALSE
    OBVIOUS
  <2>2. QED
    BY <1>1, <1>4, <2>1, CatProperties
<1>6. Parse(w).type \notin {UI, UIH}
  BY DEF DM, UI, UIH
<1>7. t.chan \in {s.chan, [s.chan EXCEPT ![Parse(w).channel] = "CLOSED"]}
  BY <1>2
<1>8. Deed(s, t, w, <<>>)
  BY <1>2, <1>5, <1>6, <1>7, ChanDeed
<1>9. QED
  BY <1>3, <1>8

\* SABM
LEMMA SABMDeed ==
  ASSUME NEW s, NEW n, NEW w, Ready(s, n, w), Parse(w).type = SABM
  PROVE  \E X : Deed(s, OnSABM(s, Parse(w).channel, Parse(w).pf), w, X)
<1> DEFINE c == Parse(w).channel
           pf == Parse(w).pf
<1>1. /\ DOMAIN s = Fields /\ s.out \in Seq(Mine) /\ c \in Channels /\ s.open
  BY Typed DEF Ready
<1>2. Parse(w).type \notin {UI, UIH}
  BY DEF SABM, UI, UIH
<1>3. CASE pf = 0
  <2>1. Deed(s, s, w, <<>>)
    BY <1>1, <1>2, Silence
  <2>2. OnSABM(s, c, pf) = s
    BY <1>3 DEF OnSABM
  <2>3. QED
    BY <2>1, <2>2
<1>4. CASE pf # 0
  <2> DEFINE u == Out(s, c, UA, Poll)
             t == [u EXCEPT !.chan[c] = "ESTABLISHED"]
  <2>1. OnSABM(s, c, pf) = t
    BY <1>4 DEF OnSABM
  <2>2. u = Out(s, c, UA, Poll) /\ UA \in Replies
    BY DEF Replies
  <2> HIDE DEF u, pf
  <2>3. Replied(s, u)
    BY <1>1, <2>2, OutFields
  <2>4. PICK x \in Mine : u.out = Cat(s.out, <<x>>) /\ Parse(x).type \notin {SABM, DISC}
    BY <2>3 DEF Replied
  <2>11. DOMAIN u = Fields /\ \A f \in Fields \ {"out"} : u[f] = s[f]
    BY <2>3 DEF Replied
  <2>5. /\ DOMAIN t = Fields /\ t.chan = [u.chan EXCEPT ![c] = "ESTABLISHED"]
        /\ \A f \in Fields \ {"chan"} : t[f] = u[f]
    BY <2>11 DEF Fields
  <2> HIDE DEF t
  <2>6. t.out = u.out /\ u.chan = s.chan /\ \A f \in Fields \ {"out", "chan"} : t[f] = s[f]
    BY <2>5, <2>11 DEF Fields
  <2>7. <<x>> \in Seq(Mine) /\ t.out = Cat(s.out, <<x>>)
        /\ \A i \in 1..Len(<<x>>) : Parse(<<x>>[i]).type \notin {SABM, DISC}
    <3>1. Len(<<x>>) = 1 /\ <<x>>[1] = x /\ <<x>> \in Seq(Mine) /\ \A i \in 1..1 : i = 1
      BY <2>4
    <3>2. QED
      BY <2>4, <2>6, <3>1
  <2>8. t.chan \in {s.chan, [s.chan EXCEPT ![Parse(w).channel] = "ESTABLISHED"]}
    BY <2>5, <2>6
  <2>9. Deed(s, t, w, <<x>>)
    BY <1>2, <2>5, <2>6, <2>7, <2>8, ChanDeed
  <2>10. QED
    BY <2>1, <2>9 DEF pf
<1>5. QED
  BY <1>3, <1>4

\* DISC
LEMMA DISCDeed ==
  ASSUME NEW s, NEW n, NEW w, Ready(s, n, w), Parse(w).type = DISC
  PROVE  \E X : Deed(s, OnDISC(s, Parse(w).channel, Parse(w).pf), w, X)
<1> DEFINE c == Parse(w).channel
           pf == Parse(w).pf
<1>1. /\ DOMAIN s = Fields /\ s.out \in Seq(Mine) /\ c \in Channels /\ s.open /\ HostInv(s, n)
      /\ Parse(w).good
  BY Typed DEF Ready
<1>2. Parse(w).type \notin {UI, UIH}
  BY DEF DISC, UI, UIH
<1>3. CASE pf = 0
  <2>1. Deed(s, s, w, <<>>)
    BY <1>1, <1>2, Silence
  <2>2. OnDISC(s, c, pf) = s
    BY <1>3 DEF OnDISC
  <2>3. QED
    BY <2>1, <2>2
<1>4. CASE pf # 0
  <2> DEFINE type == IF s.chan[c] = "CLOSED" THEN DM ELSE UA
             u == Out(s, c, type, Poll)
  <2>1. OnDISC(s, c, pf) = IF c = 0 THEN Close(u) ELSE u
    BY <1>4 DEF OnDISC
  <2>2. type \in Replies /\ u = Out(s, c, type, Poll)
    BY DEF Replies
  <2>3. HostInv(u, n) /\ u.open = s.open
    BY <1>1, OutKeeps
  <2> HIDE DEF type, u
  <2>4. Replied(s, u)
    BY <1>1, <2>2, OutFields
  <2>5. PICK x \in Mine : u.out = Cat(s.out, <<x>>) /\ Parse(x).type \notin {SABM, DISC}
    BY <2>4 DEF Replied
  <2>10. DOMAIN u = Fields /\ \A f \in Fields \ {"out"} : u[f] = s[f]
    BY <2>4 DEF Replied
  <2>6. Len(<<x>>) = 1 /\ <<x>>[1] = x /\ <<x>> \in Seq(Mine) /\ \A i \in 1..1 : i = 1
    BY <2>5
  <2>7. CASE c # 0
    <3>1. u.chan = s.chan /\ \A f \in Fields \ {"out", "chan"} : u[f] = s[f]
      BY <2>10 DEF Fields
    <3>2. \A i \in 1..Len(<<x>>) : Parse(<<x>>[i]).type \notin {SABM, DISC}
      BY <2>5, <2>6
    <3>3. u.chan \in {s.chan, [s.chan EXCEPT ![Parse(w).channel] = "ESTABLISHED"]}
      BY <3>1
    <3>4. Deed(s, u, w, <<x>>)
      BY <1>2, <2>5, <2>10, <2>6, <3>1, <3>2, <3>3, ChanDeed
    <3>5. QED
      BY <2>1, <2>7, <3>4
  <2>8. CASE c = 0
    <3>1. PICK Y : Closed(u, Close(u), Y)
      BY <1>1, <2>3, CloseFields
    <3>2. Ends(w)
      BY <1>1, <1>4, <2>8 DEF Ends
    <3> DEFINE t == Close(u)
               X == Cat(<<x>>, Y)
    <3>3. /\ t.dec = u.dec /\ t.whole = u.whole /\ t.acted = u.acted /\ ~t.open
          /\ t.fault \subseteq u.fault \cup {"freed"} /\ t.got = u.got
          /\ Y \in Seq(Mine) /\ t.out = Cat(u.out, Y) /\ t.count = u.count /\ t.up = u.up
          /\ \A i \in 1..Len(Y) : Parse(Y[i]).type = DISC
          /\ \A k \in Channels : t.chan[k] = "CLOSED"
      BY <3>1 DEF Closed
    <3> HIDE DEF t
    <3>4. /\ u.dec = s.dec /\ u.whole = s.whole /\ u.acted = s.acted /\ u.fault = s.fault
          /\ u.got = s.got /\ u.count = s.count /\ u.up = s.up
      BY <2>10 DEF Fields
    <3>5. X \in Seq(Mine) /\ t.out = Cat(s.out, X)
      <4>1. X \in Seq(Mine)
        BY <2>6, <3>3, CatProperties
      <4>2. t.out = Cat(Cat(s.out, <<x>>), Y)
        BY <2>5, <3>3
      <4>3. Cat(Cat(s.out, <<x>>), Y) = Cat(s.out, Cat(<<x>>, Y))
        <5> DEFINE one == <<x>>
        <5>1. s.out \in Seq(Mine) /\ one \in Seq(Mine) /\ Y \in Seq(Mine)
          BY <1>1, <2>6, <3>3
        <5> HIDE DEF one
        <5>2. Cat(Cat(s.out, one), Y) = Cat(s.out, Cat(one, Y))
          BY <5>1, CatAssociative
        <5>3. QED
          BY <5>2 DEF one
      <4>4. QED
        BY <4>1, <4>2, <4>3
    <3>6. \A i \in 1..Len(X) : Parse(X[i]).type # SABM
      <4> DEFINE one == <<x>>
      <4>1. Joined(X, one, Y) /\ Len(one) = 1 /\ one[1] = x
        BY <2>6, <3>3, CatJoined
      <4> HIDE DEF X, one
      <4>2. /\ Len(Y) \in Nat /\ Len(X) = 1 + Len(Y) /\ X[1] = x
            /\ \A i \in 1..Len(Y) : X[1 + i] = Y[i]
        <5>1. 1 \in 1..1
          OBVIOUS
        <5>2. QED
          BY <4>1, <5>1 DEF Joined
      <4>3. ASSUME NEW i \in 1..Len(X), i # 1 PROVE Parse(X[i]).type # SABM
        <5>1. i - 1 \in 1..Len(Y) /\ 1 + (i - 1) = i
          BY <4>2, <4>3
        <5>2. X[i] = Y[i - 1]
          BY <4>2, <5>1
        <5>3. Parse(X[i]).type = DISC
          BY <3>3, <5>1, <5>2
        <5>4. QED
          BY <5>3 DEF DISC, SABM
      <4>4. Parse(X[1]).type # SABM
        BY <2>5, <4>2
      <4>5. QED
        BY <4>3, <4>4
    <3> HIDE DEF X
    <3>7. s.got \in GotType => \A k \in Channels \ {0} : s.got[k] = Cat(s.got[k], Part(w, k))
      BY <1>2, Silent
    <3>8. \A k \in Channels : t.chan[k] # Waiting
      BY <3>3 DEF Waiting
    <3>9. Deed(s, t, w, X)
      BY <3>2, <3>3, <3>4, <3>5, <3>6, <3>7, <3>8 DEF Deed
    <3>10. QED
      BY <2>1, <2>8, <3>9 DEF t
  <2>9. QED
    BY <2>7, <2>8
<1>5. QED
  BY <1>3, <1>4

-----------------------------------------------------------------------------
(* What a handler does to the session *)

\* The first of the frames and the others.
LEMMA Rest ==
  ASSUME NEW q \in Seq(Shapes), q # <<>>
  PROVE  /\ Tail(q) \in Seq(Shapes) /\ Len(q) \in Nat /\ Len(Tail(q)) = Len(q) - 1
         /\ Head(q) = q[1] /\ 1 \in 1..Len(q) /\ Head(q) \in Shapes
         /\ \A i \in 1..Len(Tail(q)) : i + 1 \in 1..Len(q) /\ Tail(q)[i] = q[i + 1] /\ i + 1 # 1
         /\ Len(q) = 1 => Tail(q) = <<>>
<1>1. /\ Tail(q) \in Seq(Shapes) /\ Len(Tail(q)) = Len(q) - 1 /\ Len(q) \in Nat /\ 1 <= Len(q)
      /\ Head(q) = q[1] /\ q[1] \in Shapes /\ Tail(q) = After(q, 1)
  BY AfterOne
<1>2. \A i \in 1..(Len(q) - 1) : Tail(q)[i] = q[1 + i]
  BY <1>1, CutFacts
<1>3. \A i \in 1..(Len(q) - 1) : i + 1 \in 1..Len(q) /\ i + 1 = 1 + i /\ i + 1 # 1
  BY <1>1
<1>4. 1 \in 1..Len(q)
  BY <1>1
<1>5. Len(q) = 1 => Tail(q) = <<>>
  BY <1>1, EmptySeq
<1>6. QED
  BY <1>1, <1>2, <1>3, <1>4, <1>5

\* A frame of the one sequence or the other.
Either(u, a, k) ==
  \A i \in 1..Len(u) : \/ i \in 1..Len(a) /\ u[i] = a[i]
                       \/ \E j \in 1..Len(k) : i = Len(a) + j /\ u[i] = k[j]

\* An element of two sequences in a row is of the one or the other.
LEMMA CatEach ==
  ASSUME NEW S, NEW a \in Seq(S), NEW k \in Seq(S)
  PROVE  Either(Cat(a, k), a, k)
<1> DEFINE u == Cat(a, k)
<1>1. Joined(u, a, k)
  BY CatJoined
<1> HIDE DEF u
<1>2. PICK m \in Nat, n \in Nat : m = Len(a) /\ n = Len(k)
  BY <1>1 DEF Joined
<1>3. /\ Len(u) = m + n /\ (\A i \in 1..m : u[i] = a[i]) /\ \A i \in 1..n : u[m + i] = k[i]
  BY <1>1, <1>2 DEF Joined
<1>4. ASSUME NEW i \in 1..(m + n), i \notin 1..m
      PROVE  \E j \in 1..n : i = m + j /\ u[i] = k[j]
  <2>1. i - m \in 1..n /\ m + (i - m) = i
    BY <1>2, <1>4
  <2>2. QED
    BY <1>3, <2>1
<1>5. \A i \in 1..Len(u) : \/ i \in 1..Len(a) /\ u[i] = a[i]
                          \/ \E j \in 1..Len(k) : i = Len(a) + j /\ u[i] = k[j]
  BY <1>2, <1>3, <1>4
<1>6. QED
  BY <1>5 DEF Either, u

\* What was said is said of the frames that are left.
LEMMA SaidOn ==
  ASSUME NEW s, NEW q \in Seq(Shapes), q # <<>>, NEW e, Said(s, q, e), NEW t, t.acted = s.acted
  PROVE  Said(t, Tail(q), e)
<1>1. s.acted \subseteq e.said /\ \A i \in 1..Len(q) : Parse(q[i]).good => Kind(q[i]) \in e.said
  BY DEF Said
<1>2. \A i \in 1..Len(Tail(q)) : i + 1 \in 1..Len(q) /\ Tail(q)[i] = q[i + 1]
  BY Rest
<1>3. \A i \in 1..Len(Tail(q)) : Parse(Tail(q)[i]).good => Kind(Tail(q)[i]) \in e.said
  BY <1>1, <1>2
<1>4. QED
  BY <1>1, <1>3 DEF Said

\* The payload of the frame moves from what is on its way to what the channel got.
LEMMA DataOn ==
  ASSUME NEW s, NEW q \in Seq(Shapes), q # <<>>, NEW e, Data(s, q, e),
         NEW t, NEW w, w = Head(q), NEW X, Deed(s, t, w, X)
  PROVE  Data(t, Tail(q), e)
<1> SUFFICES ASSUME t.whole
             PROVE  t.got \in GotType
                    /\ \A c \in Channels \ {0} : Cat(t.got[c], DataOf(Tail(q), c)) = e.sent[c]
  BY DEF Data, GotType
<1>1. t.whole = s.whole
  BY DEF Deed
<1>2. s.got \in GotType
  BY <1>1 DEF Data, GotType
<1>3. \A c \in Channels \ {0} : Cat(s.got[c], DataOf(q, c)) = e.sent[c]
  BY <1>1 DEF Data
<1>4. t.got \in GotType /\ \A c \in Channels \ {0} : t.got[c] = Cat(s.got[c], Part(w, c))
  BY <1>2 DEF Deed
<1>5. Tail(q) \in Seq(Shapes) /\ w \in Shapes
  BY Rest
<1>6. ASSUME NEW c \in Channels \ {0}
      PROVE  Cat(t.got[c], DataOf(Tail(q), c)) = e.sent[c]
  <2> DEFINE g == s.got[c]
             p == Part(w, c)
             r == DataOf(Tail(q), c)
  <2>1. g \in Seq(Seq(Byte))
    BY <1>2 DEF GotType
  <2>2. p \in Seq(Seq(Byte))
    BY <1>5, PartType
  <2>3. r \in Seq(Seq(Byte))
    BY <1>5, DataOfFacts
  <2>4. DataOf(q, c) = Cat(p, r)
    BY DataOfFacts
  <2>5. t.got[c] = Cat(g, p) /\ Cat(g, DataOf(q, c)) = e.sent[c]
    BY <1>3, <1>4
  <2> HIDE DEF g, p, r
  <2>6. Cat(Cat(g, p), r) = Cat(g, Cat(p, r))
    BY <2>1, <2>2, <2>3, CatAssociative
  <2>7. QED
    BY <2>4, <2>5, <2>6 DEF r
<1>7. QED
  BY <1>4, <1>6

\* No handler disconnects, but a close.
LEMMA AnswersOn ==
  ASSUME NEW s, s.open, NEW q \in Seq(Shapes), q # <<>>, NEW U \in Seq(Mine), NEW e,
         Answers(s, q, U, e), NEW t, NEW w, NEW X, Deed(s, t, w, X)
  PROVE  Answers(t, Tail(q), Cat(U, X), e)
<1> SUFFICES ASSUME t.open
             PROVE  /\ \A i \in 1..Len(Cat(U, X)) : Parse(Cat(U, X)[i]).type # DISC
                    /\ \A i \in 1..Len(Tail(q)) :
                         Parse(Tail(q)[i]).good /\ Parse(Tail(q)[i]).type = UA
                           => Parse(Tail(q)[i]).channel \in e.agreed
  BY DEF Answers
<1>1. /\ \A i \in 1..Len(U) : Parse(U[i]).type # DISC
      /\ \A i \in 1..Len(q) : Parse(q[i]).good /\ Parse(q[i]).type = UA
                                => Parse(q[i]).channel \in e.agreed
  BY DEF Answers
<1>2. X \in Seq(Mine) /\ \A i \in 1..Len(X) : Parse(X[i]).type # DISC
  BY DEF Deed
<1>3. Either(Cat(U, X), U, X)
  BY <1>2, CatEach
<1>4. \A i \in 1..Len(Cat(U, X)) : Parse(Cat(U, X)[i]).type # DISC
  BY <1>1, <1>2, <1>3 DEF Either
<1>5. \A i \in 1..Len(Tail(q)) : i + 1 \in 1..Len(q) /\ Tail(q)[i] = q[i + 1]
  BY Rest
<1>6. QED
  BY <1>1, <1>4, <1>5

\* An acknowledgement is counted once: its channel waited before and does not now.
\* At the last one every channel is counted, and so acknowledged.
LEMMA CountedOn ==
  ASSUME NEW s, s.open, NEW q \in Seq(Shapes), q # <<>>, NEW U, NEW e, e.agreed \subseteq Channels,
         Answers(s, q, U, e), Counted(s, e),
         NEW t, NEW w, w = Head(q), NEW X, Deed(s, t, w, X),
         Parse(w).good \/ (t.count = s.count /\ t.up = s.up)
  PROVE  Counted(t, e)
<1>1. PICK C \in SUBSET e.agreed : s.count = Cardinality(C) /\ \A c \in C : s.chan[c] # Waiting
  BY DEF Counted
<1>2. \A c \in Channels : t.chan[c] = Waiting => s.chan[c] = Waiting
  BY DEF Deed
<1>3. CASE t.count = s.count /\ t.up = s.up
  <2>1. \A c \in C : t.chan[c] # Waiting
    BY <1>1, <1>2
  <2>2. t.up => e.agreed = Channels
    BY <1>3 DEF Counted
  <2>3. t.count = Cardinality(C)
    BY <1>1, <1>3
  <2>4. QED
    BY <1>1, <2>1, <2>2, <2>3 DEF Counted
<1>4. CASE ~(t.count = s.count /\ t.up = s.up)
  <2>1. Parse(w).good /\ Tally(s, t, w)
    BY <1>4 DEF Deed
  <2>2. PICK c \in Channels :
          /\ IsA(w, UA, c) /\ s.chan[c] = Waiting /\ t.chan[c] # Waiting
          /\ \/ t.count = s.count + 1 /\ t.up = s.up
             \/ t.count = 0 /\ s.count + 1 = Cardinality(Channels)
    BY <2>1 DEF Tally
  <2>3. c \in e.agreed
    <3>1. w = q[1] /\ 1 \in 1..Len(q)
      BY Rest
    <3>2. QED
      BY <2>1, <2>2, <3>1 DEF Answers, IsA
  <2>4. c \notin C
    BY <1>1, <2>2
  <2>5. IsFiniteSet(C) /\ IsFiniteSet(Channels)
    <3>1. IsFiniteSet(Channels) /\ C \in SUBSET Channels
      BY <1>1, ChannelNumbers
    <3>2. QED
      BY <3>1, FS_Subset
  <2> DEFINE D == C \cup {c}
  <2>6. Cardinality(D) = Cardinality(C) + 1
    BY <2>4, <2>5, FS_AddElement
  <2>7. D \in SUBSET e.agreed
    BY <1>1, <2>3
  <2>8. \A k \in D : t.chan[k] # Waiting
    BY <1>1, <1>2, <2>2
  <2> HIDE DEF D
  <2>9. CASE t.count = s.count + 1 /\ t.up = s.up
    <3>1. t.count = Cardinality(D)
      BY <1>1, <2>6, <2>9
    <3>2. t.up => e.agreed = Channels
      BY <2>9 DEF Counted
    <3>3. QED
      BY <2>7, <2>8, <3>1, <3>2 DEF Counted
  <2>10. CASE t.count = 0 /\ s.count + 1 = Cardinality(Channels)
    <3>1. Cardinality(D) = Cardinality(Channels)
      BY <1>1, <2>6, <2>10
    <3>2. D \in SUBSET Channels
      BY <2>7
    <3>3. D = Channels
      BY <2>5, <3>1, <3>2, FS_Subset
    <3>4. e.agreed = Channels
      BY <2>7, <3>3
    <3>5. {} \in SUBSET e.agreed /\ t.count = Cardinality({}) /\ \A k \in {} : t.chan[k] # Waiting
      BY <2>10, FS_EmptySet
    <3>6. QED
      BY <3>4, <3>5 DEF Counted
  <2>11. QED
    BY <2>2, <2>9, <2>10
<1>5. QED
  BY <1>3, <1>4

\* A session that is over for the modem stays over.
LEMMA OverOn ==
  ASSUME NEW U \in Seq(Mine), NEW X \in Seq(Mine), \A i \in 1..Len(X) : ~IsA(X[i], SABM, 0),
         NEW e, Over(U, e)
  PROVE  Over(Cat(U, X), e)
<1>1. Either(Cat(U, X), U, X)
  BY CatEach
<1>2. QED
  BY <1>1 DEF Either, Over

\* This side closes at the modem's last frame: nothing is left of the read.
LEMMA EndingOn ==
  ASSUME NEW s, s.open, NEW q \in Seq(Shapes), q # <<>>, NEW U \in Seq(Mine), NEW e,
         Ending(s, q, U, e), NEW t, NEW w, w = Head(q), NEW X, Deed(s, t, w, X),
         Parse(w).good \/ t.chan = s.chan
  PROVE  Ending(t, Tail(q), Cat(U, X), e) /\ (t.open \/ Tail(q) = <<>>)
<1>1. Asked(q, U, e) /\ AtEnd(q, U, e) /\ (s.chan[0] = "CLOSED" => Over(U, e))
  BY DEF Ending
<1>2. X \in Seq(Mine) /\ \A i \in 1..Len(X) : ~IsA(X[i], SABM, 0)
  BY DEF Deed, IsA
<1>3. Over(U, e) => Over(Cat(U, X), e)
  BY <1>2, OverOn
<1>4. w = q[1] /\ 1 \in 1..Len(q)
  BY Rest
<1>5. CASE ~t.open
  <2>1. Ends(w)
    BY <1>5 DEF Deed
  <2>2. 1 = Len(q) /\ Over(U, e)
    BY <1>1, <1>4, <2>1 DEF AtEnd
  <2>3. Tail(q) = <<>>
    BY <2>2, Rest
  <2>4. QED
    BY <1>3, <1>5, <2>2, <2>3 DEF Ending
<1>6. CASE t.open
  <2>1. \A i \in 1..Len(Cat(U, X)) : ~IsA(Cat(U, X)[i], SABM, 0)
    <3>1. \A i \in 1..Len(U) : ~IsA(U[i], SABM, 0)
      BY <1>1 DEF Asked
    <3>2. Either(Cat(U, X), U, X)
      BY <1>2, CatEach
    <3>3. QED
      BY <1>2, <3>1, <3>2 DEF Either
  <2>2. Asked(Tail(q), Cat(U, X), e)
    BY <2>1 DEF Asked
  <2>3. AtEnd(Tail(q), Cat(U, X), e)
    <3>1. ASSUME NEW i \in 1..Len(Tail(q))
          PROVE  /\ Parse(Tail(q)[i]).good /\ IsA(Tail(q)[i], DM, 0) => Over(Cat(U, X), e)
                 /\ Ends(Tail(q)[i]) => i = Len(Tail(q)) /\ Over(Cat(U, X), e)
      <4>1. i + 1 \in 1..Len(q) /\ Tail(q)[i] = q[i + 1]
        BY Rest
      <4>2. i + 1 = Len(q) => i = Len(Tail(q))
        <5>1. PICK m \in Nat : m = Len(q) /\ Len(Tail(q)) = m - 1
          BY Rest
        <5>2. \A k \in 1..(m - 1) : k + 1 = m => k = m - 1
          OBVIOUS
        <5>3. QED
          BY <5>1, <5>2
      <4>3. QED
        BY <1>1, <1>3, <4>1, <4>2 DEF AtEnd
    <3>2. QED
      BY <3>1 DEF AtEnd
  <2>4. ASSUME t.chan[0] = "CLOSED" PROVE Over(Cat(U, X), e)
    <3>1. s.chan[0] = "CLOSED" \/ (Parse(w).good /\ IsA(w, DM, 0))
      BY <1>6, <2>4 DEF Deed
    <3>2. CASE s.chan[0] = "CLOSED"
      BY <1>1, <1>3, <3>2
    <3>3. CASE Parse(w).good /\ IsA(w, DM, 0)
      BY <1>1, <1>3, <1>4, <3>3 DEF AtEnd
    <3>4. QED
      BY <3>1, <3>2, <3>3
  <2>5. QED
    BY <1>6, <2>2, <2>3, <2>4 DEF Ending
<1>7. QED
  BY <1>5, <1>6

\* A frame's handler takes the flow on.
LEMMA DeedFlow ==
  ASSUME NEW s, s.open, NEW q, q # <<>>, NEW U, NEW e, e.agreed \subseteq Channels,
         Flow(s, q, U, e), NEW t, NEW X, Deed(s, t, Head(q), X),
         Parse(Head(q)).good \/ (t.count = s.count /\ t.up = s.up /\ t.chan = s.chan)
  PROVE  /\ Flow(t, Tail(q), Cat(U, X), e)
         /\ Plain(e, {"stale", "late"}) => t.open \/ Tail(q) = <<>>
<1> DEFINE w == Head(q)
<1>1. q \in Seq(Shapes) /\ U \in Seq(Mine) /\ Said(s, q, e) /\ Data(s, q, e)
  BY DEF Flow
<1>2. Tail(q) \in Seq(Shapes)
  BY <1>1, Rest
<1>3. X \in Seq(Mine) /\ t.acted = s.acted
  BY DEF Deed
<1>4. Cat(U, X) \in Seq(Mine)
  BY <1>1, <1>3, CatProperties
<1>5. Said(t, Tail(q), e)
  BY <1>1, <1>3, SaidOn
<1>6. Data(t, Tail(q), e)
  BY <1>1, DataOn
<1>7. Plain(e, {"stale"}) => Answers(t, Tail(q), Cat(U, X), e)
  BY <1>1, AnswersOn DEF Flow
<1>8. ASSUME Plain(e, {"stale", "count"}) PROVE Counted(t, e)
  <2>1. Answers(s, q, U, e) /\ Counted(s, e)
    <3>1. Plain(e, {"stale"})
      BY <1>8 DEF Plain
    <3>2. QED
      BY <1>8, <3>1 DEF Flow
  <2>2. QED
    BY <1>1, <2>1, CountedOn
<1>9. ASSUME Plain(e, {"stale", "late"})
      PROVE  Ending(t, Tail(q), Cat(U, X), e) /\ (t.open \/ Tail(q) = <<>>)
  <2>1. Ending(s, q, U, e)
    BY <1>9 DEF Flow
  <2>2. QED
    BY <1>1, <2>1, EndingOn
<1>10. QED
  BY <1>2, <1>4, <1>5, <1>6, <1>7, <1>8, <1>9 DEF Flow

-----------------------------------------------------------------------------
(* A frame, and a step of the decoder *)

\* The flow does not depend on the rest of the process.
LEMMA FlowSame ==
  ASSUME NEW s, NEW q, NEW U, NEW e, Flow(s, q, U, e),
         NEW t, t.open = s.open, t.chan = s.chan, t.count = s.count, t.up = s.up,
         t.got = s.got, t.whole = s.whole, t.acted \subseteq e.said
  PROVE  Flow(t, q, U, e)
<1>1. Said(t, q, e)
  BY DEF Flow, Said
<1>2. Data(t, q, e)
  BY DEF Flow, Data
<1>3. Plain(e, {"stale"}) => Answers(t, q, U, e)
  BY DEF Flow, Answers
<1>4. Plain(e, {"stale", "count"}) => Counted(t, e)
  BY DEF Flow, Counted
<1>5. Plain(e, {"stale", "late"}) => Ending(t, q, U, e)
  BY DEF Flow, Ending
<1>6. QED
  BY <1>1, <1>2, <1>3, <1>4, <1>5 DEF Flow

\* And what it implies.
LEMMA FlowKept ==
  ASSUME NEW s, NEW q, NEW U, NEW e, Flow(s, q, U, e),
         NEW t, t.acted = s.acted, t.up = s.up,
         "null" \in t.fault => ~Plain(e, {"stale", "late"})
  PROVE  Kept(t, e)
<1>1. t.acted \subseteq e.said
  BY DEF Flow, Said
<1>2. Plain(e, {"stale", "count"}) => (s.up => e.agreed = Channels)
  BY DEF Flow, Counted
<1>3. QED
  BY <1>1, <1>2 DEF Kept

\* tcore_cmux_process_channel_data
LEMMA ChannelDataDeed ==
  ASSUME NEW s, NEW n, NEW w, Ready(s, n, w)
  PROVE  \E r : /\ DOMAIN r = Fields /\ r.acted = s.acted \cup {Kind(w)}
                /\ \A f \in Fields \ {"acted"} : r[f] = s[f]
                /\ \E X : Deed(r, ProcessChannelData(s, Parse(w)), w, X)
<1> DEFINE p == Parse(w)
           c == Parse(w).channel
           acted == s.acted \cup {Kind(w)}
           r == [s EXCEPT !.acted = acted]
           t == ProcessChannelData(s, p)
<1>1. /\ DOMAIN s = Fields /\ s.chan \in [Channels -> ChannelStates]
      /\ s.count \in Nat /\ s.up \in BOOLEAN /\ HostInv(s, n) /\ s.open /\ s.out \in Seq(Mine)
      /\ w \in Shapes /\ Parse(w).good /\ c \in Channels
  BY Typed DEF Ready
<1>2. t = CASE p.type \in {UI, UIH} -> OnData(r, c, p.data)
            [] p.type = UA          -> OnUA(r, c)
            [] p.type = DM          -> OnDM(r, c)
            [] p.type = DISC        -> OnDISC(r, c, p.pf)
            [] p.type = SABM        -> OnSABM(r, c, p.pf)
            [] OTHER                -> r
  BY <1>1 DEF ProcessChannelData, Kind, Fields
<1> HIDE DEF t, acted
<1>3. /\ DOMAIN r = Fields /\ r.acted = acted /\ \A f \in Fields \ {"acted"} : r[f] = s[f]
  BY <1>1 DEF Fields
<1> HIDE DEF r
<1>4. (\A f \in Held : r[f] = s[f]) /\ r.chan = s.chan /\ r.count = s.count /\ r.up = s.up
      /\ r.out = s.out
  BY <1>3 DEF Fields, Held
<1>5. r.chan \in [Channels -> ChannelStates] /\ r.count \in Nat /\ r.up \in BOOLEAN
  BY <1>1, <1>4
<1>6. HostInv(r, n) /\ r.open
  BY <1>1, <1>3, <1>4, <1>5, HeldKeeps
<1>7. Ready(r, n, w)
  BY <1>1, <1>4, <1>6 DEF Ready
<1>8. CASE p.type \in {UI, UIH}
  <2>1. t = OnData(r, c, p.data)
    BY <1>2, <1>8 DEF UI, UIH, UA, DM, DISC, SABM
  <2>2. QED
    BY <1>3, <1>7, <1>8, <2>1, DataDeed DEF t, acted
<1>9. CASE p.type = UA
  <2>1. t = OnUA(r, c)
    BY <1>2, <1>9 DEF UI, UIH, UA, DM, DISC, SABM
  <2>2. QED
    BY <1>3, <1>7, <1>9, <2>1, UADeed DEF t, acted
<1>10. CASE p.type = DM
  <2>1. t = OnDM(r, c)
    BY <1>2, <1>10 DEF UI, UIH, UA, DM, DISC, SABM
  <2>2. QED
    BY <1>3, <1>7, <1>10, <2>1, DMDeed DEF t, acted
<1>11. CASE p.type = DISC
  <2>1. t = OnDISC(r, c, p.pf)
    BY <1>2, <1>11 DEF UI, UIH, UA, DM, DISC, SABM
  <2>2. QED
    BY <1>3, <1>7, <1>11, <2>1, DISCDeed DEF t, acted
<1>12. CASE p.type = SABM
  <2>1. t = OnSABM(r, c, p.pf)
    BY <1>2, <1>12 DEF UI, UIH, UA, DM, DISC, SABM
  <2>2. QED
    BY <1>3, <1>7, <1>12, <2>1, SABMDeed DEF t, acted
<1>13. CASE p.type \notin {UI, UIH, UA, DM, DISC, SABM}
  <2>1. t = r
    BY <1>2, <1>13
  <2>2. Deed(r, r, w, <<>>)
    <3>1. Parse(w).type \notin {UI, UIH}
      BY <1>13
    <3>2. DOMAIN r = Fields /\ r.open /\ r.out \in Seq(Mine)
      BY <1>1, <1>3, <1>4, <1>6
    <3>3. QED
      BY <3>1, <3>2, Silence
  <2>3. QED
    BY <1>3, <2>1, <2>2 DEF t, acted
<1>14. QED
  BY <1>8, <1>9, <1>10, <1>11, <1>12, <1>13

\* The process in the middle of a read: V is what it had sent before.
Running(s, q, V, e) ==
  /\ s.out \in Seq(Mine) /\ Flow(s, q, Cat(V, s.out), e)
  /\ Plain(e, {"stale", "late"}) => s.open \/ q = <<>>

\* What comes of it.
Becomes(t, q, V, e) ==
  /\ t.out \in Seq(Mine) /\ Kept(t, e)
  /\ t.fault = {} => Running(t, q, V, e)

\* A frame's handler takes the read on.
LEMMA DeedRuns ==
  ASSUME NEW V \in Seq(Mine), NEW s, s.open, NEW q, q # <<>>, NEW e, e.agreed \subseteq Channels,
         s.fault = {}, s.out \in Seq(Mine), Flow(s, q, Cat(V, s.out), e),
         NEW t, NEW X, Deed(s, t, Head(q), X),
         Parse(Head(q)).good \/ (t.count = s.count /\ t.up = s.up /\ t.chan = s.chan)
  PROVE  Becomes(t, Tail(q), V, e)
<1> DEFINE U == Cat(V, s.out)
<1>1. X \in Seq(Mine) /\ t.out = Cat(s.out, X) /\ t.fault \subseteq {"freed"}
  BY DEF Deed
<1>2. t.out \in Seq(Mine)
  BY <1>1, CatProperties
<1>3. Cat(U, X) = Cat(V, t.out)
  BY <1>1, CatAssociative
<1> HIDE DEF U
<1>4. /\ Flow(t, Tail(q), Cat(U, X), e)
      /\ Plain(e, {"stale", "late"}) => t.open \/ Tail(q) = <<>>
  BY DeedFlow DEF U
<1>5. Kept(t, e)
  BY <1>1, <1>4, FlowKept
<1>6. QED
  BY <1>2, <1>3, <1>4, <1>5 DEF Becomes, Running

\* tcore_cmux_process_rcv_frame: the frame is of the first eight channels or not, and
\* good or not; and the mux is there, unless the modem talks after its end.
LEMMA FrameRuns ==
  ASSUME NEW V \in Seq(Mine), NEW s, NEW n, HostInv(s, n), NEW q, q # <<>>,
         NEW e, e.agreed \subseteq Channels, s.fault = {}, Running(s, q, V, e)
  PROVE  Becomes(ProcessFrame(s, Head(q)), Tail(q), V, e)
         /\ ProcessFrame(s, Head(q)).dec = s.dec
<1> DEFINE w == Head(q)
           p == Parse(w)
           t == ProcessFrame(s, w)
           U == Cat(V, s.out)
<1>1. /\ DOMAIN s = Fields /\ s.out \in Seq(Mine) /\ Flow(s, q, U, e) /\ q \in Seq(Shapes)
      /\ U \in Seq(Mine) /\ Said(s, q, e)
  BY Typed DEF Running, Flow
<1>2. w = q[1] /\ 1 \in 1..Len(q) /\ w \in Shapes
  BY <1>1, Rest
<1> HIDE DEF U, w
<1>3. CASE ~s.open
  <2> DEFINE r == Fault(s, "null")
  <2>1. t = r
    BY <1>3 DEF ProcessFrame
  <2>2. /\ DOMAIN r = Fields /\ r.fault = {"null"} /\ \A f \in Fields \ {"fault"} : r[f] = s[f]
    BY <1>1 DEF Fault, Fields
  <2> HIDE DEF r
  <2>3. r.acted = s.acted /\ r.up = s.up /\ r.out = s.out /\ r.dec = s.dec
    BY <2>2 DEF Fields
  <2>4. ~Plain(e, {"stale", "late"})
    BY <1>3 DEF Running
  <2>5. Kept(r, e)
    BY <1>1, <2>3, <2>4, FlowKept
  <2>6. r.fault # {}
    BY <2>2
  <2>7. QED
    BY <1>1, <2>1, <2>3, <2>5, <2>6 DEF Becomes, w
<1>4. CASE s.open /\ ~(p.channel \in Channels /\ p.good)
  <2>1. t = s
    BY <1>4 DEF ProcessFrame
  <2>2. \A c \in Channels : Part(w, c) = <<>>
    BY <1>4 DEF Part
  <2>3. Deed(s, s, w, <<>>)
    <3>1. <<>> \in Seq(Mine) /\ (\A i \in 1..Len(<<>>) : FALSE)
      OBVIOUS
    <3>2. s.out = Cat(s.out, <<>>)
      BY <1>1, <3>1, CatProperties
    <3>3. s.got \in GotType => \A c \in Channels \ {0} : s.got[c] = Cat(s.got[c], Part(w, c))
      <4>1. s.got \in GotType => \A c \in Channels : s.got[c] \in Seq(Seq(Byte))
        BY DEF GotType
      <4>2. \A x \in Seq(Seq(Byte)) : x = Cat(x, <<>>)
        BY CatProperties
      <4>3. QED
        BY <2>2, <4>1, <4>2
    <3>4. QED
      BY <1>4, <3>1, <3>2, <3>3 DEF Deed
  <2>4. Becomes(s, Tail(q), V, e)
    BY <1>1, <1>4, <2>3, DeedRuns DEF w, U
  <2>5. QED
    BY <2>1, <2>4 DEF w
<1>5. CASE s.open /\ p.channel \in Channels /\ p.good
  <2>1. t = ProcessChannelData(s, p)
    BY <1>5 DEF ProcessFrame
  <2>2. Ready(s, n, w)
    BY <1>1, <1>2, <1>5 DEF Ready
  <2>3. PICK r : /\ DOMAIN r = Fields /\ r.acted = s.acted \cup {Kind(w)}
                 /\ \A f \in Fields \ {"acted"} : r[f] = s[f]
                 /\ \E X : Deed(r, ProcessChannelData(s, p), w, X)
    BY <2>2, ChannelDataDeed
  <2>4. PICK X : Deed(r, t, w, X)
    BY <2>1, <2>3
  <2>5. /\ r.open = s.open /\ r.chan = s.chan /\ r.count = s.count /\ r.up = s.up
        /\ r.got = s.got /\ r.whole = s.whole /\ r.fault = s.fault /\ r.out = s.out
        /\ r.dec = s.dec
    BY <2>3 DEF Fields
  <2>6. r.acted \subseteq e.said
    <3>1. Kind(w) \in e.said /\ s.acted \subseteq e.said
      BY <1>1, <1>2, <1>5 DEF Said
    <3>2. QED
      BY <2>3, <3>1
  <2>7. Flow(r, q, U, e)
    BY <1>1, <2>5, <2>6, FlowSame
  <2>8. t.dec = s.dec
    BY <2>4, <2>5 DEF Deed
  <2>9. Flow(r, q, Cat(V, r.out), e) /\ r.open /\ r.fault = {} /\ r.out \in Seq(Mine)
        /\ Deed(r, t, Head(q), X) /\ Parse(Head(q)).good
    BY <1>1, <1>5, <2>4, <2>5, <2>7 DEF U, w
  <2> HIDE DEF t, p
  <2>10. Becomes(t, Tail(q), V, e)
    BY <2>9, DeedRuns
  <2>11. QED
    BY <2>8, <2>10 DEF t, w
<1>6. QED
  BY <1>3, <1>4, <1>5

-----------------------------------------------------------------------------
(* What was read *)

\* After j of m turns: L is what is still on the line.
Turned(x, n, L, V, e, m, j) ==
  /\ HostInv(x.s, n) /\ x.s.out \in Seq(Mine) /\ Kept(x.s, e)
  /\ x.s.fault = {} =>
       /\ x.rest \in Seq(Byte)
       /\ x.rest = <<>> \/ ToDo(x.s.dec, x.rest) + j <= m
       /\ \E q : Aligned(x.s.dec, Cat(x.rest, L), q) /\ Running(x.s, q, V, e)

\* What is left of a read takes steps.
LEMMA ToDoType ==
  ASSUME NEW d, NEW s \in Seq(Byte)
  PROVE  ToDo(d, s) \in Int /\ (s # <<>> => ToDo(d, s) >= 1)
<1>1. PICK m \in Nat : m = Len(s)
  BY LenProperties
<1>2. s # <<>> => m >= 1
  BY <1>1, EmptySeq
<1>3. QED
  BY <1>1, <1>2 DEF ToDo

\* A step of the decoder takes one frame from the stream or none.
LEMMA TakeTurn ==
  ASSUME NEW V \in Seq(Mine), NEW L \in Seq(Byte), NEW e, e.agreed \subseteq Channels,
         NEW x, NEW n, NEW m \in Nat, NEW j \in Nat, Turned(x, n, L, V, e, m, j)
  PROVE  Turned(Take(x), n, L, V, e, m, j + 1)
<1> DEFINE s == x.s
           rest == x.rest
           d == Hunt(x.s.dec, x.rest)
           t == [s EXCEPT !.dec = d.dec]
           u == IF d.frame = <<>> THEN t ELSE ProcessFrame(t, d.frame)
           y == Take(x)
<1>1. HostInv(s, n) /\ HostInv(y.s, n) /\ s.out \in Seq(Mine) /\ Kept(s, e)
  BY TakeKeeps DEF Turned
<1>2. DOMAIN s = Fields /\ s.chan \in [Channels -> ChannelStates] /\ s.count \in Nat
      /\ s.up \in BOOLEAN
  BY <1>1, Typed
<1>3. CASE rest = <<>> \/ s.fault # {}
  <2>1. y = x
    BY <1>3 DEF Take
  <2>2. QED
    BY <1>3, <2>1 DEF Turned
<1>4. CASE rest # <<>> /\ s.fault = {}
  <2>1. y = [s |-> u, rest |-> d.rest]
    BY <1>4 DEF Take
  <2>2. y.s = u /\ y.rest = d.rest
    BY <2>1
  <2>3. rest \in Seq(Byte) /\ ToDo(s.dec, rest) + j <= m
    BY <1>4 DEF Turned
  <2>4. PICK q : Aligned(s.dec, Cat(rest, L), q) /\ Running(s, q, V, e)
    BY <1>4 DEF Turned
  <2>5. Onward(d, s.dec, rest, L, q)
    BY <1>4, <2>3, <2>4, HuntOn
  <2> DEFINE dec == d.dec
             more == d.rest
  <2>6. more \in Seq(Byte) /\ ToDo(dec, more) < ToDo(s.dec, rest)
    BY <2>5 DEF Onward
  <2>7. ToDo(dec, more) + (j + 1) <= m
    <3>1. ToDo(dec, more) \in Int /\ ToDo(s.dec, rest) \in Int
      BY <2>3, <2>6, ToDoType
    <3>2. QED
      BY <2>3, <2>6, <3>1
  <2>8. t = [s EXCEPT !.dec = dec]
    OBVIOUS
  <2> HIDE DEF y, s, rest, dec, more, t
  <2>9. DOMAIN t = Fields /\ t.dec = dec /\ \A f \in Fields \ {"dec"} : t[f] = s[f]
    BY <1>2, <2>8 DEF Fields
  <2>10. /\ t.open = s.open /\ t.chan = s.chan /\ t.count = s.count /\ t.up = s.up
         /\ t.got = s.got /\ t.whole = s.whole /\ t.acted = s.acted /\ t.out = s.out
         /\ t.fault = s.fault
         /\ \A f \in Held : t[f] = s[f]
    BY <2>9 DEF Fields, Held
  <2>11. HostInv(t, n)
    <3>1. t.chan \in [Channels -> ChannelStates] /\ t.count \in Nat /\ t.up \in BOOLEAN
      BY <1>2, <2>10
    <3>2. QED
      BY <1>1, <2>9, <2>10, <3>1, HeldKeeps
  <2>12. Running(t, q, V, e)
    <3>1. Flow(s, q, Cat(V, s.out), e)
      BY <2>4 DEF Running
    <3>2. t.acted \subseteq e.said
      BY <2>10, <3>1 DEF Flow, Said
    <3>3. Flow(t, q, Cat(V, s.out), e)
      BY <2>10, <3>1, <3>2, FlowSame
    <3>4. QED
      BY <2>4, <2>10, <3>3 DEF Running
  <2>13. CASE d.frame = <<>> /\ Aligned(dec, Cat(more, L), q)
    <3>1. y.s = t /\ y.rest = more
      BY <2>2, <2>13 DEF more
    <3>2. t.out \in Seq(Mine) /\ Kept(t, e)
      BY <1>1, <2>10 DEF Kept
    <3>3. \E r : Aligned(t.dec, Cat(more, L), r) /\ Running(t, r, V, e)
      BY <2>9, <2>12, <2>13
    <3>4. ToDo(t.dec, more) + (j + 1) <= m
      BY <2>7, <2>9
    <3>5. Turned(y, n, L, V, e, m, j + 1)
      BY <2>6, <2>11, <3>1, <3>2, <3>3, <3>4 DEF Turned
    <3>6. QED
      BY <3>5 DEF y
  <2>14. CASE q # <<>> /\ d.frame = Head(q) /\ Aligned(dec, Cat(more, L), Tail(q))
    <3>1. d.frame # <<>>
      <4>1. q \in Seq(Shapes)
        BY <2>4 DEF Aligned
      <4>2. Head(q) \in Shapes
        BY <2>14, <4>1, Rest
      <4>3. 6 <= Len(Head(q)) /\ Len(<<>>) = 0
        BY <4>2, ShapeFacts
      <4>4. Head(q) # <<>>
        BY <4>3
      <4>5. QED
        BY <2>14, <4>4
    <3> DEFINE w == ProcessFrame(t, Head(q))
    <3>2. y.s = w /\ y.rest = more
      BY <2>2, <2>14, <3>1 DEF more
    <3>3. Becomes(w, Tail(q), V, e) /\ w.dec = t.dec
      <4>1. t.fault = {}
        BY <1>4, <2>10
      <4>2. QED
        BY <2>11, <2>12, <2>14, <4>1, FrameRuns
    <3> HIDE DEF w
    <3>4. w.out \in Seq(Mine) /\ Kept(w, e) /\ (w.fault = {} => Running(w, Tail(q), V, e))
      BY <3>3 DEF Becomes
    <3>5. Aligned(w.dec, Cat(more, L), Tail(q))
      BY <2>9, <2>14, <3>3
    <3>6. ToDo(w.dec, more) + (j + 1) <= m
      BY <2>7, <2>9, <3>3
    <3>7. HostInv(w, n)
      BY <1>1, <3>2
    <3>8. Turned(y, n, L, V, e, m, j + 1)
      BY <2>6, <3>2, <3>4, <3>5, <3>6, <3>7 DEF Turned
    <3>9. QED
      BY <3>8 DEF y
  <2>15. QED
    BY <2>5, <2>13, <2>14 DEF Onward, dec, more
<1>5. QED
  BY <1>3, <1>4

\* So after twice as many steps as there are bytes nothing is left of a read.
LEMMA TurnsKeep ==
  ASSUME NEW V \in Seq(Mine), NEW L \in Seq(Byte), NEW e, e.agreed \subseteq Channels,
         NEW n, NEW m \in Nat, NEW g, NEW start, Steps(g, m, start),
         Turned(start, n, L, V, e, m, 0)
  PROVE  Turned(g[m], n, L, V, e, m, m)
<1> DEFINE U == {k \in Nat : k <= m => Turned(g[k], n, L, V, e, m, k)}
<1>1. g[0] = start /\ \A i \in 1..m : g[i] = Take(g[i - 1])
  BY DEF Steps
<1>2. 0 \in U
  BY <1>1
<1>3. ASSUME NEW k \in Nat, k <= m => Turned(g[k], n, L, V, e, m, k), k + 1 <= m
      PROVE  Turned(g[k + 1], n, L, V, e, m, k + 1)
  <2>1. k + 1 \in 1..m /\ (k + 1) - 1 = k /\ k <= m
    BY <1>3
  <2>2. g[k + 1] = Take(g[k])
    BY <1>1, <2>1
  <2>3. Turned(Take(g[k]), n, L, V, e, m, k + 1)
    BY <1>3, <2>1, TakeTurn
  <2>4. QED
    BY <2>2, <2>3
<1>4. \A k \in Nat : k \in U => k + 1 \in U
  BY <1>3
<1>5. Nat \subseteq U
  <2> HIDE DEF U
  <2>1. QED
    BY <1>2, <1>4, SetInduction
<1>6. QED
  BY <1>5

\* Bytes that are read in step leave the session in step.
LEMMA ReceiveRuns ==
  ASSUME NEW V \in Seq(Mine), NEW L \in Seq(Byte), NEW e, e.agreed \subseteq Channels,
         NEW s, NEW n, HostInv(s, n), s.fault = {}, NEW bs \in Seq(Byte),
         NEW q, Aligned(s.dec, Cat(bs, L), q), Running(s, q, V, e),
         NEW t, t = Receive(s, bs)
  PROVE  /\ HostInv(t, n) /\ Kept(t, e) /\ t.out \in Seq(Mine)
         /\ t.fault = {} => \E r : Aligned(t.dec, L, r) /\ Running(t, r, V, e)
<1> DEFINE m == 2 * Len(bs)
           start == [s |-> s, rest |-> bs]
<1>1. m \in Nat /\ Len(bs) \in Nat
  BY LenProperties
<1>2. start.s = s /\ start.rest = bs
  OBVIOUS
<1>3. PICK g : Steps(g, m, start) /\ t = g[m].s
  BY <1>1, ReceiveTurns
<1>4. ToDo(s.dec, bs) + 0 <= m
  <2>1. PICK k \in Nat : k = Len(bs)
    BY <1>1
  <2>2. QED
    BY <2>1 DEF ToDo
<1> HIDE DEF m, start
<1>5. Kept(s, e) /\ s.out \in Seq(Mine)
  <2>1. Flow(s, q, Cat(V, s.out), e) /\ s.out \in Seq(Mine)
    BY DEF Running
  <2>2. "null" \notin s.fault
    OBVIOUS
  <2>3. QED
    BY <2>1, <2>2, FlowKept
<1>6. Turned(start, n, L, V, e, m, 0)
  BY <1>2, <1>4, <1>5 DEF Turned
<1>7. Turned(g[m], n, L, V, e, m, m)
  BY <1>1, <1>3, <1>6, TurnsKeep
<1>8. HostInv(t, n) /\ Kept(t, e) /\ t.out \in Seq(Mine)
  BY <1>3, <1>7 DEF Turned
<1>9. ASSUME t.fault = {} PROVE \E r : Aligned(t.dec, L, r) /\ Running(t, r, V, e)
  <2> DEFINE rest == g[m].rest
  <2>1. /\ rest \in Seq(Byte)
        /\ rest = <<>> \/ ToDo(t.dec, rest) + m <= m
    BY <1>3, <1>7, <1>9 DEF Turned
  <2>2. PICK r : Aligned(t.dec, Cat(rest, L), r) /\ Running(t, r, V, e)
    BY <1>3, <1>7, <1>9 DEF Turned
  <2> HIDE DEF rest
  <2>3. rest = <<>>
    <3>1. ToDo(t.dec, rest) \in Int /\ (rest # <<>> => ToDo(t.dec, rest) >= 1)
      BY <2>1, ToDoType
    <3>2. QED
      BY <1>1, <2>1, <3>1
  <2>4. Cat(rest, L) = L
    BY <2>3, CatProperties
  <2>5. QED
    BY <2>2, <2>4
<1>10. QED
  BY <1>8, <1>9

-----------------------------------------------------------------------------
(* One more frame on the line *)

\* A frame that is added comes last.
LEMMA AppendTail ==
  ASSUME NEW S, NEW q \in Seq(S), q # <<>>, NEW w \in S
  PROVE  Append(q, w) # <<>> /\ Head(Append(q, w)) = Head(q)
         /\ Tail(Append(q, w)) = Append(Tail(q), w)
<1> DEFINE u == Append(q, w)
           r == Tail(q)
<1>1. PICK m \in Nat : m = Len(q) /\ 1 <= m
  BY AfterOne
<1>2. u \in Seq(S) /\ Len(u) = m + 1 /\ (\A i \in 1..m : u[i] = q[i]) /\ u[m + 1] = w
  BY <1>1, AppendProperties
<1>3. /\ r \in Seq(S) /\ Len(r) = m - 1 /\ Head(q) = q[1]
      /\ \A i \in 1..(m - 1) : r[i] = q[1 + i]
  BY <1>1, AfterOne, CutFacts
<1> HIDE DEF u, r
<1>4. u # <<>>
  BY <1>1, <1>2
<1>5. Head(u) = u[1] /\ Tail(u) \in Seq(S) /\ Len(Tail(u)) = m /\ Tail(u) = After(u, 1)
  BY <1>1, <1>2, <1>4, AfterOne
<1>6. \A i \in 1..m : Tail(u)[i] = u[1 + i]
  <2>1. 1 \in Nat /\ 1 <= Len(u)
    BY <1>1, <1>2
  <2>2. \A i \in 1..(Len(u) - 1) : After(u, 1)[i] = u[1 + i]
    BY <1>2, <2>1, CutFacts
  <2>3. Len(u) - 1 = m
    BY <1>1, <1>2
  <2>4. QED
    BY <1>5, <2>2, <2>3
<1>7. /\ Append(r, w) \in Seq(S) /\ Len(Append(r, w)) = m
      /\ \A i \in 1..(m - 1) : Append(r, w)[i] = r[i]
      /\ Append(r, w)[m] = w
  <2>1. (m - 1) + 1 = m /\ m - 1 \in Nat
    BY <1>1
  <2>2. QED
    BY <1>3, <2>1, AppendProperties
<1>8. \A i \in 1..m : Tail(u)[i] = Append(r, w)[i]
  <2>1. TAKE i \in 1..m
  <2>2. Tail(u)[i] = u[1 + i]
    BY <1>6
  <2>3. CASE i = m
    <3>1. 1 + i = m + 1
      BY <1>1, <2>3
    <3>2. QED
      BY <1>2, <1>7, <2>2, <2>3, <3>1
  <2>4. CASE i # m
    <3>1. i \in 1..(m - 1) /\ 1 + i \in 1..m
      BY <1>1, <2>4
    <3>2. QED
      BY <1>2, <1>3, <1>7, <2>2, <3>1
  <2>5. QED
    BY <2>3, <2>4
<1>9. Tail(u) = Append(r, w)
  BY <1>5, <1>7, <1>8, SeqEqual
<1>10. u[1] = q[1]
  <2>1. 1 \in 1..m
    BY <1>1
  <2>2. QED
    BY <1>2, <2>1
<1>11. QED
  BY <1>3, <1>4, <1>5, <1>9, <1>10 DEF u, r

\* Its bytes come last.
LEMMA FlatLonger ==
  ASSUME NEW q \in Seq(Shapes), NEW w \in Shapes
  PROVE  FlattenSeq(Append(q, w)) = Cat(FlattenSeq(q), w)
<1>1. Shapes \subseteq Seq(Byte)
  BY DEF Shapes
<1>2. q \in Seq(Seq(Byte)) /\ w \in Seq(Byte)
  BY <1>1
<1>3. QED
  BY <1>2, FlatAppend DEF Cat

\* The modem's next frame is no matter of where the decoder is.
LEMMA AlignedMore ==
  ASSUME NEW d, NEW L, NEW q, Aligned(d, L, q), NEW w \in Shapes
  PROVE  Aligned(d, Cat(L, w), Append(q, w))
<1> DEFINE u == Append(q, w)
           one == <<Flag>>
           F == FlattenSeq(q)
<1>1. IsDecoder(d) /\ L \in Seq(Byte) /\ q \in Seq(Shapes) /\ w \in Seq(Byte)
  BY ShapeFacts DEF Aligned
<1>2. u \in Seq(Shapes) /\ FlattenSeq(u) = Cat(F, w) /\ F \in Seq(Byte) /\ u # <<>>
  <2>1. u \in Seq(Shapes) /\ u # <<>>
    BY <1>1
  <2>2. QED
    BY <1>1, <2>1, FlatLonger, FramesBytes
<1>3. Cat(L, w) \in Seq(Byte)
  BY <1>1, CatProperties
<1>4. one \in Seq(Byte)
  BY DEF Flag, Byte
<1>5. \/ d.at \in {"FLAG", "ADDR"} /\ L = F
      \/ d.at = "FLAG" /\ L = Cat(one, F)
      \/ /\ q # <<>>
         /\ \E k \in Nat : /\ Inside(d, Head(q), k)
                           /\ L = Cat(After(Head(q), k), FlattenSeq(Tail(q)))
  BY DEF Aligned
<1> HIDE DEF u, one, F
<1>6. CASE d.at \in {"FLAG", "ADDR"} /\ L = F
  BY <1>1, <1>2, <1>3, <1>6 DEF Aligned, u
<1>7. CASE d.at = "FLAG" /\ L = Cat(one, F)
  <2>1. Cat(L, w) = Cat(one, FlattenSeq(u))
    BY <1>1, <1>2, <1>4, <1>7, CatAssociative
  <2>2. QED
    BY <1>1, <1>2, <1>3, <1>7, <2>1 DEF Aligned, u, one
<1>8. CASE /\ q # <<>>
           /\ \E k \in Nat : /\ Inside(d, Head(q), k)
                             /\ L = Cat(After(Head(q), k), FlattenSeq(Tail(q)))
  <2>1. PICK k \in Nat : Inside(d, Head(q), k) /\ L = Cat(After(Head(q), k), FlattenSeq(Tail(q)))
    BY <1>8
  <2> DEFINE a == After(Head(q), k)
             G == FlattenSeq(Tail(q))
  <2>2. Head(q) \in Shapes /\ Tail(q) \in Seq(Shapes)
    BY <1>1, <1>8, FramesBytes
  <2>3. G \in Seq(Byte) /\ FlattenSeq(Append(Tail(q), w)) = Cat(G, w)
    BY <2>2, FramesBytes, FlatLonger
  <2>4. a \in Seq(Byte)
    <3>1. PICK m \in Nat : m = Len(Head(q)) /\ k \in 1..(m - 2) /\ Head(q) \in Seq(Byte)
      BY <2>1, <2>2, ShapeFacts DEF Inside
    <3>2. k <= Len(Head(q))
      BY <3>1
    <3>3. QED
      BY <3>1, <3>2, CutFacts
  <2>5. Head(u) = Head(q) /\ Tail(u) = Append(Tail(q), w)
    BY <1>1, <1>8, AppendTail DEF u
  <2>6. L = Cat(a, G)
    BY <2>1
  <2> HIDE DEF a, G
  <2>7. Cat(L, w) = Cat(a, Cat(G, w))
    BY <1>1, <2>3, <2>4, <2>6, CatAssociative
  <2>8. Cat(L, w) = Cat(After(Head(u), k), FlattenSeq(Tail(u)))
    BY <2>3, <2>5, <2>7 DEF a
  <2>9. QED
    BY <1>1, <1>2, <1>3, <2>1, <2>5, <2>8 DEF Aligned, u
<1>9. QED
  BY <1>5, <1>6, <1>7, <1>8

-----------------------------------------------------------------------------
(* What the modem says: from e and the line L to f and M *)

\* The modem sends w, which means that command if it is good; the line grows from L
\* to M, and what the modem knows from e to f.
Utters(e, f, L, M, w, c, type, pf, data, why) ==
  /\ w \in Shapes /\ M = Cat(L, w)
  /\ Parse(w).good => /\ Kind(w) = <<c, type, pf>> /\ Kind(w) \in f.said
                      /\ Parse(w).data = data
  /\ e.said \subseteq f.said /\ (e.odd \cup why) \subseteq f.odd
  /\ f.sent \in [Channels -> Seq(Seq(Byte))]
  /\ \A k \in Channels \ {0} : f.sent[k] = Cat(e.sent[k], Part(w, k))

\* One more payload.
LEMMA AppendPart ==
  ASSUME NEW g \in Seq(Seq(Byte)), NEW d \in Seq(Byte)
  PROVE  Append(g, d) = Cat(g, <<d>>) /\ Append(g, d) \in Seq(Seq(Byte)) /\ Cat(g, <<>>) = g
<1>1. <<>> \in Seq(Seq(Byte))
  OBVIOUS
<1>2. g \o Append(<<>>, d) = (g \o <<>>) \o <<d>>
  BY <1>1, AppendConcat
<1>3. g \o Append(<<>>, d) = Append(g \o <<>>, d)
  BY <1>1, AppendConcat
<1>4. Cat(g, <<>>) = g
  BY <1>1, CatProperties
<1>5. QED
  BY <1>2, <1>3, <1>4 DEF Cat

\* A sound frame, and one with a bit of its address, control or check sequence wrong.
Unharmed(e, f, L, M, c, type, pf, data) ==
  /\ M = L \o Encode(c, type, pf, data)
  /\ f.said = e.said \cup {<<c, type, pf>>}
  /\ f.sent = IF type = UIH /\ c # 0
                THEN [e.sent EXCEPT ![c] = Append(e.sent[c], data)] ELSE e.sent

\* And one with a bit wrong.
Harmed(e, f, L, M, c, type, pf, data) ==
  /\ f.said = e.said /\ f.sent = e.sent
  /\ \E i \in {2, 3, Len(Encode(c, type, pf, data)) - 1}, b \in OneBit :
       M = L \o [Encode(c, type, pf, data) EXCEPT ![i] = ByteXor(Encode(c, type, pf, data)[i], b)]

\* Either is a frame for the decoder, and counts as said if and only if it is good.
LEMMA Uttered ==
  ASSUME NEW e, NEW f, NEW L, NEW M, NEW c \in Channels, NEW type \in Types \ {UI},
         NEW pf \in {0, Poll}, NEW data \in Seq(Byte), Fits(data), NEW why,
         e.sent \in [Channels -> Seq(Seq(Byte))], (e.odd \cup why) \subseteq f.odd,
         Unharmed(e, f, L, M, c, type, pf, data) \/ Harmed(e, f, L, M, c, type, pf, data)
  PROVE  \E w : Utters(e, f, L, M, w, c, type, pf, data, why)
<1> DEFINE frame == Encode(c, type, pf, data)
<1>1. /\ frame \in Mine /\ Parse(frame).good /\ Kind(frame) = <<c, type, pf>>
      /\ Parse(frame).data = data /\ frame[2] < 32
  BY Sent
<1>2. frame \in Shapes
  BY <1>1 DEF Mine
<1>3. \A k \in Channels : e.sent[k] \in Seq(Seq(Byte))
  OBVIOUS
<1> HIDE DEF frame
<1>4. CASE /\ M = L \o frame
           /\ f.said = e.said \cup {<<c, type, pf>>}
           /\ f.sent = IF type = UIH /\ c # 0
                         THEN [e.sent EXCEPT ![c] = Append(e.sent[c], data)] ELSE e.sent
  <2>1. Parse(frame).channel = c /\ Parse(frame).type = type
    BY <1>1 DEF Kind
  <2>2. CASE type = UIH /\ c # 0
    <3>1. f.sent = [e.sent EXCEPT ![c] = Append(e.sent[c], data)]
      BY <1>4, <2>2
    <3>2. Part(frame, c) = <<data>> /\ \A k \in Channels \ {c} : Part(frame, k) = <<>>
      BY <1>1, <2>1, <2>2 DEF Part
    <3>3. Append(e.sent[c], data) = Cat(e.sent[c], Part(frame, c))
          /\ Append(e.sent[c], data) \in Seq(Seq(Byte))
      BY <1>3, <3>2, AppendPart
    <3>4. f.sent \in [Channels -> Seq(Seq(Byte))]
      BY <3>1, <3>3
    <3>5. f.sent[c] = Cat(e.sent[c], Part(frame, c))
      BY <3>1, <3>3
    <3>6. \A k \in Channels \ {c} : f.sent[k] = Cat(e.sent[k], Part(frame, k))
      <4>1. TAKE k \in Channels \ {c}
      <4>2. f.sent[k] = e.sent[k]
        BY <3>1
      <4>3. Cat(e.sent[k], <<>>) = e.sent[k]
        BY <1>3, AppendPart
      <4>4. QED
        BY <3>2, <4>2, <4>3
    <3>7. \A k \in Channels \ {0} : f.sent[k] = Cat(e.sent[k], Part(frame, k))
      BY <3>5, <3>6
    <3>8. Utters(e, f, L, M, frame, c, type, pf, data, why)
      BY <1>1, <1>2, <1>4, <3>4, <3>7 DEF Utters, Cat
    <3>9. QED
      BY <3>8
  <2>3. CASE ~(type = UIH /\ c # 0)
    <3>1. f.sent = e.sent
      BY <1>4, <2>3
    <3>2. \A k \in Channels \ {0} : Part(frame, k) = <<>>
      BY <2>1, <2>3 DEF Part
    <3>3. \A k \in Channels \ {0} : f.sent[k] = Cat(e.sent[k], Part(frame, k))
      <4>1. TAKE k \in Channels \ {0}
      <4>2. Cat(e.sent[k], <<>>) = e.sent[k]
        BY <1>3, AppendPart
      <4>3. QED
        BY <3>1, <3>2, <4>2
    <3>4. Utters(e, f, L, M, frame, c, type, pf, data, why)
      BY <1>1, <1>2, <1>4, <3>1, <3>3 DEF Utters, Cat
    <3>5. QED
      BY <3>4
  <2>4. QED
    BY <2>2, <2>3
<1>5. CASE /\ f.said = e.said /\ f.sent = e.sent
           /\ \E i \in {2, 3, Len(frame) - 1}, b \in OneBit :
                M = L \o [frame EXCEPT ![i] = ByteXor(frame[i], b)]
  <2>1. PICK i \in {2, 3, Len(frame) - 1}, b \in OneBit :
          M = L \o [frame EXCEPT ![i] = ByteXor(frame[i], b)]
    BY <1>5
  <2> DEFINE w == [frame EXCEPT ![i] = ByteXor(frame[i], b)]
  <2>2. w \in Shapes /\ ~Parse(w).good
    BY <1>1, <1>2, Damaged
  <2>3. M = L \o w
    BY <2>1
  <2> HIDE DEF w
  <2>4. \A k \in Channels \ {0} : Part(w, k) = <<>>
    BY <2>2 DEF Part
  <2>5. \A k \in Channels \ {0} : f.sent[k] = Cat(e.sent[k], Part(w, k))
    <3>1. TAKE k \in Channels \ {0}
    <3>2. Cat(e.sent[k], <<>>) = e.sent[k]
      BY <1>3, AppendPart
    <3>3. QED
      BY <1>5, <2>4, <3>2
  <2>6. Utters(e, f, L, M, w, c, type, pf, data, why)
    BY <1>5, <2>2, <2>3, <2>5 DEF Utters, Cat
  <2>7. QED
    BY <2>6
<1>6. QED
  BY <1>4, <1>5 DEF frame, Unharmed, Harmed

-----------------------------------------------------------------------------
(* What the modem does to the session *)

\* The frames of V are frames of U.
Of(V, U) == \A i \in 1..Len(V) : \E j \in 1..Len(U) : V[i] = U[j]

\* The frames not completed, with w; in AT mode they do not count.
Longer(s, q, w, r) == r = Append(q, w) \/ (r = q /\ ~s.open /\ ~s.whole)

\* The frames with one more.
LEMMA AppendEach ==
  ASSUME NEW q \in Seq(Shapes), NEW w \in Shapes
  PROVE  /\ Append(q, w) \in Seq(Shapes) /\ Len(Append(q, w)) = Len(q) + 1 /\ Len(q) \in Nat
         /\ \A i \in 1..Len(Append(q, w)) : \/ i \in 1..Len(q) /\ Append(q, w)[i] = q[i]
                                            \/ i = Len(q) + 1 /\ Append(q, w)[i] = w
<1>1. PICK m \in Nat : m = Len(q)
  BY LenProperties
<1>2. /\ Append(q, w) \in Seq(Shapes) /\ Len(Append(q, w)) = m + 1
      /\ (\A i \in 1..m : Append(q, w)[i] = q[i]) /\ Append(q, w)[m + 1] = w
  BY <1>1, AppendProperties
<1>3. \A i \in 1..(m + 1) : i \in 1..m \/ i = m + 1
  BY <1>1
<1>4. QED
  BY <1>1, <1>2, <1>3

\* The frames without the first.
LEMMA RestOf ==
  ASSUME NEW U \in Seq(Mine), U # <<>>
  PROVE  /\ Tail(U) \in Seq(Mine) /\ Of(Tail(U), U) /\ Head(U) = U[1] /\ Head(U) \in Mine
         /\ \A i \in 1..Len(Tail(U)) : i + 1 \in 1..Len(U) /\ Tail(U)[i] = U[i + 1] /\ i + 1 # 1
         /\ 1 \in 1..Len(U)
<1>1. Mine \subseteq Shapes
  BY DEF Mine
<1>2. U \in Seq(Shapes)
  BY <1>1
<1>3. \A i \in 1..Len(Tail(U)) : i + 1 \in 1..Len(U) /\ Tail(U)[i] = U[i + 1] /\ i + 1 # 1
  BY <1>2, Rest
<1>4. Head(U) = U[1] /\ 1 \in 1..Len(U)
  BY <1>2, Rest
<1>5. Tail(U) \in Seq(Mine) /\ Head(U) \in Mine
  BY AfterOne
<1>6. Of(Tail(U), U)
  BY <1>3 DEF Of
<1>7. QED
  BY <1>3, <1>4, <1>5, <1>6

\* One more frame on its way keeps each part of the flow: what is good was said,
LEMMA SaidMore ==
  ASSUME NEW s, NEW q \in Seq(Shapes), NEW e, Said(s, q, e), NEW f, NEW w \in Shapes,
         e.said \subseteq f.said, Parse(w).good => Kind(w) \in f.said,
         NEW r, Longer(s, q, w, r)
  PROVE  Said(s, r, f)
<1>1. s.acted \subseteq f.said /\ \A i \in 1..Len(q) : Parse(q[i]).good => Kind(q[i]) \in f.said
  BY DEF Said
<1>2. \A i \in 1..Len(r) : Parse(r[i]).good => Kind(r[i]) \in f.said
  BY <1>1, AppendEach DEF Longer
<1>3. QED
  BY <1>1, <1>2 DEF Said

\* its payload is on its way,
LEMMA DataMore ==
  ASSUME NEW s, NEW q \in Seq(Shapes), NEW e, Data(s, q, e), NEW f, NEW w \in Shapes,
         \A k \in Channels \ {0} : f.sent[k] = Cat(e.sent[k], Part(w, k)),
         NEW r, Longer(s, q, w, r)
  PROVE  Data(s, r, f)
<1> SUFFICES ASSUME s.whole
             PROVE  s.got \in GotType
                    /\ \A k \in Channels \ {0} : Cat(s.got[k], DataOf(r, k)) = f.sent[k]
  BY DEF Data, GotType
<1>1. r = Append(q, w) /\ s.got \in GotType
  BY DEF Longer, Data, GotType
<1>2. ASSUME NEW k \in Channels \ {0}
      PROVE  Cat(s.got[k], DataOf(Append(q, w), k)) = f.sent[k]
  <2> DEFINE g == s.got[k]
             p == Part(w, k)
             d == DataOf(q, k)
  <2>1. g \in Seq(Seq(Byte))
    BY <1>1 DEF GotType
  <2>2. p \in Seq(Seq(Byte))
    BY PartType
  <2>3. d \in Seq(Seq(Byte)) /\ DataOf(Append(q, w), k) = Cat(d, p)
    BY DataOfFacts
  <2>4. Cat(g, d) = e.sent[k] /\ f.sent[k] = Cat(e.sent[k], p)
    BY DEF Data
  <2> HIDE DEF g, p, d
  <2>5. Cat(Cat(g, d), p) = Cat(g, Cat(d, p))
    BY <2>1, <2>2, <2>3, CatAssociative
  <2>6. QED
    BY <2>3, <2>4, <2>5 DEF g
<1>3. QED
  BY <1>1, <1>2

\* an acknowledgement is of a channel that was agreed on,
LEMMA AnswersMore ==
  ASSUME NEW s, NEW q \in Seq(Shapes), NEW U, NEW e, Answers(s, q, U, e),
         NEW f, e.agreed \subseteq f.agreed, NEW w \in Shapes,
         s.open /\ Parse(w).good /\ Parse(w).type = UA => Parse(w).channel \in f.agreed,
         NEW V, Of(V, U), NEW r, Longer(s, q, w, r)
  PROVE  Answers(s, r, V, f)
<1> SUFFICES ASSUME s.open
             PROVE  /\ \A i \in 1..Len(V) : Parse(V[i]).type # DISC
                    /\ \A i \in 1..Len(r) : Parse(r[i]).good /\ Parse(r[i]).type = UA
                                              => Parse(r[i]).channel \in f.agreed
  BY DEF Answers
<1>1. /\ \A i \in 1..Len(U) : Parse(U[i]).type # DISC
      /\ \A i \in 1..Len(q) : Parse(q[i]).good /\ Parse(q[i]).type = UA
                                => Parse(q[i]).channel \in f.agreed
  BY DEF Answers
<1>2. \A i \in 1..Len(V) : Parse(V[i]).type # DISC
  BY <1>1 DEF Of
<1>3. r = Append(q, w)
  BY DEF Longer
<1>4. \A i \in 1..Len(r) : Parse(r[i]).good /\ Parse(r[i]).type = UA
                             => Parse(r[i]).channel \in f.agreed
  BY <1>1, <1>3, AppendEach
<1>5. QED
  BY <1>2, <1>4

\* and what was counted stays so.
LEMMA CountedMore ==
  ASSUME NEW s, NEW e, Counted(s, e), NEW f, e.agreed \subseteq f.agreed,
         f.agreed \subseteq Channels
  PROVE  Counted(s, f)
<1>1. PICK C \in SUBSET e.agreed : s.count = Cardinality(C) /\ \A c \in C : s.chan[c] # Waiting
  BY DEF Counted
<1>2. C \in SUBSET f.agreed
  OBVIOUS
<1>3. s.up => f.agreed = Channels
  BY DEF Counted
<1>4. QED
  BY <1>1, <1>2, <1>3 DEF Counted

\* All of them.
LEMMA FlowMore ==
  ASSUME NEW s, NEW q, NEW U, NEW e, Flow(s, q, U, e),
         NEW f, NEW L, NEW M, NEW w, NEW c, NEW type, NEW pf, NEW data, NEW why,
         Utters(e, f, L, M, w, c, type, pf, data, why),
         e.agreed \subseteq f.agreed, f.agreed \subseteq Channels,
         s.open /\ Parse(w).good /\ Parse(w).type = UA /\ Answers(s, q, U, e)
           => Parse(w).channel \in f.agreed,
         NEW V \in Seq(Mine), Of(V, U), NEW r, Longer(s, q, w, r),
         Plain(f, {"stale", "late"}) => Ending(s, r, V, f)
  PROVE  Flow(s, r, V, f)
<1>1. /\ w \in Shapes /\ (Parse(w).good => Kind(w) \in f.said)
      /\ e.said \subseteq f.said /\ e.odd \subseteq f.odd
      /\ \A k \in Channels \ {0} : f.sent[k] = Cat(e.sent[k], Part(w, k))
  BY DEF Utters
<1>2. q \in Seq(Shapes) /\ Said(s, q, e) /\ Data(s, q, e)
  BY DEF Flow
<1>3. r \in Seq(Shapes)
  BY <1>1, <1>2, AppendEach DEF Longer
<1>4. Said(s, r, f)
  BY <1>1, <1>2, SaidMore
<1>5. Data(s, r, f)
  BY <1>1, <1>2, DataMore
<1>6. ASSUME Plain(f, {"stale"}) PROVE Answers(s, r, V, f)
  <2>1. Answers(s, q, U, e)
    BY <1>1, <1>6 DEF Flow, Plain
  <2>2. s.open /\ Parse(w).good /\ Parse(w).type = UA => Parse(w).channel \in f.agreed
    BY <2>1
  <2>3. QED
    BY <1>1, <1>2, <2>1, <2>2, AnswersMore
<1>7. ASSUME Plain(f, {"stale", "count"}) PROVE Counted(s, f)
  <2>1. Counted(s, e)
    BY <1>1, <1>7 DEF Flow, Plain
  <2>2. QED
    BY <2>1, CountedMore
<1>8. QED
  BY <1>3, <1>4, <1>5, <1>6, <1>7 DEF Flow

-----------------------------------------------------------------------------
(* The end of a session *)

\* A session that is over stays so when a request leaves the queue.
LEMMA OverOf ==
  ASSUME NEW U, NEW e, Over(U, e), NEW V, Of(V, U), NEW f, 0 \notin f.on
  PROVE  Over(V, f)
  BY DEF Over, Of

\* The disconnect request is the first of the queue, or one of the rest.
LEMMA LeavesSplit ==
  ASSUME NEW U \in Seq(Mine), U # <<>>, Leaves(U)
  PROVE  \/ Leaves(Tail(U))
         \/ IsA(U[1], DISC, 0) /\ \A j \in 1..Len(U) : ~IsA(U[j], SABM, 0)
<1>1. PICK m \in Nat : m = Len(U) /\ Len(Tail(U)) = m - 1
  BY AfterOne
<1>2. PICK i \in 1..m : IsA(U[i], DISC, 0) /\ \A j \in i..m : ~IsA(U[j], SABM, 0)
  BY <1>1 DEF Leaves
<1>3. \A j \in 1..(m - 1) : Tail(U)[j] = U[j + 1]
  BY <1>1, RestOf
<1>4. CASE i = 1
  BY <1>1, <1>2, <1>4
<1>5. CASE i # 1
  <2>1. PICK k \in 1..(m - 1) : i = k + 1
    <3>1. i - 1 \in 1..(m - 1) /\ i = (i - 1) + 1
      BY <1>5
    <3>2. QED
      BY <3>1
  <2>2. IsA(Tail(U)[k], DISC, 0)
    BY <1>2, <1>3, <2>1
  <2>3. \A j \in k..(m - 1) : ~IsA(Tail(U)[j], SABM, 0)
    <3>1. TAKE j \in k..(m - 1)
    <3>2. j \in 1..(m - 1) /\ j + 1 \in i..m
      BY <2>1
    <3>3. QED
      BY <1>2, <1>3, <3>2
  <2>4. QED
    BY <1>1, <2>1, <2>2, <2>3 DEF Leaves
<1>6. QED
  BY <1>4, <1>5

\* While the modem is in the mux.
LEMMA EndingWhileOn ==
  ASSUME NEW s, NEW q \in Seq(Shapes), NEW U, NEW e, Ending(s, q, U, e), 0 \in e.on,
         NEW V, Of(V, U), Leaves(U) => Leaves(V),
         NEW w \in Shapes, ~(Parse(w).good /\ IsA(w, DM, 0)),
         NEW f, Ends(w) => 0 \notin f.on, NEW r, Longer(s, q, w, r)
  PROVE  Ending(s, r, V, f)
<1>1. ~Over(U, e)
  BY DEF Over
<1>2. CASE ~s.open
  <2>1. Leaves(V)
    BY <1>1, <1>2 DEF Ending
  <2>2. QED
    BY <1>2, <2>1 DEF Ending
<1>3. CASE s.open
  <2>1. Asked(q, U, e) /\ AtEnd(q, U, e) /\ s.chan[0] # "CLOSED"
    BY <1>1, <1>3 DEF Ending
  <2>2. \A i \in 1..Len(V) : ~IsA(V[i], SABM, 0)
    <3>1. e.on # {}
      OBVIOUS
    <3>2. \A i \in 1..Len(U) : ~IsA(U[i], SABM, 0)
      BY <2>1, <3>1 DEF Asked
    <3>3. QED
      BY <3>2 DEF Of
  <2>3. \A i \in 1..Len(q) : ~(Parse(q[i]).good /\ IsA(q[i], DM, 0)) /\ ~Ends(q[i])
    BY <1>1, <2>1 DEF AtEnd
  <2>4. r = Append(q, w)
    BY <1>3 DEF Longer
  <2>5. /\ Len(r) = Len(q) + 1
        /\ \A i \in 1..Len(r) : (i \in 1..Len(q) /\ r[i] = q[i]) \/ (i = Len(q) + 1 /\ r[i] = w)
    BY <2>4, AppendEach
  <2>6. Ends(w) => Over(V, f)
    BY <2>2 DEF Over
  <2>7. ASSUME NEW i \in 1..Len(r)
        PROVE  /\ Parse(r[i]).good /\ IsA(r[i], DM, 0) => Over(V, f)
               /\ Ends(r[i]) => i = Len(r) /\ Over(V, f)
    <3>1. CASE i \in 1..Len(q) /\ r[i] = q[i]
      BY <2>3, <3>1
    <3>2. CASE i = Len(q) + 1 /\ r[i] = w
      BY <2>5, <2>6, <3>2
    <3>3. QED
      BY <2>5, <3>1, <3>2
  <2>8. AtEnd(r, V, f)
    BY <2>7 DEF AtEnd
  <2>9. Asked(r, V, f)
    BY <2>2 DEF Asked
  <2>10. QED
    BY <1>3, <2>1, <2>8, <2>9 DEF Ending
<1>4. QED
  BY <1>2, <1>3

\* The first answer of a session.
LEMMA EndingAsked ==
  ASSUME NEW s, NEW q \in Seq(Shapes), NEW U \in Seq(Mine), U # <<>>, IsA(U[1], SABM, 0),
         NEW e, Ending(s, q, U, e),
         NEW w \in Shapes, ~Ends(w),
         NEW f, Parse(w).good /\ IsA(w, DM, 0) => 0 \notin f.on,
         NEW r, Longer(s, q, w, r)
  PROVE  Ending(s, r, Tail(U), f)
<1>1. ~Over(U, e) /\ 1 \in 1..Len(U)
  BY RestOf DEF Over
<1>2. CASE ~s.open
  <2>1. Leaves(U)
    BY <1>1, <1>2 DEF Ending
  <2>2. ~IsA(U[1], DISC, 0)
    BY DEF IsA, SABM, DISC
  <2>3. Leaves(Tail(U))
    BY <2>1, <2>2, LeavesSplit
  <2>4. QED
    BY <1>2, <2>3 DEF Ending
<1>3. CASE s.open
  <2>1. Asked(q, U, e) /\ s.chan[0] # "CLOSED"
    BY <1>1, <1>3 DEF Ending
  <2>2. q = <<>> /\ \A i \in 1..Len(U) : IsA(U[i], SABM, 0) => i = 1
    BY <1>1, <2>1 DEF Asked
  <2>3. \A i \in 1..Len(Tail(U)) : ~IsA(Tail(U)[i], SABM, 0)
    BY <2>2, RestOf
  <2>4. Parse(w).good /\ IsA(w, DM, 0) => Over(Tail(U), f)
    BY <2>3 DEF Over
  <2>5. \A i \in 1..Len(r) : r[i] = w
    <3>1. 1..Len(<<>>) = {}
      OBVIOUS
    <3>2. r = Append(q, w) /\ 1..Len(q) = {}
      BY <1>3, <2>2, <3>1 DEF Longer
    <3>3. QED
      BY <3>2, AppendEach
  <2>6. AtEnd(r, Tail(U), f)
    BY <2>4, <2>5 DEF AtEnd
  <2>7. Asked(r, Tail(U), f)
    BY <2>3 DEF Asked
  <2>8. QED
    BY <1>3, <2>1, <2>6, <2>7 DEF Ending
<1>4. QED
  BY <1>2, <1>3

\* After this side has closed.
LEMMA EndingLeft ==
  ASSUME NEW s, ~s.open, NEW q, NEW U \in Seq(Mine), U # <<>>, NEW e, Ending(s, q, U, e),
         NEW f, f.on \subseteq e.on, IsA(U[1], DISC, 0) => 0 \notin f.on, NEW r
  PROVE  Ending(s, r, Tail(U), f)
<1>1. Over(U, e) \/ Leaves(U)
  BY DEF Ending
<1>2. Of(Tail(U), U)
  BY RestOf
<1>3. CASE Over(U, e)
  <2>1. 0 \notin f.on
    BY <1>3 DEF Over
  <2>2. Over(Tail(U), f)
    BY <1>2, <1>3, <2>1, OverOf
  <2>3. QED
    BY <2>2 DEF Ending
<1>4. CASE Leaves(Tail(U))
  BY <1>4 DEF Ending
<1>5. CASE IsA(U[1], DISC, 0) /\ \A j \in 1..Len(U) : ~IsA(U[j], SABM, 0)
  <2>1. Over(Tail(U), f)
    BY <1>2, <1>5 DEF Over, Of
  <2>2. QED
    BY <2>1 DEF Ending
<1>6. QED
  BY <1>1, <1>3, <1>4, <1>5, LeavesSplit

\* A frame of this side that the modem does not answer.
LEMMA EndingPassed ==
  ASSUME NEW s, NEW q, NEW U \in Seq(Mine), U # <<>>, ~IsA(U[1], DISC, 0),
         NEW e, Ending(s, q, U, e)
  PROVE  Ending(s, q, Tail(U), e)
<1>1. Over(U, e) => Over(Tail(U), e)
  BY RestOf, OverOf DEF Over
<1>2. CASE ~s.open
  <2>1. Over(U, e) \/ Leaves(U)
    BY <1>2 DEF Ending
  <2>2. Leaves(U) => Leaves(Tail(U))
    BY LeavesSplit
  <2>3. QED
    BY <1>1, <1>2, <2>1, <2>2 DEF Ending
<1>3. CASE s.open
  <2>1. Asked(q, U, e) /\ AtEnd(q, U, e) /\ (s.chan[0] = "CLOSED" => Over(U, e))
    BY <1>3 DEF Ending
  <2>2. Asked(q, Tail(U), e)
    BY <2>1, RestOf DEF Asked
  <2>3. AtEnd(q, Tail(U), e)
    BY <1>1, <2>1 DEF AtEnd
  <2>4. QED
    BY <1>1, <1>3, <2>1, <2>2, <2>3 DEF Ending
<1>4. QED
  BY <1>2, <1>3

-----------------------------------------------------------------------------
(* The modem's steps *)

\* In AT mode the rest of what was read in part is for nobody.
InPlace(s, L, q) ==
  \/ Aligned(s.dec, L, q)
  \/ IsDecoder(s.dec) /\ ~s.open /\ ~s.whole /\ q = <<>>

\* What holds of the process s, the line L, the requests U and the modem e.
Sound(s, L, U, e) ==
  /\ Modem(e) /\ U \in Seq(Mine) /\ Kept(s, e)
  /\ s.fault = {} => \E q : InPlace(s, L, q) /\ Flow(s, q, U, e)

\* The frame w keeps Ending,
Carries(s, U, e, V, f, w) ==
  \A q \in Seq(Shapes) : \A r :
    Plain(f, {"stale", "late"}) /\ Answers(s, q, U, e) /\ Ending(s, q, U, e)
      /\ Longer(s, q, w, r) => Ending(s, r, V, f)

\* and is no acknowledgement of a channel that was not agreed on.
Agrees(s, U, e, f, w) ==
  \A q : s.open /\ Parse(w).good /\ Parse(w).type = UA /\ Answers(s, q, U, e)
           => Parse(w).channel \in f.agreed

\* What is kept stays kept while the modem's histories grow.
LEMMA KeptMore ==
  ASSUME NEW s, NEW e, Kept(s, e), NEW f, e.said \subseteq f.said, e.odd \subseteq f.odd,
         e.agreed \subseteq f.agreed, f.agreed \subseteq Channels
  PROVE  Kept(s, f)
  BY DEF Kept, Plain

\* A frame of the modem keeps it all, if it keeps Ending.
LEMMA SoundMore ==
  ASSUME NEW s, NEW L, NEW U, NEW e, Sound(s, L, U, e),
         NEW f, NEW M, NEW w, NEW c, NEW type, NEW pf, NEW data, NEW why,
         Utters(e, f, L, M, w, c, type, pf, data, why),
         Modem(f), e.agreed \subseteq f.agreed, NEW V \in Seq(Mine), Of(V, U),
         Carries(s, U, e, V, f, w), Agrees(s, U, e, f, w)
  PROVE  Sound(s, M, V, f)
<1>1. w \in Shapes /\ M = Cat(L, w) /\ e.said \subseteq f.said /\ e.odd \subseteq f.odd
  BY DEF Utters
<1>2. f.agreed \subseteq Channels
  BY DEF Modem
<1>3. Kept(s, f)
  BY <1>1, <1>2, KeptMore DEF Sound
<1>4. ASSUME s.fault = {} PROVE \E r : InPlace(s, M, r) /\ Flow(s, r, V, f)
  <2>1. PICK q : InPlace(s, L, q) /\ Flow(s, q, U, e)
    BY <1>4 DEF Sound
  <2>2. q \in Seq(Shapes)
    BY <2>1 DEF Flow
  <2>3. \E r : InPlace(s, M, r) /\ Longer(s, q, w, r)
    <3>1. CASE Aligned(s.dec, L, q)
      <4>1. Aligned(s.dec, M, Append(q, w))
        BY <1>1, <3>1, AlignedMore
      <4>2. QED
        BY <4>1 DEF InPlace, Longer
    <3>2. CASE IsDecoder(s.dec) /\ ~s.open /\ ~s.whole /\ q = <<>>
      <4>1. InPlace(s, M, q) /\ Longer(s, q, w, q)
        BY <3>2 DEF InPlace, Longer
      <4>2. QED
        BY <4>1
    <3>3. QED
      BY <2>1, <3>1, <3>2 DEF InPlace
  <2>4. PICK r : InPlace(s, M, r) /\ Longer(s, q, w, r)
    BY <2>3
  <2>5. ASSUME Plain(f, {"stale", "late"}) PROVE Ending(s, r, V, f)
    <3>1. Plain(e, {"stale", "late"}) /\ Plain(e, {"stale"})
      BY <1>1, <2>5 DEF Plain
    <3>2. Answers(s, q, U, e) /\ Ending(s, q, U, e)
      BY <2>1, <3>1 DEF Flow
    <3>3. QED
      BY <2>2, <2>4, <2>5, <3>2 DEF Carries
  <2>6. s.open /\ Parse(w).good /\ Parse(w).type = UA /\ Answers(s, q, U, e)
          => Parse(w).channel \in f.agreed
    BY DEF Agrees
  <2>7. Flow(s, r, V, f)
    BY <1>2, <2>1, <2>4, <2>5, <2>6, FlowMore
  <2>8. QED
    BY <2>4, <2>7
<1>5. QED
  BY <1>3, <1>4 DEF Sound

\* What a frame says, if it arrives sound.
LEMMA Heeded ==
  ASSUME NEW e, NEW f, NEW L, NEW M, NEW w, NEW c, NEW type, NEW pf, NEW data, NEW why,
         Utters(e, f, L, M, w, c, type, pf, data, why)
  PROVE  /\ w \in Shapes
         /\ Parse(w).good => /\ Parse(w).channel = c /\ Parse(w).type = type /\ Parse(w).pf = pf
                             /\ Parse(w).data = data
  BY DEF Utters, Kind

\* The queue as it was.
LEMMA OfSelf ==
  ASSUME NEW U PROVE Of(U, U)
  BY DEF Of

\* The modem's own frames.
LEMMA SendsSound ==
  ASSUME NEW s, NEW L, NEW U, NEW e, Sound(s, L, U, e),
         NEW f, NEW M, NEW w, NEW c, NEW type, type \notin {UA, DM}, NEW pf, NEW data, NEW why,
         Utters(e, f, L, M, w, c, type, pf, data, why),
         Modem(f), e.agreed = f.agreed,
         \/ "late" \in why
         \/ /\ 0 \in e.on
            /\ \/ c # 0
               \/ 0 \notin f.on
               \/ type = UIH /\ data # <<>> /\ data[1] # CLD
               \/ type = DISC /\ pf = 0
  PROVE  Sound(s, M, U, f)
<1>1. /\ w \in Shapes
      /\ Parse(w).good => /\ Parse(w).channel = c /\ Parse(w).type = type /\ Parse(w).pf = pf
                          /\ Parse(w).data = data
  BY Heeded
<1>2. why \subseteq f.odd
  BY DEF Utters
<1>3. Agrees(s, U, e, f, w)
  BY <1>1 DEF Agrees
<1>4. ~(Parse(w).good /\ IsA(w, DM, 0))
  BY <1>1 DEF IsA
<1>5. Of(U, U)
  BY OfSelf
<1>6. ASSUME "late" \notin why PROVE 0 \in e.on /\ (Ends(w) => 0 \notin f.on)
  <2>1. UIH # DISC /\ UI # DISC
    BY DEF UIH, UI, DISC
  <2>2. QED
    BY <1>1, <1>6, <2>1 DEF Ends
<1>7. ASSUME NEW q \in Seq(Shapes), NEW r, Plain(f, {"stale", "late"}), Ending(s, q, U, e),
             Longer(s, q, w, r)
      PROVE  Ending(s, r, U, f)
  <2>1. "late" \notin why
    BY <1>2, <1>7 DEF Plain
  <2>2. 0 \in e.on /\ (Ends(w) => 0 \notin f.on)
    BY <1>6, <2>1
  <2>3. QED
    BY <1>1, <1>4, <1>5, <1>7, <2>2, EndingWhileOn
<1>8. Carries(s, U, e, U, f, w)
  BY <1>7 DEF Carries
<1>9. U \in Seq(Mine)
  BY DEF Sound
<1>10. QED
  BY <1>3, <1>5, <1>8, <1>9, SoundMore

\* Its answer to a request to establish a channel.
LEMMA EstablishSound ==
  ASSUME NEW s, NEW L, NEW U, U # <<>>, NEW e, Sound(s, L, U, e),
         NEW c \in Channels, IsA(U[1], SABM, c), c = 0 \/ 0 \in e.on,
         NEW f, NEW M, NEW w, NEW type \in {UA, DM}, NEW why,
         Utters(e, f, L, M, w, c, type, Poll, <<>>, why),
         Modem(f), e.agreed \subseteq f.agreed,
         type = UA => c \in f.agreed, type = DM /\ c = 0 => 0 \notin f.on
  PROVE  Sound(s, M, Tail(U), f)
<1>1. /\ w \in Shapes
      /\ Parse(w).good => Parse(w).channel = c /\ Parse(w).type = type
  BY Heeded
<1>2. U \in Seq(Mine)
  BY DEF Sound
<1>3. Tail(U) \in Seq(Mine) /\ Of(Tail(U), U)
  BY <1>2, RestOf
<1>4. Agrees(s, U, e, f, w)
  BY <1>1 DEF Agrees
<1>5. ~Ends(w)
  BY <1>1 DEF Ends, UA, DM, UI, UIH, DISC
<1>6. ASSUME NEW q \in Seq(Shapes), NEW r, Ending(s, q, U, e), Longer(s, q, w, r)
      PROVE  Ending(s, r, Tail(U), f)
  <2>1. CASE c = 0
    <3>1. IsA(U[1], SABM, 0) /\ (Parse(w).good /\ IsA(w, DM, 0) => 0 \notin f.on)
      BY <1>1, <2>1 DEF IsA
    <3>2. w \in Shapes
      BY <1>1
    <3>3. QED
      BY <1>2, <1>5, <1>6, <3>1, <3>2, EndingAsked
  <2>2. CASE c # 0
    <3>1. ~(Parse(w).good /\ IsA(w, DM, 0)) /\ 0 \in e.on
      BY <1>1, <2>2 DEF IsA
    <3>2. Leaves(U) => Leaves(Tail(U))
      <4>1. ~IsA(U[1], DISC, 0)
        BY DEF IsA, SABM, DISC
      <4>2. QED
        BY <1>2, <4>1, LeavesSplit
    <3>3. QED
      BY <1>1, <1>3, <1>5, <1>6, <3>1, <3>2, EndingWhileOn
  <2>3. QED
    BY <2>1, <2>2
<1>7. Carries(s, U, e, Tail(U), f, w)
  BY <1>6 DEF Carries
<1>8. QED
  BY <1>3, <1>4, <1>7, SoundMore

\* Its answer to a request to disconnect one.
LEMMA DisconnectSound ==
  ASSUME NEW s, NEW L, NEW U, U # <<>>, NEW e, Sound(s, L, U, e),
         NEW c \in Channels, IsA(U[1], DISC, c),
         NEW f, NEW M, NEW w, NEW type, NEW why,
         Utters(e, f, L, M, w, c, type, Poll, <<>>, why),
         Modem(f), e.agreed = f.agreed, f.on \subseteq e.on, c = 0 => 0 \notin f.on
  PROVE  Sound(s, M, Tail(U), f)
<1>1. w \in Shapes
  BY Heeded
<1>2. U \in Seq(Mine)
  BY DEF Sound
<1>3. Tail(U) \in Seq(Mine) /\ Of(Tail(U), U) /\ 1 \in 1..Len(U)
  BY <1>2, RestOf
<1>4. ASSUME NEW q, Answers(s, q, U, e) PROVE ~s.open
  BY <1>3, <1>4 DEF Answers, IsA
<1>5. Agrees(s, U, e, f, w)
  BY <1>4 DEF Agrees
<1>6. IsA(U[1], DISC, 0) => 0 \notin f.on
  BY DEF IsA
<1>7. ASSUME NEW q \in Seq(Shapes), NEW r, Answers(s, q, U, e), Ending(s, q, U, e)
      PROVE  Ending(s, r, Tail(U), f)
  <2>1. ~s.open
    BY <1>4, <1>7
  <2>2. QED
    BY <1>2, <1>6, <1>7, <2>1, EndingLeft
<1>8. Carries(s, U, e, Tail(U), f, w)
  BY <1>7 DEF Carries
<1>9. e.agreed \subseteq f.agreed
  OBVIOUS
<1>10. QED
  BY <1>3, <1>5, <1>8, <1>9, SoundMore

\* Or none.
LEMMA PassedSound ==
  ASSUME NEW s, NEW L, NEW U, U # <<>>, NEW e, Sound(s, L, U, e), ~IsA(U[1], DISC, 0)
  PROVE  Sound(s, L, Tail(U), e)
<1>1. U \in Seq(Mine)
  BY DEF Sound
<1>2. Tail(U) \in Seq(Mine) /\ Of(Tail(U), U)
  BY <1>1, RestOf
<1>3. ASSUME s.fault = {} PROVE \E q : InPlace(s, L, q) /\ Flow(s, q, Tail(U), e)
  <2>1. PICK q : InPlace(s, L, q) /\ Flow(s, q, U, e)
    BY <1>3 DEF Sound
  <2>2. Answers(s, q, U, e) => Answers(s, q, Tail(U), e)
    BY <1>2 DEF Answers, Of
  <2>3. Ending(s, q, U, e) => Ending(s, q, Tail(U), e)
    BY <1>1, EndingPassed
  <2>4. Flow(s, q, Tail(U), e)
    BY <1>2, <2>1, <2>2, <2>3 DEF Flow
  <2>5. QED
    BY <2>1, <2>4
<1>4. QED
  BY <1>2, <1>3 DEF Sound

-----------------------------------------------------------------------------
(* The steps of this side *)

\* What else it does leaves the session.
LEMMA SoundSame ==
  ASSUME NEW s, NEW L, NEW U, NEW e, Sound(s, L, U, e),
         NEW t, t.open = s.open, t.chan = s.chan, t.count = s.count, t.up = s.up,
         t.got = s.got, t.whole = s.whole, t.dec = s.dec, t.acted = s.acted,
         t.fault = s.fault
  PROVE  Sound(t, L, U, e)
<1>1. Modem(e) /\ U \in Seq(Mine) /\ Kept(s, e)
  BY DEF Sound
<1>2. Kept(t, e)
  BY <1>1 DEF Kept
<1>3. ASSUME t.fault = {} PROVE \E q : InPlace(t, L, q) /\ Flow(t, q, U, e)
  <2>1. PICK q : InPlace(s, L, q) /\ Flow(s, q, U, e)
    BY <1>3 DEF Sound
  <2>2. InPlace(t, L, q)
    BY <2>1 DEF InPlace
  <2>3. t.acted \subseteq e.said
    BY <1>1 DEF Kept
  <2>4. Flow(t, q, U, e)
    BY <2>1, <2>3, FlowSame
  <2>5. QED
    BY <2>2, <2>4
<1>4. QED
  BY <1>1, <1>2, <1>3 DEF Sound

\* A frame of this side that asks for no channel and ends none.
LEMMA AppendFlow ==
  ASSUME NEW s, s.open, NEW q, NEW U, NEW e, Flow(s, q, U, e),
         NEW X \in Seq(Mine), \A i \in 1..Len(X) : Parse(X[i]).type \notin {SABM, DISC}
  PROVE  Flow(s, q, Cat(U, X), e)
<1>1. U \in Seq(Mine)
  BY DEF Flow
<1>2. Cat(U, X) \in Seq(Mine) /\ Either(Cat(U, X), U, X)
  BY <1>1, CatEach, CatProperties
<1>3. \A i \in 1..Len(X) : ~IsA(X[i], SABM, 0) /\ Parse(X[i]).type # DISC
  BY DEF IsA
<1>4. Answers(s, q, U, e) => Answers(s, q, Cat(U, X), e)
  BY <1>2, <1>3 DEF Answers, Either
<1>5. Over(U, e) => Over(Cat(U, X), e)
  BY <1>1, <1>3, OverOn
<1>6. Ending(s, q, U, e) => Ending(s, q, Cat(U, X), e)
  <2>1. Asked(q, U, e) => Asked(q, Cat(U, X), e)
    BY <1>2, <1>3 DEF Asked, Either
  <2>2. AtEnd(q, U, e) => AtEnd(q, Cat(U, X), e)
    BY <1>5 DEF AtEnd
  <2>3. QED
    BY <1>5, <2>1, <2>2 DEF Ending
<1>7. QED
  BY <1>2, <1>4, <1>6 DEF Flow

\* This side sends data or an answer.
LEMMA SendSound ==
  ASSUME NEW s, DOMAIN s = Fields, s.open, NEW L, NEW U, NEW e, Sound(s, L, U, e),
         NEW X \in Seq(Mine), \A i \in 1..Len(X) : Parse(X[i]).type \notin {SABM, DISC}
  PROVE  Sound([s EXCEPT !.out = X], L, Cat(U, X), e)
<1> DEFINE t == [s EXCEPT !.out = X]
<1>1. \A f \in Fields \ {"out"} : t[f] = s[f]
  BY DEF Fields
<1> HIDE DEF t
<1>2. /\ t.open = s.open /\ t.chan = s.chan /\ t.count = s.count /\ t.up = s.up
      /\ t.got = s.got /\ t.whole = s.whole /\ t.dec = s.dec /\ t.acted = s.acted
      /\ t.fault = s.fault
  BY <1>1 DEF Fields
<1>3. Modem(e) /\ U \in Seq(Mine) /\ Kept(s, e)
  BY DEF Sound
<1>4. Cat(U, X) \in Seq(Mine)
  BY <1>3, CatProperties
<1>5. ASSUME s.fault = {} PROVE \E q : InPlace(s, L, q) /\ Flow(s, q, Cat(U, X), e)
  <2>1. PICK q : InPlace(s, L, q) /\ Flow(s, q, U, e)
    BY <1>5 DEF Sound
  <2>2. Flow(s, q, Cat(U, X), e)
    BY <2>1, AppendFlow
  <2>3. QED
    BY <2>1, <2>2
<1>6. Sound(s, L, Cat(U, X), e)
  BY <1>3, <1>4, <1>5 DEF Sound
<1>7. Sound(t, L, Cat(U, X), e)
  BY <1>2, <1>6, SoundSame
<1>8. QED
  BY <1>7 DEF t

\* A fault is the last thing that happens.
LEMMA FaultSound ==
  ASSUME NEW s, DOMAIN s = Fields, NEW L, NEW U, NEW e, Sound(s, L, U, e)
  PROVE  Sound(Fault(s, "freed"), L, U, e)
<1> DEFINE t == Fault(s, "freed")
<1>1. t.fault = s.fault \cup {"freed"} /\ \A f \in Fields \ {"fault"} : t[f] = s[f]
  BY DEF Fields, Fault
<1> HIDE DEF t
<1>2. t.acted = s.acted /\ t.up = s.up /\ t.fault # {} /\ ("null" \in t.fault => "null" \in s.fault)
  BY <1>1 DEF Fields
<1>3. Modem(e) /\ U \in Seq(Mine) /\ Kept(t, e)
  BY <1>2 DEF Sound, Kept
<1>4. Sound(t, L, U, e)
  BY <1>2, <1>3 DEF Sound
<1>5. QED
  BY <1>4 DEF t

\* The disconnect request of channel 0 is on its way, and no new request follows.
LEMMA LeavesOn ==
  ASSUME NEW U \in Seq(Mine), NEW X \in Seq(Mine),
         \A i \in 1..Len(X) : Parse(X[i]).type = DISC,
         NEW j \in 1..Len(X), IsA(X[j], DISC, 0)
  PROVE  Leaves(Cat(U, X))
<1> DEFINE V == Cat(U, X)
<1>1. PICK m \in Nat : m = Len(U)
  BY LenProperties
<1>2. PICK n \in Nat : n = Len(X)
  BY LenProperties
<1>3. V \in Seq(Mine) /\ Len(V) = m + n /\ \A i \in 1..n : V[m + i] = X[i]
  <2>1. V \in Seq(Mine)
    BY CatProperties
  <2> HIDE DEF V
  <2>3. Joined(V, U, X)
    BY CatJoined DEF V
  <2>2. QED
    BY <1>1, <1>2, <2>1, <2>3 DEF Joined
<1>4. Either(V, U, X)
  BY CatEach
<1> HIDE DEF V
<1>5. PICK k \in 1..n : k = j
  BY <1>2
<1>6. m + k \in 1..(m + n) /\ IsA(V[m + k], DISC, 0)
  <2>1. m + k \in 1..(m + n)
    BY <1>5
  <2>2. QED
    BY <1>3, <1>5, <2>1
<1>7. \A i \in (m + k)..(m + n) : ~IsA(V[i], SABM, 0)
  <2>1. TAKE i \in (m + k)..(m + n)
  <2>2. i \in 1..(m + n) /\ i \notin 1..m
    BY <1>5
  <2>3. PICK l \in 1..Len(X) : V[i] = X[l]
    BY <1>1, <1>3, <1>4, <2>2 DEF Either
  <2>4. QED
    BY <2>3 DEF IsA, SABM, DISC
<1>8. Leaves(V)
  BY <1>3, <1>6, <1>7 DEF Leaves
<1>9. QED
  BY <1>8 DEF V

\* This side closes, on its own or because of a frame.
LEMMA CloseSound ==
  ASSUME NEW s, NEW n, HostInv(s, n), s.open, s.out = <<>>,
         NEW L, NEW U, NEW e, Sound(s, L, U, e), s.fault = {}
  PROVE  DOMAIN Close(s) = Fields /\ Sound(Close(s), L, Cat(U, Close(s).out), e)
<1> DEFINE t == Close(s)
<1>1. PICK X : Closed(s, t, X)
  BY CloseFields
<1> HIDE DEF t
<1>2. /\ DOMAIN t = Fields /\ ~t.open /\ t.chan = [c \in Channels |-> "CLOSED"]
      /\ t.count = s.count /\ t.dec = s.dec /\ t.up = s.up /\ t.got = s.got
      /\ t.acted = s.acted /\ t.whole = s.whole
      /\ t.fault \subseteq {"freed"}
      /\ X \in Seq(Mine) /\ t.out = Cat(<<>>, X)
      /\ \A i \in 1..Len(X) : Parse(X[i]).type = DISC
      /\ s.chan[0] # "CLOSED" => \E i \in 1..Len(X) : IsA(X[i], DISC, 0)
  BY <1>1 DEF Closed
<1>3. t.out = X
  <2>1. Cat(<<>>, X) = X
    BY <1>2, CatProperties
  <2>2. QED
    BY <1>2, <2>1
<1>4. Modem(e) /\ U \in Seq(Mine) /\ Kept(s, e) /\ e.agreed \subseteq Channels
  BY DEF Sound, Modem
<1>5. Cat(U, X) \in Seq(Mine)
  BY <1>2, <1>4, CatProperties
<1>6. Kept(t, e)
  BY <1>2, <1>4 DEF Kept
<1>7. PICK q : InPlace(s, L, q) /\ Flow(s, q, U, e)
  BY DEF Sound
<1>8. InPlace(t, L, q)
  BY <1>2, <1>7 DEF InPlace
<1>9. Said(t, q, e)
  BY <1>2, <1>7 DEF Flow, Said
<1>10. Data(t, q, e)
  BY <1>2, <1>7 DEF Flow, Data
<1>11. Answers(t, q, Cat(U, X), e)
  BY <1>2 DEF Answers
<1>12. Counted(s, e) => Counted(t, e)
  <2>1. ASSUME Counted(s, e) PROVE Counted(t, e)
    <3>1. PICK C \in SUBSET e.agreed : s.count = Cardinality(C)
      BY <2>1 DEF Counted
    <3>2. \A c \in C : t.chan[c] # Waiting
      BY <1>2, <1>4 DEF Waiting
    <3>3. QED
      BY <1>2, <2>1, <3>1, <3>2 DEF Counted
  <2>2. QED
    BY <2>1
<1>13. Ending(s, q, U, e) => Ending(t, q, Cat(U, X), e)
  <2>1. ASSUME Ending(s, q, U, e) PROVE Over(Cat(U, X), e) \/ Leaves(Cat(U, X))
    <3>1. CASE s.chan[0] = "CLOSED"
      <4>1. Over(U, e)
        BY <2>1, <3>1 DEF Ending
      <4>2. \A i \in 1..Len(X) : ~IsA(X[i], SABM, 0)
        BY <1>2 DEF IsA, SABM, DISC
      <4>3. QED
        BY <1>2, <1>4, <4>1, <4>2, OverOn
    <3>2. CASE s.chan[0] # "CLOSED"
      BY <1>2, <1>4, <3>2, LeavesOn
    <3>3. QED
      BY <3>1, <3>2
  <2>2. QED
    BY <1>2, <2>1 DEF Ending
<1>14. Flow(t, q, Cat(U, X), e)
  BY <1>5, <1>7, <1>9, <1>10, <1>11, <1>12, <1>13 DEF Flow
<1>15. Sound(t, L, Cat(U, X), e)
  BY <1>4, <1>5, <1>6, <1>8, <1>14 DEF Sound
<1>16. DOMAIN t = Fields /\ Sound(t, L, Cat(U, t.out), e)
  BY <1>2, <1>3, <1>15
<1>17. QED
  BY <1>16 DEF t

-----------------------------------------------------------------------------
(* A session begins *)

\* t is s after tcore_cmux_init.
Begun(s, t) ==
  /\ DOMAIN t = Fields /\ t.open /\ ~t.up /\ \A c \in Channels : t.chan[c] = Waiting
  /\ t.count = s.count /\ t.dec = s.dec /\ t.got = s.got /\ t.acted = s.acted
  /\ t.whole = s.whole /\ t.fault \subseteq s.fault \cup {"freed"}
  /\ t.out \in Seq(Mine)
  /\ \A i \in 1..Len(t.out) : Parse(t.out[i]).type = SABM /\ Parse(t.out[i]).channel = i - 1

\* The requests go out in the order of the channels, and the counter is not reset.
LEMMA StartFields ==
  ASSUME NEW s, NEW n, HostInv(s, n), ~s.open, NEW m
  PROVE  Begun(s, Start(s, m))
<1> DEFINE D(c) == Encode(c, SABM, Poll, <<>>)
           N == Cardinality(Channels)
           asked == [i \in 1..N |-> D(i - 1)]
           logical == {Logical(m, c) : c \in Channels}
           waiting == [c \in Channels |-> "SABM_SEND_WAITING_FOR_UA"]
           u == Opened(s, m)
           to == [o \in present |-> Logical(m, ChannelOf(o))]
           t == Start(s, m)
<1>1. DOMAIN s = Fields
  BY Typed
<1>2. asked \in Seq(Mine)
      /\ \A i \in 1..Len(asked) : Parse(asked[i]).type = SABM /\ Parse(asked[i]).channel = i - 1
  <2>1. \A c \in Channels : D(c) \in Mine /\ Kind(D(c)) = <<c, SABM, Poll>>
    BY Sent, Short DEF Types
  <2>2. \A c \in Channels : Parse(D(c)).type = SABM /\ Parse(D(c)).channel = c
    BY <2>1 DEF Kind
  <2>3. PICK k \in 1..8 : k = N /\ Channels = 0..(k - 1)
    BY ChannelNumbers
  <2>4. \A i \in 1..k : i - 1 \in Channels
    <3>1. \A i \in 1..k : i - 1 \in 0..(k - 1)
      OBVIOUS
    <3>2. QED
      BY <2>3, <3>1
  <2>5. asked = [i \in 1..k |-> D(i - 1)]
    BY <2>3
  <2> HIDE DEF D, asked
  <2>6. k \in Nat
    OBVIOUS
  <2>7. asked \in Seq(Mine) /\ Len(asked) = k /\ \A i \in 1..k : asked[i] = D(i - 1)
    BY <2>1, <2>4, <2>5, <2>6
  <2>8. QED
    BY <2>2, <2>4, <2>7
<1>3. u = [s EXCEPT !.open = TRUE, !.mode = "TRANSPARENT", !.up = FALSE, !.chan = waiting,
                    !.hals = s.hals \cup logical, !.out = asked]
  BY <1>1 DEF Opened, Fields
<1> HIDE DEF logical, asked, waiting, u, D
<1>4. /\ DOMAIN u = Fields /\ u.open = TRUE /\ u.up = FALSE
      /\ u.chan = waiting /\ u.out = asked
      /\ \A f \in Fields \ {"open", "mode", "up", "chan", "hals", "out"} : u[f] = s[f]
  BY <1>1, <1>3 DEF Fields
<1>5. /\ u.count = s.count /\ u.dec = s.dec /\ u.got = s.got /\ u.acted = s.acted
      /\ u.whole = s.whole /\ u.fault = s.fault
  BY <1>4 DEF Fields
<1>6. t = SetHal(u, to)
  BY DEF Start, Linked, u
<1> HIDE DEF to, t
<1>7. /\ DOMAIN t = Fields
      /\ \A f \in Fields \ {"hal", "reg", "fault"} : t[f] = u[f]
      /\ t.hal = [o \in Objects |-> IF o \in DOMAIN to THEN to[o] ELSE u.hal[o]]
      /\ t.reg = (u.reg \ LeftBy(u, DOMAIN to)) \cup JoinedBy(u, to)
      /\ t.fault \subseteq u.fault \cup {"freed"}
      /\ (\A o \in DOMAIN to : u.hal[o] \in u.hals) => t.fault = u.fault
  BY <1>4, <1>6, SetHalFields
<1>8. /\ t.open = u.open /\ t.up = u.up /\ t.chan = u.chan /\ t.count = u.count
      /\ t.dec = u.dec /\ t.got = u.got /\ t.acted = u.acted /\ t.whole = u.whole
      /\ t.out = u.out
  BY <1>7 DEF Fields
<1>9. t.open /\ ~t.up
  BY <1>4, <1>8
<1>10. \A c \in Channels : t.chan[c] = Waiting
  BY <1>4, <1>8 DEF waiting, Waiting
<1>11. t.fault \subseteq s.fault \cup {"freed"}
  BY <1>5, <1>7
<1>12. t.out = asked
  BY <1>4, <1>8
<1>13. Begun(s, t)
  BY <1>2, <1>5, <1>7, <1>8, <1>9, <1>10, <1>11, <1>12 DEF Begun
<1>14. QED
  BY <1>13 DEF t

\* What the history says of what the session inherits.
Notes(s, L, U, f) ==
  /\ L # <<>> \/ U # <<>> => "stale" \in f.odd
  /\ s.count # 0 => "count" \in f.odd
  /\ s.dec.at \in {"FLAG", "ADDR"} /\ (L = <<>> \/ s.whole)

\* A session begins: with whatever the last one left, and the notes that say so.
LEMMA StartSound ==
  ASSUME NEW s, ~s.open, s.fault = {}, NEW L, NEW U, NEW e, Sound(s, L, U, e),
         NEW t, Begun(s, t),
         NEW f, f.on = e.on, f.said = e.said, f.sent = e.sent, f.agreed = {},
         e.odd \subseteq f.odd, Notes(s, L, U, f)
  PROVE  Sound(t, L, Cat(U, t.out), f)
<1> DEFINE X == t.out
<1>1. /\ t.open /\ ~t.up /\ t.count = s.count /\ t.dec = s.dec /\ t.got = s.got
      /\ t.acted = s.acted /\ t.whole = s.whole /\ t.fault \subseteq {"freed"}
      /\ \A c \in Channels : t.chan[c] = Waiting
  BY DEF Begun
<1>2. X \in Seq(Mine)
      /\ \A i \in 1..Len(X) : Parse(X[i]).type = SABM /\ Parse(X[i]).channel = i - 1
  BY DEF Begun
<1> HIDE DEF X
<1>3. Modem(e) /\ U \in Seq(Mine) /\ Kept(s, e)
  BY DEF Sound
<1>4. Modem(f)
  BY <1>3 DEF Modem
<1>5. Cat(U, X) \in Seq(Mine)
  BY <1>2, <1>3, CatProperties
<1>6. Kept(t, f)
  BY <1>1, <1>3 DEF Kept
<1>7. PICK q : InPlace(s, L, q) /\ Flow(s, q, U, e)
  BY DEF Sound
<1>8. Aligned(t.dec, L, q)
  <2>1. CASE Aligned(s.dec, L, q)
    BY <1>1, <2>1
  <2>2. CASE IsDecoder(s.dec) /\ ~s.open /\ ~s.whole /\ q = <<>>
    <3>1. L = <<>> /\ s.dec.at \in {"FLAG", "ADDR"}
      BY <2>2 DEF Notes
    <3>2. <<>> = FlattenSeq(q) /\ q \in Seq(Shapes) /\ <<>> \in Seq(Byte)
      <4>1. <<>> \in Seq(Shapes) /\ <<>> \in Seq(Byte)
        OBVIOUS
      <4>2. QED
        BY <2>2, <4>1, FlatEmpty
    <3>3. QED
      BY <1>1, <2>2, <3>1, <3>2 DEF Aligned
  <2>3. QED
    BY <1>7, <2>1, <2>2 DEF InPlace
<1>9. Said(t, q, f)
  BY <1>1, <1>7 DEF Flow, Said
<1>10. Data(t, q, f)
  BY <1>1, <1>7 DEF Flow, Data
<1>11. ASSUME Plain(f, {"stale"})
       PROVE  U = <<>> /\ q = <<>> /\ Cat(U, X) = X
  <2>1. L = <<>> /\ U = <<>>
    BY <1>11 DEF Notes, Plain
  <2>2. q = <<>>
    BY <1>8, <2>1, AlignedEmpty
  <2>3. Cat(<<>>, X) = X
    BY <1>2, CatProperties
  <2>4. QED
    BY <2>1, <2>2, <2>3
<1>12. Len(<<>>) = 0 /\ \A i : i \notin 1..0
  OBVIOUS
<1>13. Plain(f, {"stale"}) => Answers(t, q, Cat(U, X), f)
  <2>1. SABM # DISC
    BY DEF SABM, DISC
  <2>2. QED
    BY <1>2, <1>11, <1>12, <2>1 DEF Answers
<1>14. Plain(f, {"stale", "count"}) => Counted(t, f)
  <2>1. ASSUME Plain(f, {"stale", "count"}) PROVE Counted(t, f)
    <3>1. s.count = 0
      BY <2>1 DEF Notes, Plain
    <3>2. {} \in SUBSET f.agreed /\ Cardinality({}) = 0
      BY FS_EmptySet
    <3>3. QED
      BY <1>1, <3>1, <3>2 DEF Counted
  <2>2. QED
    BY <2>1
<1>15. ASSUME Plain(f, {"stale", "late"}) PROVE Ending(t, q, Cat(U, X), f)
  <2>1. U = <<>> /\ q = <<>> /\ Cat(U, X) = X
    BY <1>11, <1>15 DEF Plain
  <2>2. Plain(e, {"stale", "late"})
    BY <1>15 DEF Plain
  <2>3. Over(U, e)
    <3>1. Over(U, e) \/ Leaves(U)
      BY <1>7, <2>2 DEF Flow, Ending
    <3>2. ~Leaves(U)
      BY <1>12, <2>1 DEF Leaves
    <3>3. QED
      BY <3>1, <3>2
  <2>4. f.on = {}
    BY <1>3, <2>3 DEF Over, Modem
  <2>5. Asked(q, X, f)
    <3>1. \A i \in 1..Len(X) : IsA(X[i], SABM, 0) => i = 1
      <4>1. PICK k \in Nat : k = Len(X)
        BY <1>2, LenProperties
      <4>2. \A i \in 1..k : i - 1 = 0 => i = 1
        OBVIOUS
      <4>3. QED
        BY <1>2, <4>1, <4>2 DEF IsA
    <3>2. QED
      BY <2>1, <2>4, <3>1 DEF Asked
  <2>6. AtEnd(q, X, f)
    BY <1>12, <2>1 DEF AtEnd
  <2>7. t.chan[0] # "CLOSED"
    BY <1>1, ChannelNumbers DEF Waiting
  <2>8. QED
    BY <1>1, <2>1, <2>5, <2>6, <2>7 DEF Ending
<1>16. Flow(t, q, Cat(U, X), f)
  BY <1>5, <1>7, <1>9, <1>10, <1>13, <1>14, <1>15 DEF Flow
<1>17. InPlace(t, L, q)
  BY <1>8 DEF InPlace
<1>18. Sound(t, L, Cat(U, X), f)
  BY <1>4, <1>5, <1>6, <1>16, <1>17 DEF Sound
<1>19. QED
  BY <1>18 DEF X

-----------------------------------------------------------------------------
(* A read *)

\* A read while the mux is open.
LEMMA ReadSound ==
  ASSUME NEW s, NEW n, HostInv(s, n), s.open, s.out = <<>>, s.fault = {},
         NEW bs \in Seq(Byte), NEW L \in Seq(Byte), NEW U, NEW e, Sound(s, Cat(bs, L), U, e),
         NEW t, t = Receive(s, bs)
  PROVE  DOMAIN t = Fields /\ Sound(t, L, Cat(U, t.out), e)
<1>1. Modem(e) /\ U \in Seq(Mine) /\ e.agreed \subseteq Channels
  BY DEF Sound, Modem
<1>2. PICK q : InPlace(s, Cat(bs, L), q) /\ Flow(s, q, U, e)
  BY DEF Sound
<1>3. Aligned(s.dec, Cat(bs, L), q)
  BY <1>2 DEF InPlace
<1>4. s.out \in Seq(Mine) /\ Cat(U, s.out) = U
  <2>1. <<>> \in Seq(Mine)
    OBVIOUS
  <2>2. U \in Seq(Mine)
    BY <1>1
  <2>3. Cat(U, <<>>) = U
    BY <2>1, <2>2, CatProperties
  <2>4. QED
    BY <2>1, <2>3
<1>5. Running(s, q, U, e)
  BY <1>2, <1>4 DEF Running
<1>6. /\ HostInv(t, n) /\ Kept(t, e) /\ t.out \in Seq(Mine)
      /\ t.fault = {} => \E r : Aligned(t.dec, L, r) /\ Running(t, r, U, e)
  BY <1>1, <1>3, <1>5, ReceiveRuns
<1>7. DOMAIN t = Fields
  BY <1>6, Typed
<1>8. Cat(U, t.out) \in Seq(Mine)
  BY <1>1, <1>6, CatProperties
<1>9. t.fault = {} => \E r : InPlace(t, L, r) /\ Flow(t, r, Cat(U, t.out), e)
  BY <1>6 DEF Running, InPlace
<1>10. QED
  BY <1>1, <1>6, <1>7, <1>8, <1>9 DEF Sound

\* In AT mode it is not for the mux.
LEMMA AsideSound ==
  ASSUME NEW s, DOMAIN s = Fields, ~s.open, s.fault = {},
         NEW L, NEW U, NEW e, Sound(s, L, U, e), NEW M
  PROVE  Sound([s EXCEPT !.whole = FALSE], M, U, e)
<1> DEFINE t == [s EXCEPT !.whole = FALSE]
<1>1. ~t.whole /\ \A f \in Fields \ {"whole"} : t[f] = s[f]
  BY DEF Fields
<1> HIDE DEF t
<1>2. /\ ~t.open /\ t.chan = s.chan /\ t.count = s.count /\ t.up = s.up
      /\ t.dec = s.dec /\ t.acted = s.acted /\ t.fault = {}
  BY <1>1 DEF Fields
<1>3. Modem(e) /\ U \in Seq(Mine) /\ Kept(s, e)
  BY DEF Sound
<1>4. Kept(t, e)
  BY <1>2, <1>3 DEF Kept
<1>5. PICK q : InPlace(s, L, q) /\ Flow(s, q, U, e)
  BY DEF Sound
<1>6. InPlace(t, M, <<>>)
  BY <1>1, <1>2, <1>5 DEF InPlace, Aligned
<1>7. Len(<<>>) = 0 /\ (\A i : i \notin 1..0) /\ <<>> \in Seq(Shapes)
  OBVIOUS
<1>8. Said(t, <<>>, e)
  BY <1>2, <1>5, <1>7 DEF Flow, Said
<1>9. Data(t, <<>>, e)
  BY <1>1 DEF Data
<1>10. Answers(t, <<>>, U, e)
  BY <1>2 DEF Answers
<1>11. Counted(s, e) => Counted(t, e)
  BY <1>2 DEF Counted
<1>12. Ending(s, q, U, e) => Ending(t, <<>>, U, e)
  BY <1>2 DEF Ending
<1>13. Flow(t, <<>>, U, e)
  BY <1>3, <1>5, <1>7, <1>8, <1>9, <1>10, <1>11, <1>12 DEF Flow
<1>14. Sound(t, M, U, e)
  BY <1>3, <1>4, <1>6, <1>13 DEF Sound
<1>15. QED
  BY <1>14 DEF t

-----------------------------------------------------------------------------
(* The inductive invariant, while the decoder is in step *)

\* The inductive invariant of the flow, as long as the decoder knows where frames
\* begin.
FlowInv == InStep => Sound(h, line, up, Env)

\* It holds at the start.
LEMMA InitFlow == Init => FlowInv
<1>1. SUFFICES ASSUME Init PROVE Sound(h, line, up, Env)
  BY DEF FlowInv
<1> DEFINE e == Env
           no == <<>>
<1>2. /\ h = HostInit /\ line = no /\ up = no
      /\ e.on = {} /\ e.agreed = {} /\ e.said = {} /\ e.odd = {}
      /\ e.sent = [c \in Channels |-> no]
  BY <1>1 DEF Init, Env
<1>3. /\ ~h.open /\ h.count = 0 /\ h.dec = Hunting /\ ~h.up /\ h.acted = {}
      /\ h.got = [c \in Channels |-> no] /\ h.fault = {}
  BY <1>2 DEF HostInit
<1> HIDE DEF e
<1>4. no \in Seq(Seq(Byte)) /\ no \in Seq(Mine) /\ no \in Seq(Shapes) /\ no \in Seq(Byte)
      /\ Len(no) = 0 /\ (\A i : i \notin 1..0) /\ no = FlattenSeq(no)
  BY FlatEmpty
<1>5. Modem(e)
  BY <1>2, <1>4 DEF Modem
<1>6. Kept(h, e)
  BY <1>2, <1>3 DEF Kept
<1>7. IsDecoder(Hunting) /\ Hunting.at = "FLAG"
  BY DEF IsDecoder, Hunting, Decoding
<1>8. Aligned(h.dec, no, no)
  BY <1>3, <1>4, <1>7 DEF Aligned
<1>9. Said(h, no, e)
  BY <1>2, <1>3, <1>4 DEF Said
<1>10. Data(h, no, e)
  <2>1. \A c : DataOf(no, c) = no
    BY <1>4, DataOfFacts
  <2>2. Cat(no, no) = no
    BY <1>4, CatProperties
  <2> HIDE DEF no
  <2>3. \A c \in Channels \ {0} : Cat(h.got[c], DataOf(no, c)) = e.sent[c]
    BY <1>2, <1>3, <2>1, <2>2
  <2>4. h.got \in [Channels -> Seq(Seq(Byte))]
    BY <1>3, <1>4
  <2>5. QED
    BY <2>3, <2>4 DEF Data
<1>11. Answers(h, no, no, e)
  BY <1>3 DEF Answers
<1>12. Counted(h, e)
  <2>1. {} \in SUBSET e.agreed /\ Cardinality({}) = 0
    BY FS_EmptySet
  <2>2. QED
    BY <1>3, <2>1 DEF Counted
<1>13. Ending(h, no, no, e)
  BY <1>2, <1>3, <1>4 DEF Ending, Over
<1>14. Flow(h, no, no, e) /\ InPlace(h, no, no)
  BY <1>4, <1>8, <1>9, <1>10, <1>11, <1>12, <1>13 DEF Flow, InPlace
<1>15. Sound(h, no, no, e)
  BY <1>4, <1>5, <1>6, <1>14 DEF Sound
<1>16. QED
  BY <1>2, <1>15 DEF e

\* The decoder was in step before.
LEMMA StaysIn ==
  ASSUME InStep', odd \subseteq odd'
  PROVE  InStep
  BY DEF InStep

\* To show the invariant one may suppose that the decoder is still in step.
LEMMA FlowNextIf ==
  ASSUME InStep' => Sound(h', line', up', Env')
  PROVE  FlowInv'
  BY DEF FlowInv

\* The process takes a step to t, but for what it sends.
LEMMA DoSound ==
  ASSUME NEW t, DOMAIN t = Fields, Do(t), Sound(t, line', Cat(up, t.out), Env')
  PROVE  Sound(h', line', up', Env')
<1> DEFINE u == [t EXCEPT !.out = <<>>]
<1>1. h' = u /\ up' = Cat(up, t.out)
  BY DEF Do, Cat
<1>2. \A f \in Fields \ {"out"} : u[f] = t[f]
  BY DEF Fields
<1> HIDE DEF u
<1>3. /\ u.open = t.open /\ u.chan = t.chan /\ u.count = t.count /\ u.up = t.up
      /\ u.got = t.got /\ u.whole = t.whole /\ u.dec = t.dec /\ u.acted = t.acted
      /\ u.fault = t.fault
  BY <1>2 DEF Fields
<1>4. Sound(u, line', Cat(up, t.out), Env')
  BY <1>3, SoundSame
<1>5. QED
  BY <1>1, <1>4

-----------------------------------------------------------------------------
(* The modem says *)

\* The frame that the modem of the model sends.
LEMMA SayUtters ==
  ASSUME InStep', Modem(Env), NEW c \in Channels, NEW type \in Types \ {UI},
         NEW pf \in {0, Poll}, NEW data \in Seq(Byte), Fits(data), NEW why, NEW cost,
         Say(c, type, pf, data, why, cost)
  PROVE  \E w : Utters(Env, Env', line, line', w, c, type, pf, data, why)
<1> DEFINE e == Env
           f == Env'
           frame == Encode(c, type, pf, data)
<1>1. e.sent = sent /\ e.said = said /\ e.odd = odd
  BY DEF Env
<1>2. f.sent = sent' /\ f.said = said' /\ f.odd = odd'
  BY DEF Env
<1>3. e.sent \in [Channels -> Seq(Seq(Byte))]
  BY DEF Modem
<1>4. \/ /\ line' = line \o frame /\ odd' = odd \cup why
         /\ said' = said \cup {<<c, type, pf>>}
         /\ sent' = IF type = UIH /\ c # 0 THEN [sent EXCEPT ![c] = Append(sent[c], data)] ELSE sent
      \/ /\ said' = said /\ sent' = sent
         /\ \E i \in {2, 3, 4, Len(frame) - 1}, b \in Flips :
              /\ line' = line \o [frame EXCEPT ![i] = ByteXor(frame[i], b)]
              /\ odd' = odd \cup why \cup Damage(i)
  BY DEF Say
<1> HIDE DEF e, f, frame
<1>5. CASE /\ line' = line \o frame /\ odd' = odd \cup why
           /\ said' = said \cup {<<c, type, pf>>}
           /\ sent' = IF type = UIH /\ c # 0 THEN [sent EXCEPT ![c] = Append(sent[c], data)] ELSE sent
  <2>1. /\ line' = line \o frame /\ f.said = e.said \cup {<<c, type, pf>>}
        /\ f.sent = IF type = UIH /\ c # 0
                      THEN [e.sent EXCEPT ![c] = Append(e.sent[c], data)] ELSE e.sent
    BY <1>1, <1>2, <1>5
  <2>2. (e.odd \cup why) \subseteq f.odd
    BY <1>1, <1>2, <1>5
  <2>3. Unharmed(e, f, line, line', c, type, pf, data)
    BY <2>1 DEF Unharmed, frame
  <2>4. QED
    BY <1>3, <2>2, <2>3, Uttered DEF e, f
<1>6. CASE /\ said' = said /\ sent' = sent
           /\ \E i \in {2, 3, 4, Len(frame) - 1}, b \in Flips :
                /\ line' = line \o [frame EXCEPT ![i] = ByteXor(frame[i], b)]
                /\ odd' = odd \cup why \cup Damage(i)
  <2>1. PICK i \in {2, 3, 4, Len(frame) - 1}, b \in Flips :
          /\ line' = line \o [frame EXCEPT ![i] = ByteXor(frame[i], b)]
          /\ odd' = odd \cup why \cup Damage(i)
    BY <1>6
  <2>2. i # 4
    BY <2>1 DEF Damage, InStep
  <2>3. b \in OneBit
    BY MuxAssumption DEF OneBit
  <2>4. i \in {2, 3, Len(frame) - 1}
    BY <2>2
  <2>5. (e.odd \cup why) \subseteq f.odd
    BY <1>1, <1>2, <2>1
  <2>6. /\ f.said = e.said /\ f.sent = e.sent
        /\ \E j \in {2, 3, Len(frame) - 1}, d \in OneBit :
             line' = line \o [frame EXCEPT ![j] = ByteXor(frame[j], d)]
    BY <1>1, <1>2, <1>6, <2>1, <2>3, <2>4
  <2>7. Harmed(e, f, line, line', c, type, pf, data)
    BY <2>6 DEF Harmed, frame
  <2>8. QED
    BY <1>3, <2>5, <2>7, Uttered DEF e, f
<1>7. QED
  BY <1>4, <1>5, <1>6

-----------------------------------------------------------------------------
(* The steps of this side *)

\* One step of each action: opening,
LEMMA CmuxInitFlow == IInv /\ FlowInv /\ CmuxInit => FlowInv'
<1>1. SUFFICES ASSUME IInv, FlowInv, CmuxInit, InStep'
               PROVE  Sound(h', line', up', Env')
  BY FlowNextIf
<1> DEFINE t == Start(h, session')
           e == Env
           f == Env'
<1>2. /\ ~h.open /\ Do(t) /\ line' = line /\ odd' = odd \cup Inherited
      /\ on' = on /\ said' = said /\ sent' = sent /\ agreed' = {}
  BY <1>1 DEF CmuxInit
<1>3. Sound(h, line, up, e) /\ h.fault = {}
  BY <1>1, <1>2, StaysIn DEF FlowInv, Do
<1>4. Begun(h, t)
  <2>1. HostInv(h, session)
    BY <1>1 DEF IInv
  <2>2. QED
    BY <1>2, <2>1, StartFields
<1> HIDE DEF t
<1>5. /\ f.on = e.on /\ f.said = e.said /\ f.sent = e.sent /\ f.agreed = {}
      /\ e.odd \subseteq f.odd /\ f.odd = odd \cup Inherited
  BY <1>2 DEF Env
<1>6. Notes(h, line, up, f)
  <2>1. "undecoded" \notin Inherited
    BY <1>1, <1>2 DEF InStep
  <2>2. h.dec.at \in {"FLAG", "ADDR"} /\ (line = <<>> \/ h.whole)
    BY <2>1 DEF Inherited
  <2>3. (line # <<>> \/ up # <<>> => "stale" \in f.odd) /\ (h.count # 0 => "count" \in f.odd)
    BY <1>5 DEF Inherited
  <2>4. QED
    BY <2>2, <2>3 DEF Notes
<1> HIDE DEF e, f
<1>7. Sound(t, line, Cat(up, t.out), f)
  BY <1>2, <1>3, <1>4, <1>5, <1>6, StartSound
<1>8. DOMAIN t = Fields /\ Sound(t, line', Cat(up, t.out), Env')
  BY <1>2, <1>4, <1>7 DEF Begun, f
<1>9. QED
  BY <1>2, <1>8, DoSound

\* closing,
LEMMA CmuxCloseFlow == IInv /\ FlowInv /\ CmuxClose => FlowInv'
<1>1. SUFFICES ASSUME IInv, FlowInv, CmuxClose, InStep'
               PROVE  Sound(h', line', up', Env')
  BY FlowNextIf
<1>2. h.open /\ Do(Close(h)) /\ line' = line /\ odd' = odd /\ Env' = Env
  BY <1>1 DEF CmuxClose, Env
<1>3. Sound(h, line, up, Env) /\ h.fault = {} /\ HostInv(h, session) /\ h.out = <<>>
  BY <1>1, <1>2, StaysIn DEF FlowInv, Do, IInv
<1>4. DOMAIN Close(h) = Fields /\ Sound(Close(h), line, Cat(up, Close(h).out), Env)
  BY <1>2, <1>3, CloseSound
<1>5. QED
  BY <1>2, <1>4, DoSound

\* a read of any size, decoded or in AT mode,
LEMMA ReadFlow ==
  ASSUME IInv, FlowInv, NEW n \in Nat, n <= Len(line), Read(n)
  PROVE  FlowInv'
<1>1. SUFFICES ASSUME InStep' PROVE Sound(h', line', up', Env')
  BY FlowNextIf
<1> DEFINE bs == SubSeq(line, 1, n)
           L == After(line, n)
           t == Receive(h, bs)
<1>2. /\ line' = L /\ odd' = odd /\ Env' = Env
      /\ Do(IF h.mode = "TRANSPARENT" THEN t ELSE [h EXCEPT !.whole = FALSE])
  BY DEF Read, Env
<1>3. /\ Sound(h, line, up, Env) /\ HostInv(h, session) /\ h.out = <<>>
      /\ DOMAIN h = Fields
  BY <1>1, <1>2, StaysIn, Typed DEF FlowInv, IInv
<1>4. h.fault = {}
  BY <1>2 DEF Do
<1>5. CASE h.open
  <2>1. h.mode = "TRANSPARENT"
    BY <1>3, <1>5, HalTypes
  <2>2. PICK q : InPlace(h, line, q)
    BY <1>3, <1>4 DEF Sound
  <2>3. line \in Seq(Byte)
    BY <1>5, <2>2 DEF InPlace, Aligned
  <2>4. bs \in Seq(Byte) /\ L \in Seq(Byte) /\ Cat(bs, L) = line
    BY <2>3, CutFacts
  <2>5. Do(t)
    BY <1>2, <2>1
  <2> HIDE DEF bs, L
  <2>6. DOMAIN t = Fields /\ Sound(t, L, Cat(up, t.out), Env)
    BY <1>3, <1>4, <1>5, <2>4, ReadSound
  <2> HIDE DEF t
  <2>7. QED
    BY <1>2, <2>5, <2>6, DoSound
<1>6. CASE ~h.open
  <2> DEFINE r == [h EXCEPT !.whole = FALSE]
  <2>1. h.mode # "TRANSPARENT"
    BY <1>3, <1>6, HalTypes
  <2>2. Do(r)
    BY <1>2, <2>1
  <2>3. DOMAIN r = Fields /\ r.out = <<>>
    BY <1>3 DEF Fields
  <2>4. Sound(r, L, up, Env)
    BY <1>3, <1>4, <1>6, AsideSound
  <2> HIDE DEF r, L
  <2>5. Cat(up, r.out) = up
    <3>1. up \in Seq(Mine) /\ <<>> \in Seq(Mine)
      BY <2>4 DEF Sound
    <3>2. QED
      BY <2>3, <3>1, CatProperties
  <2>6. QED
    BY <1>2, <2>2, <2>3, <2>4, <2>5, DoSound
<1>7. QED
  BY <1>5, <1>6

\* of all there is,
LEMMA ReadAllFlow == IInv /\ FlowInv /\ ReadAll => FlowInv'
<1>1. SUFFICES ASSUME IInv, FlowInv, ReadAll PROVE FlowInv'
  OBVIOUS
<1>2. PICK S : line \in Seq(S)
  BY <1>1 DEF IInv, IsSeq
<1>3. Len(line) \in Nat /\ Len(line) <= Len(line)
  BY <1>2, LenProperties
<1>4. Read(Len(line))
  BY <1>1 DEF ReadAll
<1>5. QED
  BY <1>1, <1>3, <1>4, ReadFlow

\* of a part,
LEMMA ReadPartFlow == IInv /\ FlowInv /\ ReadPart => FlowInv'
<1>1. SUFFICES ASSUME IInv, FlowInv, ReadPart PROVE FlowInv'
  OBVIOUS
<1>2. PICK S : line \in Seq(S)
  BY <1>1 DEF IInv, IsSeq
<1>3. PICK n \in Reads : n < Len(line) /\ Read(n)
  BY <1>1 DEF ReadPart
<1>4. n \in Nat /\ n <= Len(line)
  BY <1>2, <1>3, LenProperties, MuxAssumption
<1>5. QED
  BY <1>1, <1>3, <1>4, ReadFlow

\* an object's request,
LEMMA HalSendFlow == ASSUME NEW o \in Objects PROVE IInv /\ FlowInv /\ HalSend(o) => FlowInv'
<1>1. SUFFICES ASSUME IInv, FlowInv, HalSend(o), InStep'
               PROVE  Sound(h', line', up', Env')
  BY FlowNextIf
<1> DEFINE w == Encode(h.hal[o][2], UIH, 0, <<65>>)
           X == <<w>>
<1>2. /\ h.hal[o] # Phy /\ line' = line /\ odd' = odd /\ Env' = Env
      /\ Do(IF h.hal[o] \in h.hals THEN [h EXCEPT !.out = X] ELSE Fault(h, "freed"))
  BY <1>1 DEF HalSend, Env
<1>3. /\ Sound(h, line, up, Env) /\ HostInv(h, session) /\ h.out = <<>>
      /\ DOMAIN h = Fields
  BY <1>1, <1>2, StaysIn, Typed DEF FlowInv, IInv
<1>4. CASE h.hal[o] \in h.hals
  <2>1. h.open /\ \E c \in Channels : h.hal[o] = Logical(session, c)
    <3>1. h.hals = {Phy} \cup IF h.open THEN {Logical(session, c) : c \in Channels} ELSE {}
      BY <1>3 DEF HostInv, HostType
    <3>2. QED
      BY <1>2, <1>4, <3>1
  <2>2. PICK c \in Channels : h.hal[o][2] = c
    BY <2>1 DEF Logical
  <2>3. w \in Mine /\ Kind(w) = <<c, UIH, 0>>
    <3>1. 65 \in Byte /\ UIH \in Types
      BY DEF Byte, Types
    <3>2. <<65>> \in Seq(Byte) /\ Fits(<<65>>)
      BY <3>1, Short
    <3>3. QED
      BY <2>2, <3>1, <3>2, Sent
  <2> HIDE DEF w
  <2>4. Parse(w).type \notin {SABM, DISC}
    BY <2>3 DEF Kind, UIH, SABM, DISC
  <2>5. X \in Seq(Mine) /\ \A i \in 1..Len(X) : Parse(X[i]).type \notin {SABM, DISC}
    <3>1. X \in Seq(Mine) /\ Len(X) = 1 /\ X[1] = w
      BY <2>3
    <3>2. \A i \in 1..1 : i = 1
      OBVIOUS
    <3>3. QED
      BY <2>4, <3>1, <3>2
  <2> HIDE DEF X
  <2> DEFINE t == [h EXCEPT !.out = X]
  <2>6. Sound(t, line, Cat(up, X), Env)
    BY <1>3, <2>1, <2>5, SendSound
  <2>7. DOMAIN t = Fields /\ t.out = X
    BY <1>3 DEF Fields
  <2>8. Do(t)
    BY <1>2, <1>4
  <2> HIDE DEF t
  <2>9. QED
    BY <1>2, <2>6, <2>7, <2>8, DoSound
<1>5. CASE h.hal[o] \notin h.hals
  <2> DEFINE t == Fault(h, "freed")
  <2>1. DOMAIN t = Fields /\ t.out = <<>>
    BY <1>3 DEF Fields, Fault
  <2>2. Sound(t, line, up, Env)
    BY <1>3, FaultSound
  <2>3. Do(t)
    BY <1>2, <1>5
  <2> HIDE DEF t
  <2>4. Cat(up, t.out) = up
    <3>1. up \in Seq(Mine) /\ <<>> \in Seq(Mine)
      BY <2>2 DEF Sound
    <3>2. QED
      BY <2>1, <3>1, CatProperties
  <2>5. QED
    BY <1>2, <2>1, <2>2, <2>3, <2>4, DoSound
<1>6. QED
  BY <1>4, <1>5

\* Callbacks come and go without the mux.
LEMMA MeddleFlow ==
  ASSUME IInv, FlowInv, NEW k, NEW s, DOMAIN s = Fields, Meddle(k, s),
         \A f \in Fields \ {"cbs", "reg"} : s[f] = h[f]
  PROVE  FlowInv'
<1>1. SUFFICES ASSUME InStep' PROVE Sound(h', line', up', Env')
  BY FlowNextIf
<1> DEFINE m == IF h.open THEN s.meddled \cup {k} ELSE s.meddled
           t == [s EXCEPT !.meddled = m]
<1>2. line' = line /\ odd' = odd /\ Env' = Env /\ Do(t)
  BY DEF Meddle, Env
<1>3. Sound(h, line, up, Env) /\ h.out = <<>>
  BY <1>1, <1>2, StaysIn DEF FlowInv, IInv
<1> HIDE DEF m
<1>4. DOMAIN t = Fields /\ \A f \in Fields \ {"meddled"} : t[f] = s[f]
  BY DEF Fields
<1> HIDE DEF t
<1>5. /\ t.open = h.open /\ t.chan = h.chan /\ t.count = h.count /\ t.up = h.up
      /\ t.got = h.got /\ t.whole = h.whole /\ t.dec = h.dec /\ t.acted = h.acted
      /\ t.fault = h.fault /\ t.out = <<>>
  BY <1>3, <1>4 DEF Fields
<1>6. Sound(t, line, up, Env)
  BY <1>3, <1>5, SoundSame
<1>7. Cat(up, t.out) = up
  <2>1. up \in Seq(Mine) /\ <<>> \in Seq(Mine)
    BY <1>3 DEF Sound
  <2>2. QED
    BY <1>5, <2>1, CatProperties
<1>8. QED
  BY <1>2, <1>4, <1>6, <1>7, DoSound

\* Adding or deleting a callback is no matter of the flow.
LEMMA CallbackFlow ==
  ASSUME NEW k \in Cbs
  PROVE  IInv /\ FlowInv /\ (AddCallback(k) \/ DelCallback(k)) => FlowInv'
<1>1. SUFFICES ASSUME IInv, FlowInv, AddCallback(k) \/ DelCallback(k) PROVE FlowInv'
  OBVIOUS
<1>2. PICK cbs, reg : Meddle(k, [h EXCEPT !.cbs = cbs, !.reg = reg])
  BY <1>1 DEF AddCallback, DelCallback
<1> DEFINE s == [h EXCEPT !.cbs = cbs, !.reg = reg]
<1>3. DOMAIN h = Fields
  BY <1>1, Typed DEF IInv
<1>4. DOMAIN s = Fields /\ \A f \in Fields \ {"cbs", "reg"} : s[f] = h[f]
  BY <1>3 DEF Fields
<1> HIDE DEF s
<1>5. Meddle(k, s)
  BY <1>2 DEF s
<1>6. QED
  BY <1>1, <1>4, <1>5, MeddleFlow

-----------------------------------------------------------------------------
(* The modem's steps *)

\* What a step of the modem shows of its state.
LEMMA ModemNext ==
  ASSUME Modem(Env), NEW L, NEW M, NEW w, NEW c, NEW type, NEW pf, NEW data, NEW why,
         Utters(Env, Env', L, M, w, c, type, pf, data, why),
         on' \subseteq Channels, agreed' \subseteq Channels, on' # {} => 0 \in on'
  PROVE  Modem(Env') /\ Env.odd \subseteq Env'.odd
<1> DEFINE f == Env'
           e == Env
<1>1. f.on = on' /\ f.agreed = agreed'
  BY DEF Env
<1> HIDE DEF f, e
<1>2. f.sent \in [Channels -> Seq(Seq(Byte))] /\ e.odd \subseteq f.odd
  BY DEF Utters, e, f
<1>3. Modem(f)
  BY <1>1, <1>2 DEF Modem
<1>4. QED
  BY <1>2, <1>3 DEF f, e

\* The commands differ.
LEMMA KindTypes ==
  /\ UA \in Types \ {UI} /\ DM \in Types \ {UI} /\ DISC \in Types \ {UI} /\ SABM \in Types \ {UI}
  /\ UIH \in Types \ {UI} /\ UA # DM /\ SABM # DISC /\ UIH # DISC /\ UIH # SABM
  /\ UIH \notin {UA, DM} /\ DISC \notin {UA, DM} /\ SABM \notin {UA, DM}
  /\ Poll # 0 /\ MSC # CLD
  BY DEF Types, UA, DM, DISC, SABM, UI, UIH, Poll, MSC, CLD

\* What was not plain sailing is on record.
LEMMA SayGrows ==
  ASSUME NEW c, NEW type, NEW pf, NEW data, NEW why, NEW cost,
         Say(c, type, pf, data, why, cost)
  PROVE  odd \subseteq odd' /\ why \subseteq odd'
  BY DEF Say

\* An answer of the modem: it accepts, refuses, lets go, or passes over.
LEMMA ModemAnswerFlow == IInv /\ FlowInv /\ ModemAnswer => FlowInv'
<1>1. SUFFICES ASSUME FlowInv, ModemAnswer, InStep'
               PROVE  Sound(h', line', up', Env')
  BY FlowNextIf
<1> DEFINE c == Parse(Head(up)).channel
           kind == Parse(Head(up)).type
           ack == IF c \in on THEN UA ELSE DM
           e == Env
           f == Env'
           none == {}
           refused == {"refused"}
           empty == <<>>
<1>2. /\ up # <<>> /\ up' = Tail(up) /\ h' = h
      /\ \/ /\ kind = SABM /\ (c = 0 \/ 0 \in on)
            /\ Say(c, UA, Poll, empty, none, 0)
            /\ on' = on \cup {c} /\ agreed' = agreed \cup {c}
         \/ /\ kind = SABM /\ (c = 0 \/ 0 \in on)
            /\ Say(c, DM, Poll, empty, refused, 1)
            /\ on' = Left(c) /\ agreed' = agreed
         \/ /\ kind = DISC
            /\ Say(c, ack, Poll, empty, none, 0)
            /\ on' = Left(c) /\ agreed' = agreed
         \/ /\ kind \notin {SABM, DISC} \/ ~(c = 0 \/ 0 \in on)
            /\ line' = line /\ Env' = Env /\ odd' = odd
  BY <1>1 DEF ModemAnswer, Env
<1> HIDE DEF none, refused
<1>3. odd \subseteq odd'
  BY <1>2, SayGrows
<1>4. Sound(h, line, up, e)
  BY <1>1, <1>3, StaysIn DEF FlowInv
<1>5. Modem(e) /\ up \in Seq(Mine)
  BY <1>4 DEF Sound
<1>6. Head(up) = up[1] /\ Head(up) \in Mine
  BY <1>2, <1>5, RestOf
<1>7. c \in Channels
  BY <1>6 DEF Mine
<1>8. e.on = on /\ e.agreed = agreed /\ on \subseteq Channels /\ agreed \subseteq Channels
      /\ (on # {} => 0 \in on)
  BY <1>5 DEF Env, Modem
<1>9. f.on = on' /\ f.agreed = agreed'
  BY DEF Env
<1>10. empty \in Seq(Byte) /\ Fits(empty) /\ Poll \in {0, Poll}
  BY Short
<1>11. Left(c) \subseteq on /\ (Left(c) # {} => 0 \in Left(c)) /\ (c = 0 => 0 \notin Left(c))
  BY <1>8 DEF Left
<1> HIDE DEF empty
<1>12. IsA(up[1], kind, c)
  BY <1>6 DEF IsA
<1> HIDE DEF c, kind
<1>13. CASE /\ kind = SABM /\ (c = 0 \/ 0 \in on)
            /\ Say(c, UA, Poll, empty, none, 0)
            /\ on' = on \cup {c} /\ agreed' = agreed \cup {c}
  <2>1. PICK w : Utters(e, f, line, line', w, c, UA, Poll, empty, none)
    BY <1>1, <1>5, <1>7, <1>10, <1>13, KindTypes, SayUtters
  <2>2. on' \subseteq Channels /\ agreed' \subseteq Channels /\ 0 \in on'
    BY <1>7, <1>8, <1>13
  <2>3. Modem(f)
    BY <1>5, <2>1, <2>2, ModemNext
  <2> HIDE DEF e, f
  <2>4. /\ IsA(up[1], SABM, c) /\ (c = 0 \/ 0 \in e.on)
        /\ e.agreed \subseteq f.agreed /\ c \in f.agreed
    BY <1>8, <1>9, <1>12, <1>13
  <2>5. Sound(h, line', Tail(up), f)
    BY <1>2, <1>4, <1>7, <2>1, <2>3, <2>4, KindTypes, EstablishSound DEF empty
  <2>6. QED
    BY <1>2, <2>5 DEF f
<1>14. CASE /\ kind = SABM /\ (c = 0 \/ 0 \in on)
            /\ Say(c, DM, Poll, empty, refused, 1)
            /\ on' = Left(c) /\ agreed' = agreed
  <2>1. PICK w : Utters(e, f, line, line', w, c, DM, Poll, empty, refused)
    BY <1>1, <1>5, <1>7, <1>10, <1>14, KindTypes, SayUtters
  <2>2. on' \subseteq Channels /\ agreed' \subseteq Channels /\ (on' # {} => 0 \in on')
    BY <1>8, <1>11, <1>14
  <2>3. Modem(f)
    BY <1>5, <2>1, <2>2, ModemNext
  <2> HIDE DEF e, f
  <2>4. /\ IsA(up[1], SABM, c) /\ (c = 0 \/ 0 \in e.on)
        /\ e.agreed \subseteq f.agreed /\ (c = 0 => 0 \notin f.on)
    BY <1>8, <1>9, <1>11, <1>12, <1>14
  <2>5. Sound(h, line', Tail(up), f)
    BY <1>2, <1>4, <1>7, <2>1, <2>3, <2>4, KindTypes, EstablishSound DEF empty
  <2>6. QED
    BY <1>2, <2>5 DEF f
<1>15. CASE /\ kind = DISC
            /\ Say(c, ack, Poll, empty, none, 0)
            /\ on' = Left(c) /\ agreed' = agreed
  <2>1. ack \in Types \ {UI}
    BY KindTypes
  <2> HIDE DEF ack
  <2>2. PICK w : Utters(e, f, line, line', w, c, ack, Poll, empty, none)
    BY <1>1, <1>5, <1>7, <1>10, <1>15, <2>1, SayUtters
  <2>3. on' \subseteq Channels /\ agreed' \subseteq Channels /\ (on' # {} => 0 \in on')
    BY <1>8, <1>11, <1>15
  <2>4. Modem(f)
    BY <1>5, <2>2, <2>3, ModemNext
  <2> HIDE DEF e, f
  <2>5. /\ IsA(up[1], DISC, c) /\ e.agreed = f.agreed
        /\ f.on \subseteq e.on /\ (c = 0 => 0 \notin f.on)
    BY <1>8, <1>9, <1>11, <1>12, <1>15
  <2>6. Sound(h, line', Tail(up), f)
    BY <1>2, <1>4, <1>7, <2>2, <2>4, <2>5, DisconnectSound DEF empty
  <2>7. QED
    BY <1>2, <2>6 DEF f
<1>16. CASE /\ kind \notin {SABM, DISC} \/ ~(c = 0 \/ 0 \in on)
            /\ line' = line /\ Env' = Env /\ odd' = odd
  <2>1. ~IsA(up[1], DISC, 0)
    BY <1>6, <1>16 DEF IsA, c, kind
  <2>2. Sound(h, line, Tail(up), e)
    BY <1>2, <1>4, <2>1, PassedSound
  <2>3. QED
    BY <1>2, <1>16, <2>2
<1>17. QED
  BY <1>2, <1>13, <1>14, <1>15, <1>16

\* One lemma for its own frames: it says what the lemma SendsSound asks for.
LEMMA SendFlow ==
  ASSUME InStep', Sound(h, line, up, Env), h' = h, up' = up, agreed' = agreed,
         NEW c \in Channels, NEW type \in Types \ {UI}, type \notin {UA, DM},
         NEW pf \in {0, Poll}, NEW data \in Seq(Byte), Fits(data), NEW why, NEW cost,
         Say(c, type, pf, data, why, cost),
         on' \subseteq Channels, on' # {} => 0 \in on',
         \/ "late" \in why
         \/ /\ 0 \in on
            /\ \/ c # 0
               \/ 0 \notin on'
               \/ type = UIH /\ data # <<>> /\ data[1] # CLD
               \/ type = DISC /\ pf = 0
  PROVE  Sound(h', line', up', Env')
<1> DEFINE e == Env
           f == Env'
<1>1. Modem(e)
  BY DEF Sound
<1>2. PICK w : Utters(e, f, line, line', w, c, type, pf, data, why)
  BY <1>1, SayUtters
<1>3. e.on = on /\ e.agreed = agreed /\ agreed \subseteq Channels
  BY <1>1 DEF Env, Modem
<1>4. f.on = on' /\ f.agreed = agreed'
  BY DEF Env
<1>5. Modem(f)
  BY <1>1, <1>2, <1>3, ModemNext
<1>6. Sound(h, line, up, e)
  OBVIOUS
<1> HIDE DEF e, f
<1>7. e.agreed = f.agreed
  BY <1>3, <1>4
<1>8. \/ "late" \in why
      \/ /\ 0 \in e.on
         /\ \/ c # 0
            \/ 0 \notin f.on
            \/ type = UIH /\ data # <<>> /\ data[1] # CLD
            \/ type = DISC /\ pf = 0
  BY <1>3, <1>4
<1>9. Sound(h, line', up, f)
  BY <1>2, <1>5, <1>6, <1>7, <1>8, SendsSound
<1>10. QED
  BY <1>9 DEF f

\* What the modem sends on its own.
LEMMA ModemSendFlow == IInv /\ FlowInv /\ ModemSend => FlowInv'
<1>1. SUFFICES ASSUME FlowInv, ModemSend, InStep'
               PROVE  Sound(h', line', up', Env')
  BY FlowNextIf
<1>2. h' = h /\ up' = up /\ agreed' = agreed
  BY <1>1 DEF ModemSend
<1> DEFINE status == <<MSC, 1>>
           down == <<CLD, 1>>
           late == <<65>>
           none == {}
           closed == {"closed"}
           passed == {"late"}
           ends(pf, c) == IF pf = Poll /\ c = 0 THEN {"closed"} ELSE {}
           asks(pf) == IF pf = Poll THEN {"asked"} ELSE {}
<1>3. \/ \E c \in on \ {0}, d \in Payloads : Say(c, UIH, 0, d, none, 1) /\ on' = on
      \/ 0 \in on /\ Say(0, UIH, 0, status, none, 1) /\ on' = on
      \/ 0 \in on /\ Say(0, UIH, 0, down, closed, 1) /\ on' = {}
      \/ \E c \in on, pf \in {0, Poll} :
           /\ Say(c, DISC, pf, <<>>, ends(pf, c), 1)
           /\ on' = IF pf = Poll THEN Left(c) ELSE on
      \/ \E c \in Channels \ {0}, pf \in {0, Poll} :
           /\ 0 \in on /\ Say(c, SABM, pf, <<>>, asks(pf), 1)
           /\ on' = IF pf = Poll THEN on \cup {c} ELSE on
      \/ \E c \in Channels \ {0} : Say(c, UIH, 0, late, passed, 1) /\ on' = on
  BY <1>1 DEF ModemSend
<1>4. /\ status \in Seq(Byte) /\ Fits(status) /\ status # <<>> /\ status[1] # CLD
      /\ down \in Seq(Byte) /\ Fits(down) /\ late \in Seq(Byte) /\ Fits(late)
      /\ <<>> \in Seq(Byte) /\ Fits(<<>>)
  <2>1. MSC \in Byte /\ CLD \in Byte /\ 1 \in Byte /\ 65 \in Byte
    BY DEF MSC, CLD, Byte
  <2>2. status # <<>> /\ status[1] = MSC
    OBVIOUS
  <2>3. QED
    BY <2>1, <2>2, Short, KindTypes
<1>5. "late" \in passed
  OBVIOUS
<1> HIDE DEF status, down, late, none, closed, passed, ends, asks
<1>6. odd \subseteq odd'
  BY <1>3, SayGrows
<1>7. Sound(h, line, up, Env)
  BY <1>1, <1>6, StaysIn DEF FlowInv
<1>8. on \subseteq Channels /\ (on # {} => 0 \in on) /\ 0 \in Channels
  BY <1>7, ChannelNumbers DEF Sound, Modem, Env
<1>9. 0 \in {0, Poll}
  OBVIOUS
<1>10. CASE \E c \in on \ {0}, d \in Payloads : Say(c, UIH, 0, d, none, 1) /\ on' = on
  <2>1. PICK c \in on \ {0}, d \in Payloads : Say(c, UIH, 0, d, none, 1) /\ on' = on
    BY <1>10
  <2>2. d \in Seq(Byte) /\ Fits(d)
    BY MuxAssumption DEF Byte, Fits
  <2>3. c \in Channels /\ c # 0 /\ 0 \in on
    BY <1>8
  <2>4. QED
    BY <1>1, <1>2, <1>7, <1>8, <1>9, <2>1, <2>2, <2>3, KindTypes, SendFlow
<1>11. CASE 0 \in on /\ Say(0, UIH, 0, status, none, 1) /\ on' = on
  BY <1>1, <1>2, <1>4, <1>7, <1>8, <1>9, <1>11, KindTypes, SendFlow
<1>12. CASE 0 \in on /\ Say(0, UIH, 0, down, closed, 1) /\ on' = {}
  <2>1. on' \subseteq Channels /\ ~(on' # {}) /\ 0 \notin on'
    BY <1>12
  <2>2. QED
    BY <1>1, <1>2, <1>4, <1>7, <1>8, <1>9, <1>12, <2>1, KindTypes, SendFlow
<1>13. CASE \E c \in on, pf \in {0, Poll} :
              /\ Say(c, DISC, pf, <<>>, ends(pf, c), 1)
              /\ on' = IF pf = Poll THEN Left(c) ELSE on
  <2>1. PICK c \in on, pf \in {0, Poll} :
          /\ Say(c, DISC, pf, <<>>, ends(pf, c), 1)
          /\ on' = IF pf = Poll THEN Left(c) ELSE on
    BY <1>13
  <2>2. c \in Channels /\ 0 \in on
    BY <1>8
  <2>3. on' \subseteq Channels /\ (on' # {} => 0 \in on')
    BY <1>8, <2>1 DEF Left
  <2>4. c # 0 \/ 0 \notin on' \/ pf = 0
    BY <2>1 DEF Left
  <2>5. QED
    BY <1>1, <1>2, <1>4, <1>7, <2>1, <2>2, <2>3, <2>4, KindTypes, SendFlow
<1>14. CASE \E c \in Channels \ {0}, pf \in {0, Poll} :
              /\ 0 \in on /\ Say(c, SABM, pf, <<>>, asks(pf), 1)
              /\ on' = IF pf = Poll THEN on \cup {c} ELSE on
  <2>1. PICK c \in Channels \ {0}, pf \in {0, Poll} :
          /\ 0 \in on /\ Say(c, SABM, pf, <<>>, asks(pf), 1)
          /\ on' = IF pf = Poll THEN on \cup {c} ELSE on
    BY <1>14
  <2>2. on' \subseteq Channels /\ 0 \in on' /\ c \in Channels /\ c # 0
    BY <1>8, <2>1
  <2>3. QED
    BY <1>1, <1>2, <1>4, <1>7, <2>1, <2>2, KindTypes, SendFlow
<1>15. CASE \E c \in Channels \ {0} : Say(c, UIH, 0, late, passed, 1) /\ on' = on
  <2>1. PICK c \in Channels \ {0} : Say(c, UIH, 0, late, passed, 1) /\ on' = on
    BY <1>15
  <2>2. c \in Channels
    OBVIOUS
  <2>3. QED
    BY <1>1, <1>2, <1>4, <1>5, <1>7, <1>8, <1>9, <2>1, <2>2, KindTypes, SendFlow
<1>16. QED
  BY <1>3, <1>10, <1>11, <1>12, <1>13, <1>14, <1>15

\* Nothing happens.
LEMMA FlowStutter == FlowInv /\ UNCHANGED vars => FlowInv'
<1>1. SUFFICES ASSUME FlowInv, UNCHANGED vars, InStep' PROVE Sound(h', line', up', Env')
  BY FlowNextIf
<1>2. h' = h /\ line' = line /\ up' = up /\ Env' = Env /\ odd' = odd
  BY <1>1 DEF vars, Env
<1>3. Sound(h, line, up, Env)
  BY <1>1, <1>2, StaysIn DEF FlowInv
<1>4. QED
  BY <1>2, <1>3

\* Every step keeps the invariant.
LEMMA FlowNext == IInv /\ FlowInv /\ [Next]_vars => FlowInv'
  BY CmuxInitFlow, CmuxCloseFlow, ReadAllFlow, ReadPartFlow, HalSendFlow, CallbackFlow,
     ModemAnswerFlow, ModemSendFlow, FlowStutter DEF Next

\* Both invariants always hold.
LEMMA MuxFlow == Spec => [](IInv /\ FlowInv)
<1>1. Init => IInv /\ FlowInv
  BY InitIInv, InitFlow
<1>2. IInv /\ FlowInv /\ [Next]_vars => (IInv /\ FlowInv)'
  BY NextStep, FlowNext
<1>3. QED
  BY <1>1, <1>2, PTL DEF Spec

\* The first of two sequences in a row is a prefix.
LEMMA CatPrefix ==
  ASSUME NEW S, NEW a \in Seq(S), NEW k \in Seq(S)
  PROVE  IsPrefix(a, Cat(a, k))
<1> DEFINE u == Cat(a, k)
<1>1. u \in Seq(S) /\ Joined(u, a, k)
  BY CatProperties, CatJoined
<1> HIDE DEF u
<1>2. PICK m \in Nat, n \in Nat : m = Len(a) /\ n = Len(k) /\ Len(u) = m + n
  BY <1>1 DEF Joined
<1>3. m <= m + n
  BY <1>2
<1>4. SubSeq(a, 1, m) \in Seq(S) /\ Len(SubSeq(a, 1, m)) = m
      /\ \A i \in 1..m : SubSeq(a, 1, m)[i] = a[i]
  <2>1. m \in Nat /\ m <= Len(a)
    BY <1>2
  <2>2. QED
    BY <2>1, CutFacts
<1>5. SubSeq(u, 1, m) \in Seq(S) /\ Len(SubSeq(u, 1, m)) = m
      /\ \A i \in 1..m : SubSeq(u, 1, m)[i] = u[i]
  <2>1. m \in Nat /\ m <= Len(u)
    BY <1>2, <1>3
  <2>2. QED
    BY <1>1, <2>1, CutFacts
<1>6. \A i \in 1..m : u[i] = a[i]
  BY <1>1, <1>2 DEF Joined
<1>7. SubSeq(a, 1, m) = SubSeq(u, 1, m)
  BY <1>4, <1>5, <1>6, SeqEqual
<1>8. IsPrefix(a, u)
  BY <1>2, <1>3, <1>7 DEF IsPrefix
<1>9. QED
  BY <1>8 DEF u

(***************************************************************************)
(* However the reads cut the stream, what the modem sends in a channel     *)
(* reaches the channel's logical HAL, all of it and in order, while the    *)
(* decoder is in step and every read is decoded: the payloads that a       *)
(* channel got and those that are on its way are the payloads that were    *)
(* sent in it (Data).  (mux.c:893-1012)                                    *)
(***************************************************************************)
THEOREM DeliveredHolds == Spec => []Delivered
<1>1. FlowInv => Delivered
  <2>1. SUFFICES ASSUME FlowInv, h.whole, h.fault = {}, InStep, NEW c \in Channels \ {0}
                 PROVE  IsPrefix(h.got[c], sent[c]) /\ (line = <<>> => h.got[c] = sent[c])
    BY DEF Delivered
  <2>2. PICK q : InPlace(h, line, q) /\ Flow(h, q, up, Env)
    BY <2>1 DEF FlowInv, Sound
  <2>3. Aligned(h.dec, line, q) /\ q \in Seq(Shapes)
    BY <2>1, <2>2 DEF InPlace, Aligned
  <2>4. h.got[c] \in Seq(Seq(Byte)) /\ Cat(h.got[c], DataOf(q, c)) = sent[c]
    BY <2>1, <2>2 DEF Flow, Data, Env
  <2>5. DataOf(q, c) \in Seq(Seq(Byte)) /\ DataOf(<<>>, c) = <<>>
    BY <2>3, DataOfFacts
  <2>6. IsPrefix(h.got[c], sent[c])
    BY <2>4, <2>5, CatPrefix
  <2>7. ASSUME line = <<>> PROVE h.got[c] = sent[c]
    <3>1. Aligned(h.dec, <<>>, q)
      BY <2>3, <2>7
    <3>2. q = <<>>
      BY <3>1, AlignedEmpty
    <3>3. Cat(h.got[c], <<>>) = h.got[c]
      BY <2>4, <2>5, <3>2, CatProperties
    <3>4. QED
      BY <2>4, <2>5, <3>2, <3>3
  <2>8. QED
    BY <2>6, <2>7
<1>2. QED
  BY <1>1, MuxFlow, PTL

(***************************************************************************)
(* What is acted upon was said: no channel opens or closes by a frame with *)
(* one bit of its address, control or check byte wrong, nor by the bytes   *)
(* of a payload, wherever the reads cut them.  (mux.c:864-876)             *)
(***************************************************************************)
THEOREM OnlyWhatWasSaidHolds == Spec => []OnlyWhatWasSaid
<1>1. FlowInv => OnlyWhatWasSaid
  BY DEF FlowInv, OnlyWhatWasSaid, Sound, Kept, Env
<1>2. QED
  BY <1>1, MuxFlow, PTL

(***************************************************************************)
(* When CMUX-UP is announced, the modem has acknowledged every channel in  *)
(* this session, if nothing of the last one was left: the counter is the   *)
(* number of channels that were agreed on and no longer wait (Counted).    *)
(* (mux.c:683-706)                                                         *)
(***************************************************************************)
THEOREM UpMeansAnsweredHolds == Spec => []UpMeansAnswered
<1>1. FlowInv => UpMeansAnswered
  BY DEF FlowInv, UpMeansAnswered, Sound, Kept, Plain, Env
<1>2. QED
  BY <1>1, MuxFlow, PTL

(***************************************************************************)
(* Nothing of the mux is used after it is closed: no object of the plugin  *)
(* has a HAL that is freed, unless a channel has a gap, and the decoder    *)
(* meets no frame behind the one that closed it, unless the modem talks    *)
(* after its own end or its end crosses a new session: the last frame of a *)
(* session is the last of the read (Ending).  (mux.c:829, 1006, 1193-1235) *)
(***************************************************************************)
THEOREM NothingFreedInUseHolds == Spec => []NothingFreedInUse
<1>1. IInv /\ FlowInv => NothingFreedInUse
  <2>1. IInv => (Gapless => "freed" \notin h.fault /\ \A o \in present : h.hal[o] \in h.hals)
    BY DEF IInv, HostInv, Placed
  <2>2. FlowInv => ("null" \in h.fault /\ InStep => odd \cap {"late", "stale"} # {})
    <3>1. FlowInv /\ InStep /\ "null" \in h.fault => odd \cap {"stale", "late"} # {}
      BY DEF FlowInv, Sound, Kept, Plain, Env
    <3>2. QED
      BY <3>1
  <2>3. QED
    BY <2>1, <2>2 DEF NothingFreedInUse
<1>2. QED
  BY <1>1, MuxFlow, PTL
=============================================================================
