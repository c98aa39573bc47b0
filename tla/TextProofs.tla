----------------------------- MODULE TextProofs -----------------------------
(***************************************************************************)
(* Proofs about what the bytes of a text go through.  AtBuffer: the data   *)
(* in the receive buffer always ends with a NUL inside the buffer, and     *)
(* what comes out of it are the lines of the modem, for reads of any size  *)
(* - as long as the modem prompts only where a body waits for it.  Texts:  *)
(* a text of any length comes back from packing and unpacking, and the     *)
(* items of a line with any number of them are its tokens.                 *)
(***************************************************************************)
EXTENDS AtBuffer, Texts, SeqLemmas

\* The bytes b between the read position r and the write position w: no NUL
\* among them, so that a scan ends behind them, and nothing but NULs there.
Sound(b, r, w) ==
  /\ b \in Seq(Bytes) /\ Len(b) \in Nat /\ r \in Nat /\ w \in Nat /\ r <= w /\ w < Len(b)
  /\ \A i \in (r + 1)..w : b[i] # "NUL"
  /\ \A i \in (w + 1)..Len(b) : b[i] = "NUL"

\* No line of those bytes is a prompt alone that a CR ends.
Open(b, r, w) ==
  \A i \in (r + 1)..(w - 1) :
    b[i] = "P" /\ (i > r + 1 => b[i - 1] \in {"CR", "LF"}) => b[i + 1] # "CR"

\* A prompt that is looked at is the prompt of a body.
Prompted == scanning /\ rd < wr /\ buf[wr] = "P" => waiting = "body"

\* The inductive invariant.
BufferInv ==
  /\ Sound(buf, rd, wr) /\ Open(buf, rd, wr)
  /\ waiting \in Requests \cup {"none"} /\ scanning \in BOOLEAN /\ line \in Seq(Bytes)
  /\ Prompted

-----------------------------------------------------------------------------
(* Sequences *)

\* What is between two positions of the buffer.
LEMMA Between ==
  ASSUME NEW S, NEW s \in Seq(S), NEW m \in Nat, NEW n \in Nat, m <= n, n <= Len(s)
  PROVE  /\ SubSeq(s, m + 1, n) \in Seq(S)
         /\ Len(SubSeq(s, m + 1, n)) = n - m
         /\ \A i \in 1..(n - m) : SubSeq(s, m + 1, n)[i] = s[m + i]
<1>1. Len(s) \in Nat
  BY LenProperties
<1>2. \A i \in (m + 1)..n : s[i] \in S
  BY <1>1, ElementOfSeq
<1> DEFINE t == SubSeq(s, m + 1, n)
<1>3. /\ t \in Seq(S)
      /\ Len(t) = IF m + 1 <= n THEN n - (m + 1) + 1 ELSE 0
      /\ \A i \in 1..(n - (m + 1) + 1) : t[i] = s[m + 1 + i - 1]
  <2> HIDE DEF t
  <2>1. m + 1 \in Int /\ n \in Int
    OBVIOUS
  <2>2. QED
    BY <1>2, <2>1, SubSeqProperties DEF t
<1> HIDE DEF t
<1>4. Len(t) = n - m
  BY <1>3
<1>5. ASSUME NEW i \in 1..(n - m) PROVE t[i] = s[m + i]
  <2>1. i \in 1..(n - (m + 1) + 1) /\ m + 1 + i - 1 = m + i
    BY <1>5
  <2>2. QED
    BY <1>3, <2>1
<1>6. QED
  BY <1>3, <1>4, <1>5 DEF t

\* A function on 1..n is a sequence of length n.
LEMMA FunctionIsSeq ==
  ASSUME NEW S, NEW n \in Nat, NEW f \in [1..n -> S]
  PROVE  f \in Seq(S) /\ Len(f) = n
<1>1. f \in Seq(S)
  BY SeqDef
<1>2. DOMAIN f = 1..n /\ DOMAIN f = 1..Len(f) /\ Len(f) \in Nat
  BY <1>1, LenProperties
<1>3. QED
  BY <1>1, <1>2

\* The NULs behind the data.
LEMMA ZerosAreNul ==
  ASSUME NEW n \in Nat
  PROVE  /\ Zeros(n) \in Seq(Bytes) /\ Len(Zeros(n)) = n
         /\ \A i \in 1..n : Zeros(n)[i] = "NUL"
<1>1. Zeros(n) \in [1..n -> Bytes]
  BY DEF Zeros, Bytes
<1>2. QED
  BY <1>1, SeqDef DEF Zeros

\* The bytes that wait.
LEMMA UnreadBytes ==
  ASSUME Sound(buf, rd, wr)
  PROVE  /\ Unread \in Seq(Bytes) /\ Len(Unread) = wr - rd
         /\ \A i \in 1..(wr - rd) : Unread[i] = buf[rd + i]
<1>1. buf \in Seq(Bytes) /\ Len(buf) \in Nat /\ wr \in Nat /\ rd \in Nat /\ rd <= wr /\ wr <= Len(buf)
  BY DEF Sound
<1>2. QED
  BY <1>1, Between DEF Unread

-----------------------------------------------------------------------------
(* Writing *)

\* c, s and v are the bytes and the positions with the data behind what waited,
\* and then NULs, at least one.
Appended(c, s, v, data) ==
  /\ c \in Seq(Bytes) /\ s \in Nat /\ v \in Nat /\ Len(c) \in Nat
  /\ v = s + (wr - rd) + Len(data) /\ v < Len(c)
  /\ \A i \in 1..(wr - rd) : c[s + i] = buf[rd + i]
  /\ \A i \in 1..Len(data) : c[s + (wr - rd) + i] = data[i]
  /\ \A i \in (v + 1)..Len(c) : c[i] = "NUL"

\* What tcore_at_buf_write leaves behind.
Written(data) == Appended(buf', rd', wr', data)

\* There is room behind what waits.
LEMMA WriteBehind ==
  ASSUME Sound(buf, rd, wr), NEW data \in Seq(Bytes), Write(data), wr + Len(data) < Len(buf)
  PROVE  Written(data)
<1> DEFINE n == Len(data)
           L == Len(buf)
           c == [i \in 1..L |-> IF i \in (wr + 1)..(wr + n) THEN data[i - wr] ELSE buf[i]]
<1>1. /\ L \in Nat /\ wr \in Nat /\ rd \in Nat /\ rd <= wr /\ wr < L /\ n \in Nat
      /\ data \in [1..n -> Bytes] /\ buf \in [1..L -> Bytes]
      /\ \A i \in (wr + 1)..L : buf[i] = "NUL"
  BY LenProperties DEF Sound
<1>2. buf' = c /\ wr' = wr + n /\ rd' = rd /\ wr + n < L
  BY DEF Write
<1> HIDE DEF n, L
<1>3. c \in [1..L -> Bytes]
  <2>1. ASSUME NEW i \in 1..L
        PROVE  (IF i \in (wr + 1)..(wr + n) THEN data[i - wr] ELSE buf[i]) \in Bytes
    <3>1. CASE i \in (wr + 1)..(wr + n)
      <4>1. i - wr \in 1..n
        BY <1>1, <3>1
      <4>2. QED
        BY <1>1, <3>1, <4>1
    <3>2. CASE i \notin (wr + 1)..(wr + n)
      BY <1>1, <3>2
    <3>3. QED
      BY <3>1, <3>2
  <2>2. QED
    BY <2>1
<1>4. c \in Seq(Bytes) /\ Len(c) = L
  <2> HIDE DEF c
  <2>1. QED
    BY <1>1, <1>3, FunctionIsSeq
<1>5. ASSUME NEW i \in 1..(wr - rd) PROVE c[rd + i] = buf[rd + i]
  BY <1>1
<1>6. ASSUME NEW i \in 1..n PROVE c[rd + (wr - rd) + i] = data[i]
  <2>1. rd + (wr - rd) + i = wr + i
    BY <1>1
  <2>2. wr + i \in 1..L /\ wr + i \in (wr + 1)..(wr + n) /\ (wr + i) - wr = i
    BY <1>1, <1>2
  <2>3. c[wr + i] = data[(wr + i) - wr]
    BY <2>2
  <2>4. QED
    BY <2>1, <2>2, <2>3
<1>7. ASSUME NEW i \in (wr + n + 1)..L PROVE c[i] = "NUL"
  <2>1. i \in 1..L /\ i \notin (wr + 1)..(wr + n) /\ i \in (wr + 1)..L
    BY <1>1, <1>2
  <2>2. buf[i] = "NUL"
    BY <1>1, <2>1
  <2>3. QED
    BY <2>1, <2>2
<1> HIDE DEF c
<1>8. wr + n = rd + (wr - rd) + n
  BY <1>1
<1>9. QED
  BY <1>1, <1>2, <1>4, <1>5, <1>6, <1>7, <1>8 DEF Written, Appended, n

\* What was read is shifted out, and the buffer is doubled if it must be.
LEMMA WriteShifted ==
  ASSUME Sound(buf, rd, wr), NEW data \in Seq(Bytes), Write(data), ~(wr + Len(data) < Len(buf))
  PROVE  Written(data)
<1> DEFINE n == Len(data)
           kept == Len(Unread)
<1>1. /\ Len(buf) \in Nat /\ wr \in Nat /\ rd \in Nat /\ rd <= wr /\ n \in Nat
      /\ data \in [1..n -> Bytes]
  BY LenProperties DEF Sound
<1>2. /\ Unread \in Seq(Bytes) /\ kept = wr - rd
      /\ \A i \in 1..(wr - rd) : Unread[i] = buf[rd + i]
  BY UnreadBytes
<1>3. PICK size \in BufferSize(kept + n) : buf' = Unread \o data \o Zeros(size - kept - n)
  BY DEF Write
<1>4. rd' = 0 /\ wr' = kept + n
  BY DEF Write
<1>5. kept \in Nat /\ size \in Nat /\ size > kept + n
  BY <1>1, <1>2 DEF BufferSize
<1> DEFINE z == size - kept - n
           d == Unread \o data
<1>6. z \in Nat /\ kept + n + z = size /\ z > 0
  BY <1>1, <1>5
<1> HIDE DEF z, kept, n
<1>7. /\ Zeros(z) \in Seq(Bytes) /\ Len(Zeros(z)) = z
      /\ \A i \in 1..z : Zeros(z)[i] = "NUL"
  BY <1>6, ZerosAreNul
<1>8. /\ d \in Seq(Bytes) /\ Len(d) = kept + n
      /\ \A i \in 1..(kept + n) : d[i] = IF i <= kept THEN Unread[i] ELSE data[i - kept]
  BY <1>2, ConcatProperties DEF kept, n
<1> HIDE DEF d
<1>9. /\ d \o Zeros(z) \in Seq(Bytes) /\ Len(d \o Zeros(z)) = kept + n + z
      /\ \A i \in 1..(kept + n + z) : (d \o Zeros(z))[i] =
           IF i <= kept + n THEN d[i] ELSE Zeros(z)[i - (kept + n)]
  <2> DEFINE e == Zeros(z)
  <2> HIDE DEF e
  <2>1. /\ d \o e \in Seq(Bytes) /\ Len(d \o e) = Len(d) + Len(e)
        /\ \A i \in 1..Len(d) + Len(e) :
             (d \o e)[i] = IF i <= Len(d) THEN d[i] ELSE e[i - Len(d)]
    BY <1>7, <1>8, ConcatProperties DEF e
  <2>2. Len(d) = kept + n /\ Len(e) = z
    BY <1>7, <1>8 DEF e
  <2>3. QED
    BY <2>1, <2>2 DEF e
<1>10. buf' = d \o Zeros(z)
  BY <1>3 DEF d, z, kept, n
<1>11. buf' \in Seq(Bytes) /\ Len(buf') = size
  BY <1>6, <1>9, <1>10
<1>12. ASSUME NEW i \in 1..(wr - rd) PROVE buf'[i] = buf[rd + i]
  <2>1. i \in 1..(kept + n + z) /\ i \in 1..(kept + n) /\ i <= kept /\ i <= kept + n
    BY <1>1, <1>2, <1>6
  <2>2. QED
    BY <1>2, <1>8, <1>9, <1>10, <2>1
<1>13. ASSUME NEW i \in 1..n PROVE buf'[kept + i] = data[i]
  <2>1. /\ kept + i \in 1..(kept + n + z) /\ kept + i \in 1..(kept + n) /\ ~(kept + i <= kept)
        /\ kept + i <= kept + n /\ (kept + i) - kept = i
    BY <1>1, <1>5, <1>6
  <2>2. buf'[kept + i] = d[kept + i] /\ d[kept + i] = data[(kept + i) - kept]
    BY <1>8, <1>9, <1>10, <2>1
  <2>3. QED
    BY <2>1, <2>2
<1>14. ASSUME NEW i \in (kept + n + 1)..size PROVE buf'[i] = "NUL"
  <2>1. /\ i \in 1..(kept + n + z) /\ ~(i <= kept + n)
        /\ i - (kept + n) \in 1..z
    BY <1>1, <1>5, <1>6
  <2>2. buf'[i] = Zeros(z)[i - (kept + n)]
    BY <1>9, <1>10, <2>1
  <2>3. QED
    BY <1>7, <2>1, <2>2
<1>15. \A i \in 1..(wr - rd) : 0 + i = i
  OBVIOUS
<1>16. wr' = 0 + (wr - rd) + n /\ 0 + (wr - rd) = kept
  BY <1>1, <1>2, <1>4
<1>17. QED
  BY <1>1, <1>4, <1>5, <1>11, <1>12, <1>13, <1>14, <1>15, <1>16 DEF Written, Appended, n

\* Either way of writing appends the data.
LEMMA WriteWrites ==
  ASSUME Sound(buf, rd, wr), NEW data \in Seq(Bytes), Write(data)
  PROVE  Written(data)
BY WriteBehind, WriteShifted

-----------------------------------------------------------------------------
(* The steps *)

\* Data behind sound bytes leaves them sound.
LEMMA AppendedSound ==
  ASSUME Sound(buf, rd, wr), NEW c, NEW s, NEW v, NEW data \in Seq(Bytes \ {"NUL"}),
         data # <<>>, Appended(c, s, v, data)
  PROVE  Sound(c, s, v) /\ Contains(data, c[v])
<1> DEFINE n == Len(data)
           kept == wr - rd
<1>1. n \in Nat \ {0} /\ \A i \in 1..n : data[i] # "NUL"
  BY EmptySeq, LenProperties
<1>2. kept \in Nat /\ \A i \in 1..kept : buf[rd + i] # "NUL"
  BY DEF Sound
<1>3. /\ c \in Seq(Bytes) /\ s \in Nat /\ v \in Nat /\ Len(c) \in Nat
      /\ v = s + kept + n /\ v < Len(c)
      /\ \A i \in 1..kept : c[s + i] = buf[rd + i]
      /\ \A i \in 1..n : c[s + kept + i] = data[i]
      /\ \A i \in (v + 1)..Len(c) : c[i] = "NUL"
  BY DEF Appended
<1> HIDE DEF n, kept
<1>4. ASSUME NEW i \in (s + 1)..v PROVE c[i] # "NUL"
  <2>1. CASE i <= s + kept
    <3>1. i - s \in 1..kept /\ s + (i - s) = i
      BY <1>2, <1>3, <2>1
    <3>2. c[s + (i - s)] # "NUL"
      BY <1>2, <1>3, <3>1
    <3>3. QED
      BY <3>1, <3>2
  <2>2. CASE ~(i <= s + kept)
    <3> DEFINE j == i - (s + kept)
    <3>1. j \in 1..n /\ s + kept + j = i
      BY <1>1, <1>2, <1>3, <2>2
    <3> HIDE DEF j
    <3>2. QED
      BY <1>1, <1>3, <3>1
  <2>3. QED
    BY <2>1, <2>2
<1>5. n \in 1..n /\ c[v] = data[n]
  BY <1>1, <1>3
<1>6. Contains(data, c[v])
  BY <1>5 DEF Contains, n
<1>7. s <= v
  BY <1>1, <1>2, <1>3
<1>8. QED
  BY <1>3, <1>4, <1>6, <1>7 DEF Sound

\* What waits after a write is what waited, and then the data.
LEMMA AppendedBytes ==
  ASSUME Sound(buf, rd, wr), NEW c, NEW s, NEW v, NEW data \in Seq(Bytes),
         Appended(c, s, v, data)
  PROVE  /\ Unread \o data \in Seq(Bytes) /\ Len(Unread \o data) = v - s
         /\ \A i \in 1..(v - s) : (Unread \o data)[i] = c[s + i]
         /\ SubSeq(c, s + 1, v) = Unread \o data
<1> DEFINE n == Len(data)
           kept == wr - rd
           t == Unread \o data
<1>1. /\ Unread \in Seq(Bytes) /\ Len(Unread) = kept /\ kept \in Nat /\ n \in Nat
      /\ \A i \in 1..kept : Unread[i] = buf[rd + i]
  BY UnreadBytes, LenProperties DEF Sound
<1>2. /\ c \in Seq(Bytes) /\ s \in Nat /\ v \in Nat /\ Len(c) \in Nat
      /\ v = s + kept + n /\ v < Len(c)
      /\ \A i \in 1..kept : c[s + i] = buf[rd + i]
      /\ \A i \in 1..n : c[s + kept + i] = data[i]
  BY DEF Appended
<1>3. /\ t \in Seq(Bytes) /\ Len(t) = kept + n
      /\ \A i \in 1..(kept + n) : t[i] = IF i <= kept THEN Unread[i] ELSE data[i - kept]
  <2>1. /\ t \in Seq(Bytes) /\ Len(t) = Len(Unread) + Len(data)
        /\ \A i \in 1..Len(Unread) + Len(data) :
             t[i] = IF i <= Len(Unread) THEN Unread[i] ELSE data[i - Len(Unread)]
    BY <1>1, ConcatProperties
  <2> HIDE DEF t
  <2>2. Len(Unread) = kept /\ Len(data) = n
    BY <1>1
  <2>3. QED
    BY <2>1, <2>2
<1> HIDE DEF n, kept, t
<1>4. Len(t) = v - s
  BY <1>1, <1>2, <1>3
<1>5. ASSUME NEW i \in 1..(v - s) PROVE t[i] = c[s + i]
  <2>1. i \in 1..(kept + n)
    BY <1>1, <1>2
  <2>2. CASE i <= kept
    <3>1. i \in 1..kept
      BY <1>1, <2>2
    <3>2. QED
      BY <1>1, <1>2, <1>3, <2>1, <3>1, <2>2
  <2>3. CASE ~(i <= kept)
    <3>1. i - kept \in 1..n /\ s + kept + (i - kept) = s + i
      BY <1>1, <1>2, <2>1, <2>3
    <3>2. c[s + kept + (i - kept)] = data[i - kept]
      BY <1>2, <3>1
    <3>3. QED
      BY <1>3, <2>1, <2>3, <3>1, <3>2
  <2>4. QED
    BY <2>2, <2>3
<1>6. SubSeq(c, s + 1, v) = t
  <2>1. s <= v /\ v <= Len(c)
    BY <1>1, <1>2
  <2>2. /\ SubSeq(c, s + 1, v) \in Seq(Bytes)
        /\ Len(SubSeq(c, s + 1, v)) = v - s
        /\ \A i \in 1..(v - s) : SubSeq(c, s + 1, v)[i] = c[s + i]
    BY <1>2, <2>1, Between
  <2> DEFINE u == SubSeq(c, s + 1, v)
  <2>3. u \in Seq(Bytes) /\ Len(u) = Len(t) /\ \A i \in 1..Len(u) : u[i] = t[i]
    BY <1>4, <1>5, <2>2
  <2> HIDE DEF u
  <2>4. u = t
    BY <1>3, <2>3, SeqEqual
  <2>5. QED
    BY <2>4 DEF u
<1>7. QED
  BY <1>3, <1>4, <1>5, <1>6 DEF t

\* A modem that prompts as it should leaves no prompt that ends a line.
LEMMA AppendedOpen ==
  ASSUME Sound(buf, rd, wr), NEW c, NEW s, NEW v, NEW data \in Seq(Bytes),
         Appended(c, s, v, data), Prompting(data)
  PROVE  Open(c, s, v)
<1> DEFINE t == Unread \o data
<1>1. Len(t) = v - s /\ \A i \in 1..(v - s) : t[i] = c[s + i]
  BY AppendedBytes
<1>2. \A i \in 1..(Len(t) - 1) :
        t[i] = "P" /\ (i > 1 => t[i - 1] \in {"CR", "LF"}) => t[i + 1] # "CR"
  BY DEF Prompting
<1>3. s \in Nat /\ v \in Nat
  BY DEF Appended
<1> HIDE DEF t
<1>4. SUFFICES ASSUME NEW i \in (s + 1)..(v - 1), c[i] = "P",
                      i > s + 1 => c[i - 1] \in {"CR", "LF"}
               PROVE  c[i + 1] # "CR"
  BY DEF Open
<1> DEFINE j == i - s
<1>5. /\ j \in 1..(v - s) /\ j \in 1..((v - s) - 1) /\ j + 1 \in 1..(v - s)
      /\ s + j = i /\ s + (j + 1) = i + 1
  BY <1>3
<1>6. ASSUME j > 1 PROVE j - 1 \in 1..(v - s) /\ s + (j - 1) = i - 1 /\ i > s + 1
  BY <1>3, <1>5, <1>6
<1> HIDE DEF j
<1>7. t[j] = "P" /\ t[j + 1] = c[i + 1]
  BY <1>1, <1>4, <1>5
<1>8. j > 1 => t[j - 1] \in {"CR", "LF"}
  BY <1>1, <1>4, <1>6
<1>9. QED
  BY <1>1, <1>2, <1>5, <1>7, <1>8

\* A read: tcore_at_process up to its loop.
LEMMA ReceiveKeeps ==
  ASSUME ~StrayPrompts, BufferInv, Receive
  PROVE  BufferInv' /\ \E data \in Chunks : Unread' = Unread \o data
<1>1. PICK data \in Chunks : Prompting(data) /\ Write(data)
  BY DEF Receive
<1>2. data # <<>> /\ data \in Seq(Bytes \ {"NUL"}) /\ data \in Seq(Bytes)
  BY BufferAssumption, SeqMonotonic, Bytes \ {"NUL"} \subseteq Bytes
<1>3. Sound(buf, rd, wr) /\ Appended(buf', rd', wr', data)
  BY <1>1, <1>2, WriteWrites DEF BufferInv, Written
<1>4. Sound(buf', rd', wr') /\ Contains(data, buf'[wr'])
  BY <1>2, <1>3, AppendedSound
<1>5. Open(buf', rd', wr')
  BY <1>1, <1>2, <1>3, AppendedOpen
<1>6. waiting' = waiting /\ scanning' = TRUE /\ line' = line
  BY DEF Receive
<1>7. BufferInv'
  BY <1>1, <1>4, <1>5, <1>6 DEF BufferInv, Prompted, Prompting
<1>8. SubSeq(buf', rd' + 1, wr') = Unread \o data
  BY <1>2, <1>3, AppendedBytes
<1>9. QED
  BY <1>7, <1>8 DEF Unread

\* A line that ends with CR, within the bytes that wait.
OrdinaryLine(p, e) ==
  /\ p \in Nat /\ e \in Nat /\ rd <= p /\ p < e /\ e < wr
  /\ \A i \in (rd + 1)..p : buf[i] \in {"CR", "LF"}
  /\ buf[p + 1] \notin {"CR", "LF"}
  /\ \A i \in (p + 1)..e : buf[i] # "CR"
  /\ buf[e + 1] = "CR"

\* A prompt is the last of the bytes that wait.
PromptLine(p, e) ==
  /\ p \in Nat /\ rd <= p /\ e = p + 1 /\ e = wr /\ buf[wr] = "P"
  /\ \A i \in (rd + 1)..p : buf[i] \in {"CR", "LF"}

\* What _find_next_EOL finds is a prompt that sends a body, or ends before the
\* end of the bytes that wait.
LEMMA LineFound ==
  ASSUME BufferInv, scanning, NEW p \in 0..(Len(buf) - 1), NEW e \in 0..(Len(buf) - 1),
         LineAt(p, e)
  PROVE  \/ SendsBody(p, e) /\ PromptLine(p, e)
         \/ ~SendsBody(p, e) /\ OrdinaryLine(p, e)
<1>1. /\ buf \in Seq(Bytes) /\ Len(buf) \in Nat /\ rd \in Nat /\ wr \in Nat /\ rd <= wr
      /\ wr < Len(buf) /\ \A i \in (rd + 1)..wr : buf[i] # "NUL"
      /\ \A i \in (wr + 1)..Len(buf) : buf[i] = "NUL"
  BY DEF BufferInv, Sound
<1>2. \A i \in 1..Len(buf) : buf[i] \in Bytes
  BY <1>1, ElementOfSeq
<1>3. /\ p \in Nat /\ e \in Nat /\ rd <= p /\ p + 1 <= Len(buf) /\ e + 1 <= Len(buf)
      /\ buf[p + 1] \notin {"CR", "LF"}
  BY <1>1 DEF LineAt, FirstOf, At
<1>4. ASSUME NEW i \in (rd + 1)..p PROVE buf[i] \in {"CR", "LF"}
  <2>1. i - 1 \in rd..(p - 1) /\ (i - 1) + 1 = i /\ i \in 1..Len(buf)
    BY <1>1, <1>3
  <2>2. buf[i] \notin Bytes \ {"CR", "LF"}
    BY <2>1 DEF LineAt, FirstOf, At
  <2>3. QED
    BY <1>2, <2>1, <2>2
<1>5. CASE PromptAt(p)
  <2>1. buf[p + 1] = "P" /\ buf[(p + 1) + 1] = "NUL" /\ e = p + 1
    BY <1>5 DEF PromptAt, At, LineAt
  <2>2. ~(p + 1 > wr)
    <3>1. ASSUME p + 1 > wr PROVE FALSE
      <4>1. p + 1 \in (wr + 1)..Len(buf)
        BY <1>1, <1>3, <3>1
      <4>2. QED
        BY <1>1, <2>1, <4>1
    <3>2. QED
      BY <3>1
  <2>3. ~(p + 2 <= wr)
    <3>1. ASSUME p + 2 <= wr PROVE FALSE
      <4>1. (p + 1) + 1 \in (rd + 1)..wr
        BY <1>1, <1>3, <3>1
      <4>2. QED
        BY <1>1, <2>1, <4>1
    <3>2. QED
      BY <3>1
  <2>4. p + 1 = wr /\ rd < wr
    BY <1>1, <1>3, <2>2, <2>3
  <2>5. waiting = "body"
    BY <2>1, <2>4 DEF BufferInv, Prompted
  <2>6. QED
    BY <1>3, <1>4, <2>1, <2>4, <2>5 DEF SendsBody, PromptLine, At
<1>6. CASE ~PromptAt(p)
  <2>1. /\ p <= e /\ buf[e + 1] = "CR"
        /\ \A j \in p..(e - 1) : buf[j + 1] \notin {"CR", "NUL"}
    BY <1>3, <1>6 DEF LineAt, FirstOf, At
  <2>2. p < e
    <3>1. p # e
      BY <1>3, <2>1
    <3>2. QED
      BY <1>3, <2>1, <3>1
  <2>3. e < wr
    <3>1. ASSUME ~(e < wr) PROVE FALSE
      <4>1. e + 1 \in (wr + 1)..Len(buf)
        BY <1>1, <1>3, <3>1
      <4>2. QED
        BY <1>1, <2>1, <4>1
    <3>2. QED
      BY <3>1
  <2>4. ASSUME NEW i \in (p + 1)..e PROVE buf[i] # "CR"
    <3>1. i - 1 \in p..(e - 1) /\ (i - 1) + 1 = i
      BY <1>3
    <3>2. QED
      BY <2>1, <3>1
  <2>5. ~SendsBody(p, e)
    <3>1. ASSUME buf[p + 1] = "P", e = p + 1 PROVE FALSE
      <4>1. p + 1 \in (rd + 1)..(wr - 1) /\ buf[(p + 1) + 1] = "CR"
        BY <1>1, <1>3, <2>1, <2>3, <3>1
      <4>2. ASSUME p + 1 > rd + 1 PROVE buf[(p + 1) - 1] \in {"CR", "LF"}
        <5>1. p \in (rd + 1)..p /\ (p + 1) - 1 = p
          BY <1>1, <1>3, <4>2
        <5>2. QED
          BY <1>4, <5>1
      <4>3. QED
        BY <3>1, <4>1, <4>2 DEF BufferInv, Open
    <3>2. QED
      BY <3>1 DEF SendsBody, At
  <2>6. QED
    BY <1>3, <1>4, <2>1, <2>2, <2>3, <2>4, <2>5 DEF OrdinaryLine
<1>7. QED
  BY <1>5, <1>6

-----------------------------------------------------------------------------
(* What a turn of the loop takes *)

\* Behind a line that a CR ends, the bytes that wait are what they were.
LEMMA LineTaken ==
  ASSUME BufferInv, NEW p, NEW e, OrdinaryLine(p, e), NEW c,
         c = [buf EXCEPT ![e + 1] = "NUL"]
  PROVE  /\ Sound(c, e + 1, wr) /\ Open(c, e + 1, wr) /\ c[wr] \in {buf[wr], "NUL"}
         /\ \A i \in (e + 2)..wr : c[i] = buf[i]
<1>1. /\ buf \in Seq(Bytes) /\ Len(buf) \in Nat /\ rd \in Nat /\ wr \in Nat /\ rd <= wr
      /\ wr < Len(buf) /\ \A i \in (rd + 1)..wr : buf[i] # "NUL"
      /\ \A i \in (wr + 1)..Len(buf) : buf[i] = "NUL"
      /\ buf \in [1..Len(buf) -> Bytes]
  BY LenProperties DEF BufferInv, Sound
<1>2. p \in Nat /\ e \in Nat /\ rd <= p /\ p < e /\ e < wr /\ buf[e + 1] = "CR"
  BY DEF OrdinaryLine
<1> DEFINE L == Len(buf)
<1> HIDE DEF L
<1>3. L = Len(buf) /\ L \in Nat
  BY <1>1 DEF L
<1>4. c \in [1..L -> Bytes] /\ \A i \in 1..L : c[i] = IF i = e + 1 THEN "NUL" ELSE buf[i]
  BY <1>1, <1>2, <1>3 DEF Bytes
<1>5. c \in Seq(Bytes) /\ Len(c) = L
  <2>1. \A f \in [1..L -> Bytes] : f \in Seq(Bytes) /\ Len(f) = L
    BY <1>3, FunctionIsSeq
  <2>2. QED
    BY <1>4, <2>1, Zenon
<1>6. ASSUME NEW i \in (e + 2)..L PROVE c[i] = buf[i]
  <2>1. i \in 1..L /\ i # e + 1
    BY <1>2, <1>3
  <2>2. QED
    BY <1>4, <2>1
<1>7. ASSUME NEW i \in (e + 2)..wr PROVE c[i] = buf[i] /\ buf[i] # "NUL"
  <2>1. i \in (e + 2)..L /\ i \in (rd + 1)..wr
    BY <1>1, <1>2, <1>3
  <2>2. QED
    BY <1>1, <1>6, <2>1
<1>8. ASSUME NEW i \in (wr + 1)..L PROVE c[i] = "NUL"
  <2>1. i \in (e + 2)..L
    BY <1>1, <1>2, <1>3
  <2>2. QED
    BY <1>1, <1>3, <1>6, <2>1
<1>9. e + 1 \in Nat /\ e + 1 <= wr /\ (e + 1) + 1 = e + 2 /\ wr < L /\ wr \in 1..L
  BY <1>1, <1>2, <1>3
<1>10. Sound(c, e + 1, wr)
  <2>1. \A i \in ((e + 1) + 1)..wr : c[i] # "NUL"
    BY <1>7, <1>9
  <2>2. QED
    BY <1>1, <1>3, <1>5, <1>8, <1>9, <2>1 DEF Sound
<1>11. ASSUME NEW i \in (e + 2)..(wr - 1), c[i] = "P",
              i > e + 2 => c[i - 1] \in {"CR", "LF"}
       PROVE  c[i + 1] # "CR"
  <2>1. /\ i \in (rd + 1)..(wr - 1) /\ i \in (e + 2)..wr /\ i + 1 \in (e + 2)..wr
        /\ (i = e + 2 \/ i > e + 2)
    BY <1>1, <1>2
  <2>2. buf[i] = "P" /\ c[i + 1] = buf[i + 1]
    BY <1>7, <1>11, <2>1
  <2>3. buf[i - 1] \in {"CR", "LF"}
    <3>1. CASE i = e + 2
      <4>1. i - 1 = e + 1
        BY <1>2, <3>1
      <4>2. QED
        BY <1>2, <4>1
    <3>2. CASE i > e + 2
      <4>1. i - 1 \in (e + 2)..wr
        BY <1>1, <1>2, <3>2
      <4>2. QED
        BY <1>7, <1>11, <3>2, <4>1
    <3>3. QED
      BY <2>1, <3>1, <3>2
  <2>4. QED
    BY <2>1, <2>2, <2>3 DEF BufferInv, Open
<1>12. Open(c, e + 1, wr)
  BY <1>9, <1>11 DEF Open
<1>13. QED
  BY <1>4, <1>7, <1>9, <1>10, <1>12

\* Behind a prompt nothing waits.
LEMMA PromptTaken ==
  ASSUME BufferInv, NEW p, NEW e, PromptLine(p, e)
  PROVE  /\ [buf EXCEPT ![e + 1] = "NUL"] = buf
         /\ Sound(buf, p + 1, wr) /\ Open(buf, p + 1, wr) /\ p + 1 = wr
<1>1. /\ buf \in Seq(Bytes) /\ Len(buf) \in Nat /\ wr \in Nat /\ wr < Len(buf)
      /\ \A i \in (wr + 1)..Len(buf) : buf[i] = "NUL"
      /\ DOMAIN buf = 1..Len(buf) /\ buf \in [1..Len(buf) -> Bytes]
  BY LenProperties DEF BufferInv, Sound
<1>2. p + 1 = wr /\ e = wr
  BY DEF PromptLine
<1>3. wr + 1 \in (wr + 1)..Len(buf) /\ \A i \in (wr + 1)..wr : FALSE
  BY <1>1
<1>4. buf[wr + 1] = "NUL"
  BY <1>1, <1>3
<1>5. [buf EXCEPT ![wr + 1] = "NUL"] = buf
  BY <1>1, <1>4
<1>6. Sound(buf, wr, wr)
  BY <1>1, <1>3 DEF Sound
<1>7. Open(buf, wr, wr)
  <2>1. \A i \in (wr + 1)..(wr - 1) : FALSE
    BY <1>1
  <2>2. QED
    BY <2>1 DEF Open
<1>8. QED
  BY <1>2, <1>5, <1>6, <1>7

\* The turn of the loop that finds a line.
LEMMA ScanLineKeeps ==
  ASSUME BufferInv, ScanLine
  PROVE  BufferInv'
<1>1. PICK p \in 0..(Len(buf) - 1), e \in 0..(Len(buf) - 1) :
        /\ LineAt(p, e)
        /\ buf' = [buf EXCEPT ![e + 1] = "NUL"]
        /\ \/ /\ SendsBody(p, e)
              /\ rd' = p + 1
              /\ scanning' = FALSE
              /\ UNCHANGED <<waiting, line>>
           \/ /\ ~SendsBody(p, e)
              /\ line' = SubSeq(buf, p + 1, e)
              /\ rd' = LineNext(e)
              /\ IF waiting # "none" /\ At(p) = "K"
                 THEN waiting' = "none" /\ scanning' = FALSE
                 ELSE UNCHANGED <<waiting, scanning>>
  BY DEF ScanLine
<1>2. scanning /\ wr' = wr
  BY DEF ScanLine
<1>3. \/ SendsBody(p, e) /\ PromptLine(p, e)
      \/ ~SendsBody(p, e) /\ OrdinaryLine(p, e)
  BY <1>1, <1>2, LineFound
<1>4. CASE SendsBody(p, e) /\ PromptLine(p, e)
  <2>1. Sound(buf', rd', wr') /\ Open(buf', rd', wr')
    BY <1>1, <1>2, <1>4, PromptTaken
  <2>2. QED
    BY <1>1, <1>4, <2>1 DEF BufferInv, Prompted
<1>5. CASE ~SendsBody(p, e) /\ OrdinaryLine(p, e)
  <2>1. /\ Sound(buf', e + 1, wr) /\ Open(buf', e + 1, wr) /\ buf'[wr] \in {buf[wr], "NUL"}
    BY <1>1, <1>5, LineTaken
  <2>2. rd' = e + 1
    BY <1>1, <1>5 DEF LineNext
  <2>3. line' \in Seq(Bytes)
    <3>1. p \in Nat /\ e \in Nat /\ p <= e /\ e <= Len(buf) /\ buf \in Seq(Bytes)
      BY <1>5 DEF OrdinaryLine, BufferInv, Sound
    <3>2. QED
      BY <1>1, <1>5, <3>1, Between
  <2>4. waiting' \in Requests \cup {"none"} /\ scanning' \in BOOLEAN
    BY <1>1, <1>5 DEF BufferInv
  <2>5. Prompted'
    <3>1. SUFFICES ASSUME scanning', buf'[wr] = "P" PROVE waiting' = "body"
      BY <1>2 DEF Prompted
    <3>2. waiting' = waiting /\ buf[wr] = "P"
      BY <1>1, <1>5, <2>1, <3>1
    <3>3. rd < wr
      BY <1>5 DEF OrdinaryLine, BufferInv, Sound
    <3>4. QED
      BY <1>2, <3>2, <3>3 DEF BufferInv, Prompted
  <2>6. QED
    BY <1>2, <2>1, <2>2, <2>3, <2>4, <2>5 DEF BufferInv
<1>6. QED
  BY <1>3, <1>4, <1>5

\* Every step keeps the invariant.
LEMMA BufferStep ==
  ASSUME ~StrayPrompts, BufferInv, [Next]_vars
  PROVE  BufferInv'
<1>1. CASE SetRequest
  <2>1. waiting' \in Requests /\ waiting = "none"
        /\ UNCHANGED <<buf, rd, wr, scanning, line>>
    BY <1>1 DEF SetRequest
  <2>2. QED
    BY <2>1 DEF BufferInv, Prompted
<1>2. CASE Receive
  BY <1>2, ReceiveKeeps
<1>3. CASE ScanLine
  BY <1>3, ScanLineKeeps
<1>4. CASE ScanEnd
  BY <1>4 DEF ScanEnd, BufferInv, Prompted
<1>5. CASE UNCHANGED vars
  BY <1>5 DEF vars, BufferInv, Prompted
<1>6. QED
  BY <1>1, <1>2, <1>3, <1>4, <1>5 DEF Next

\* The invariant holds of the empty buffer.
LEMMA BufferInit == Init => BufferInv
<1>1. SUFFICES ASSUME Init PROVE BufferInv
  OBVIOUS
<1>2. /\ Size \in Nat /\ Size > 0 /\ buf = Zeros(Size) /\ rd = 0 /\ wr = 0
      /\ waiting = "none" /\ scanning = FALSE /\ line = <<>>
  BY <1>1, BufferAssumption DEF Init
<1>3. buf \in Seq(Bytes) /\ Len(buf) = Size /\ \A i \in 1..Size : buf[i] = "NUL"
  BY <1>2, ZerosAreNul
<1>4. (\A i \in (0 + 1)..0 : FALSE) /\ (\A i \in (0 + 1)..(0 - 1) : FALSE) /\ 0 + 1 = 1
  OBVIOUS
<1>5. Sound(buf, rd, wr) /\ Open(buf, rd, wr)
  BY <1>2, <1>3, <1>4 DEF Sound, Open
<1>6. line \in Seq(Bytes)
  BY <1>2, EmptySeq
<1>7. waiting \in Requests \cup {"none"} /\ scanning \in BOOLEAN /\ Prompted
  BY <1>2 DEF Prompted
<1>8. QED
  BY <1>5, <1>6, <1>7 DEF BufferInv

\* The invariant implies that the data is terminated.
LEMMA BufferInvTerminated == BufferInv => Terminated
<1>1. SUFFICES ASSUME BufferInv PROVE Terminated
  OBVIOUS
<1>2. /\ buf \in Seq(Bytes) /\ Len(buf) \in Nat /\ rd \in Nat /\ wr \in Nat /\ rd <= wr
      /\ wr < Len(buf) /\ \A i \in (wr + 1)..Len(buf) : buf[i] = "NUL"
  BY <1>1 DEF BufferInv, Sound
<1>3. TypeOK
  BY <1>1, <1>2 DEF BufferInv, TypeOK
<1>4. ASSUME NEW i \in wr..(Len(buf) - 1) PROVE At(i) = "NUL"
  <2>1. i + 1 \in (wr + 1)..Len(buf)
    BY <1>2
  <2>2. QED
    BY <1>2, <2>1 DEF At
<1>5. QED
  BY <1>2, <1>3, <1>4 DEF Terminated

\* However long the reads are and however the lines are cut, the data in the
\* receive buffer ends with a NUL inside it, and the read position never passes
\* the write position (tcore_at_buf_write, the loop of tcore_at_process) - for a
\* modem that prompts only where a body waits.
THEOREM BufferTerminated == ASSUME ~StrayPrompts PROVE Spec => []Terminated
<1>1. BufferInv /\ [Next]_vars => BufferInv'
  BY BufferStep
<1>2. QED
  BY <1>1, BufferInit, BufferInvTerminated, PTL DEF Spec

-----------------------------------------------------------------------------
(* The lines *)

\* A part of a part is a part.
LEMMA PartOfPart ==
  ASSUME NEW S, NEW s \in Seq(S), NEW m \in Nat, NEW n \in Nat, m <= n, n <= Len(s),
         NEW i \in Nat, NEW j \in Nat, i <= j, j <= n - m
  PROVE  SubSeq(SubSeq(s, m + 1, n), i + 1, j) = SubSeq(s, (m + i) + 1, m + j)
<1> DEFINE t == SubSeq(s, m + 1, n)
           u == SubSeq(t, i + 1, j)
           w == SubSeq(s, (m + i) + 1, m + j)
<1>1. /\ t \in Seq(S) /\ Len(t) = n - m
      /\ \A k \in 1..(n - m) : t[k] = s[m + k]
  BY Between
<1> HIDE DEF t
<1>2. u \in Seq(S) /\ Len(u) = j - i /\ \A k \in 1..(j - i) : u[k] = t[i + k]
  BY <1>1, Between
<1> HIDE DEF u
<1>3. /\ m + i \in Nat /\ m + j \in Nat /\ m + i <= m + j /\ m + j <= Len(s)
      /\ (m + j) - (m + i) = j - i
  <2>1. Len(s) \in Nat
    BY LenProperties
  <2>2. QED
    BY <2>1
<1>4. /\ w \in Seq(S) /\ Len(w) = (m + j) - (m + i)
      /\ \A k \in 1..((m + j) - (m + i)) : w[k] = s[(m + i) + k]
  BY <1>3, Between
<1> HIDE DEF w
<1>5. ASSUME NEW k \in 1..(j - i) PROVE u[k] = w[k]
  <2>1. i + k \in 1..(n - m) /\ m + (i + k) = (m + i) + k
    BY <1>5
  <2>2. QED
    BY <1>1, <1>2, <1>3, <1>4, <1>5, <2>1
<1>6. u = w
  <2>1. Len(u) = Len(w) /\ \A k \in 1..Len(u) : u[k] = w[k]
    BY <1>2, <1>3, <1>4, <1>5
  <2>2. QED
    BY <1>2, <1>4, <2>1, SeqEqual
<1>7. QED
  BY <1>6 DEF t, u, w

\* What is cut in three is a prefix.
LEMMA CutIsPrefix ==
  ASSUME NEW S, NEW s \in Seq(S), NEW i \in Nat, NEW j \in Nat, i <= j, j < Len(s)
  PROVE  IsPrefix(SubSeq(s, 1, i) \o SubSeq(s, i + 1, j) \o <<s[j + 1]>>, s)
<1> DEFINE a == SubSeq(s, 0 + 1, i)
           b == SubSeq(s, i + 1, j)
           c == <<s[j + 1]>>
           t == SubSeq(s, 0 + 1, j + 1)
<1>1. Len(s) \in Nat /\ j + 1 \in 1..Len(s) /\ j + 1 \in Nat /\ j + 1 <= Len(s) /\ i <= Len(s)
      /\ 0 <= i /\ 0 <= j + 1 /\ j <= Len(s) /\ 0 \in Nat
      /\ i - 0 = i /\ (j + 1) - 0 = j + 1 /\ \A k \in 1..(j + 1) : 0 + k = k
  <2>1. Len(s) \in Nat
    BY LenProperties
  <2>2. QED
    BY <2>1
<1>2. a \in Seq(S) /\ Len(a) = i /\ \A k \in 1..i : a[k] = s[k]
  <2>1. a \in Seq(S) /\ Len(a) = i - 0 /\ \A k \in 1..(i - 0) : a[k] = s[0 + k]
    BY <1>1, Between
  <2>2. \A k \in 1..i : k \in 1..(j + 1)
    OBVIOUS
  <2> HIDE DEF a
  <2>3. QED
    BY <1>1, <2>1, <2>2
<1>3. b \in Seq(S) /\ Len(b) = j - i /\ \A k \in 1..(j - i) : b[k] = s[i + k]
  BY <1>1, Between
<1>4. t \in Seq(S) /\ Len(t) = j + 1 /\ \A k \in 1..(j + 1) : t[k] = s[k]
  <2>1. /\ t \in Seq(S) /\ Len(t) = (j + 1) - 0
        /\ \A k \in 1..((j + 1) - 0) : t[k] = s[0 + k]
    BY <1>1, Between
  <2> HIDE DEF t
  <2>2. QED
    BY <1>1, <2>1
<1>5. s[j + 1] \in S
  BY <1>1, ElementOfSeq
<1>6. c \in Seq(S) /\ Len(c) = 1 /\ c[1] = s[j + 1]
  BY <1>5
<1> HIDE DEF a, b, c, t
<1> DEFINE d == a \o b
           e == d \o c
<1>7. /\ d \in Seq(S) /\ Len(d) = j
      /\ \A k \in 1..j : d[k] = IF k <= i THEN a[k] ELSE b[k - i]
  <2>1. /\ d \in Seq(S) /\ Len(d) = Len(a) + Len(b)
        /\ \A k \in 1..Len(a) + Len(b) : d[k] = IF k <= Len(a) THEN a[k] ELSE b[k - Len(a)]
    BY <1>2, <1>3, ConcatProperties
  <2> HIDE DEF d
  <2>2. Len(a) = i /\ Len(a) + Len(b) = j
    BY <1>2, <1>3
  <2>3. QED
    BY <2>1, <2>2
<1> HIDE DEF d
<1>8. /\ e \in Seq(S) /\ Len(e) = j + 1
      /\ \A k \in 1..(j + 1) : e[k] = IF k <= j THEN d[k] ELSE c[k - j]
  <2>1. /\ e \in Seq(S) /\ Len(e) = Len(d) + Len(c)
        /\ \A k \in 1..Len(d) + Len(c) : e[k] = IF k <= Len(d) THEN d[k] ELSE c[k - Len(d)]
    BY <1>6, <1>7, ConcatProperties
  <2> HIDE DEF e
  <2>2. Len(d) = j /\ Len(d) + Len(c) = j + 1
    BY <1>6, <1>7
  <2>3. QED
    BY <2>1, <2>2
<1> HIDE DEF e
<1>9. ASSUME NEW k \in 1..(j + 1) PROVE e[k] = t[k]
  <2>1. CASE k <= i
    <3>1. k \in 1..i /\ k \in 1..j /\ k <= j
      BY <2>1
    <3>2. QED
      BY <1>2, <1>4, <1>7, <1>8, <2>1, <3>1
  <2>2. CASE ~(k <= i) /\ k <= j
    <3>1. k \in 1..j /\ k - i \in 1..(j - i) /\ i + (k - i) = k
      BY <2>2
    <3>2. QED
      BY <1>3, <1>4, <1>7, <1>8, <2>2, <3>1
  <2>3. CASE ~(k <= j)
    <3>1. k = j + 1 /\ k - j = 1
      BY <2>3
    <3>2. QED
      BY <1>4, <1>6, <1>8, <2>3, <3>1
  <2>4. k <= i \/ (~(k <= i) /\ k <= j) \/ ~(k <= j)
    OBVIOUS
  <2>5. QED
    BY <2>1, <2>2, <2>3, <2>4
<1>10. e = t
  BY <1>4, <1>8, <1>9, SeqEqual
<1>11. SubSeq(e, 1, Len(e)) = e
  <2>1. /\ SubSeq(e, 0 + 1, j + 1) \in Seq(S) /\ Len(SubSeq(e, 0 + 1, j + 1)) = (j + 1) - 0
        /\ \A k \in 1..((j + 1) - 0) : SubSeq(e, 0 + 1, j + 1)[k] = e[0 + k]
    BY <1>1, <1>8, Between
  <2> DEFINE f == SubSeq(e, 0 + 1, j + 1)
  <2>2. f \in Seq(S) /\ Len(f) = j + 1 /\ \A k \in 1..(j + 1) : f[k] = e[k]
    <3> HIDE DEF f
    <3>1. f \in Seq(S) /\ Len(f) = (j + 1) - 0 /\ \A k \in 1..((j + 1) - 0) : f[k] = e[0 + k]
      BY <2>1 DEF f
    <3>2. QED
      BY <1>1, <3>1
  <2> HIDE DEF f
  <2>3. f = e
    BY <1>8, <2>2, SeqEqual
  <2>4. QED
    BY <1>8, <2>3 DEF f
<1>12. IsPrefix(e, s)
  <2>1. Len(e) <= Len(s)
    BY <1>1, <1>8
  <2>2. SubSeq(s, 1, Len(e)) = e
    BY <1>8, <1>10 DEF t
  <2>3. QED
    BY <1>11, <2>1, <2>2 DEF IsPrefix
<1>13. QED
  BY <1>12 DEF a, b, c, d, e

\* A line that a CR ends is a line of the stream.
LEMMA LineOfStream ==
  ASSUME BufferInv, NEW p, NEW e, OrdinaryLine(p, e)
  PROVE  LET i == p - rd
             j == e - rd
         IN /\ i \in 0..Len(Unread) /\ j \in 1..Len(Unread) /\ i < j /\ j + 1 <= Len(Unread)
            /\ SubSeq(Unread, i + 1, j) = SubSeq(buf, p + 1, e)
            /\ Stream!IsLine(Unread, SubSeq(Unread, 1, i), SubSeq(Unread, i + 1, j))
<1> DEFINE i == p - rd
           j == e - rd
           s == Unread
           a == SubSeq(s, 1, i)
           b == SubSeq(s, i + 1, j)
<1>1. /\ buf \in Seq(Bytes) /\ Len(buf) \in Nat /\ rd \in Nat /\ wr \in Nat /\ rd <= wr
      /\ wr < Len(buf)
  BY DEF BufferInv, Sound
<1>2. /\ p \in Nat /\ e \in Nat /\ rd <= p /\ p < e /\ e < wr
      /\ \A m \in (rd + 1)..p : buf[m] \in {"CR", "LF"}
      /\ buf[p + 1] \notin {"CR", "LF"}
      /\ \A m \in (p + 1)..e : buf[m] # "CR"
      /\ buf[e + 1] = "CR"
  BY DEF OrdinaryLine
<1>3. s \in Seq(Bytes) /\ Len(s) = wr - rd /\ \A m \in 1..(wr - rd) : s[m] = buf[rd + m]
  BY UnreadBytes DEF BufferInv
<1>4. /\ i \in Nat /\ j \in Nat /\ i < j /\ i <= j /\ j < wr - rd /\ wr - rd \in Nat
      /\ rd + i = p /\ rd + j = e /\ j <= wr - rd /\ wr <= Len(buf) /\ i <= wr - rd
  BY <1>1, <1>2
<1> HIDE DEF i, j, s
<1>5. /\ a \in Seq(Bytes) /\ Len(a) = i - 0 /\ \A m \in 1..(i - 0) : a[m] = s[0 + m]
  <2>1. 0 \in Nat /\ 0 <= i /\ i <= Len(s) /\ 0 + 1 = 1
    BY <1>3, <1>4
  <2>2. /\ SubSeq(s, 0 + 1, i) \in Seq(Bytes) /\ Len(SubSeq(s, 0 + 1, i)) = i - 0
        /\ \A m \in 1..(i - 0) : SubSeq(s, 0 + 1, i)[m] = s[0 + m]
    BY <1>3, <1>4, <2>1, Between
  <2>3. QED
    BY <2>1, <2>2
<1>6. /\ b \in Seq(Bytes) /\ Len(b) = j - i /\ \A m \in 1..(j - i) : b[m] = s[i + m]
  BY <1>3, <1>4, Between
<1>7. b = SubSeq(buf, p + 1, e)
  <2>1. SubSeq(SubSeq(buf, rd + 1, wr), i + 1, j) = SubSeq(buf, (rd + i) + 1, rd + j)
    BY <1>1, <1>4, PartOfPart
  <2>2. QED
    BY <1>4, <2>1 DEF s, Unread
<1>8. IsPrefix(a \o b \o <<s[j + 1]>>, s)
  BY <1>3, <1>4, CutIsPrefix
<1> HIDE DEF a, b
<1>9. s[j + 1] = "CR"
  <2>1. j + 1 \in 1..(wr - rd) /\ rd + (j + 1) = e + 1
    BY <1>1, <1>4
  <2>2. QED
    BY <1>2, <1>3, <2>1
<1>10. ASSUME NEW m \in 1..Len(a) PROVE a[m] \in {"CR", "LF"}
  <2>1. m \in 1..(i - 0) /\ 0 + m = m /\ m \in 1..(wr - rd) /\ rd + m \in (rd + 1)..p
    BY <1>1, <1>4, <1>5
  <2>2. QED
    BY <1>2, <1>3, <1>5, <2>1
<1>11. ASSUME NEW m \in 1..Len(b)
       PROVE  b[m] = buf[p + m] /\ b[m] # "CR"
  <2>1. /\ m \in 1..(j - i) /\ i + m \in 1..(wr - rd) /\ rd + (i + m) = p + m
        /\ p + m \in (p + 1)..e
    BY <1>1, <1>4, <1>6
  <2>2. QED
    BY <1>2, <1>3, <1>6, <2>1
<1>12. 1 \in 1..Len(b)
  BY <1>4, <1>6
<1>13. b # <<>> /\ b[1] \notin {"CR", "LF"}
  <2>1. b # <<>>
    BY <1>6, <1>12, EmptySeq
  <2>2. QED
    BY <1>2, <1>11, <1>12, <2>1
<1>14. ~Contains(b, "CR")
  BY <1>11 DEF Contains
<1>15. Stream!IsLine(s, a, b)
  <2>1. IsPrefix(a \o b \o <<"CR">>, s)
    BY <1>8, <1>9
  <2>2. Stream!IsPrefix(a \o b \o <<"CR">>, s)
    BY <2>1 DEF IsPrefix, Stream!IsPrefix
  <2>3. ~Stream!Contains(b, "CR")
    BY <1>14 DEF Contains, Stream!Contains
  <2>4. QED
    BY <1>10, <1>13, <2>2, <2>3, Zenon DEF Stream!IsLine, Stream!Blank
<1>16. i \in 0..Len(s) /\ j \in 1..Len(s) /\ i < j /\ j + 1 <= Len(s)
  BY <1>3, <1>4
<1>17. QED
  BY <1>7, <1>15, <1>16 DEF a, b, s, i, j

\* What waits behind the line is what the stream has behind it.
LEMMA RestOfStream ==
  ASSUME BufferInv, NEW p, NEW e, OrdinaryLine(p, e), NEW c,
         c = [buf EXCEPT ![e + 1] = "NUL"]
  PROVE  SubSeq(c, (e + 1) + 1, wr) = SubSeq(Unread, (e - rd) + 2, Len(Unread))
<1>1. /\ buf \in Seq(Bytes) /\ Len(buf) \in Nat /\ rd \in Nat /\ wr \in Nat /\ rd <= wr
      /\ wr < Len(buf) /\ wr <= Len(buf)
  BY DEF BufferInv, Sound
<1>2. e \in Nat /\ rd <= e /\ e < wr
  BY <1>1 DEF OrdinaryLine
<1>3. /\ c \in Seq(Bytes) /\ wr <= Len(c) /\ e + 1 <= wr /\ e + 1 \in Nat
      /\ \A i \in (e + 2)..wr : c[i] = buf[i]
  <2>1. Sound(c, e + 1, wr) /\ \A i \in (e + 2)..wr : c[i] = buf[i]
    BY LineTaken, Zenon
  <2>2. \A f : Sound(f, e + 1, wr) => /\ f \in Seq(Bytes) /\ wr <= Len(f) /\ e + 1 <= wr
                                      /\ e + 1 \in Nat
    BY DEF Sound
  <2>3. QED
    BY <2>1, <2>2, Zenon
<1> DEFINE d == SubSeq(c, (e + 1) + 1, wr)
           b == SubSeq(buf, (e + 1) + 1, wr)
<1>4. /\ d \in Seq(Bytes) /\ Len(d) = wr - (e + 1)
      /\ \A i \in 1..(wr - (e + 1)) : d[i] = c[(e + 1) + i]
  <2> HIDE DEF d
  <2>1. \A f \in Seq(Bytes) : wr <= Len(f) =>
          /\ SubSeq(f, (e + 1) + 1, wr) \in Seq(Bytes)
          /\ Len(SubSeq(f, (e + 1) + 1, wr)) = wr - (e + 1)
          /\ \A i \in 1..(wr - (e + 1)) : SubSeq(f, (e + 1) + 1, wr)[i] = f[(e + 1) + i]
    BY <1>1, <1>3, Between
  <2>2. QED
    BY <1>3, <2>1, Zenon DEF d
<1>5. /\ b \in Seq(Bytes) /\ Len(b) = wr - (e + 1)
      /\ \A i \in 1..(wr - (e + 1)) : b[i] = buf[(e + 1) + i]
  BY <1>1, <1>3, Between
<1> HIDE DEF d, b
<1>6. ASSUME NEW i \in 1..(wr - (e + 1)) PROVE d[i] = b[i]
  <2>1. (e + 1) + i \in (e + 2)..wr
    BY <1>1, <1>2
  <2>2. QED
    BY <1>3, <1>4, <1>5, <2>1, Zenon
<1>7. d = b
  <2>1. Len(d) = Len(b) /\ \A i \in 1..Len(d) : d[i] = b[i]
    BY <1>4, <1>5, <1>6, Zenon
  <2>2. QED
    BY <1>4, <1>5, <2>1, SeqEqual, Zenon
<1>8. b = SubSeq(Unread, (e - rd) + 2, Len(Unread))
  <2> DEFINE i == e - rd + 1
             j == wr - rd
  <2>1. /\ i \in Nat /\ j \in Nat /\ i <= j /\ rd + i = e + 1 /\ rd + j = wr
        /\ i + 1 = (e - rd) + 2
    BY <1>1, <1>2
  <2>2. Len(Unread) = j
    BY UnreadBytes DEF BufferInv
  <2> HIDE DEF i, j
  <2>3. SubSeq(SubSeq(buf, rd + 1, wr), i + 1, j) = SubSeq(buf, (rd + i) + 1, rd + j)
    <3>1. j <= wr - rd
      BY <2>1 DEF j
    <3>2. QED
      BY <1>1, <2>1, <3>1, PartOfPart
  <2>4. QED
    BY <2>1, <2>2, <2>3 DEF b, Unread
<1>9. QED
  BY <1>7, <1>8 DEF d

\* A prompt is the last of the stream, behind blanks only.
LEMMA PromptOfStream ==
  ASSUME BufferInv, NEW p, NEW e, PromptLine(p, e)
  PROVE  /\ Unread # <<>> /\ Unread[Len(Unread)] = "P"
         /\ \A i \in 1..(Len(Unread) - 1) : Unread[i] \in {"CR", "LF"}
         /\ SubSeq(buf, wr + 1, wr) = <<>>
<1>1. /\ buf \in Seq(Bytes) /\ rd \in Nat /\ wr \in Nat /\ rd <= wr /\ wr <= Len(buf)
  BY DEF BufferInv, Sound
<1>2. /\ p \in Nat /\ rd <= p /\ p + 1 = wr /\ buf[wr] = "P"
      /\ \A i \in (rd + 1)..p : buf[i] \in {"CR", "LF"}
  BY DEF PromptLine
<1>3. /\ Unread \in Seq(Bytes) /\ Len(Unread) = wr - rd
      /\ \A m \in 1..(wr - rd) : Unread[m] = buf[rd + m]
  BY UnreadBytes DEF BufferInv
<1> DEFINE s == Unread
<1> HIDE DEF s
<1>4. wr - rd \in 1..(wr - rd) /\ rd + (wr - rd) = wr
  BY <1>1, <1>2
<1>5. Unread[Len(Unread)] = "P"
  BY <1>2, <1>3, <1>4
<1>6. Unread # <<>>
  BY <1>3, <1>4, EmptySeq
<1>7. ASSUME NEW i \in 1..((wr - rd) - 1) PROVE Unread[i] \in {"CR", "LF"}
  <2>1. i \in 1..(wr - rd) /\ rd + i \in (rd + 1)..p
    BY <1>1, <1>2
  <2>2. QED
    BY <1>2, <1>3, <2>1
<1>8. SubSeq(buf, wr + 1, wr) = <<>>
  <2>1. SubSeq(buf, wr + 1, wr) \in Seq(Bytes) /\ Len(SubSeq(buf, wr + 1, wr)) = wr - wr
    BY <1>1, Between
  <2>2. QED
    BY <1>1, <2>1, EmptySeq
<1>9. QED
  BY <1>3, <1>5, <1>6, <1>7, <1>8

\* A line that is found is taken from the stream.
LEMMA ScanLineTakes ==
  ASSUME BufferInv, ScanLine
  PROVE  Stream!TakeLine \/ Stream!TakePrompt
<1>1. PICK p \in 0..(Len(buf) - 1), e \in 0..(Len(buf) - 1) :
        /\ LineAt(p, e)
        /\ buf' = [buf EXCEPT ![e + 1] = "NUL"]
        /\ \/ SendsBody(p, e) /\ rd' = p + 1 /\ line' = line
           \/ ~SendsBody(p, e) /\ line' = SubSeq(buf, p + 1, e) /\ rd' = e + 1
  BY DEF ScanLine, LineNext
<1>2. scanning /\ wr' = wr
  BY DEF ScanLine
<1>3. \/ SendsBody(p, e) /\ PromptLine(p, e)
      \/ ~SendsBody(p, e) /\ OrdinaryLine(p, e)
  BY <1>1, <1>2, LineFound
<1>4. CASE SendsBody(p, e) /\ PromptLine(p, e)
  <2>1. buf' = buf /\ rd' = wr /\ wr' = wr /\ line' = line
    BY <1>1, <1>2, <1>4, PromptTaken
  <2>2. Unread' = <<>>
    BY <1>4, <2>1, PromptOfStream DEF Unread
  <2>3. Stream!TakePrompt
    <3>1. Stream!Last(Unread) = "P"
      BY <1>4, PromptOfStream DEF Stream!Last
    <3>2. QED
      BY <1>4, <2>1, <2>2, <3>1, PromptOfStream DEF Stream!TakePrompt, Stream!Blank
  <2>4. QED
    BY <2>3
<1>5. CASE ~SendsBody(p, e) /\ OrdinaryLine(p, e)
  <2> DEFINE i == p - rd
             j == e - rd
  <2>1. /\ i \in 0..Len(Unread) /\ j \in 1..Len(Unread) /\ i < j
        /\ SubSeq(Unread, i + 1, j) = SubSeq(buf, p + 1, e)
        /\ Stream!IsLine(Unread, SubSeq(Unread, 1, i), SubSeq(Unread, i + 1, j))
    BY <1>5, LineOfStream
  <2>2. SubSeq(buf', (e + 1) + 1, wr) = SubSeq(Unread, j + 2, Len(Unread))
    BY <1>1, <1>5, RestOfStream
  <2>3. Unread' = SubSeq(buf', (e + 1) + 1, wr) /\ line' = SubSeq(buf, p + 1, e)
    BY <1>1, <1>2, <1>5 DEF Unread
  <2> HIDE DEF i, j
  <2>4. QED
    BY <2>1, <2>2, <2>3 DEF Stream!TakeLine
<1>6. QED
  BY <1>3, <1>4, <1>5

\* Every step is a step of the byte stream, or leaves it alone.
LEMMA BufferStepStreams ==
  ASSUME ~StrayPrompts, BufferInv, [Next]_vars
  PROVE  [Stream!Next]_Stream!vars
<1>1. CASE SetRequest
  BY <1>1 DEF SetRequest, Unread, Stream!vars
<1>2. CASE Receive
  <2>1. \E data \in Chunks : Unread' = Unread \o data
    BY <1>2, ReceiveKeeps
  <2>2. line' = line
    BY <1>2 DEF Receive
  <2>3. QED
    BY <2>1, <2>2 DEF Stream!Receive, Stream!Next
<1>3. CASE ScanLine
  BY <1>3, ScanLineTakes DEF Stream!Next
<1>4. CASE ScanEnd
  BY <1>4 DEF ScanEnd, Unread, Stream!vars
<1>5. CASE UNCHANGED vars
  BY <1>5 DEF vars, Unread, Stream!vars
<1>6. QED
  BY <1>1, <1>2, <1>3, <1>4, <1>5 DEF Next

\* The receive buffer implements the byte stream: whatever tcore_at_buf_write
\* shifts, doubles and clears, the loop of tcore_at_process hands out the lines
\* of the modem in order, none lost, repeated, cut or invented.
THEOREM BufferStreams == ASSUME ~StrayPrompts PROVE Spec => ImplementsByteStream
<1>1. Init => Stream!Init
  <2>1. SUFFICES ASSUME Init PROVE Stream!Init
    OBVIOUS
  <2>2. BufferInv /\ rd = 0 /\ wr = 0 /\ line = <<>>
    BY <2>1, BufferInit DEF Init
  <2>3. Unread \in Seq(Bytes) /\ Len(Unread) = 0
    BY <2>2, UnreadBytes DEF BufferInv
  <2>4. QED
    BY <2>2, <2>3, EmptySeq DEF Stream!Init
<1>2. BufferInv /\ [Next]_vars => BufferInv' /\ [Stream!Next]_Stream!vars
  BY BufferStep, BufferStepStreams
<1>3. QED
  BY <1>1, <1>2, BufferInit, PTL DEF Spec, ImplementsByteStream, Stream!Spec

-----------------------------------------------------------------------------
(* Characters of 7 bits in bytes of 8 *)

\* The byte with what is left of character a after r bits, and the first of b.
ByteOf(a, b, r) == a \div 2^r + ((b * 2^(7 - r)) % 256)

\* ... and the last byte of a text, which a CR may fill up.
LastByteOf(a, r) == a \div 2^r + (IF r = 6 THEN 26 ELSE 0)

LEMMA Halves ==
  ASSUME NEW a \in 0..127, NEW b \in 0..127, NEW r \in 0..6
  PROVE  /\ ByteOf(a, b, r) \in 0..255
         /\ (ByteOf(a, b, r) * 2^r) % 128 = (a \div 2^r) * 2^r
         /\ ByteOf(a, b, r) \div 2^(7 - r) = b % 2^(r + 1)
<1>1. CASE r = 0
  BY <1>1 DEF ByteOf
<1>2. CASE r = 1
  BY <1>2 DEF ByteOf
<1>3. CASE r = 2
  BY <1>3 DEF ByteOf
<1>4. CASE r = 3
  BY <1>4 DEF ByteOf
<1>5. CASE r = 4
  BY <1>5 DEF ByteOf
<1>6. CASE r = 5
  BY <1>6 DEF ByteOf
<1>7. CASE r = 6
  BY <1>7 DEF ByteOf
<1>8. QED
  BY <1>1, <1>2, <1>3, <1>4, <1>5, <1>6, <1>7

LEMMA LastHalf ==
  ASSUME NEW a \in 0..127, NEW r \in 0..6
  PROVE  /\ LastByteOf(a, r) \in 0..255
         /\ (LastByteOf(a, r) * 2^r) % 128 = (a \div 2^r) * 2^r
         /\ r = 6 => LastByteOf(a, r) \div 2 = 13
<1>1. CASE r = 0
  BY <1>1 DEF LastByteOf
<1>2. CASE r = 1
  BY <1>2 DEF LastByteOf
<1>3. CASE r = 2
  BY <1>3 DEF LastByteOf
<1>4. CASE r = 3
  BY <1>4 DEF LastByteOf
<1>5. CASE r = 4
  BY <1>5 DEF LastByteOf
<1>6. CASE r = 5
  BY <1>6 DEF LastByteOf
<1>7. CASE r = 6
  BY <1>7 DEF LastByteOf
<1>8. QED
  BY <1>1, <1>2, <1>3, <1>4, <1>5, <1>6, <1>7

LEMMA Edges ==
  ASSUME NEW a \in 0..127
  PROVE  /\ 2^(8 - 7) = 2 /\ a % 2^7 = a
         /\ (a \div 2^0) * 2^0 = a
         /\ \A b \in 0..255 : b \div 2^(8 - 0) = 0
<1>1. 2^(8 - 7) = 2 /\ 2^7 = 128 /\ 2^0 = 1 /\ 2^(8 - 0) = 256
  <2>1. 8 - 7 = 1 /\ 8 - 0 = 8
    OBVIOUS
  <2>2. 2^1 = 2 /\ 2^7 = 128 /\ 2^0 = 1 /\ 2^8 = 256
    OBVIOUS
  <2>3. QED
    BY <2>1, <2>2
<1>2. a % 128 = a /\ (a \div 1) * 1 = a /\ \A b \in 0..255 : b \div 256 = 0
  OBVIOUS
<1>3. QED
  BY <1>1, <1>2

\* What is left of a character and its first bits are the character.
LEMMA Whole ==
  ASSUME NEW a \in 0..127, NEW r \in 0..7
  PROVE  ((a \div 2^r) * 2^r) + (a % 2^r) = a
<1>1. CASE r = 0
  BY <1>1
<1>2. CASE r = 1
  BY <1>2
<1>3. CASE r = 2
  BY <1>3
<1>4. CASE r = 3
  BY <1>4
<1>5. CASE r = 4
  BY <1>5
<1>6. CASE r = 5
  BY <1>6
<1>7. CASE r = 6
  BY <1>7
<1>8. CASE r = 7
  BY <1>8
<1>9. QED
  BY <1>1, <1>2, <1>3, <1>4, <1>5, <1>6, <1>7, <1>8

\* Byte number 7 q + r holds parts of characters 8 q + r and the next.
LEMMA OctetAt ==
  ASSUME NEW s \in Seq(0..127), NEW q \in Nat, NEW r \in 0..6, NEW i, i = 8 * q + r + 1
  PROVE  /\ i > Len(s) => Octet(s, 7 * q + r) = 0
         /\ i = Len(s) => Octet(s, 7 * q + r) = LastByteOf(s[i], r)
         /\ i < Len(s) => Octet(s, 7 * q + r) = ByteOf(s[i], s[i + 1], r)
<1> DEFINE p == 7 * q + r
<1>1. p % 7 = r /\ p + p \div 7 + 1 = i
  OBVIOUS
<1>2. Len(s) \in Nat /\ i \in Nat /\ 2 * CR = 26
  BY LenProperties DEF CR
<1> HIDE DEF p
<1>3. Octet(s, p) =
        IF i > Len(s) THEN 0
        ELSE s[i] \div 2^r + (IF i < Len(s) THEN ((s[i + 1] * 2^(7 - r)) % 256)
                              ELSE IF r = 6 THEN 26 ELSE 0)
  BY <1>1, <1>2 DEF Octet
<1>4. CASE i > Len(s)
  BY <1>2, <1>3, <1>4 DEF p
<1>5. CASE i = Len(s)
  BY <1>2, <1>3, <1>5 DEF p, LastByteOf
<1>6. CASE i < Len(s)
  BY <1>2, <1>3, <1>6 DEF p, ByteOf
<1>7. QED
  BY <1>2, <1>4, <1>5, <1>6

LEMMA OctetType ==
  ASSUME NEW s \in Seq(0..127), NEW p \in Nat
  PROVE  Octet(s, p) \in 0..255
<1> DEFINE q == p \div 7
           r == p % 7
           i == 8 * q + r + 1
<1>1. q \in Nat /\ r \in 0..6 /\ p = 7 * q + r
  OBVIOUS
<1> HIDE DEF q, r
<1>2. i \in Nat /\ i >= 1 /\ Len(s) \in Nat
  BY <1>1, LenProperties
<1>2a. i = 8 * q + r + 1
  OBVIOUS
<1> HIDE DEF i
<1>3. CASE i > Len(s)
  <2>1. Octet(s, p) = 0
    BY <1>1, <1>2a, <1>3, OctetAt
  <2>2. QED
    BY <2>1
<1>4. CASE i = Len(s)
  <2>1. i \in 1..Len(s)
    BY <1>2, <1>4
  <2>2. PICK a \in 0..127 : a = s[i]
    BY <2>1, ElementOfSeq
  <2>3. Octet(s, p) = LastByteOf(a, r)
    BY <1>1, <1>2a, <1>4, <2>2, OctetAt
  <2>4. LastByteOf(a, r) \in 0..255
    BY <1>1, LastHalf
  <2>5. QED
    BY <2>3, <2>4
<1>5. CASE i < Len(s)
  <2>1. i \in 1..Len(s) /\ i + 1 \in 1..Len(s)
    BY <1>2, <1>5
  <2>2. PICK a \in 0..127 : a = s[i]
    BY <2>1, ElementOfSeq
  <2>3. PICK b \in 0..127 : b = s[i + 1]
    BY <2>1, ElementOfSeq
  <2>4. Octet(s, p) = ByteOf(a, b, r)
    BY <1>1, <1>2a, <1>5, <2>2, <2>3, OctetAt
  <2>5. ByteOf(a, b, r) \in 0..255
    BY <1>1, Halves
  <2>6. QED
    BY <2>4, <2>5
<1>6. QED
  BY <1>2, <1>3, <1>4, <1>5

LEMMA PackedType ==
  ASSUME NEW s \in Seq(0..127)
  PROVE  /\ PackGsm7(s) \in Seq(0..255)
         /\ Len(PackGsm7(s)) = (7 * Len(s)) \div 8 + 1
         /\ \A p \in 1..Len(PackGsm7(s)) : PackGsm7(s)[p] = Octet(s, p - 1)
<1> DEFINE B == (7 * Len(s)) \div 8 + 1
           P == PackGsm7(s)
<1>1. Len(s) \in Nat /\ B \in Nat
  BY LenProperties
<1>2. P = [p \in 1..B |-> Octet(s, p - 1)]
  BY DEF PackGsm7
<1> HIDE DEF B, P
<1>3. \A p \in 1..B : p - 1 \in Nat
  BY <1>1
<1>4. \A p \in 1..B : Octet(s, p - 1) \in 0..255
  BY <1>3, OctetType
<1>5. P \in [1..B -> 0..255]
  BY <1>2, <1>4
<1>6. P \in Seq(0..255)
  BY <1>1, <1>5, SeqDef
<1>7. Len(P) = B
  BY <1>1, <1>5, <1>6, LenProperties
<1>8. QED
  BY <1>2, <1>6, <1>7 DEF P, B

\* A character comes back.
LEMMA Restored ==
  ASSUME NEW s \in Seq(0..127), NEW k \in Nat, k < Len(s)
  PROVE  Septet(PackGsm7(s), k) = s[k + 1]
<1> DEFINE q == k \div 8
           r == k % 8
           P == PackGsm7(s)
           pos == 7 * q + r
<1>1. q \in Nat /\ r \in 0..7 /\ k = 8 * q + r
  OBVIOUS
<1>2. Septet(P, k) = IF r = 7 THEN P[pos] \div 2
                     ELSE ((P[pos + 1] * 2^r) % 128) + (IF pos = 0 THEN 0 ELSE P[pos] \div 2^(8 - r))
  BY DEF Septet
<1> HIDE DEF q, r
<1>3. Len(s) \in Nat /\ k + 1 \in 1..Len(s)
  BY LenProperties
<1>3a. PICK a \in 0..127 : a = s[k + 1]
  BY <1>3, ElementOfSeq
<1>4. /\ P \in Seq(0..255)
      /\ \A p \in 1..((7 * Len(s)) \div 8 + 1) : P[p] = Octet(s, p - 1)
  BY PackedType
<1>4a. \A p \in 1..((7 * Len(s)) \div 8 + 1) : P[p] \in 0..255
  <2>1. \A p \in 1..((7 * Len(s)) \div 8 + 1) : p - 1 \in Nat
    BY <1>3
  <2>2. QED
    BY <1>4, <2>1, OctetType
<1> HIDE DEF P
<1>4b. pos \in Nat
  BY <1>1
\* What stands before the character's own byte.
<1>5. ASSUME r # 0 PROVE P[pos] \div 2^(8 - r) = a % 2^r
  <2>1. k \in 1..Len(s) /\ r - 1 \in 0..6 /\ k = 8 * q + (r - 1) + 1
    BY <1>1, <1>3, <1>5
  <2>2. pos \in 1..((7 * Len(s)) \div 8 + 1) /\ pos - 1 = 7 * q + (r - 1)
    BY <1>1, <1>3, <1>5
  <2>3. P[pos] = Octet(s, 7 * q + (r - 1))
    BY <1>4, <2>2
  <2>4. PICK e \in 0..127 : e = s[k]
    BY <2>1, ElementOfSeq
  <2>5. Octet(s, 7 * q + (r - 1)) = ByteOf(e, a, r - 1)
    BY <1>1, <1>3, <1>3a, <2>1, <2>4, OctetAt
  <2>6. ByteOf(e, a, r - 1) \div 2^(7 - (r - 1)) = a % 2^((r - 1) + 1)
    BY <1>3, <2>1, <2>4, Halves
  <2>7. 7 - (r - 1) = 8 - r /\ (r - 1) + 1 = r
    BY <1>1
  <2>8. QED
    BY <2>3, <2>5, <2>6, <2>7
\* The character's own byte.
<1>6. ASSUME r # 7 PROVE ((P[pos + 1] * 2^r) % 128) = (a \div 2^r) * 2^r
  <2>1. r \in 0..6 /\ k + 1 = 8 * q + r + 1 /\ k + 1 <= Len(s)
    BY <1>1, <1>3, <1>6
  <2>2. pos + 1 \in 1..((7 * Len(s)) \div 8 + 1) /\ (pos + 1) - 1 = 7 * q + r
    BY <1>1, <1>3, <1>6
  <2>3. P[pos + 1] = Octet(s, 7 * q + r)
    BY <1>4, <2>2
  <2>4. CASE k + 1 = Len(s)
    <3>1. Octet(s, 7 * q + r) = LastByteOf(a, r)
      BY <1>1, <1>3a, <2>1, <2>4, OctetAt
    <3>2. QED
      BY <1>3, <2>1, <2>3, <3>1, LastHalf
  <2>5. CASE k + 1 < Len(s)
    <3>1. (k + 1) + 1 \in 1..Len(s)
      BY <1>3, <2>5
    <3>2. PICK e \in 0..127 : e = s[(k + 1) + 1]
      BY <3>1, ElementOfSeq
    <3>3. Octet(s, 7 * q + r) = ByteOf(a, e, r)
      BY <1>1, <1>3a, <2>1, <2>5, <3>2, OctetAt
    <3>4. (ByteOf(a, e, r) * 2^r) % 128 = (a \div 2^r) * 2^r
      BY <2>1, Halves
    <3>5. QED
      BY <2>3, <3>3, <3>4
  <2>6. QED
    BY <1>3, <2>1, <2>4, <2>5
<1>7. CASE r = 7
  <2>1. P[pos] \div 2^(8 - 7) = a % 2^7
    BY <1>5, <1>7
  <2>2. 2^(8 - 7) = 2 /\ a % 2^7 = a
    BY Edges
  <2>3. Septet(P, k) = P[pos] \div 2
    BY <1>2, <1>7
  <2>4. P[pos] \div 2 = a
    BY <2>1, <2>2
  <2>5. QED
    BY <1>3a, <2>3, <2>4 DEF P
<1>8. CASE r \in 1..6
  <2>1. Septet(P, k) = ((a \div 2^r) * 2^r) + (a % 2^r)
    <3>1. pos # 0 /\ r # 0 /\ r # 7
      BY <1>1, <1>8
    <3>2. Septet(P, k) = ((P[pos + 1] * 2^r) % 128) + (P[pos] \div 2^(8 - r))
      BY <1>2, <3>1
    <3>3. QED
      BY <1>5, <1>6, <3>1, <3>2
  <2>2. ((a \div 2^r) * 2^r) + (a % 2^r) = a
    BY <1>1, Whole
  <2>3. QED
    BY <1>3a, <2>1, <2>2 DEF P
<1>9. CASE r = 0
  <2>1. (P[pos + 1] * 2^0) % 128 = (a \div 2^0) * 2^0
    BY <1>6, <1>9
  <2>2. (a \div 2^0) * 2^0 = a
    BY Edges
  <2>3. pos # 0 => P[pos] \div 2^(8 - 0) = 0
    <3>1. SUFFICES ASSUME pos # 0 PROVE P[pos] \div 2^(8 - 0) = 0
      OBVIOUS
    <3>2. pos \in 1..((7 * Len(s)) \div 8 + 1) /\ pos - 1 \in Nat
      BY <1>1, <1>3, <1>9, <3>1
    <3>3. PICK e \in 0..255 : e = P[pos]
      BY <1>4a, <3>2
    <3>4. e \div 2^(8 - 0) = 0
      BY Edges
    <3>5. QED
      BY <3>3, <3>4
  <2>4. Septet(P, k) = ((P[pos + 1] * 2^0) % 128) + (IF pos = 0 THEN 0 ELSE P[pos] \div 2^(8 - 0))
    BY <1>2, <1>9
  <2>5. Septet(P, k) = a + 0
    BY <2>1, <2>2, <2>3, <2>4
  <2>6. QED
    BY <1>3a, <2>5 DEF P
<1>10. QED
  BY <1>1, <1>7, <1>8, <1>9 DEF P

\* What follows the last character: nothing, or one that is NUL or a CR.
LEMMA Padding ==
  ASSUME NEW s \in Seq(0..127), NEW m, m = (8 * Len(PackGsm7(s))) \div 7
  PROVE  \/ m = Len(s)
         \/ m = Len(s) + 1 /\ Septet(PackGsm7(s), Len(s)) \in {0, CR}
<1> DEFINE N == Len(s)
           q == N \div 8
           r == N % 8
           P == PackGsm7(s)
           B == (7 * N) \div 8 + 1
<1>1. N \in Nat
  BY LenProperties
<1>2. q \in Nat /\ r \in 0..7 /\ N = 8 * q + r
  BY <1>1
<1>3. /\ Len(P) = B
      /\ \A p \in 1..B : P[p] = Octet(s, p - 1)
  BY PackedType
<1>4. m = (8 * B) \div 7
  BY <1>3
<1>5. \A p \in 1..B : P[p] \in 0..255
  <2>1. \A p \in 1..B : p - 1 \in Nat
    BY <1>1
  <2>2. QED
    BY <1>3, <2>1, OctetType
<1>6. Septet(P, N) = IF r = 7 THEN P[7 * q + r] \div 2
                     ELSE ((P[7 * q + r + 1] * 2^r) % 128) +
                            (IF 7 * q + r = 0 THEN 0 ELSE P[7 * q + r] \div 2^(8 - r))
  BY DEF Septet
<1>7. N = Len(s) /\ P = PackGsm7(s)
  OBVIOUS
<1> HIDE DEF N, q, r, P
<1>8. CASE r \in 1..6
  <2>1. B = 7 * q + r
    BY <1>2, <1>8
  <2>2. m = N
    <3>1. 8 * B = 7 * N + r
      BY <1>2, <2>1
    <3> HIDE DEF B
    <3>2. (7 * N + r) \div 7 = N
      BY <1>1, <1>8
    <3>3. QED
      BY <1>4, <3>1, <3>2
  <2>3. QED
    BY <1>7, <2>2
<1>9. CASE r = 0
  <2>1. B = 7 * q + 1 /\ m = N + 1
    BY <1>2, <1>4, <1>9
  <2>2. 7 * q + 1 \in 1..B /\ (7 * q + 1) - 1 = 7 * q + 0
    BY <1>2, <2>1
  <2>3. Octet(s, 7 * q + 0) = 0
    <3>1. 8 * q + 0 + 1 > Len(s)
      BY <1>2, <1>7, <1>9
    <3>2. 0 \in 0..6
      OBVIOUS
    <3>3. QED
      BY <1>2, <3>1, <3>2, OctetAt
  <2>4. P[7 * q + 1] = 0
    BY <1>3, <2>2, <2>3
  <2>5. 7 * q # 0 => P[7 * q] \div 2^(8 - 0) = 0
    <3>1. SUFFICES ASSUME 7 * q # 0 PROVE P[7 * q] \div 2^(8 - 0) = 0
      OBVIOUS
    <3>2. 7 * q \in 1..B
      BY <1>2, <2>1, <3>1
    <3>3. PICK e \in 0..255 : e = P[7 * q]
      BY <1>5, <3>2
    <3>4. 0 \in 0..127
      OBVIOUS
    <3>5. QED
      BY <3>3, <3>4, Edges
  <2>6. 7 * q + 0 = 7 * q /\ 7 * q + 0 + 1 = 7 * q + 1 /\ (0 * 2^0) % 128 = 0
    BY <1>2
  <2>7. Septet(P, N) = ((0 * 2^0) % 128) + (IF 7 * q = 0 THEN 0 ELSE P[7 * q] \div 2^(8 - 0))
    BY <1>6, <1>9, <2>4, <2>6
  <2>8. Septet(P, N) = 0
    BY <2>5, <2>6, <2>7
  <2>9. QED
    BY <1>7, <2>1, <2>8
<1>10. CASE r = 7
  <2>1. B = 7 * q + 7 /\ m = N + 1
    BY <1>2, <1>4, <1>10
  <2>2. 7 * q + 7 \in 1..B /\ (7 * q + 7) - 1 = 7 * q + 6
    BY <1>2, <2>1
  <2>3. N \in 1..Len(s) /\ N = 8 * q + 6 + 1
    BY <1>2, <1>7, <1>10
  <2>4. PICK a \in 0..127 : a = s[N]
    BY <2>3, ElementOfSeq
  <2>5. Octet(s, 7 * q + 6) = LastByteOf(a, 6)
    <3>1. 6 \in 0..6
      OBVIOUS
    <3>2. QED
      BY <1>2, <1>7, <2>3, <2>4, <3>1, OctetAt
  <2>6. LastByteOf(a, 6) \div 2 = 13
    <3>1. 6 \in 0..6
      OBVIOUS
    <3>2. QED
      BY <3>1, LastHalf
  <2>7. Septet(P, N) = P[7 * q + 7] \div 2
    BY <1>6, <1>10
  <2>8. Septet(P, N) = 13
    BY <1>3, <2>2, <2>5, <2>6, <2>7
  <2>9. QED
    BY <1>7, <2>1, <2>8 DEF CR
<1>11. QED
  BY <1>2, <1>8, <1>9, <1>10

\* A text of 7-bit characters, whatever its length, comes back.
LEMMA PackUnpack ==
  ASSUME NEW s \in Seq(0..127), NEW back, back = UnpackGsm7(PackGsm7(s))
  PROVE  /\ SubSeq(back, 1, Len(s)) = [i \in 1..Len(s) |-> IF s[i] = CR THEN Space ELSE s[i]]
         /\ SubSeq(back, Len(s) + 1, Len(back)) \in {<<>>, <<0>>, <<Space>>}
<1> DEFINE P == PackGsm7(s)
           m == (8 * Len(P)) \div 7
           E(k) == IF Septet(P, k - 1) = CR THEN Space ELSE Septet(P, k - 1)
           T == {E(k) : k \in 1..m}
           want == [i \in 1..Len(s) |-> IF s[i] = CR THEN Space ELSE s[i]]
           head == SubSeq(back, 1, Len(s))
           tail == SubSeq(back, Len(s) + 1, Len(back))
<1>1. Len(s) \in Nat /\ Len(P) \in Nat /\ m \in Nat
  BY PackedType, LenProperties
<1>2. back = [k \in 1..m |-> E(k)]
  BY DEF UnpackGsm7
<1>3. \/ m = Len(s)
      \/ m = Len(s) + 1 /\ Septet(P, Len(s)) \in {0, CR}
  BY Padding
<1>4. \A i \in 1..Len(s) : Septet(P, i - 1) = s[i]
  <2>1. \A i \in 1..Len(s) : i - 1 \in Nat /\ i - 1 < Len(s) /\ (i - 1) + 1 = i
    BY <1>1
  <2>2. \A k \in Nat : k < Len(s) => Septet(P, k) = s[k + 1]
    BY Restored
  <2> HIDE DEF P
  <2>3. QED
    BY <2>1, <2>2
<1> HIDE DEF P, m
<1>5. \A k \in 1..m : E(k) \in T
  OBVIOUS
<1>6. back \in Seq(T) /\ Len(back) = m /\ \A k \in 1..m : back[k] = E(k) /\ back[k] \in T
  <2> HIDE DEF E, T
  <2>1. back \in [1..m -> T]
    BY <1>2, <1>5
  <2>2. back \in Seq(T)
    BY <1>1, <2>1, SeqDef
  <2>3. QED
    BY <1>1, <1>2, <1>5, <2>1, <2>2, LenProperties
<1>7. \A i \in 1..Len(s) : i \in 1..m /\ E(i) = want[i]
  BY <1>1, <1>3, <1>4
<1> HIDE DEF T
<1>8. head = want
  <2>1. \A i \in 1..Len(s) : back[i] \in T
    BY <1>6, <1>7
  <2>2. /\ head \in Seq(T) /\ Len(head) = Len(s)
        /\ \A i \in 1..Len(s) : head[i] = back[i]
    <3>1. /\ head \in Seq(T)
          /\ Len(head) = IF 1 <= Len(s) THEN Len(s) - 1 + 1 ELSE 0
          /\ \A i \in 1..(Len(s) - 1 + 1) : head[i] = back[1 + i - 1]
      BY <1>1, <2>1, SubSeqProperties
    <3>2. QED
      BY <1>1, <3>1
  <2>3. DOMAIN head = 1..Len(s) /\ head = [i \in 1..Len(s) |-> head[i]]
    BY <2>2, LenProperties
  <2>4. \A i \in 1..Len(s) : head[i] = want[i]
    BY <1>6, <1>7, <2>2
  <2>5. want = [i \in 1..Len(s) |-> want[i]]
    OBVIOUS
  <2> HIDE DEF want, head, E
  <2>6. QED
    BY <2>3, <2>4, <2>5
<1>9. tail \in {<<>>, <<0>>, <<Space>>}
  <2>1. \A i \in (Len(s) + 1)..Len(back) : back[i] \in T
    BY <1>1, <1>6
  <2>2. /\ tail \in Seq(T)
        /\ Len(tail) = IF Len(s) + 1 <= m THEN m - (Len(s) + 1) + 1 ELSE 0
        /\ \A i \in 1..(m - (Len(s) + 1) + 1) : tail[i] = back[(Len(s) + 1) + i - 1]
    BY <1>1, <1>6, <2>1, SubSeqProperties
  <2>3. CASE m = Len(s)
    <3>1. Len(tail) = 0
      BY <1>1, <2>2, <2>3
    <3>2. tail = <<>>
      BY <2>2, <3>1, EmptySeq
    <3>3. QED
      BY <3>2
  <2>4. CASE m = Len(s) + 1 /\ Septet(P, Len(s)) \in {0, CR}
    <3>1. Len(tail) = 1 /\ tail[1] = back[Len(s) + 1]
      BY <1>1, <2>2, <2>4
    <3>2. Len(s) + 1 \in 1..m /\ (Len(s) + 1) - 1 = Len(s)
      BY <1>1, <2>4
    <3>3. back[Len(s) + 1] = IF Septet(P, Len(s)) = CR THEN Space ELSE Septet(P, Len(s))
      BY <1>6, <3>2
    <3>4. back[Len(s) + 1] \in {0, Space}
      BY <2>4, <3>3
    <3>5. tail = <<tail[1]>>
      <4> HIDE DEF tail
      <4>1. tail \in Seq(T) /\ Len(tail) = 1
        BY <2>2, <3>1
      <4>2. QED
        BY <4>1
    <3>6. QED
      BY <3>1, <3>4, <3>5
  <2>5. QED
    BY <1>3, <2>3, <2>4
<1>10. QED
  BY <1>8, <1>9

-----------------------------------------------------------------------------
(* The states of the tokenizer *)

Types == {"NONE", "RAW", "STR", "PAREN", "FIN"}

States(S) == [type : Types, token : Seq(S), tokens : Seq(Seq(S))]

LEMMA ReadingParts ==
  ASSUME NEW ty, NEW tk, NEW ts
  PROVE  /\ Reading(ty, tk, ts).type = ty /\ Reading(ty, tk, ts).token = tk
         /\ Reading(ty, tk, ts).tokens = ts
  BY DEF Reading

LEMMA ReadingType ==
  ASSUME NEW S, NEW ty \in Types, NEW tk \in Seq(S), NEW ts \in Seq(Seq(S))
  PROVE  Reading(ty, tk, ts) \in States(S)
  BY DEF Reading, States

\* What a character makes of a state.
LEMMA TakeCharType ==
  ASSUME NEW S, NEW s \in States(S), NEW c \in S
  PROVE  TakeChar(s, c) \in States(S)
<1>1. s.type \in Types /\ s.token \in Seq(S) /\ s.tokens \in Seq(Seq(S))
  BY DEF States
<1>2. <<>> \in Seq(S) /\ <<c>> \in Seq(S) /\ Append(s.token, c) \in Seq(S)
  BY <1>1, EmptySeq, AppendProperties
<1>3. /\ Append(s.tokens, <<>>) \in Seq(Seq(S)) /\ Append(s.tokens, s.token) \in Seq(Seq(S))
      /\ Append(s.tokens, Append(s.token, c)) \in Seq(Seq(S))
  BY <1>1, <1>2, AppendProperties
<1>4. Types = {"NONE", "RAW", "STR", "PAREN", "FIN"}
  BY DEF Types
<1>5. \A tk \in Seq(S), ts \in Seq(Seq(S)), ty \in Types : Reading(ty, tk, ts) \in States(S)
  BY ReadingType
<1>6. TakeBetween(s, c) \in States(S)
  BY <1>1, <1>2, <1>3, <1>4, <1>5 DEF TakeBetween, Ready
<1>7. \A closing : TakeInside(s, c, closing) \in States(S)
  BY <1>1, <1>2, <1>3, <1>4, <1>5 DEF TakeInside
<1>8. QED
  BY <1>1, <1>2, <1>3, <1>4, <1>5, <1>6, <1>7 DEF TakeChar, Ready

LEMMA TakeFirstChar ==
  ASSUME NEW ts, NEW c
  PROVE  /\ c = Quote => TakeChar(Ready(ts), c) = Reading("STR", <<c>>, ts)
         /\ c = "(" => TakeChar(Ready(ts), c) = Reading("PAREN", <<c>>, ts)
         /\ c = "," => TakeChar(Ready(ts), c) = Ready(Append(ts, <<>>))
         /\ c = " " => TakeChar(Ready(ts), c) = Ready(ts)
         /\ c \notin {Quote, "(", ",", " "} => TakeChar(Ready(ts), c) = Reading("RAW", <<c>>, ts)
<1> DEFINE s == Ready(ts)
<1>1. s.type = "NONE" /\ s.tokens = ts
  BY ReadingParts DEF Ready
<1> HIDE DEF s
<1>2. TakeChar(s, c) = TakeBetween(s, c)
  BY <1>1 DEF TakeChar
<1>3. /\ c = Quote => TakeBetween(s, c) = Reading("STR", <<c>>, ts)
      /\ c = "(" => TakeBetween(s, c) = Reading("PAREN", <<c>>, ts)
      /\ c = "," => TakeBetween(s, c) = Ready(Append(ts, <<>>))
      /\ c = " " => TakeBetween(s, c) = s
      /\ c \notin {Quote, "(", ",", " "} => TakeBetween(s, c) = Reading("RAW", <<c>>, ts)
  BY <1>1 DEF TakeBetween, Quote
<1>4. QED
  BY <1>2, <1>3 DEF s

\* What a character inside of an item, or behind one, makes of a state.
LEMMA TakeCases ==
  ASSUME NEW s, NEW c
  PROVE  /\ s.type = "STR" => TakeChar(s, c) = TakeInside(s, c, Quote)
         /\ s.type = "PAREN" => TakeChar(s, c) = TakeInside(s, c, ")")
         /\ s.type = "RAW" => TakeChar(s, c) = IF c = "," THEN Ready(Append(s.tokens, s.token))
                                               ELSE Reading("RAW", Append(s.token, c), s.tokens)
         /\ s.type = "FIN" /\ c = "," => TakeChar(s, c) = Ready(s.tokens)
  BY DEF TakeChar

LEMMA StringChar ==
  ASSUME NEW tk, NEW ts, NEW c
  PROVE  TakeChar(Reading("STR", tk, ts), c) =
           IF c = Quote THEN Reading("FIN", <<>>, Append(ts, Append(tk, c)))
           ELSE Reading("STR", Append(tk, c), ts)
<1>1. PICK s : s = Reading("STR", tk, ts)
  OBVIOUS
<1>2. s.type = "STR" /\ s.token = tk /\ s.tokens = ts
  BY <1>1, ReadingParts
<1>3. TakeChar(s, c) = TakeInside(s, c, Quote)
  BY <1>2, TakeCases
<1>4. QED
  BY <1>1, <1>2, <1>3 DEF TakeInside

LEMMA ListChar ==
  ASSUME NEW tk, NEW ts, NEW c
  PROVE  TakeChar(Reading("PAREN", tk, ts), c) =
           IF c = ")" THEN Reading("FIN", <<>>, Append(ts, Append(tk, c)))
           ELSE Reading("PAREN", Append(tk, c), ts)
<1>1. PICK s : s = Reading("PAREN", tk, ts)
  OBVIOUS
<1>2. s.type = "PAREN" /\ s.token = tk /\ s.tokens = ts
  BY <1>1, ReadingParts
<1>3. TakeChar(s, c) = TakeInside(s, c, ")")
  BY <1>2, TakeCases
<1>4. QED
  BY <1>1, <1>2, <1>3 DEF TakeInside

LEMMA WordChar ==
  ASSUME NEW tk, NEW ts, NEW c
  PROVE  TakeChar(Reading("RAW", tk, ts), c) =
           IF c = "," THEN Ready(Append(ts, tk)) ELSE Reading("RAW", Append(tk, c), ts)
<1>1. PICK s : s = Reading("RAW", tk, ts)
  OBVIOUS
<1>2. s.type = "RAW" /\ s.token = tk /\ s.tokens = ts
  BY <1>1, ReadingParts
<1>3. TakeChar(s, c) = IF c = "," THEN Ready(Append(s.tokens, s.token))
                       ELSE Reading("RAW", Append(s.token, c), s.tokens)
  BY <1>2, TakeCases
<1>4. QED
  BY <1>1, <1>2, <1>3

LEMMA CommaChar ==
  ASSUME NEW tk, NEW ts
  PROVE  TakeChar(Reading("FIN", tk, ts), ",") = Ready(ts)
<1>1. PICK s : s = Reading("FIN", tk, ts)
  OBVIOUS
<1>2. s.type = "FIN" /\ s.tokens = ts
  BY <1>1, ReadingParts
<1>3. \A c : c = "," => TakeChar(s, c) = Ready(s.tokens)
  BY <1>2, TakeCases
<1>4. QED
  BY <1>1, <1>2, <1>3

LEMMA AtTheEnd ==
  ASSUME NEW tk, NEW ts, NEW closed
  PROVE  /\ Finished(Ready(ts), closed) = Append(ts, <<>>)
         /\ Finished(Reading("RAW", tk, ts), closed) = Append(ts, tk)
         /\ Finished(Reading("FIN", tk, ts), closed) = ts
<1>1. Finished(Ready(ts), closed) = Append(ts, <<>>)
  BY ReadingParts DEF Finished, Ready
<1>2. Finished(Reading("RAW", tk, ts), closed) = Append(ts, tk)
  BY ReadingParts DEF Finished
<1>3. Finished(Reading("FIN", tk, ts), closed) = ts
  BY ReadingParts DEF Finished
<1>4. QED
  BY <1>1, <1>2, <1>3

-----------------------------------------------------------------------------
(* Reading a text *)

\* What each character of a text makes of a state.
ReadTurns(g, s, text) ==
  /\ g[0] = s
  /\ \A i \in 1..Len(text) : g[i] = TakeChar(g[i - 1], text[i])

\* Whatever takes the same turns ends in the same state.
LEMMA ReadsUnique ==
  ASSUME NEW S, NEW text \in Seq(S), NEW s, NEW g, DOMAIN g = 0..Len(text),
         g = [i \in DOMAIN g |-> g[i]], ReadTurns(g, s, text)
  PROVE  Reads(s, text) = g[Len(text)]
<1> DEFINE F(k) == [n \in 0..Len(text) |-> IF n = 0 THEN s ELSE TakeChar(k[n - 1], text[n])]
           after == CHOOSE k : k = F(k)
<1>1. Len(text) \in Nat
  BY LenProperties
<1>2. g = F(g)
  <2>1. \A n \in 0..Len(text) : n = 0 \/ n \in 1..Len(text)
    BY <1>1
  <2>2. \A n \in 0..Len(text) : g[n] = F(g)[n]
    BY <2>1 DEF ReadTurns
  <2>3. F(g) = [n \in 0..Len(text) |-> F(g)[n]]
    OBVIOUS
  <2> HIDE DEF F
  <2>4. QED
    BY <2>2, <2>3
<1>3. after = F(after)
  <2> HIDE DEF F
  <2>1. QED
    BY <1>2
<1>4. \A n \in Nat : n <= Len(text) => after[n] = g[n]
  <2> HIDE DEF after
  <2> DEFINE U == {n \in Nat : n <= Len(text) => after[n] = g[n]}
  <2>1. after[0] = s /\ g[0] = s
    BY <1>1, <1>3 DEF ReadTurns
  <2>2. ASSUME NEW n \in Nat, n <= Len(text) => after[n] = g[n], n + 1 <= Len(text)
        PROVE  after[n + 1] = g[n + 1]
    <3>1. n + 1 \in 1..Len(text) /\ n + 1 \in 0..Len(text) /\ n + 1 # 0 /\ (n + 1) - 1 = n
      BY <1>1, <2>2
    <3>2. after[n + 1] = TakeChar(after[n], text[n + 1])
      BY <3>1, <1>3
    <3>3. g[n + 1] = TakeChar(g[n], text[n + 1])
      BY <3>1 DEF ReadTurns
    <3>4. QED
      BY <3>2, <3>3, <2>2, <1>1
  <2>3. 0 \in U
    BY <2>1
  <2>4. \A n \in Nat : n \in U => n + 1 \in U
    BY <2>2
  <2>5. Nat \subseteq U
    <3> HIDE DEF U
    <3>1. QED
      BY <2>3, <2>4, SetInduction
  <2>6. QED
    BY <2>5
<1>5. QED
  BY <1>1, <1>4 DEF Reads

\* The states between the characters of a text.
LEMMA ReadsLoop ==
  ASSUME NEW S, NEW text \in Seq(S), NEW s \in States(S)
  PROVE  \E g \in [0..Len(text) -> States(S)] :
           ReadTurns(g, s, text) /\ Reads(s, text) = g[Len(text)]
<1> DEFINE H == [a \in States(S) |-> [c \in S |-> TakeChar(a, c)]]
<1>1. H \in [States(S) -> [S -> States(S)]]
  BY TakeCharType
<1>2. Len(text) \in Nat
  BY LenProperties
<1>3. PICK g \in [0..Len(text) -> States(S)] :
        g[0] = s /\ \A i \in 1..Len(text) : g[i] = H[g[i - 1]][text[i]]
  <2> HIDE DEF H
  <2>1. \E g \in [0..Len(text) -> States(S)] : Turns(g, text, s, H)
    BY <1>1, LoopExists
  <2>2. QED
    BY <2>1 DEF Turns
<1>4. \A i \in 1..Len(text) : i - 1 \in 0..Len(text) /\ g[i - 1] \in States(S) /\ text[i] \in S
  BY <1>2, ElementOfSeq
<1>5. ReadTurns(g, s, text)
  BY <1>3, <1>4 DEF ReadTurns
<1>6. Reads(s, text) = g[Len(text)]
  BY <1>5, ReadsUnique
<1>7. QED
  BY <1>5, <1>6

LEMMA ReadsType ==
  ASSUME NEW S, NEW text \in Seq(S), NEW s \in States(S)
  PROVE  Reads(s, text) \in States(S)
<1>1. PICK g \in [0..Len(text) -> States(S)] : Reads(s, text) = g[Len(text)]
  BY ReadsLoop
<1>2. QED
  BY <1>1, LenProperties

\* Nothing, one character, and two texts one behind the other.
LEMMA ReadsEmpty ==
  ASSUME NEW s
  PROVE  Reads(s, <<>>) = s
<1>1. <<>> \in Seq({}) /\ Len(<<>>) = 0
  BY EmptySeq
<1> DEFINE g == [i \in 0..Len(<<>>) |-> s]
<1>2. DOMAIN g = 0..Len(<<>>) /\ g = [i \in DOMAIN g |-> g[i]] /\ ReadTurns(g, s, <<>>)
  BY <1>1 DEF ReadTurns
<1>3. g[Len(<<>>)] = s
  BY <1>1
<1> HIDE DEF g
<1>4. QED
  BY <1>1, <1>2, <1>3, ReadsUnique

LEMMA ReadsOne ==
  ASSUME NEW s, NEW c
  PROVE  Reads(s, <<c>>) = TakeChar(s, c)
<1> DEFINE text == <<c>>
           g == [i \in 0..Len(text) |-> IF i = 0 THEN s ELSE TakeChar(s, c)]
<1>1. text \in Seq({c}) /\ Len(text) = 1 /\ text[1] = c
  OBVIOUS
<1>2. DOMAIN g = 0..Len(text) /\ g = [i \in DOMAIN g |-> g[i]] /\ g[0] = s /\ g[1] = TakeChar(s, c)
  BY <1>1
<1> HIDE DEF g, text
<1>3. ReadTurns(g, s, text)
  BY <1>1, <1>2 DEF ReadTurns
<1>4. Reads(s, text) = g[Len(text)]
  BY <1>1, <1>2, <1>3, ReadsUnique
<1>5. QED
  BY <1>1, <1>2, <1>4 DEF text

LEMMA ReadsCat ==
  ASSUME NEW S, NEW a \in Seq(S), NEW b \in Seq(S), NEW s \in States(S)
  PROVE  Reads(s, Cat(a, b)) = Reads(Reads(s, a), b)
<1>1. PICK t \in Seq(S) : t = Cat(a, b)
  BY CatProperties
<1>2. Joined(t, a, b)
  BY <1>1, CatJoined
<1>3. PICK g \in [0..Len(t) -> States(S)] : ReadTurns(g, s, t) /\ Reads(s, t) = g[Len(t)]
  BY ReadsLoop
<1>4. PICK m \in Nat, n \in Nat : m = Len(a) /\ n = Len(b) /\ Len(t) = m + n
  BY <1>2 DEF Joined
<1> DEFINE h == [i \in 0..Len(a) |-> g[i]]
           k == [i \in 0..Len(b) |-> g[m + i]]
<1>5. Reads(s, a) = g[m]
  <2>1. DOMAIN h = 0..Len(a) /\ h = [i \in DOMAIN h |-> h[i]] /\ \A i \in 0..m : h[i] = g[i]
    BY <1>4
  <2> HIDE DEF h
  <2>2. ASSUME NEW i \in 1..Len(a) PROVE h[i] = TakeChar(h[i - 1], a[i])
    <3>1. i \in 0..m /\ i - 1 \in 0..m /\ i \in 1..Len(t) /\ t[i] = a[i]
      BY <1>2, <1>4 DEF Joined
    <3>2. QED
      BY <1>3, <2>1, <3>1 DEF ReadTurns
  <2>3. h[0] = s /\ h[m] = g[m]
    BY <1>3, <1>4, <2>1 DEF ReadTurns
  <2>4. ReadTurns(h, s, a)
    BY <2>2, <2>3 DEF ReadTurns
  <2>5. QED
    BY <1>4, <2>1, <2>3, <2>4, ReadsUnique
<1>6. Reads(g[m], b) = g[m + n]
  <2>1. DOMAIN k = 0..Len(b) /\ k = [i \in DOMAIN k |-> k[i]] /\ \A i \in 0..n : k[i] = g[m + i]
    BY <1>4
  <2> HIDE DEF k
  <2>2. ASSUME NEW i \in 1..Len(b) PROVE k[i] = TakeChar(k[i - 1], b[i])
    <3>1. i \in 0..n /\ i - 1 \in 0..n /\ m + i \in 1..Len(t) /\ t[m + i] = b[i]
          /\ m + (i - 1) = (m + i) - 1
      BY <1>2, <1>4 DEF Joined
    <3>2. QED
      BY <1>3, <2>1, <3>1 DEF ReadTurns
  <2>3. k[0] = g[m] /\ k[n] = g[m + n]
    <3>1. 0 \in 0..n /\ n \in 0..n /\ m + 0 = m
      BY <1>4
    <3>2. k[0] = g[m + 0] /\ k[n] = g[m + n]
      BY <2>1, <3>1
    <3>3. QED
      BY <3>1, <3>2
  <2>4. ReadTurns(k, g[m], b)
    BY <2>2, <2>3 DEF ReadTurns
  <2>5. QED
    BY <1>4, <2>1, <2>3, <2>4, ReadsUnique
<1>7. QED
  BY <1>1, <1>3, <1>4, <1>5, <1>6

-----------------------------------------------------------------------------
(* Reading an item *)

LEMMA Starts ==
  ASSUME NEW S, NEW w \in Seq(S)
  PROVE  /\ SubSeq(w, 1, 0) = <<>>
         /\ SubSeq(w, 1, Len(w)) = w
         /\ \A n \in 0..Len(w) : SubSeq(w, 1, n) \in Seq(S) /\ Len(SubSeq(w, 1, n)) = n
         /\ \A n \in 1..Len(w) : SubSeq(w, 1, n) = Append(SubSeq(w, 1, n - 1), w[n])
         /\ Len(w) >= 1 => SubSeq(w, 1, 1) = <<w[1]>>
<1>1. Len(w) \in Nat
  BY LenProperties
<1>2. SubSeq(w, 1, 0) = <<>>
  BY SubSeqEmpty
<1>3. SubSeq(w, 1, Len(w)) = w
  BY SubSeqFull
<1>4. ASSUME NEW n \in 0..Len(w)
      PROVE  SubSeq(w, 1, n) \in Seq(S) /\ Len(SubSeq(w, 1, n)) = n
  <2>1. n \in Int /\ 1 \in Int /\ \A i \in 1..n : w[i] \in S
    BY <1>1, ElementOfSeq
  <2>2. QED
    BY <2>1, <1>4, SubSeqProperties
<1>5. ASSUME NEW n \in 1..Len(w)
      PROVE  SubSeq(w, 1, n) = Append(SubSeq(w, 1, n - 1), w[n])
  <2>1. 1 \in 1..Len(w) /\ n \in 1..Len(w) /\ n - 1 \in 0..Len(w) /\ w[n] \in S
    BY <1>1, ElementOfSeq
  <2>2. SubSeq(w, 1, n) = SubSeq(w, 1, n - 1) \o <<w[n]>>
    BY <2>1, SubSeqRecursiveSecond
  <2>3. SubSeq(w, 1, n - 1) \in Seq(S)
    BY <2>1, <1>4
  <2>4. QED
    BY <2>1, <2>2, <2>3, AppendIsConcat
<1>6. Len(w) >= 1 => SubSeq(w, 1, 1) = <<w[1]>>
  <2>1. SUFFICES ASSUME Len(w) >= 1 PROVE SubSeq(w, 1, 1) = <<w[1]>>
    OBVIOUS
  <2>2. SubSeq(w, 1, 1) = Append(<<>>, w[1])
    <3>1. 1 \in 1..Len(w) /\ 1 - 1 = 0
      BY <1>1, <2>1
    <3>2. SubSeq(w, 1, 1) = Append(SubSeq(w, 1, 1 - 1), w[1])
      BY <1>5, <3>1
    <3>3. QED
      BY <1>2, <3>1, <3>2
  <2>3. QED
    BY <2>2
<1>7. QED
  BY <1>2, <1>3, <1>4, <1>5, <1>6

\* The characters between two items.
Comma == ","
Gap == " "

\* Behind an item: u are the tokens with it, if the line ends or goes on.
Ended(s, u) == (\A closed \in BOOLEAN : Finished(s, closed) = u) /\ TakeChar(s, Comma) = Ready(u)

LEMMA NothingRead ==
  ASSUME NEW ts
  PROVE  Ended(Reads(Ready(ts), <<>>), Append(ts, <<>>))
<1>1. Reads(Ready(ts), <<>>) = Ready(ts)
  BY ReadsEmpty
<1>2. QED
  BY <1>1, AtTheEnd, TakeFirstChar DEF Ended, Comma

LEMMA WordRead ==
  ASSUME NEW S, NEW w \in Seq(S), IsWord(w), NEW ts
  PROVE  Ended(Reads(Ready(ts), w), Append(ts, w))
<1> DEFINE g == [n \in 0..Len(w) |->
                   IF n = 0 THEN Ready(ts) ELSE Reading("RAW", SubSeq(w, 1, n), ts)]
<1>1. PICK m \in Nat \ {0} : m = Len(w)
  BY EmptySeq DEF IsWord
<1>2. /\ w[1] \notin {Quote, "(", ",", " "} /\ 1 \in 1..Len(w)
      /\ \A i \in 1..Len(w) : w[i] # ","
  <2>1. w[1] \notin {Quote, "(", " "}
    BY Zenon DEF IsWord
  <2>2. \A i \in 1..Len(w) : w[i] # ","
    BY DEF IsWord, Contains
  <2>3. 1 \in 1..Len(w)
    BY <1>1
  <2>4. QED
    BY <2>1, <2>2, <2>3
<1>3. /\ DOMAIN g = 0..Len(w) /\ g = [i \in DOMAIN g |-> g[i]] /\ g[0] = Ready(ts)
      /\ \A n \in 1..Len(w) : g[n] = Reading("RAW", SubSeq(w, 1, n), ts)
  BY <1>1
<1> HIDE DEF g
<1>4. ASSUME NEW n \in 1..Len(w) PROVE g[n] = TakeChar(g[n - 1], w[n])
  <2>1. CASE n = 1
    <3>1. TakeChar(Ready(ts), w[1]) = Reading("RAW", <<w[1]>>, ts)
      <4>1. PICK c : c = w[1]
        OBVIOUS
      <4>2. QED
        BY <1>2, <4>1, TakeFirstChar
    <3>2. SubSeq(w, 1, 1) = <<w[1]>>
      <4>1. Len(w) >= 1
        BY <1>1
      <4>2. QED
        BY <4>1, Starts
    <3>3. QED
      <4>1. g[n - 1] = Ready(ts) /\ g[n] = Reading("RAW", SubSeq(w, 1, 1), ts)
        <5>1. n - 1 = 0
          BY <2>1
        <5>2. QED
          BY <1>3, <2>1, <5>1
      <4>2. QED
        BY <2>1, <3>1, <3>2, <4>1
  <2>2. CASE n # 1
    <3>1. n - 1 \in 1..Len(w)
      BY <1>1, <2>2
    <3>2. TakeChar(Reading("RAW", SubSeq(w, 1, n - 1), ts), w[n]) =
            Reading("RAW", Append(SubSeq(w, 1, n - 1), w[n]), ts)
      <4>1. PICK tk, c : tk = SubSeq(w, 1, n - 1) /\ c = w[n]
        OBVIOUS
      <4>2. QED
        BY <1>2, <4>1, WordChar
    <3>3. SubSeq(w, 1, n) = Append(SubSeq(w, 1, n - 1), w[n])
      BY Starts
    <3>4. QED
      BY <1>3, <3>1, <3>2, <3>3
  <2>3. QED
    BY <2>1, <2>2
<1>5. ReadTurns(g, Ready(ts), w)
  BY <1>3, <1>4 DEF ReadTurns
<1>6. Reads(Ready(ts), w) = g[Len(w)]
  BY <1>3, <1>5, ReadsUnique
<1>7. Reads(Ready(ts), w) = Reading("RAW", w, ts)
  <2>1. Len(w) \in 1..Len(w) /\ SubSeq(w, 1, Len(w)) = w
    BY <1>1, Starts
  <2>2. QED
    BY <1>3, <1>6, <2>1
<1>8. TakeChar(Reading("RAW", w, ts), ",") = Ready(Append(ts, w))
  BY WordChar
<1>9. QED
  BY <1>7, <1>8, AtTheEnd DEF Ended, Comma

\* A string, or a list: ty is the type of the state inside of it.
LEMMA EnclosedRead ==
  ASSUME NEW S, NEW w \in Seq(S), NEW ty, NEW opening, NEW closing, NEW ts,
         Encloses(opening, closing, w),
         TakeChar(Ready(ts), opening) = Reading(ty, <<opening>>, ts),
         \A tk, c : TakeChar(Reading(ty, tk, ts), c) =
                      IF c = closing THEN Reading("FIN", <<>>, Append(ts, Append(tk, c)))
                      ELSE Reading(ty, Append(tk, c), ts)
  PROVE  Ended(Reads(Ready(ts), w), Append(ts, w))
<1> DEFINE g == [n \in 0..Len(w) |->
                   IF n = 0 THEN Ready(ts)
                   ELSE IF n < Len(w) THEN Reading(ty, SubSeq(w, 1, n), ts)
                   ELSE Reading("FIN", <<>>, Append(ts, w))]
<1>1. /\ Len(w) \in Nat /\ Len(w) >= 2 /\ w[1] = opening /\ w[Len(w)] = closing
      /\ \A i \in 2..(Len(w) - 1) : w[i] # closing
  BY LenProperties DEF Encloses
<1>2. /\ DOMAIN g = 0..Len(w) /\ g = [i \in DOMAIN g |-> g[i]] /\ g[0] = Ready(ts)
      /\ \A n \in 1..(Len(w) - 1) : g[n] = Reading(ty, SubSeq(w, 1, n), ts)
      /\ g[Len(w)] = Reading("FIN", <<>>, Append(ts, w))
  BY <1>1
<1> HIDE DEF g
<1>3. ASSUME NEW n \in 1..Len(w) PROVE g[n] = TakeChar(g[n - 1], w[n])
  <2>1. CASE n = 1
    <3>1. SubSeq(w, 1, 1) = <<w[1]>> /\ 1 \in 1..(Len(w) - 1)
      BY <1>1, Starts
    <3>2. QED
      BY <1>1, <1>2, <2>1, <3>1
  <2>2. CASE n # 1
    <3>1. n - 1 \in 1..(Len(w) - 1)
      BY <1>1, <2>2
    <3>2. SubSeq(w, 1, n) = Append(SubSeq(w, 1, n - 1), w[n])
      BY Starts
    <3>3. g[n - 1] = Reading(ty, SubSeq(w, 1, n - 1), ts)
      BY <1>2, <3>1
    <3>4. CASE n = Len(w)
      <4>1. w = Append(SubSeq(w, 1, n - 1), w[n]) /\ w[n] = closing
        BY <1>1, <3>2, <3>4, Starts
      <4>2. g[n] = Reading("FIN", <<>>, Append(ts, w))
        BY <1>2, <3>4
      <4>3. TakeChar(g[n - 1], w[n]) =
              Reading("FIN", <<>>, Append(ts, Append(SubSeq(w, 1, n - 1), w[n])))
        BY <3>3, <4>1
      <4>4. QED
        BY <4>1, <4>2, <4>3
    <3>5. CASE n # Len(w)
      <4>1. n \in 2..(Len(w) - 1) /\ n \in 1..(Len(w) - 1)
        BY <1>1, <2>2, <3>5
      <4>2. w[n] # closing /\ g[n] = Reading(ty, SubSeq(w, 1, n), ts)
        BY <1>1, <1>2, <4>1
      <4>3. QED
        BY <3>2, <3>3, <4>2
    <3>6. QED
      BY <3>4, <3>5
  <2>3. QED
    BY <2>1, <2>2
<1>4. ReadTurns(g, Ready(ts), w)
  BY <1>2, <1>3 DEF ReadTurns
<1>5. Reads(Ready(ts), w) = Reading("FIN", <<>>, Append(ts, w))
  BY <1>2, <1>4, ReadsUnique
<1>6. TakeChar(Reading("FIN", <<>>, Append(ts, w)), ",") = Ready(Append(ts, w))
  <2>1. PICK u : u = Append(ts, w)
    OBVIOUS
  <2>2. TakeChar(Reading("FIN", <<>>, u), ",") = Ready(u)
    BY CommaChar
  <2>3. QED
    BY <2>1, <2>2
<1>7. \A closed : Finished(Reading("FIN", <<>>, Append(ts, w)), closed) = Append(ts, w)
  <2>1. PICK u : u = Append(ts, w)
    OBVIOUS
  <2>2. \A closed : Finished(Reading("FIN", <<>>, u), closed) = u
    BY AtTheEnd
  <2>3. QED
    BY <2>1, <2>2
<1>8. QED
  BY <1>5, <1>6, <1>7 DEF Ended, Comma

LEMMA ItemRead ==
  ASSUME NEW S, NEW w \in Seq(S), IsItem(w), NEW ts
  PROVE  Ended(Reads(Ready(ts), w), Append(ts, w))
<1>1. CASE w = <<>>
  BY <1>1, NothingRead
<1>2. CASE IsWord(w)
  BY <1>2, WordRead
<1>3. CASE Encloses(Quote, Quote, w)
  <2>1. TakeChar(Ready(ts), Quote) = Reading("STR", <<Quote>>, ts)
    BY TakeFirstChar
  <2>2. ASSUME NEW tk, NEW c
        PROVE  TakeChar(Reading("STR", tk, ts), c) =
                 IF c = Quote THEN Reading("FIN", <<>>, Append(ts, Append(tk, c)))
                 ELSE Reading("STR", Append(tk, c), ts)
    BY StringChar
  <2>3. QED
    BY <1>3, <2>1, <2>2, EnclosedRead
<1>4. CASE Encloses("(", ")", w)
  <2>1. TakeChar(Ready(ts), "(") = Reading("PAREN", <<"(">>, ts)
    BY TakeFirstChar
  <2>2. ASSUME NEW tk, NEW c
        PROVE  TakeChar(Reading("PAREN", tk, ts), c) =
                 IF c = ")" THEN Reading("FIN", <<>>, Append(ts, Append(tk, c)))
                 ELSE Reading("PAREN", Append(tk, c), ts)
    BY ListChar
  <2>3. QED
    BY <1>4, <2>1, <2>2, EnclosedRead
<1>5. QED
  BY <1>1, <1>2, <1>3, <1>4 DEF IsItem

-----------------------------------------------------------------------------
(* Reading the items of a line *)

\* A comma, and perhaps a blank.
Separator(blank) == Cat(<<Comma>>, blank)

LEMMA ReadyType ==
  ASSUME NEW S
  PROVE  Ready(<<>>) \in States(S)
<1>1. "NONE" \in Types /\ <<>> \in Seq(S) /\ <<>> \in Seq(Seq(S))
  BY EmptySeq DEF Types
<1>2. QED
  BY <1>1, ReadingType DEF Ready

LEMMA BlankRead ==
  ASSUME NEW ts, NEW blank \in {<<>>, <<Gap>>}
  PROVE  Reads(Ready(ts), blank) = Ready(ts)
<1>1. CASE blank = <<>>
  BY <1>1, ReadsEmpty
<1>2. CASE blank = <<Gap>>
  <2>1. Reads(Ready(ts), <<Gap>>) = TakeChar(Ready(ts), Gap)
    BY ReadsOne
  <2>2. TakeChar(Ready(ts), Gap) = Ready(ts)
    BY TakeFirstChar DEF Gap
  <2>3. QED
    BY <1>2, <2>1, <2>2
<1>3. QED
  BY <1>1, <1>2

LEMMA SeparatorRead ==
  ASSUME NEW S, Comma \in S, Gap \in S, NEW s \in States(S), NEW u, Ended(s, u),
         NEW blank \in {<<>>, <<Gap>>}
  PROVE  /\ blank \in Seq(S) /\ Separator(blank) \in Seq(S)
         /\ Reads(s, Separator(blank)) = Ready(u)
<1>1. PICK one \in Seq(S) : one = <<Comma>>
  <2>1. <<Comma>> \in Seq(S)
    OBVIOUS
  <2>2. QED
    BY <2>1
<1>2. blank \in Seq(S)
  <2>1. <<>> \in Seq(S) /\ <<Gap>> \in Seq(S)
    OBVIOUS
  <2>2. QED
    BY <2>1
<1>3. Cat(one, blank) \in Seq(S)
  BY <1>2, CatProperties
<1>4. Reads(s, Cat(one, blank)) = Reads(Reads(s, one), blank)
  BY <1>2, ReadsCat
<1>5. Reads(s, one) = Ready(u)
  <2>1. Reads(s, one) = TakeChar(s, Comma)
    BY <1>1, ReadsOne
  <2>2. QED
    BY <2>1 DEF Ended
<1>6. Reads(Ready(u), blank) = Ready(u)
  BY BlankRead
<1>7. QED
  BY <1>1, <1>2, <1>3, <1>4, <1>5, <1>6 DEF Separator

\* One more item.
LEMMA MoreRead ==
  ASSUME NEW S, Comma \in S, Gap \in S, NEW l \in Seq(S), NEW u,
         Ended(Reads(Ready(<<>>), l), u),
         NEW w \in Seq(S), IsItem(w), NEW blank \in {<<>>, <<Gap>>}
  PROVE  Ended(Reads(Ready(<<>>), Cat(l, Cat(Separator(blank), w))), Append(u, w))
<1>1. PICK s \in States(S) : s = Ready(<<>>)
  BY ReadyType
<1>2. PICK t \in States(S) : t = Reads(s, l)
  BY ReadsType
<1>3. Separator(blank) \in Seq(S) /\ Reads(t, Separator(blank)) = Ready(u)
  <2>1. Ended(t, u)
    BY <1>1, <1>2
  <2>2. QED
    BY <2>1, SeparatorRead
<1>4. PICK k \in Seq(S) : k = Separator(blank)
  BY <1>3
<1>5. Reads(s, Cat(l, Cat(k, w))) = Reads(t, Cat(k, w))
  <2>1. Cat(k, w) \in Seq(S)
    BY CatProperties
  <2>2. QED
    BY <1>2, <2>1, ReadsCat
<1>6. Reads(t, Cat(k, w)) = Reads(Ready(u), w)
  BY <1>3, <1>4, ReadsCat
<1>7. Ended(Reads(Ready(u), w), Append(u, w))
  BY ItemRead
<1>8. QED
  BY <1>1, <1>4, <1>5, <1>6, <1>7

\* What Listing puts one behind the other.
Pieces(its, blank) ==
  [i \in 1..Len(its) |-> IF i = 1 THEN its[i] ELSE <<Comma>> \o blank \o its[i]]

LEMMA PiecesType ==
  ASSUME NEW S, Comma \in S, NEW its \in Seq(Seq(S)), NEW blank \in Seq(S)
  PROVE  /\ Pieces(its, blank) \in Seq(Seq(S)) /\ Len(Pieces(its, blank)) = Len(its)
         /\ Len(its) \in Nat
         /\ \A i \in 1..Len(its) : /\ its[i] \in Seq(S)
                                   /\ i = 1 => Pieces(its, blank)[i] = its[i]
                                   /\ i # 1 => Pieces(its, blank)[i] = Cat(Separator(blank), its[i])
<1>1. Len(its) \in Nat /\ \A i \in 1..Len(its) : its[i] \in Seq(S)
  BY LenProperties, ElementOfSeq
<1>2. Separator(blank) \in Seq(S)
  <2>1. PICK one \in Seq(S) : one = <<Comma>>
    <3>1. <<Comma>> \in Seq(S)
      OBVIOUS
    <3>2. QED
      BY <3>1
  <2>2. QED
    BY <2>1, CatProperties DEF Separator
<1>3. \A i \in 1..Len(its) : Cat(Separator(blank), its[i]) = <<Comma>> \o blank \o its[i]
  BY DEF Separator, Cat
<1>4. \A i \in 1..Len(its) : Cat(Separator(blank), its[i]) \in Seq(S)
  BY <1>1, <1>2, CatProperties
<1> DEFINE p == Pieces(its, blank)
<1>5. p = [i \in 1..Len(its) |-> IF i = 1 THEN its[i] ELSE Cat(Separator(blank), its[i])]
  BY <1>3 DEF Pieces
<1> HIDE DEF p
<1>6. p \in Seq(Seq(S)) /\ Len(p) = Len(its)
  BY <1>1, <1>4, <1>5
<1>7. QED
  BY <1>1, <1>5, <1>6 DEF p

LEMMA ListingRead ==
  ASSUME NEW S, Comma \in S, Gap \in S, NEW its \in Seq(Seq(S)), its # <<>>,
         \A i \in 1..Len(its) : IsItem(its[i]), NEW blank \in {<<>>, <<Gap>>}
  PROVE  /\ Listing(its, blank) \in Seq(S)
         /\ Ended(Reads(Ready(<<>>), Listing(its, blank)), its)
<1>1. blank \in Seq(S)
  <2>1. <<>> \in Seq(S) /\ <<Gap>> \in Seq(S)
    OBVIOUS
  <2>2. QED
    BY <2>1
<1>2. PICK p \in Seq(Seq(S)) : p = Pieces(its, blank) /\ Len(p) = Len(its)
  BY <1>1, PiecesType
<1>3. Len(its) \in Nat \ {0}
  BY EmptySeq
<1>4. \A i \in 1..Len(its) : /\ its[i] \in Seq(S) /\ p[i] \in Seq(S)
                             /\ i = 1 => p[i] = its[i]
                             /\ i # 1 => p[i] = Cat(Separator(blank), its[i])
  <2>1. \A i \in 1..Len(its) : p[i] \in Seq(S)
    BY <1>2, ElementOfSeq
  <2>2. \A i \in 1..Len(its) : /\ its[i] \in Seq(S)
                               /\ i = 1 => Pieces(its, blank)[i] = its[i]
                               /\ i # 1 => Pieces(its, blank)[i] = Cat(Separator(blank), its[i])
    BY <1>1, PiecesType
  <2>3. QED
    BY <1>2, <2>1, <2>2
<1> DEFINE upto(n) == FlattenSeq(SubSeq(p, 1, n))
           Good(n) == Ended(Reads(Ready(<<>>), upto(n)), SubSeq(its, 1, n))
           U == {n \in Nat : n + 1 <= Len(its) => Good(n + 1)}
<1>5. ASSUME NEW n \in 1..Len(its)
      PROVE  /\ upto(n - 1) \in Seq(S) /\ upto(n) = Cat(upto(n - 1), p[n])
             /\ SubSeq(its, 1, n) = Append(SubSeq(its, 1, n - 1), its[n])
  <2>1. n - 1 \in 0..Len(its)
    BY <1>3
  <2>2. /\ SubSeq(p, 1, n - 1) \in Seq(Seq(S))
        /\ SubSeq(p, 1, n) = Append(SubSeq(p, 1, n - 1), p[n])
    BY <1>2, <2>1, Starts
  <2>3. p[n] \in Seq(S)
    BY <1>4
  <2>4. upto(n - 1) \in Seq(S) /\ upto(n) = Cat(upto(n - 1), p[n])
    BY <2>2, <2>3, FlatType, FlatAppend DEF Cat
  <2>5. SubSeq(its, 1, n) = Append(SubSeq(its, 1, n - 1), its[n])
    BY Starts
  <2>6. QED
    BY <2>4, <2>5
<1>6. upto(0) = <<>> /\ SubSeq(its, 1, 0) = <<>>
  BY Starts, FlatEmpty
<1> HIDE DEF upto
<1>7. Good(1)
  <2>1. 1 \in 1..Len(its) /\ 1 - 1 = 0
    BY <1>3
  <2>2. upto(1) = Cat(upto(0), p[1]) /\ SubSeq(its, 1, 1) = Append(SubSeq(its, 1, 0), its[1])
    BY <1>5, <2>1
  <2>3. p[1] = its[1] /\ its[1] \in Seq(S) /\ IsItem(its[1])
    BY <1>4, <2>1
  <2>4. Cat(<<>>, its[1]) = its[1]
    BY <2>3, ConcatEmptySeq DEF Cat
  <2>5. Ended(Reads(Ready(<<>>), its[1]), Append(<<>>, its[1]))
    BY <2>3, ItemRead
  <2>6. QED
    BY <1>6, <2>2, <2>3, <2>4, <2>5
<1>8. ASSUME NEW n \in 1..Len(its), n + 1 \in 1..Len(its), Good(n) PROVE Good(n + 1)
  <2>1. n + 1 # 1 /\ (n + 1) - 1 = n
    BY <1>8
  <2>2. /\ upto(n) \in Seq(S) /\ upto(n + 1) = Cat(upto(n), p[n + 1])
        /\ SubSeq(its, 1, n + 1) = Append(SubSeq(its, 1, n), its[n + 1])
    BY <1>5, <1>8, <2>1
  <2>3. /\ p[n + 1] = Cat(Separator(blank), its[n + 1])
        /\ its[n + 1] \in Seq(S) /\ IsItem(its[n + 1])
    BY <1>4, <1>8, <2>1
  <2>4. PICK l \in Seq(S), w \in Seq(S) : l = upto(n) /\ w = its[n + 1]
    BY <2>2, <2>3
  <2>5. PICK u : u = SubSeq(its, 1, n)
    OBVIOUS
  <2>6. Ended(Reads(Ready(<<>>), l), u) /\ IsItem(w)
    BY <1>8, <2>3, <2>4, <2>5
  <2>7. Ended(Reads(Ready(<<>>), Cat(l, Cat(Separator(blank), w))), Append(u, w))
    BY <2>6, MoreRead
  <2>8. QED
    BY <2>2, <2>3, <2>4, <2>5, <2>7
<1> HIDE DEF Good
<1>9. Nat \subseteq U
  <2>1. 0 \in U
    <3>1. 0 + 1 = 1
      OBVIOUS
    <3>2. QED
      BY <1>7, <3>1
  <2>2. ASSUME NEW n \in Nat, n \in U PROVE n + 1 \in U
    <3>1. SUFFICES ASSUME (n + 1) + 1 <= Len(its) PROVE Good((n + 1) + 1)
      OBVIOUS
    <3>2. n + 1 \in 1..Len(its) /\ (n + 1) + 1 \in 1..Len(its)
      BY <1>3, <3>1
    <3>3. Good(n + 1)
      BY <1>3, <2>2, <3>2
    <3>4. QED
      BY <1>8, <3>2, <3>3
  <2> HIDE DEF U
  <2>3. QED
    BY <2>1, <2>2, SetInduction
<1>10. Good(Len(its))
  <2>1. PICK m \in Nat : m + 1 = Len(its)
    <3>1. Len(its) - 1 \in Nat /\ (Len(its) - 1) + 1 = Len(its)
      BY <1>3
    <3>2. QED
      BY <3>1
  <2>2. m \in U
    BY <1>9
  <2>3. m + 1 <= Len(its)
    BY <1>3, <2>1
  <2>4. QED
    BY <2>1, <2>2, <2>3
<1>11. SubSeq(p, 1, Len(its)) = p /\ SubSeq(its, 1, Len(its)) = its
  BY <1>2, Starts
<1>12. FlattenSeq(p) = Listing(its, blank)
  BY <1>2 DEF Listing, Pieces, Comma
<1>13. FlattenSeq(p) \in Seq(S)
  BY FlatType
<1>14. QED
  BY <1>10, <1>11, <1>12, <1>13 DEF Good, upto

-----------------------------------------------------------------------------
(* Reading a line, and a list *)

LEMMA LineTokens ==
  ASSUME NEW text, NEW c \in 1..Len(text), text # <<>>, Head(text) # "(", text[c] = ":",
         \A j \in 1..(c - 1) : text[j] # ":", Len(text) \in Nat
  PROVE  Tokens(text) = Scan(SubSeq(text, c + 1, Len(text)), FALSE)
<1> DEFINE Colon(i) == text[i] = ":" /\ \A j \in 1..(i - 1) : text[j] # ":"
           colon == CHOOSE i \in 1..Len(text) : Colon(i)
<1>1. Colon(c)
  OBVIOUS
<1>2. colon \in 1..Len(text) /\ Colon(colon)
  <2> HIDE DEF Colon
  <2>1. QED
    BY <1>1
<1> HIDE DEF colon
<1>3. colon = c
  <2>1. ~(colon < c) /\ ~(c < colon)
    <3>1. colon < c => colon \in 1..(c - 1)
      BY <1>2
    <3>2. c < colon => c \in 1..(colon - 1)
      BY <1>2
    <3>3. QED
      BY <1>1, <1>2, <3>1, <3>2
  <2>2. QED
    BY <1>2, <2>1
<1>4. Contains(text, ":")
  BY DEF Contains
<1>5. Tokens(text) = Scan(SubSeq(text, colon + 1, Len(text)), FALSE)
  BY <1>4 DEF Tokens, colon
<1>6. QED
  BY <1>3, <1>5

LEMMA ListTokens ==
  ASSUME NEW text, text # <<>>, Head(text) = "(", Last(text) = ")"
  PROVE  Tokens(text) = Scan(SubSeq(text, 2, Len(text) - 1), TRUE)
  BY DEF Tokens

\* A text between two characters.
Wrap(opening, l, closing) == Cat(Cat(<<opening>>, l), <<closing>>)

WrapOf(S, opening, l, closing, w) ==
  /\ w \in Seq(S) /\ w # <<>> /\ Len(w) = Len(l) + 2 /\ Len(l) \in Nat
  /\ w[1] = opening /\ Head(w) = opening
  /\ w[Len(w)] = closing /\ Last(w) = closing
  /\ \A i \in 1..Len(l) : w[i + 1] = l[i]
  /\ SubSeq(w, 2, Len(w) - 1) = l

LEMMA Wrapped ==
  ASSUME NEW S, NEW l \in Seq(S), NEW opening \in S, NEW closing \in S, NEW w,
         w = Wrap(opening, l, closing)
  PROVE  WrapOf(S, opening, l, closing, w)
<1>1. PICK a \in Seq(S), b \in Seq(S) : a = <<opening>> /\ b = <<closing>>
  <2>1. <<opening>> \in Seq(S) /\ <<closing>> \in Seq(S)
    OBVIOUS
  <2>2. QED
    BY <2>1
<1>2. Len(a) = 1 /\ a[1] = opening /\ Len(b) = 1 /\ b[1] = closing
  BY <1>1
<1>3. PICK d \in Seq(S) : d = Cat(a, l)
  BY CatProperties
<1>4. w = Cat(d, b) /\ w \in Seq(S)
  <2>1. w = Cat(d, b)
    BY <1>1, <1>3 DEF Wrap
  <2>2. QED
    BY <2>1, CatProperties
<1>5. Joined(d, a, l) /\ Joined(w, d, b)
  BY <1>3, <1>4, CatJoined
<1>6. PICK n \in Nat : n = Len(l) /\ Len(d) = n + 1 /\ Len(w) = n + 2
  BY <1>2, <1>5 DEF Joined
<1>7. \A i \in 1..n : w[i + 1] = l[i]
  <2>1. ASSUME NEW i \in 1..n PROVE w[i + 1] = l[i]
    <3>1. i \in 1..Len(l) /\ i + 1 \in 1..Len(d) /\ i + 1 = 1 + i
      BY <1>6
    <3>2. d[1 + i] = l[i] /\ w[i + 1] = d[i + 1]
      BY <1>2, <1>5, <3>1 DEF Joined
    <3>3. QED
      BY <3>1, <3>2
  <2>2. QED
    BY <2>1
<1>8. w[1] = opening
  <2>1. 1 \in 1..Len(a) /\ 1 \in 1..Len(d)
    BY <1>2, <1>6
  <2>2. d[1] = a[1] /\ w[1] = d[1]
    BY <1>5, <2>1 DEF Joined
  <2>3. QED
    BY <1>2, <2>2
<1>9. w[Len(w)] = closing
  <2>1. 1 \in 1..Len(b) /\ Len(d) + 1 = Len(w)
    BY <1>2, <1>6
  <2>2. w[Len(d) + 1] = b[1]
    BY <1>5, <2>1 DEF Joined
  <2>3. QED
    BY <1>2, <2>1, <2>2
<1>10. w # <<>>
  BY <1>4, <1>6, EmptySeq
<1>11. SubSeq(w, 2, Len(w) - 1) = l
  <2>1. Len(w) - 1 = n + 1 /\ 1 <= n + 1 /\ n + 1 <= Len(w) /\ n + 1 \in Nat /\ (n + 1) - 1 = n
    BY <1>6
  <2>2. PICK m \in Nat : m = n + 1
    BY <2>1
  <2>3. /\ SubSeq(w, 1 + 1, m) \in Seq(S) /\ Len(SubSeq(w, 1 + 1, m)) = n
        /\ \A i \in 1..n : SubSeq(w, 1 + 1, m)[i] = w[1 + i]
    <3>1. 1 \in Nat /\ 1 <= m /\ m <= Len(w) /\ m - 1 = n
      BY <2>1, <2>2
    <3>2. /\ SubSeq(w, 1 + 1, m) \in Seq(S) /\ Len(SubSeq(w, 1 + 1, m)) = m - 1
          /\ \A i \in 1..(m - 1) : SubSeq(w, 1 + 1, m)[i] = w[1 + i]
      BY <1>4, <3>1, Between
    <3>3. QED
      BY <3>1, <3>2
  <2>4. PICK k \in Seq(S) : k = SubSeq(w, 1 + 1, m)
    BY <2>3
  <2>5. \A i \in 1..n : k[i] = l[i]
    <3>1. \A i \in 1..n : 1 + i = i + 1
      OBVIOUS
    <3>2. QED
      BY <1>7, <2>3, <2>4, <3>1
  <2>6. k = l
    BY <1>6, <2>3, <2>4, <2>5, SeqEqual
  <2>7. 1 + 1 = 2
    OBVIOUS
  <2>8. QED
    BY <2>1, <2>2, <2>4, <2>6, <2>7
<1>12. Head(w) = opening
  BY <1>8
<1>13. QED
  BY <1>4, <1>6, <1>7, <1>8, <1>9, <1>10, <1>11, <1>12 DEF WrapOf, Last

\* What stands before the items of a line, and around those of a list.
Intro == <<"+", ":", " ">>
Opening == "("
Closing == ")"

LEMMA IntroIs ==
  Len(Intro) = 3 /\ Intro[1] = "+" /\ Intro[2] = ":" /\ Intro[3] = Gap
  BY DEF Intro, Gap

LEMMA LineRead ==
  ASSUME NEW S, Comma \in S, Gap \in S, Intro \in Seq(S), NEW its \in Seq(Seq(S)), its # <<>>,
         \A i \in 1..Len(its) : IsItem(its[i]), NEW blank \in {<<>>, <<Gap>>}
  PROVE  Tokens(Intro \o Listing(its, blank)) = its
<1>1. PICK l \in Seq(S) : l = Listing(its, blank) /\ Ended(Reads(Ready(<<>>), l), its)
  BY ListingRead
<1>2. PICK w \in Seq(S) : w = Cat(Intro, l) /\ w = Intro \o Listing(its, blank)
  <2>1. Cat(Intro, l) \in Seq(S) /\ Cat(Intro, l) = Intro \o Listing(its, blank)
    BY <1>1, CatProperties DEF Cat
  <2>2. QED
    BY <2>1
<1>3. Joined(w, Intro, l)
  BY <1>2, CatJoined
<1>4. PICK n \in Nat : n = Len(l) /\ Len(w) = n + 3
  BY <1>3, IntroIs DEF Joined
<1>5. w[1] = "+" /\ w[2] = ":" /\ \A i \in 1..(n + 1) : i = 1 => w[2 + i] = Gap
  <2>1. 1 \in 1..Len(Intro) /\ 2 \in 1..Len(Intro) /\ 3 \in 1..Len(Intro) /\ 2 + 1 = 3
    BY IntroIs
  <2>2. w[1] = Intro[1] /\ w[2] = Intro[2] /\ w[3] = Intro[3]
    BY <1>3, <2>1 DEF Joined
  <2>3. QED
    BY <2>1, <2>2, IntroIs
<1>6. \A i \in 1..n : w[3 + i] = l[i]
  BY <1>3, <1>4, IntroIs DEF Joined
<1>7. Tokens(w) = Scan(SubSeq(w, 2 + 1, Len(w)), FALSE)
  <2>1. 2 \in 1..Len(w) /\ Len(w) \in Nat /\ w # <<>>
    BY <1>4, EmptySeq
  <2>2. Head(w) # "("
    BY <1>5
  <2>3. \A j \in 1..(2 - 1) : w[j] # ":"
    BY <1>5
  <2>4. QED
    BY <1>5, <2>1, <2>2, <2>3, LineTokens
<1>8. PICK gap \in Seq(S) : gap = <<Gap>> /\ Len(gap) = 1 /\ gap[1] = Gap
  <2>1. <<Gap>> \in Seq(S) /\ Len(<<Gap>>) = 1 /\ <<Gap>>[1] = Gap
    OBVIOUS
  <2>2. QED
    BY <2>1
<1>9. SubSeq(w, 2 + 1, Len(w)) = Cat(gap, l)
  <2>1. PICK m \in Nat : m = Len(w) /\ m = n + 3
    BY <1>4
  <2>2. /\ SubSeq(w, 2 + 1, m) \in Seq(S) /\ Len(SubSeq(w, 2 + 1, m)) = m - 2
        /\ \A i \in 1..(m - 2) : SubSeq(w, 2 + 1, m)[i] = w[2 + i]
    <3>1. 2 \in Nat /\ 2 <= m /\ m <= Len(w)
      BY <2>1
    <3>2. QED
      BY <3>1, Between
  <2>3. PICK k \in Seq(S) : k = SubSeq(w, 2 + 1, m)
    BY <2>2
  <2>4. PICK d \in Seq(S) : d = Cat(gap, l)
    BY CatProperties
  <2>5. Joined(d, gap, l)
    BY <2>4, CatJoined
  <2>6. Len(k) = n + 1 /\ Len(d) = n + 1
    BY <1>4, <1>8, <2>1, <2>2, <2>3, <2>5 DEF Joined
  <2>7. ASSUME NEW i \in 1..(n + 1) PROVE k[i] = d[i]
    <3>1. k[i] = w[2 + i]
      BY <2>1, <2>2, <2>3
    <3>2. CASE i = 1
      <4>1. 1 \in 1..Len(gap)
        BY <1>8
      <4>2. d[1] = gap[1]
        BY <2>5, <4>1 DEF Joined
      <4>3. QED
        BY <1>5, <1>8, <3>1, <3>2, <4>2
    <3>3. CASE i # 1
      <4>1. PICK j \in 1..n : i = j + 1 /\ 2 + i = 3 + j /\ i = 1 + j
        <5>1. i - 1 \in 1..n /\ i = (i - 1) + 1 /\ 2 + i = 3 + (i - 1) /\ i = 1 + (i - 1)
          BY <3>3
        <5>2. QED
          BY <5>1
      <4>2. d[1 + j] = l[j]
        BY <1>4, <1>8, <2>5 DEF Joined
      <4>3. QED
        BY <1>6, <3>1, <4>1, <4>2
    <3>4. QED
      BY <3>2, <3>3
  <2>8. k = d
    BY <2>6, <2>7, SeqEqual
  <2>9. QED
    BY <2>1, <2>3, <2>4, <2>8
<1>10. Reads(Ready(<<>>), Cat(gap, l)) = Reads(Ready(<<>>), l)
  <2>1. PICK s \in States(S) : s = Ready(<<>>)
    BY ReadyType
  <2>2. Reads(s, Cat(gap, l)) = Reads(Reads(s, gap), l)
    BY ReadsCat
  <2>3. Reads(Ready(<<>>), gap) = Ready(<<>>)
    BY <1>8, BlankRead
  <2>4. QED
    BY <2>1, <2>2, <2>3
<1>11. Finished(Reads(Ready(<<>>), l), FALSE) = its
  BY <1>1 DEF Ended
<1>12. QED
  BY <1>2, <1>7, <1>9, <1>10, <1>11 DEF Scan

LEMMA ListText ==
  ASSUME NEW S, Opening \in S, Closing \in S, NEW l \in Seq(S), NEW w,
         w = <<Opening>> \o l \o <<Closing>>
  PROVE  WrapOf(S, Opening, l, Closing, w)
<1>1. w = Wrap(Opening, l, Closing)
  BY DEF Wrap, Cat
<1>2. QED
  BY <1>1, Wrapped

LEMMA ListRead ==
  ASSUME NEW S, Comma \in S, Gap \in S, Opening \in S, Closing \in S,
         NEW its \in Seq(Seq(S)), its # <<>>,
         \A i \in 1..Len(its) : IsItem(its[i]), NEW blank \in {<<>>, <<Gap>>}
  PROVE  Tokens(<<Opening>> \o Listing(its, blank) \o <<Closing>>) = its
<1>1. PICK l \in Seq(S) : l = Listing(its, blank) /\ Ended(Reads(Ready(<<>>), l), its)
  BY ListingRead
<1>2. PICK w : w = <<Opening>> \o l \o <<Closing>>
  OBVIOUS
<1>3. w # <<>> /\ Head(w) = Opening /\ Last(w) = Closing /\ SubSeq(w, 2, Len(w) - 1) = l
  <2>1. WrapOf(S, Opening, l, Closing, w)
    BY <1>2, ListText
  <2>2. QED
    BY <2>1 DEF WrapOf
<1>4. Tokens(w) = Scan(l, TRUE)
  BY <1>3, ListTokens DEF Opening, Closing
<1>5. Finished(Reads(Ready(<<>>), l), TRUE) = its
  BY <1>1 DEF Ended
<1>6. QED
  BY <1>1, <1>2, <1>4, <1>5 DEF Scan

\* The characters of the lines of TokensSurvive.
LineSigns == Signs \cup {Comma, Gap, Opening, Closing, "+", ":", "a"}

LEMMA LineSignsHave ==
  /\ Comma \in LineSigns /\ Gap \in LineSigns /\ Opening \in LineSigns /\ Closing \in LineSigns
  /\ Signs \subseteq LineSigns
  BY DEF LineSigns

LEMMA IntroType == Intro \in Seq(LineSigns)
<1>1. PICK a \in LineSigns, b \in LineSigns, c \in LineSigns : a = "+" /\ b = ":" /\ c = " "
  BY DEF LineSigns, Gap
<1>2. <<a, b, c>> \in Seq(LineSigns)
  OBVIOUS
<1>3. Intro = <<a, b, c>>
  BY <1>1 DEF Intro
<1>4. QED
  BY <1>2, <1>3

LEMMA WordType ==
  ASSUME NEW w \in Words
  PROVE  w \in Seq(LineSigns) /\ IsItem(w)
<1>1. w \in Seq(Signs) /\ IsItem(w)
  BY WordAssumption
<1>2. QED
  BY <1>1, LineSignsHave, SeqMonotonic

\* A list without lists in it is an item.
LEMMA ListIsItem ==
  ASSUME NEW S, Opening \in S, Closing \in S, NEW l \in Seq(S \ {Closing}), NEW w,
         w = <<Opening>> \o l \o <<Closing>>
  PROVE  w \in Seq(S) /\ IsItem(w) /\ Extract(w) = l
<1>1. l \in Seq(S)
  BY SeqMonotonic
<1>2. WrapOf(S, Opening, l, Closing, w)
  BY <1>1, ListText
<1>3. PICK n \in Nat : n = Len(l) /\ Len(w) = n + 2
  BY <1>2 DEF WrapOf
<1>4. \A i \in 2..(Len(w) - 1) : w[i] # Closing
  <2>1. ASSUME NEW i \in 2..(n + 1) PROVE w[i] # Closing
    <3>1. PICK j \in 1..n : i = j + 1
      <4>1. i - 1 \in 1..n /\ i = (i - 1) + 1
        OBVIOUS
      <4>2. QED
        BY <4>1
    <3>2. w[j + 1] = l[j]
      BY <1>2, <1>3 DEF WrapOf
    <3>3. l[j] \in S \ {Closing}
      BY <1>3, ElementOfSeq
    <3>4. QED
      BY <3>1, <3>2, <3>3
  <2>2. Len(w) - 1 = n + 1
    BY <1>3
  <2>3. QED
    BY <2>1, <2>2
<1>5. Encloses(Opening, Closing, w)
  <2>1. Len(w) >= 2 /\ w[1] = Opening /\ w[Len(w)] = Closing
    BY <1>2, <1>3 DEF WrapOf
  <2>2. QED
    BY <1>4, <2>1 DEF Encloses
<1>6. IsItem(w)
  BY <1>5 DEF IsItem, Opening, Closing
<1>7. Extract(w) = l
  <2>1. /\ Head(w) = "(" /\ Last(w) = ")" /\ ~(Len(w) < 2)
        /\ SubSeq(w, 2, Len(w) - 1) = l
    BY <1>2, <1>3 DEF WrapOf, Opening, Closing
  <2>2. QED
    BY <2>1 DEF Extract
<1>8. QED
  BY <1>2, <1>6, <1>7 DEF WrapOf

\* What is between the parentheses of a list, if no item has one that closes.
LEMMA PlainListing ==
  ASSUME NEW its \in Seq(Seq(LineSigns)), its # <<>>, \A i \in 1..Len(its) : IsItem(its[i]),
         NEW blank \in {<<>>, <<Gap>>}, \A i \in 1..Len(its) : ~Contains(its[i], ")")
  PROVE  Listing(its, blank) \in Seq(LineSigns \ {Closing})
<1> DEFINE S == LineSigns \ {Closing}
<1>1. Comma \in S /\ Gap \in S
  <2>1. Comma # Closing /\ Gap # Closing
    BY DEF Comma, Gap, Closing
  <2>2. QED
    BY <2>1, LineSignsHave
<1>2. Len(its) \in Nat
  BY LenProperties
<1>3. ASSUME NEW i \in 1..Len(its) PROVE its[i] \in Seq(S)
  <2>1. PICK w \in Seq(LineSigns) : w = its[i]
    BY ElementOfSeq
  <2>2. \A j \in 1..Len(w) : w[j] # Closing
    BY <2>1 DEF Contains, Closing
  <2>3. \A j \in 1..Len(w) : w[j] \in S
    BY <2>2, ElementOfSeq
  <2>4. Len(w) \in Nat /\ w = [j \in 1..Len(w) |-> w[j]]
    BY LenProperties
  <2>5. [j \in 1..Len(w) |-> w[j]] \in Seq(S)
    BY <2>3, <2>4
  <2>6. QED
    BY <2>1, <2>4, <2>5
<1>4. its \in Seq(Seq(S))
  <2>1. its = [i \in 1..Len(its) |-> its[i]]
    BY LenProperties
  <2>2. [i \in 1..Len(its) |-> its[i]] \in Seq(Seq(S))
    BY <1>2, <1>3
  <2>3. QED
    BY <2>1, <2>2
<1> HIDE DEF S
<1>5. Listing(its, blank) \in Seq(S)
  BY <1>1, <1>4, ListingRead
<1>6. QED
  BY <1>5 DEF S

\* Two items.
LEMMA PairRead ==
  ASSUME NEW S, NEW a \in Seq(S), NEW b \in Seq(S), IsItem(a), IsItem(b)
  PROVE  /\ <<a, b>> \in Seq(Seq(S)) /\ <<a, b>> # <<>> /\ Len(<<a, b>>) = 2
         /\ \A i \in 1..Len(<<a, b>>) : IsItem(<<a, b>>[i])
  OBVIOUS

LEMMA LastItem == <<"a">> \in Seq(LineSigns) /\ IsItem(<<"a">>)
<1>1. PICK c \in LineSigns : c = "a"
  BY DEF LineSigns
<1>2. <<c>> \in Seq(LineSigns) /\ Len(<<c>>) = 1 /\ <<c>>[1] = c /\ <<c>> # <<>>
  OBVIOUS
<1>3. c \notin {Quote, "(", " "} /\ c # ","
  BY <1>1 DEF Quote
<1>4. ~Contains(<<c>>, ",")
  <2>1. PICK w : w = <<c>>
    OBVIOUS
  <2>2. \A i \in 1..Len(w) : w[i] = c
    BY <1>2, <2>1
  <2>3. ~Contains(w, ",")
    BY <1>3, <2>2 DEF Contains
  <2>4. QED
    BY <2>1, <2>3
<1>5. IsWord(<<c>>)
  BY <1>2, <1>3, <1>4 DEF IsWord
<1>6. QED
  BY <1>1, <1>2, <1>5 DEF IsItem

\* A list as the first of two items.
LEMMA NestedRead ==
  ASSUME NEW its \in Seq(Seq(LineSigns)), its # <<>>, \A i \in 1..Len(its) : IsItem(its[i]),
         NEW blank \in {<<>>, <<Gap>>}, \A i \in 1..Len(its) : ~Contains(its[i], ")"),
         NEW list, list = <<Opening>> \o Listing(its, blank) \o <<Closing>>
  PROVE  /\ Tokens(Intro \o Listing(<<list, <<"a">>>>, blank)) = <<list, <<"a">>>>
         /\ Extract(list) = Listing(its, blank)
<1>1. PICK l \in Seq(LineSigns \ {Closing}) : l = Listing(its, blank)
  BY PlainListing
<1>2. list \in Seq(LineSigns) /\ IsItem(list) /\ Extract(list) = l
  BY <1>1, LineSignsHave, ListIsItem
<1>3. PICK k \in Seq(LineSigns) : k = <<"a">> /\ IsItem(k)
  BY LastItem
<1>4. PICK two \in Seq(Seq(LineSigns)) :
        two = <<list, k>> /\ two # <<>> /\ \A i \in 1..Len(two) : IsItem(two[i])
  BY <1>2, <1>3, PairRead
<1>5. Tokens(Intro \o Listing(two, blank)) = two
  BY <1>4, LineSignsHave, IntroType, LineRead
<1>6. QED
  BY <1>1, <1>2, <1>3, <1>4, <1>5

LEMMA PairNth ==
  \A a, b, t : t = <<a, b>> =>
    Len(t) = 2 /\ Nth(t, 0) = a /\ Nth(t, 1) = b /\ Nth(t, 2) = NoToken
BY DEF Nth

LEMMA PairTokens ==
  \A l, x : Tokens(l) = <<x, <<"a">>>> =>
    /\ Len(Tokens(l)) = 2 /\ Nth(Tokens(l), 0) = x
    /\ Nth(Tokens(l), 1) = <<"a">> /\ Nth(Tokens(l), 2) = NoToken
<1>1. SUFFICES ASSUME NEW l, NEW x, NEW y, y = <<"a">>, Tokens(l) = <<x, y>>
               PROVE  /\ Len(Tokens(l)) = 2 /\ Nth(Tokens(l), 0) = x
                      /\ Nth(Tokens(l), 1) = y /\ Nth(Tokens(l), 2) = NoToken
  OBVIOUS
<1>2. PICK t : t = Tokens(l)
  OBVIOUS
<1>3. t = <<x, y>>
  BY <1>1, <1>2
<1>4. Len(t) = 2 /\ Nth(t, 0) = x /\ Nth(t, 1) = y /\ Nth(t, 2) = NoToken
  BY <1>3, PairNth
<1>5. QED
  BY <1>2, <1>4

LEMMA TokensSurviveOf ==
  ASSUME items \in Seq(Words)
  PROVE  TokensSurvive
<1> DEFINE List(blank) == <<"(">> \o Listing(items, blank) \o <<")">>
           Line(blank) == <<"+", ":", " ">> \o Listing(<<List(blank), <<"a">>>>, blank)
           Plain == \A i \in 1..Len(items) : ~Contains(items[i], ")")
<1>1. items \in Seq(Seq(LineSigns)) /\ \A i \in 1..Len(items) : IsItem(items[i])
  <2>1. \A i \in 1..Len(items) : items[i] \in Words
    BY ElementOfSeq
  <2>2. Words \subseteq Seq(LineSigns)
    BY WordType
  <2>3. QED
    BY <2>1, <2>2, WordType, SeqMonotonic
<1>2. ASSUME items # <<>>, NEW blank \in {<<>>, <<Gap>>}
      PROVE  /\ Tokens(<<"+", ":", " ">> \o Listing(items, blank)) = items
             /\ Tokens(List(blank)) = items
             /\ Plain => /\ Tokens(Line(blank)) = <<List(blank), <<"a">>>>
                         /\ Extract(List(blank)) = Listing(items, blank)
  <2>1. PICK its \in Seq(Seq(LineSigns)) :
          its = items /\ its # <<>> /\ \A i \in 1..Len(its) : IsItem(its[i])
    BY <1>1, <1>2
  <2>2. PICK list : list = <<Opening>> \o Listing(its, blank) \o <<Closing>>
    OBVIOUS
  <2>3. list = List(blank)
    BY <2>1, <2>2 DEF Opening, Closing
  <2>4. Tokens(Intro \o Listing(its, blank)) = its
    BY <1>2, <2>1, LineSignsHave, IntroType, LineRead
  <2>5. Tokens(list) = its
    BY <1>2, <2>1, <2>2, LineSignsHave, ListRead
  <2>6. Plain => /\ Tokens(Intro \o Listing(<<list, <<"a">>>>, blank)) = <<list, <<"a">>>>
                 /\ Extract(list) = Listing(its, blank)
    <3>1. SUFFICES ASSUME Plain
                   PROVE  /\ Tokens(Intro \o Listing(<<list, <<"a">>>>, blank)) = <<list, <<"a">>>>
                          /\ Extract(list) = Listing(its, blank)
      OBVIOUS
    <3>2. \A i \in 1..Len(its) : ~Contains(its[i], ")")
      BY <2>1, <3>1
    <3> HIDE DEF Plain, List, Line
    <3>3. QED
      BY <1>2, <2>1, <2>2, <3>2, NestedRead
  <2>7. Line(blank) = Intro \o Listing(<<list, <<"a">>>>, blank)
    BY <2>3 DEF Intro
  <2>8. <<"+", ":", " ">> = Intro
    BY DEF Intro
  <2> HIDE DEF Plain, List, Line
  <2>9. QED
    BY <2>1, <2>3, <2>4, <2>5, <2>6, <2>7, <2>8
<1>3. ASSUME items # <<>>, NEW blank \in {<<>>, <<" ">>}
      PROVE  /\ Tokens(<<"+", ":", " ">> \o Listing(items, blank)) = items
             /\ Tokens(List(blank)) = items
             /\ Plain => /\ Len(Tokens(Line(blank))) = 2
                         /\ Tokens(Nth(Tokens(Line(blank)), 0)) = items
                         /\ Extract(Nth(Tokens(Line(blank)), 0)) = Listing(items, blank)
                         /\ Nth(Tokens(Line(blank)), 1) = <<"a">>
                         /\ Nth(Tokens(Line(blank)), 2) = NoToken
  <2>1. blank \in {<<>>, <<Gap>>}
    BY <1>3 DEF Gap
  <2> HIDE DEF Plain, List, Line
  <2>2. /\ Tokens(<<"+", ":", " ">> \o Listing(items, blank)) = items
        /\ Tokens(List(blank)) = items
        /\ Plain => /\ Tokens(Line(blank)) = <<List(blank), <<"a">>>>
                    /\ Extract(List(blank)) = Listing(items, blank)
    BY <1>2, <1>3, <2>1
  <2>3. Tokens(Line(blank)) = <<List(blank), <<"a">>>> =>
          /\ Len(Tokens(Line(blank))) = 2
          /\ Nth(Tokens(Line(blank)), 0) = List(blank)
          /\ Nth(Tokens(Line(blank)), 1) = <<"a">>
          /\ Nth(Tokens(Line(blank)), 2) = NoToken
    BY PairTokens, Zenon
  <2>4. QED
    BY <2>2, <2>3
<1>4. QED
  BY <1>3, Zenon DEF TokensSurvive

-----------------------------------------------------------------------------
(* Texts *)

TextType == chars \in Seq(Alphabet) /\ items \in Seq(Words)

LEMMA TextTypeHolds == TextSpec => []TextType
<1>1. TextInit => TextType
  BY EmptySeq DEF TextInit, TextType
<1>2. ASSUME TextType, [TextNext]_textVars PROVE TextType'
  <2>1. CASE WriteText
    BY <1>2, <2>1, AppendProperties DEF WriteText, TextType
  <2>2. CASE WriteItem
    BY <1>2, <2>2, AppendProperties DEF WriteItem, TextType
  <2>3. CASE Erase
    BY <2>3, EmptySeq DEF Erase, TextType
  <2>4. CASE UNCHANGED textVars
    BY <1>2, <2>4 DEF textVars, TextType
  <2>5. QED
    BY <1>2, <2>1, <2>2, <2>3, <2>4 DEF TextNext
<1>3. QED
  BY <1>1, <1>2, PTL DEF TextSpec

(* A text of any length comes back from packing and unpacking as it was, but *)
(* for line ends, with at most one character of padding behind it.           *)
(* (tcore_util_unpack_gsm7bit and tcore_util_pack_gsm7bit, util.c:459-549)   *)
THEOREM SeptetsSurviveHolds == TextSpec => []SeptetsSurvive
<1>1. TextType => SeptetsSurvive
  <2>1. SUFFICES ASSUME TextType PROVE SeptetsSurvive
    OBVIOUS
  <2>2. chars \in Seq(0..127)
    BY <2>1, TextAssumption, SeqMonotonic DEF TextType
  <2>3. QED
    BY <2>2, PackUnpack DEF SeptetsSurvive
<1>2. QED
  BY <1>1, TextTypeHolds, PTL

(* The items of a line or of a list are the tokens of it, however many there *)
(* are, whatever commas, quotes and parentheses are in a string or a list    *)
(* among them and wherever the empty ones are; so are those of a list that   *)
(* is a token.                                                               *)
(* (tcore_at_tok_new, tcore_at_tok_extract and tcore_at_tok_nth,             *)
(* at.c:727-890)                                                             *)
THEOREM TokensSurviveHolds == TextSpec => []TokensSurvive
<1>1. TextType => TokensSurvive
  BY TokensSurviveOf DEF TextType
<1>2. QED
  BY <1>1, TextTypeHolds, PTL
=============================================================================
