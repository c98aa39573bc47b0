----------------------------- MODULE SeqLemmas -----------------------------
(***************************************************************************)
(* Lemmas about sequences, whatever their elements: what loops over them   *)
(* return (filters, joined sequences), and what pushing into and popping   *)
(* from a request queue does to its elements, and to a relation that       *)
(* holds between every two of them.                                        *)
(***************************************************************************)
EXTENDS RequestQueue, Filters, SequenceTheorems, WellFoundedInduction, TLAPS

-----------------------------------------------------------------------------
(* Loops *)

\* A nonempty set of numbers has a least one.
LEMMA LeastOf ==
  ASSUME NEW T, T \subseteq Nat, T # {}
  PROVE  \E x \in T : \A y \in T : x <= y
<1> DEFINE R == {ss \in Nat \X Nat : ss[1] < ss[2]}
<1>1. IsWellFoundedOn(R, Nat)
  BY NatLessThanWellFounded DEF OpToRel
<1> HIDE DEF R
<1>2. PICK x \in T : \A y \in T : ~ (<<y, x>> \in R)
  BY <1>1, WFMin
<1>3. ASSUME NEW y \in T PROVE x <= y
  <2>1. y \in Nat /\ x \in Nat /\ ~ (<<y, x>> \in R)
    BY <1>2
  <2>2. ~ (y < x)
    BY <2>1 DEF R
  <2>3. QED
    BY <2>1, <2>2
<1>4. QED
  BY <1>3

\* Induction, for a set of numbers.
LEMMA SetInduction ==
  ASSUME NEW T, 0 \in T, \A n \in Nat : n \in T => n + 1 \in T
  PROVE  Nat \subseteq T
<1>1. SUFFICES ASSUME Nat \ T # {} PROVE FALSE
  OBVIOUS
<1>2. PICK x \in Nat \ T : \A y \in Nat \ T : x <= y
  BY <1>1, LeastOf
<1>3. x # 0 /\ x - 1 \in Nat /\ x - 1 \in T
  BY <1>2
<1>4. QED
  BY <1>2, <1>3

\* What each turn of a loop over s does: H is what a turn makes of the result so
\* far and of an element.
Turns(g, s, v, H) ==
  /\ g[0] = v
  /\ \A i \in 1..Len(s) : g[i] = H[g[i - 1]][s[i]]

\* A function of the positions of a sequence may be defined by recursion.
LEMMA LoopExists ==
  ASSUME NEW S, NEW V, NEW s \in Seq(S), NEW v \in V, NEW H \in [V -> [S -> V]]
  PROVE  \E g \in [0..Len(s) -> V] : Turns(g, s, v, H)
<1> DEFINE Good(g, n) == /\ g[0] = v
                         /\ \A i \in 1..n : g[i] = H[g[i - 1]][s[i]]
           Reaches(n) == n <= Len(s) => \E g \in [0..n -> V] : Good(g, n)
           T == {n \in Nat : Reaches(n)}
<1>1. 0 \in T
  <2>1. [i \in 0..0 |-> v] \in [0..0 -> V] /\ Good([i \in 0..0 |-> v], 0)
    OBVIOUS
  <2>2. QED
    BY <2>1
<1>2. ASSUME NEW n \in Nat, Reaches(n) PROVE Reaches(n + 1)
  <2>1. SUFFICES ASSUME n + 1 <= Len(s)
                 PROVE  \E h \in [0..(n + 1) -> V] : Good(h, n + 1)
    OBVIOUS
  <2>2. Len(s) \in Nat /\ n <= Len(s) /\ s[n + 1] \in S
    BY <2>1, LenProperties, ElementOfSeq
  <2>3. PICK g \in [0..n -> V] : Good(g, n)
    BY <1>2, <2>2
  <2> DEFINE h == [i \in 0..(n + 1) |-> IF i <= n THEN g[i] ELSE H[g[n]][s[n + 1]]]
  <2>4. g[n] \in V /\ H[g[n]][s[n + 1]] \in V
    BY <2>2
  <2>5. h \in [0..(n + 1) -> V]
    BY <2>4
  <2>6. \A i \in 0..n : h[i] = g[i]
    OBVIOUS
  <2>7. h[n + 1] = H[h[n]][s[n + 1]]
    BY <2>6
  <2>8. ASSUME NEW i \in 1..(n + 1) PROVE h[i] = H[h[i - 1]][s[i]]
    <3>1. CASE i = n + 1
      BY <3>1, <2>7
    <3>2. CASE i # n + 1
      <4>1. i \in 1..n /\ i - 1 \in 0..n /\ i \in 0..n
        BY <3>2
      <4> HIDE DEF h
      <4>2. QED
        BY <4>1, <2>3, <2>6
    <3>3. QED
      BY <3>1, <3>2
  <2>9. h[0] = v
    BY <2>3
  <2>10. QED
    BY <2>5, <2>8, <2>9
<1>3. Nat \subseteq T
  <2>1. \A n \in Nat : n \in T => n + 1 \in T
    <3> HIDE DEF Reaches
    <3>1. QED
      BY <1>2
  <2> HIDE DEF T
  <2>2. QED
    BY <1>1, <2>1, SetInduction
<1>4. Reaches(Len(s)) /\ Len(s) \in Nat
  <2> HIDE DEF Reaches
  <2>1. QED
    BY <1>3, LenProperties
<1>5. QED
  BY <1>4 DEF Turns

-----------------------------------------------------------------------------
(* Filters *)

\* What each turn of a loop that keeps the elements in T does.
KeepTurns(g, s, T) ==
  /\ g[0] = <<>>
  /\ \A i \in 1..Len(s) : g[i] = IF s[i] \in T THEN Append(g[i - 1], s[i]) ELSE g[i - 1]

\* Whatever takes the same turns ends with the same result.
LEMMA KeepUnique ==
  ASSUME NEW S, NEW s \in Seq(S), NEW T, NEW g, DOMAIN g = 0..Len(s),
         g = [i \in DOMAIN g |-> g[i]], KeepTurns(g, s, T)
  PROVE  Keep(s, T) = g[Len(s)]
<1> DEFINE F(k) == [n \in 0..Len(s) |->
                      IF n = 0 THEN <<>>
                      ELSE IF s[n] \in T THEN Append(k[n - 1], s[n]) ELSE k[n - 1]]
           kept == CHOOSE k : k = F(k)
<1>1. Len(s) \in Nat
  BY LenProperties
<1>2. g = F(g)
  <2>1. \A n \in 0..Len(s) : n = 0 \/ n \in 1..Len(s)
    BY <1>1
  <2>2. \A n \in 0..Len(s) : g[n] = F(g)[n]
    BY <2>1 DEF KeepTurns
  <2>3. F(g) = [n \in 0..Len(s) |-> F(g)[n]]
    OBVIOUS
  <2> HIDE DEF F
  <2>4. QED
    BY <2>2, <2>3
<1>3. kept = F(kept)
  <2> HIDE DEF F
  <2>1. QED
    BY <1>2
<1>4. \A n \in Nat : n <= Len(s) => kept[n] = g[n]
  <2> HIDE DEF kept
  <2> DEFINE U == {n \in Nat : n <= Len(s) => kept[n] = g[n]}
  <2>1. kept[0] = <<>> /\ g[0] = <<>>
    BY <1>1, <1>3 DEF KeepTurns
  <2>2. ASSUME NEW n \in Nat, n <= Len(s) => kept[n] = g[n], n + 1 <= Len(s)
        PROVE  kept[n + 1] = g[n + 1]
    <3>1. n + 1 \in 1..Len(s) /\ n + 1 \in 0..Len(s) /\ n + 1 # 0 /\ (n + 1) - 1 = n
      BY <1>1, <2>2
    <3>2. kept[n + 1] = IF s[n + 1] \in T THEN Append(kept[n], s[n + 1]) ELSE kept[n]
      BY <3>1, <1>3
    <3>3. g[n + 1] = IF s[n + 1] \in T THEN Append(g[n], s[n + 1]) ELSE g[n]
      BY <3>1 DEF KeepTurns
    <3>4. QED
      BY <3>2, <3>3, <2>2, <1>1
  <2>3. 0 \in U
    BY <2>1
  <2>4. \A n \in Nat : n \in U => n + 1 \in U
    BY <2>2
  <2>5. Nat \subseteq U
    <3> HIDE DEF U
    <3>1. QED
      BY <2>3, <2>4, SetInduction
  <2>6. QED
    BY <2>5
<1>5. QED
  BY <1>1, <1>4 DEF Keep

\* The turns that lead to what a filter returns.
LEMMA KeepLoop ==
  ASSUME NEW S, NEW s \in Seq(S), NEW T
  PROVE  \E g \in [0..Len(s) -> Seq(S)] : KeepTurns(g, s, T) /\ Keep(s, T) = g[Len(s)]
<1> DEFINE H == [a \in Seq(S) |-> [e \in S |-> IF e \in T THEN Append(a, e) ELSE a]]
<1>1. H \in [Seq(S) -> [S -> Seq(S)]]
  BY AppendProperties
<1>2. <<>> \in Seq(S) /\ Len(s) \in Nat
  BY EmptySeq, LenProperties
<1>3. PICK g \in [0..Len(s) -> Seq(S)] :
        g[0] = <<>> /\ \A i \in 1..Len(s) : g[i] = H[g[i - 1]][s[i]]
  <2> HIDE DEF H
  <2>1. \E g \in [0..Len(s) -> Seq(S)] : Turns(g, s, <<>>, H)
    BY <1>1, <1>2, LoopExists
  <2>2. QED
    BY <2>1 DEF Turns
<1>4. \A i \in 1..Len(s) : i - 1 \in 0..Len(s) /\ g[i - 1] \in Seq(S) /\ s[i] \in S
  BY <1>2, ElementOfSeq
<1>5. KeepTurns(g, s, T)
  BY <1>3, <1>4 DEF KeepTurns
<1>6. Keep(s, T) = g[Len(s)]
  BY <1>5, KeepUnique
<1>7. QED
  BY <1>5, <1>6

\* A filter returns a sequence, and nothing for nothing.
LEMMA KeepType ==
  ASSUME NEW S, NEW s \in Seq(S), NEW T
  PROVE  Keep(s, T) \in Seq(S)
<1>1. PICK g \in [0..Len(s) -> Seq(S)] : Keep(s, T) = g[Len(s)]
  BY KeepLoop
<1>2. QED
  BY <1>1, LenProperties

LEMMA KeepEmpty ==
  ASSUME NEW T
  PROVE  Keep(<<>>, T) = <<>>
<1>1. PICK g \in [0..Len(<<>>) -> Seq({})] :
        KeepTurns(g, <<>>, T) /\ Keep(<<>>, T) = g[Len(<<>>)]
  BY KeepLoop, EmptySeq
<1>2. QED
  BY <1>1, EmptySeq DEF KeepTurns

LEMMA AppendConcat ==
  ASSUME NEW S, NEW a \in Seq(S), NEW b \in Seq(S), NEW e \in S
  PROVE  /\ a \o Append(b, e) = Append(a \o b, e)
         /\ a \o Append(b, e) = (a \o b) \o <<e>>
<1>1. <<e>> \in Seq(S) /\ a \o b \in Seq(S)
  BY ConcatProperties
<1>2. Append(b, e) = b \o <<e>>
  BY AppendIsConcat
<1>3. Append(a \o b, e) = (a \o b) \o <<e>>
  BY <1>1, AppendIsConcat
<1>4. QED
  BY <1>1, <1>2, <1>3, ConcatAssociative

\* The filter of a concatenation is that of its parts.
LEMMA KeepConcat ==
  ASSUME NEW S, NEW s \in Seq(S), NEW t \in Seq(S), NEW T
  PROVE  Keep(s \o t, T) = Keep(s, T) \o Keep(t, T)
<1>1. PICK g \in [0..Len(s) -> Seq(S)] : KeepTurns(g, s, T) /\ Keep(s, T) = g[Len(s)]
  BY KeepLoop
<1>2. PICK h \in [0..Len(t) -> Seq(S)] : KeepTurns(h, t, T) /\ Keep(t, T) = h[Len(t)]
  BY KeepLoop
<1> DEFINE m == Len(s)
           u == s \o t
           k == [i \in 0..Len(u) |-> IF i <= m THEN g[i] ELSE g[m] \o h[i - m]]
<1>3. /\ m \in Nat /\ Len(t) \in Nat /\ u \in Seq(S) /\ Len(u) = m + Len(t)
      /\ \A i \in 1..(m + Len(t)) : u[i] = IF i <= m THEN s[i] ELSE t[i - m]
  BY LenProperties, ConcatProperties
<1> HIDE DEF m, u
<1>4. /\ g[m] \in Seq(S) /\ h[0] = <<>> /\ g[0] = <<>>
      /\ \A j \in 1..Len(t) : h[j] \in Seq(S) /\ h[j - 1] \in Seq(S)
  <2>1. h[0] = <<>> /\ g[0] = <<>>
    BY <1>1, <1>2 DEF KeepTurns
  <2>2. m \in 0..Len(s)
    BY <1>3 DEF m
  <2>3. \A j \in 1..Len(t) : j \in 0..Len(t) /\ j - 1 \in 0..Len(t)
    BY <1>3
  <2>4. QED
    BY <2>1, <2>2, <2>3
<1>5. \A i \in 0..Len(u) : k[i] = IF i <= m THEN g[i] ELSE g[m] \o h[i - m]
  OBVIOUS
<1>6. k = [i \in DOMAIN k |-> k[i]] /\ DOMAIN k = 0..Len(u)
  OBVIOUS
<1> HIDE DEF k
<1>7. k[0] = <<>>
  BY <1>3, <1>4, <1>5
<1>8. ASSUME NEW i \in 1..Len(u)
      PROVE  k[i] = IF u[i] \in T THEN Append(k[i - 1], u[i]) ELSE k[i - 1]
  <2>1. CASE i <= m
    <3>1. i \in 1..m /\ i - 1 <= m /\ i - 1 \in 0..Len(u) /\ i \in 0..Len(u) /\ u[i] = s[i]
      BY <1>3, <2>1
    <3>2. k[i] = g[i] /\ k[i - 1] = g[i - 1]
      BY <1>5, <3>1, <2>1
    <3>3. g[i] = IF s[i] \in T THEN Append(g[i - 1], s[i]) ELSE g[i - 1]
      BY <1>1, <3>1 DEF KeepTurns, m
    <3>4. QED
      BY <3>1, <3>2, <3>3
  <2>2. CASE ~ (i <= m)
    <3> DEFINE j == i - m
    <3>1. j \in 1..Len(t) /\ i - 1 \in 0..Len(u) /\ i \in 0..Len(u) /\ u[i] = t[j] /\ t[j] \in S
      BY <1>3, <2>2, ElementOfSeq
    <3>2. k[i] = g[m] \o h[j]
      BY <1>5, <3>1, <2>2
    <3>3. k[i - 1] = g[m] \o h[j - 1]
      <4>1. CASE i - 1 <= m
        <5>1. i - 1 = m /\ j - 1 = 0
          BY <4>1, <2>2, <1>3
        <5>2. k[i - 1] = g[m]
          BY <5>1, <1>5, <3>1, <4>1
        <5>4. h[j - 1] = <<>>
          BY <5>1, <1>4
        <5>3. QED
          BY <5>2, <5>4, <1>4, ConcatEmptySeq
      <4>2. CASE ~ (i - 1 <= m)
        <5>1. (i - 1) - m = j - 1
          BY <1>3
        <5>2. QED
          BY <5>1, <4>2, <1>5, <3>1
      <4>3. QED
        BY <4>1, <4>2
    <3>4. h[j] = IF t[j] \in T THEN Append(h[j - 1], t[j]) ELSE h[j - 1]
      BY <1>2, <3>1 DEF KeepTurns
    <3> HIDE DEF j
    <3>5. h[j - 1] \in Seq(S)
      BY <1>4, <3>1
    <3>6. g[m] \o Append(h[j - 1], t[j]) = Append(g[m] \o h[j - 1], t[j])
      <4>1. g[m] \in Seq(S) /\ t[j] \in S
        BY <1>4, <3>1
      <4>2. \A a, b \in Seq(S), e \in S : a \o Append(b, e) = Append(a \o b, e)
        BY AppendConcat
      <4>3. QED
        BY <4>1, <4>2, <3>5
    <3>7. QED
      BY <3>1, <3>2, <3>3, <3>4, <3>6
  <2>3. QED
    BY <2>1, <2>2
<1>9. KeepTurns(k, u, T)
  BY <1>7, <1>8 DEF KeepTurns
<1>10. Keep(u, T) = k[Len(u)]
  BY <1>3, <1>6, <1>9, KeepUnique
<1>11. k[Len(u)] = g[m] \o h[Len(t)]
  <2>1. CASE Len(t) = 0
    <3>1. Len(u) = m /\ k[m] = g[m] /\ h[Len(t)] = <<>>
      BY <2>1, <1>3, <1>4, <1>5
    <3>2. QED
      BY <3>1, <1>4, ConcatEmptySeq
  <2>2. CASE Len(t) # 0
    <3>1. Len(u) \in 0..Len(u) /\ ~ (Len(u) <= m) /\ Len(u) - m = Len(t)
      BY <2>2, <1>3
    <3>2. QED
      BY <3>1, <1>5
  <2>3. QED
    BY <2>1, <2>2
<1>12. QED
  BY <1>1, <1>2, <1>10, <1>11 DEF m, u

\* The filter of one element, of a longer list and of the rest of a list.
LEMMA KeepOne ==
  ASSUME NEW e, NEW T
  PROVE  Keep(<<e>>, T) = IF e \in T THEN <<e>> ELSE <<>>
<1>1. ASSUME NEW s \in Seq({e}), Len(s) = 1, s[1] = e
      PROVE  Keep(s, T) = IF e \in T THEN <<e>> ELSE <<>>
  <2>1. PICK g \in [0..Len(s) -> Seq({e})] : KeepTurns(g, s, T) /\ Keep(s, T) = g[Len(s)]
    BY KeepLoop
  <2>2. g[0] = <<>> /\ g[1] = IF e \in T THEN Append(g[0], e) ELSE g[0]
    BY <1>1, <2>1 DEF KeepTurns
  <2>3. QED
    BY <2>1, <2>2, <1>1
<1>2. <<e>> \in Seq({e}) /\ Len(<<e>>) = 1 /\ <<e>>[1] = e
  OBVIOUS
<1>3. QED
  BY <1>1, <1>2

LEMMA KeepAppend ==
  ASSUME NEW S, NEW s \in Seq(S), NEW e \in S, NEW T
  PROVE  Keep(Append(s, e), T) = IF e \in T THEN Append(Keep(s, T), e) ELSE Keep(s, T)
<1>1. PICK r \in Seq(S) : r = <<e>>
  <2>1. <<e>> \in Seq(S)
    OBVIOUS
  <2>2. QED
    BY <2>1, Zenon
<1>2. Append(s, e) = s \o r /\ Append(Keep(s, T), e) = Keep(s, T) \o r /\ Keep(s, T) \in Seq(S)
  BY <1>1, KeepType, AppendIsConcat
<1>3. Keep(r, T) = IF e \in T THEN r ELSE <<>>
  BY <1>1, KeepOne
<1>4. Keep(s \o r, T) = Keep(s, T) \o Keep(r, T)
  BY KeepConcat
<1>5. CASE e \in T
  BY <1>2, <1>3, <1>4, <1>5
<1>6. CASE e \notin T
  BY <1>2, <1>3, <1>4, <1>6, ConcatEmptySeq
<1>7. QED
  BY <1>5, <1>6

LEMMA KeepHead ==
  ASSUME NEW S, NEW s \in Seq(S), s # <<>>, NEW T
  PROVE  Keep(s, T) = IF Head(s) \in T THEN <<Head(s)>> \o Keep(Tail(s), T) ELSE Keep(Tail(s), T)
<1>1. Tail(s) \in Seq(S) /\ Head(s) \in S
  BY HeadTailProperties
<1>2. PICK r \in Seq(S) : r = <<Head(s)>>
  <2>1. <<Head(s)>> \in Seq(S)
    BY <1>1
  <2>2. QED
    BY <2>1, Zenon
<1>6. Keep(r, T) = IF Head(s) \in T THEN r ELSE <<>>
  BY <1>2, KeepOne
<1>3. s = r \o Tail(s)
  BY <1>2, HeadTailProperties
<1>4. Keep(r \o Tail(s), T) = Keep(r, T) \o Keep(Tail(s), T)
  <2>1. \A a, b \in Seq(S) : Keep(a \o b, T) = Keep(a, T) \o Keep(b, T)
    BY KeepConcat
  <2>2. QED
    BY <1>1, <2>1
<1>5. Keep(Tail(s), T) \in Seq(S)
  BY <1>1, KeepType
<1>7. CASE Head(s) \in T
  BY <1>2, <1>3, <1>4, <1>6, <1>7
<1>8. CASE Head(s) \notin T
  BY <1>3, <1>4, <1>5, <1>6, <1>8, ConcatEmptySeq
<1>9. QED
  BY <1>7, <1>8

\* A filter returns nothing when there is nothing to keep, and something when
\* there is.
LEMMA KeepNone ==
  ASSUME NEW S, NEW s \in Seq(S), NEW T, \A i \in 1..Len(s) : s[i] \notin T
  PROVE  Keep(s, T) = <<>>
<1> DEFINE g == [i \in 0..Len(s) |-> <<>>]
<1>1. Len(s) \in Nat
  BY LenProperties
<1>2. KeepTurns(g, s, T) /\ g[Len(s)] = <<>>
  BY <1>1 DEF KeepTurns
<1>3. DOMAIN g = 0..Len(s) /\ g = [i \in DOMAIN g |-> g[i]]
  OBVIOUS
<1> HIDE DEF g
<1>4. QED
  BY <1>2, <1>3, KeepUnique

LEMMA KeepSome ==
  ASSUME NEW S, NEW s \in Seq(S), NEW T, NEW i \in 1..Len(s), s[i] \in T
  PROVE  Keep(s, T) # <<>>
<1>1. PICK g \in [0..Len(s) -> Seq(S)] : KeepTurns(g, s, T) /\ Keep(s, T) = g[Len(s)]
  BY KeepLoop
<1>2. /\ Len(s) \in Nat
      /\ \A n \in 1..Len(s) : s[n] \in S /\ g[n - 1] \in Seq(S)
      /\ \A n \in 1..Len(s) : g[n] = IF s[n] \in T THEN Append(g[n - 1], s[n]) ELSE g[n - 1]
  BY <1>1, LenProperties, ElementOfSeq DEF KeepTurns
<1>3. ASSUME NEW n \in 1..Len(s), s[n] \in T PROVE g[n] # <<>>
  <2>1. PICK a \in Seq(S), e \in S : a = g[n - 1] /\ e = s[n]
    BY <1>2
  <2>2. g[n] = Append(a, e)
    BY <1>2, <1>3, <2>1
  <2>3. QED
    BY <2>2, AppendProperties
<1>4. \A n \in 1..Len(s) : g[n - 1] # <<>> => g[n] # <<>>
  BY <1>2, <1>3
<1> DEFINE U == {n \in Nat : i <= n /\ n <= Len(s) => g[n] # <<>>}
<1>5. 0 \in U
  OBVIOUS
<1>6. ASSUME NEW n \in Nat, i <= n /\ n <= Len(s) => g[n] # <<>>,
             i <= n + 1 /\ n + 1 <= Len(s)
      PROVE  g[n + 1] # <<>>
  <2>1. n + 1 \in 1..Len(s) /\ (n + 1) - 1 = n
    BY <1>2, <1>6
  <2>2. CASE i = n + 1
    BY <2>1, <2>2, <1>3
  <2>3. CASE i <= n
    BY <2>1, <2>3, <1>2, <1>4, <1>6
  <2>4. QED
    BY <1>6, <2>2, <2>3
<1>7. Nat \subseteq U
  <2>1. ASSUME NEW n \in Nat, n \in U PROVE n + 1 \in U
    <3>1. n + 1 \in Nat /\ (i <= n /\ n <= Len(s) => g[n] # <<>>)
      BY <2>1
    <3>2. ASSUME i <= n + 1, n + 1 <= Len(s) PROVE g[n + 1] # <<>>
      BY <1>6, <3>1, <3>2
    <3>3. QED
      BY <3>1, <3>2
  <2> HIDE DEF U
  <2>2. QED
    BY <1>5, <2>1, SetInduction
<1>8. QED
  BY <1>1, <1>2, <1>7

-----------------------------------------------------------------------------
(* Sequences of sequences *)

\* Concatenation under a name of its own: the provers then use of it only the
\* facts that are cited.
Cat(a, b) == a \o b

LEMMA CatProperties ==
  ASSUME NEW S, NEW a \in Seq(S), NEW b \in Seq(S)
  PROVE  Cat(a, b) \in Seq(S) /\ Cat(a, <<>>) = a /\ Cat(<<>>, a) = a
  BY ConcatProperties, ConcatEmptySeq DEF Cat

LEMMA CatAssociative ==
  ASSUME NEW S, NEW a \in Seq(S), NEW b \in Seq(S), NEW c \in Seq(S)
  PROVE  Cat(Cat(a, b), c) = Cat(a, Cat(b, c))
  BY ConcatAssociative DEF Cat

FlatTurns(g, s) ==
  /\ g[0] = <<>>
  /\ \A i, j \in 0..Len(s) : j = i + 1 => g[j] = Cat(g[i], s[j])

\* Whatever joins one after the other ends with the same sequence.
LEMMA FlatUnique ==
  ASSUME NEW S, NEW s \in Seq(Seq(S)), NEW g \in [0..Len(s) -> Seq(S)], FlatTurns(g, s)
  PROVE  FlattenSeq(s) = g[Len(s)]
<1> DEFINE F(k) == [i \in 1..Len(s) |-> IF i = 1 THEN s[i] ELSE k[i - 1] \o s[i]]
           flatten == CHOOSE k : k = F(k)
           h == [i \in 1..Len(s) |-> g[i]]
<1>1. /\ Len(s) \in Nat
      /\ \A i \in 1..Len(s) : s[i] \in Seq(S) /\ g[i] \in Seq(S)
  BY LenProperties, ElementOfSeq
<1>2. ASSUME NEW i \in 1..Len(s), NEW j \in 0..Len(s), i = j + 1
      PROVE  g[i] = IF i = 1 THEN s[i] ELSE g[j] \o s[i]
  <2>1. g[i] = g[j] \o s[i]
    BY <1>1, <1>2 DEF FlatTurns, Cat
  <2>2. CASE i = 1
    <3>1. g[j] = <<>> /\ s[i] \in Seq(S)
      BY <1>1, <1>2, <2>2 DEF FlatTurns
    <3>2. QED
      BY <3>1, <2>1, <2>2, ConcatEmptySeq
  <2>3. QED
    BY <2>1, <2>2
<1>3. h = F(h)
  <2>1. ASSUME NEW i \in 1..Len(s)
        PROVE  g[i] = IF i = 1 THEN s[i] ELSE h[i - 1] \o s[i]
    <3>1. i - 1 \in 0..Len(s) /\ i = (i - 1) + 1 /\ (i # 1 => i - 1 \in 1..Len(s))
      BY <1>1
    <3>2. g[i] = IF i = 1 THEN s[i] ELSE g[i - 1] \o s[i]
      BY <1>2, <3>1
    <3>3. i # 1 => h[i - 1] = g[i - 1]
      BY <3>1
    <3> HIDE DEF h
    <3>4. QED
      BY <3>2, <3>3
  <2>2. QED
    BY <2>1
<1>4. flatten = F(flatten)
  <2> HIDE DEF F, h
  <2>1. QED
    BY <1>3
<1> HIDE DEF flatten
<1>5. ASSUME NEW i \in 1..Len(s), NEW j \in 0..Len(s), i = j + 1
      PROVE  flatten[i] = IF i = 1 THEN s[i] ELSE flatten[j] \o s[i]
  <2>1. flatten[i] = IF i = 1 THEN s[i] ELSE flatten[i - 1] \o s[i]
    BY <1>4
  <2>2. i - 1 = j
    BY <1>1, <1>5
  <2>3. QED
    BY <2>1, <2>2
<1>6. \A n \in Nat : n \in 1..Len(s) => flatten[n] = g[n]
  <2> DEFINE U == {n \in Nat : n \in 1..Len(s) => flatten[n] = g[n]}
  <2>1. 0 \in U
    OBVIOUS
  <2>2. ASSUME NEW n \in Nat, n \in 1..Len(s) => flatten[n] = g[n],
               NEW i \in 1..Len(s), i = n + 1
        PROVE  flatten[i] = g[i]
    <3>1. n \in 0..Len(s) /\ (i # 1 => n \in 1..Len(s))
      BY <1>1, <2>2
    <3>2. flatten[i] = IF i = 1 THEN s[i] ELSE flatten[n] \o s[i]
      BY <1>5, <2>2, <3>1
    <3>3. g[i] = IF i = 1 THEN s[i] ELSE g[n] \o s[i]
      BY <1>2, <2>2, <3>1
    <3>4. QED
      BY <3>1, <3>2, <3>3, <2>2
  <2>3. \A n \in Nat : n \in U => n + 1 \in U
    BY <2>2
  <2>4. Nat \subseteq U
    <3> HIDE DEF U
    <3>1. QED
      BY <2>1, <2>3, SetInduction
  <2>5. QED
    BY <2>4
<1>7. CASE Len(s) = 0
  BY <1>7, EmptySeq DEF FlattenSeq, FlatTurns
<1>8. CASE Len(s) # 0
  <2>1. Len(s) \in 1..Len(s)
    BY <1>1, <1>8
  <2>2. FlattenSeq(s) = flatten[Len(s)]
    BY <1>8 DEF FlattenSeq, flatten
  <2>3. QED
    BY <2>1, <2>2, <1>1, <1>6
<1>9. QED
  BY <1>7, <1>8

LEMMA FlatLoop ==
  ASSUME NEW S, NEW s \in Seq(Seq(S))
  PROVE  \E g \in [0..Len(s) -> Seq(S)] : FlatTurns(g, s) /\ FlattenSeq(s) = g[Len(s)]
<1> DEFINE H == [a \in Seq(S) |-> [e \in Seq(S) |-> Cat(a, e)]]
<1>1. H \in [Seq(S) -> [Seq(S) -> Seq(S)]]
  BY CatProperties
<1>2. <<>> \in Seq(S) /\ Len(s) \in Nat
  BY EmptySeq, LenProperties
<1>3. PICK g \in [0..Len(s) -> Seq(S)] :
        g[0] = <<>> /\ \A i \in 1..Len(s) : g[i] = H[g[i - 1]][s[i]]
  <2> HIDE DEF H
  <2>1. \E g \in [0..Len(s) -> Seq(S)] : Turns(g, s, <<>>, H)
    BY <1>1, <1>2, LoopExists
  <2>2. QED
    BY <2>1 DEF Turns
<1>4. ASSUME NEW i \in 0..Len(s), NEW j \in 0..Len(s), j = i + 1
      PROVE  g[j] = Cat(g[i], s[j])
  <2>1. j \in 1..Len(s) /\ j - 1 = i
    BY <1>2, <1>4
  <2>2. g[j] = H[g[i]][s[j]]
    BY <1>3, <2>1
  <2>3. g[i] \in Seq(S) /\ s[j] \in Seq(S)
    BY <2>1, ElementOfSeq
  <2>4. QED
    BY <2>2, <2>3
<1>5. FlatTurns(g, s)
  BY <1>3, <1>4 DEF FlatTurns
<1>6. FlattenSeq(s) = g[Len(s)]
  BY <1>5, FlatUnique
<1>7. QED
  BY <1>5, <1>6

\* The flat sequence of none, of one more, and of all but the first.
LEMMA FlatType ==
  ASSUME NEW S, NEW s \in Seq(Seq(S))
  PROVE  FlattenSeq(s) \in Seq(S)
<1>1. PICK g \in [0..Len(s) -> Seq(S)] : FlattenSeq(s) = g[Len(s)]
  BY FlatLoop
<1>2. QED
  BY <1>1, LenProperties

LEMMA FlatEmpty == FlattenSeq(<<>>) = <<>>
  BY EmptySeq DEF FlattenSeq

LEMMA FlatAppend ==
  ASSUME NEW S, NEW s \in Seq(Seq(S)), NEW e \in Seq(S)
  PROVE  FlattenSeq(Append(s, e)) = FlattenSeq(s) \o e
<1> DEFINE m == Len(s)
<1>1. /\ m \in Nat /\ Append(s, e) \in Seq(Seq(S)) /\ Len(Append(s, e)) = m + 1
      /\ \A i \in 1..m : Append(s, e)[i] = s[i]
      /\ Append(s, e)[m + 1] = e
  BY LenProperties, AppendProperties
<1>2. PICK g \in [0..m -> Seq(S)] : FlatTurns(g, s) /\ FlattenSeq(s) = g[m]
  BY FlatLoop
<1> DEFINE h == [i \in 0..(m + 1) |-> IF i <= m THEN g[i] ELSE Cat(g[m], e)]
<1>3. h \in [0..(m + 1) -> Seq(S)]
  BY <1>1, CatProperties
<1>4. /\ \A i \in 0..m : h[i] = g[i]
      /\ h[m + 1] = Cat(g[m], e)
  BY <1>1
<1> HIDE DEF h
<1>5. FlatTurns(h, Append(s, e))
  <2>1. h[0] = <<>>
    BY <1>1, <1>2, <1>4 DEF FlatTurns
  <2>2. ASSUME NEW i \in 0..(m + 1), NEW j \in 0..(m + 1), j = i + 1
        PROVE  h[j] = Cat(h[i], Append(s, e)[j])
    <3>1. CASE i = m
      <4>1. j = m + 1 /\ h[i] = g[m]
        BY <3>1, <2>2, <1>1, <1>4
      <4>2. h[j] = Cat(g[m], e) /\ Append(s, e)[j] = e
        BY <4>1, <1>1, <1>4
      <4>3. QED
        BY <4>1, <4>2
    <3>2. CASE i # m
      <4>1. i \in 0..m /\ j \in 0..m /\ j \in 1..m
        BY <3>2, <1>1, <2>2
      <4>2. g[j] = Cat(g[i], s[j])
        BY <4>1, <1>2, <2>2 DEF FlatTurns
      <4>3. Append(s, e)[j] = s[j] /\ h[j] = g[j] /\ h[i] = g[i]
        BY <4>1, <1>1, <1>4
      <4>4. QED
        BY <4>2, <4>3
    <3>3. QED
      BY <3>1, <3>2
  <2>3. QED
    BY <2>1, <2>2, <1>1 DEF FlatTurns
<1>6. FlattenSeq(Append(s, e)) = h[m + 1]
  BY <1>1, <1>3, <1>5, FlatUnique
<1>7. QED
  BY <1>2, <1>4, <1>6 DEF Cat

\* h has e in front of what g has, one position later.
Shifted(h, g, e, n) ==
  h[0] = <<>> /\ \A i, j \in 0..(n + 1) : j = i + 1 => h[j] = Cat(e, g[i])

\* s is e and, behind it, the n sequences of t; g has sequences, too.
Behind(S, s, t, e, n, g) ==
  /\ n = Len(t) /\ n + 1 = Len(s) /\ e \in Seq(S) /\ e = s[1]
  /\ \A i \in 1..n, j \in 0..(n + 1) : j = i + 1 => s[j] = t[i]
  /\ \A i \in 1..n : t[i] \in Seq(S)
  /\ \A i \in 0..n : g[i] \in Seq(S)

LEMMA FlatShift ==
  ASSUME NEW S, NEW s, NEW t, NEW e, NEW n \in Nat, NEW g, NEW h,
         Behind(S, s, t, e, n, g), FlatTurns(g, t), Shifted(h, g, e, n)
  PROVE  FlatTurns(h, s)
<1>1. ASSUME NEW i \in 0..(n + 1), NEW j \in 0..(n + 1), j = i + 1
      PROVE  h[j] = Cat(h[i], s[j])
  <2>1. i \in 0..n /\ h[j] = Cat(e, g[i])
    BY <1>1 DEF Shifted
  <2>2. CASE i = 0
    <3>1. h[i] = <<>> /\ g[i] = <<>> /\ s[j] = e /\ e \in Seq(S)
      BY <1>1, <2>2 DEF Shifted, FlatTurns, Behind
    <3>2. QED
      BY <3>1, <2>1, CatProperties
  <2>3. CASE i # 0
    <3>1. PICK k \in 0..n : i = k + 1
      <4>1. i - 1 \in 0..n /\ i = (i - 1) + 1
        BY <2>1, <2>3
      <4>2. QED
        BY <4>1
    <3>2. i \in 1..n
      BY <2>1, <2>3
    <3>3. /\ s[j] = t[i] /\ t[i] \in Seq(S) /\ g[k] \in Seq(S) /\ e \in Seq(S)
          /\ n = Len(t)
      BY <1>1, <3>2 DEF Behind
    <3>4. h[i] = Cat(e, g[k])
      BY <3>1 DEF Shifted
    <3>5. g[i] = Cat(g[k], t[i])
      BY <3>1, <3>2, <3>3 DEF FlatTurns
    <3>6. Cat(Cat(e, g[k]), t[i]) = Cat(e, Cat(g[k], t[i]))
      BY <3>3, CatAssociative
    <3>7. QED
      BY <2>1, <3>3, <3>4, <3>5, <3>6
  <2>4. QED
    BY <2>2, <2>3
<1>2. QED
  BY <1>1 DEF FlatTurns, Shifted, Behind

LEMMA FlatHead ==
  ASSUME NEW S, NEW s \in Seq(Seq(S)), s # <<>>
  PROVE  FlattenSeq(s) = Head(s) \o FlattenSeq(Tail(s))
<1>0. PICK e \in Seq(S), t \in Seq(Seq(S)), n \in Nat : e = Head(s) /\ t = Tail(s) /\ n = Len(t)
  BY HeadTailProperties, LenProperties
<1>1. /\ Len(s) = n + 1 /\ e = s[1]
      /\ \A i \in 1..n, j \in 0..(n + 1) : j = i + 1 => s[j] = t[i]
      /\ \A i \in 1..n : t[i] \in Seq(S)
  BY <1>0, HeadTailProperties, LenProperties, ElementOfSeq
<1>2. PICK g \in [0..n -> Seq(S)] : FlatTurns(g, t) /\ FlattenSeq(t) = g[n]
  BY <1>0, FlatLoop
<1>3. PICK h \in [0..(n + 1) -> Seq(S)] : Shifted(h, g, e, n)
  <2> DEFINE H(i) == IF i = 0 THEN <<>> ELSE Cat(e, g[i - 1])
  <2>1. H(0) = <<>>
    OBVIOUS
  <2>2. ASSUME NEW i \in 0..(n + 1), NEW j \in 0..(n + 1), j = i + 1
        PROVE  H(j) = Cat(e, g[i])
    <3>1. j # 0 /\ j - 1 = i
      BY <2>2
    <3>2. QED
      BY <3>1
  <2>3. ASSUME NEW i \in 0..(n + 1) PROVE H(i) \in Seq(S)
    <3>1. CASE i = 0
      BY <3>1, EmptySeq
    <3>2. CASE i # 0
      <4>1. g[i - 1] \in Seq(S)
        BY <3>2
      <4>2. QED
        BY <3>2, <4>1, CatProperties
    <3>3. QED
      BY <3>1, <3>2
  <2> DEFINE h == [i \in 0..(n + 1) |-> H(i)]
  <2> HIDE DEF H
  <2>4. h \in [0..(n + 1) -> Seq(S)]
    BY <2>3
  <2>5. \A i \in 0..(n + 1) : h[i] = H(i)
    OBVIOUS
  <2> HIDE DEF h
  <2>6. Shifted(h, g, e, n)
    BY <2>1, <2>2, <2>5 DEF Shifted
  <2>7. QED
    BY <2>4, <2>6
<1>4. Behind(S, s, t, e, n, g)
  BY <1>0, <1>1 DEF Behind
<1>6. FlatTurns(h, s)
  BY <1>2, <1>3, <1>4, FlatShift
<1>7. FlattenSeq(s) = h[n + 1]
  BY <1>1, <1>3, <1>6, FlatUnique
<1>8. h[n + 1] = Cat(e, g[n])
  BY <1>3 DEF Shifted
<1>9. QED
  BY <1>0, <1>2, <1>7, <1>8 DEF Cat

-----------------------------------------------------------------------------
(* Sequences that begin with the same elements *)

\* u is the elements of a, and then those of k.
Joined(u, a, k) ==
  /\ Len(a) \in Nat /\ Len(k) \in Nat
  /\ Len(u) = Len(a) + Len(k)
  /\ \A i \in 1..Len(a) : u[i] = a[i]
  /\ \A i \in 1..Len(k) : u[Len(a) + i] = k[i]

LEMMA CatJoined ==
  ASSUME NEW S, NEW a \in Seq(S), NEW k \in Seq(S)
  PROVE  Joined(Cat(a, k), a, k)
<1>1. Len(a) \in Nat /\ Len(k) \in Nat
  BY LenProperties
<1>2. /\ Len(a \o k) = Len(a) + Len(k)
      /\ \A i \in 1..(Len(a) + Len(k)) : (a \o k)[i] = IF i <= Len(a) THEN a[i] ELSE k[i - Len(a)]
  BY ConcatProperties
<1>3. QED
  BY <1>1, <1>2 DEF Joined, Cat

LEMMA SameStart ==
  ASSUME NEW S, NEW a \in Seq(S), NEW k \in Seq(S), NEW e \in Seq(S), NEW f \in Seq(S),
         Cat(a, k) = Cat(e, f), a # <<>>, e # <<>>
  PROVE  a[1] = e[1]
<1>1. Len(a) \in Nat \ {0} /\ Len(e) \in Nat \ {0}
  BY EmptySeq, LenProperties
<1>2. Joined(Cat(a, k), a, k) /\ Joined(Cat(a, k), e, f)
  BY CatJoined
<1>3. 1 \in 1..Len(a) /\ 1 \in 1..Len(e)
  BY <1>1
<1>4. Cat(a, k)[1] = a[1] /\ Cat(a, k)[1] = e[1]
  BY <1>2, <1>3, Zenon DEF Joined
<1>5. QED
  BY <1>4

LEMMA SameParts ==
  ASSUME NEW S, NEW a \in Seq(S), NEW k \in Seq(S), NEW e \in Seq(S), NEW f \in Seq(S),
         Cat(a, k) = Cat(e, f), Len(a) = Len(e)
  PROVE  a = e /\ k = f
<1>1. Joined(Cat(a, k), a, k) /\ Joined(Cat(a, k), e, f)
  BY CatJoined
<1>2. \A i \in 1..Len(a) : a[i] = e[i]
  BY <1>1 DEF Joined
<1>3. Len(k) = Len(f) /\ \A i \in 1..Len(k) : k[i] = f[i]
  BY <1>1 DEF Joined
<1>4. QED
  BY <1>2, <1>3, SeqEqual

-----------------------------------------------------------------------------
(* Taking the first of the lines that are kept *)

LEMMA TakeFirst ==
  ASSUME NEW S, NEW a \in Seq(S), NEW k \in Seq(S), NEW w \in Seq(S), NEW T, w # <<>>,
         Head(w) \in T, Cat(a, Keep(w, T)) = k
  PROVE  /\ Cat(Append(a, Head(w)), Keep(Tail(w), T)) = k
         /\ Len(a) + 1 \in 1..Len(k) /\ k[Len(a) + 1] = Head(w)
<1>1. PICK l \in S, v \in Seq(S) : l = Head(w) /\ v = Tail(w)
  BY HeadTailProperties
<1>2. PICK b \in Seq(S) : b = <<l>>
  <2>1. <<l>> \in Seq(S)
    OBVIOUS
  <2>2. QED
    BY <2>1, Zenon
<1>3. PICK c \in Seq(S) : c = Keep(v, T)
  BY KeepType
<1>4. Keep(w, T) = Cat(b, c)
  BY <1>1, <1>2, <1>3, KeepHead DEF Cat
<1>5. Append(a, l) = Cat(a, b) /\ Cat(a, b) \in Seq(S)
  BY <1>2, AppendIsConcat, CatProperties DEF Cat
<1>6. Cat(Cat(a, b), c) = k
  BY <1>4, CatAssociative
<1>7. Joined(k, Cat(a, b), c)
  BY <1>5, <1>6, CatJoined
<1>8. Len(Append(a, l)) = Len(a) + 1 /\ Append(a, l)[Len(a) + 1] = l /\ Len(a) \in Nat
  BY AppendProperties, LenProperties
<1>9. Len(a) + 1 \in 1..Len(k) /\ k[Len(a) + 1] = l
  <2>1. PICK d : d = Append(a, l)
    OBVIOUS
  <2>2. Joined(k, d, c) /\ Len(d) = Len(a) + 1 /\ d[Len(a) + 1] = l
    BY <1>5, <1>7, <1>8, <2>1
  <2>3. QED
    BY <1>8, <2>2 DEF Joined
<1>10. QED
  BY <1>1, <1>3, <1>5, <1>6, <1>9

LEMMA SkipFirst ==
  ASSUME NEW S, NEW w \in Seq(S), NEW T, w # <<>>, Head(w) \notin T
  PROVE  Keep(Tail(w), T) = Keep(w, T)
  BY KeepHead

\* The first of the lines that wait for the events u is the next of the first
\* event that is not complete.
LEMMA NextEvent ==
  ASSUME NEW S, NEW p \in Seq(S), NEW u \in Seq(Seq(S)), NEW w \in Seq(S), NEW T,
         w # <<>>, Head(w) \in T, Cat(p, Keep(w, T)) = FlattenSeq(u)
  PROVE  /\ u # <<>>
         /\ Append(p, Head(w)) \in Seq(S) /\ Keep(Tail(w), T) \in Seq(S)
         /\ Head(u) \in Seq(S) /\ FlattenSeq(Tail(u)) \in Seq(S)
         /\ Cat(Append(p, Head(w)), Keep(Tail(w), T)) = FlattenSeq(u)
         /\ FlattenSeq(u) = Cat(Head(u), FlattenSeq(Tail(u)))
<1>1. FlattenSeq(u) \in Seq(S)
  BY FlatType
<1>2. /\ Cat(Append(p, Head(w)), Keep(Tail(w), T)) = FlattenSeq(u)
      /\ Len(p) + 1 \in 1..Len(FlattenSeq(u))
  BY <1>1, TakeFirst
<1>3. u # <<>>
  <2>1. ASSUME u = <<>> PROVE FALSE
    <3>1. Len(FlattenSeq(u)) = 0
      BY <2>1, FlatEmpty, EmptySeq
    <3>2. Len(p) \in Nat
      BY LenProperties
    <3>3. QED
      BY <1>2, <3>1, <3>2
  <2>2. QED
    BY <2>1
<1>4. Append(p, Head(w)) \in Seq(S) /\ Keep(Tail(w), T) \in Seq(S)
  BY HeadTailProperties, AppendProperties, KeepType
<1>5. Head(u) \in Seq(S) /\ Tail(u) \in Seq(Seq(S))
  BY <1>3, HeadTailProperties
<1>6. FlattenSeq(Tail(u)) \in Seq(S) /\ FlattenSeq(u) = Cat(Head(u), FlattenSeq(Tail(u)))
  BY <1>3, <1>5, FlatType, FlatHead DEF Cat
<1>7. QED
  BY <1>2, <1>3, <1>4, <1>5, <1>6

\* The parts of a sequence of events.
LEMMA Beginning ==
  ASSUME NEW S, NEW s \in Seq(S), NEW k \in Nat, k < Len(s)
  PROVE  /\ s[k + 1] \in S
         /\ Append(SubSeq(s, 1, k), s[k + 1]) = SubSeq(s, 1, k + 1)
         /\ SubSeq(s, k + 1, Len(s)) \in Seq(S) /\ SubSeq(s, k + 1, Len(s)) # <<>>
         /\ Head(SubSeq(s, k + 1, Len(s))) = s[k + 1]
         /\ Tail(SubSeq(s, k + 1, Len(s))) = SubSeq(s, k + 2, Len(s))
<1>1. Len(s) \in Nat /\ k + 1 \in 1..Len(s) /\ (k + 1) + 1 = k + 2
  BY LenProperties
<1>2. s[k + 1] \in S
  BY <1>1, ElementOfSeq
<1>3. Append(SubSeq(s, 1, k), s[k + 1]) = SubSeq(s, 1, k + 1)
  <2>1. \A i \in 1..(k + 1) : s[i] \in S
    BY <1>1, ElementOfSeq
  <2>2. /\ SubSeq(s, 1, k) \in Seq(S) /\ Len(SubSeq(s, 1, k)) = k
        /\ \A i \in 1..k : SubSeq(s, 1, k)[i] = s[i]
    <3>1. \A i \in 1..k : s[i] \in S /\ 1 + i - 1 = i
      BY <2>1
    <3>2. QED
      BY <3>1, SubSeqProperties
  <2>3. /\ SubSeq(s, 1, k + 1) \in Seq(S) /\ Len(SubSeq(s, 1, k + 1)) = k + 1
        /\ \A i \in 1..(k + 1) : SubSeq(s, 1, k + 1)[i] = s[i]
    BY <2>1, SubSeqProperties
  <2>4. PICK a \in Seq(S), b \in Seq(S) : a = SubSeq(s, 1, k) /\ b = SubSeq(s, 1, k + 1)
    BY <2>2, <2>3
  <2>5. /\ Len(Append(a, s[k + 1])) = k + 1 /\ Append(a, s[k + 1]) \in Seq(S)
        /\ \A i \in 1..k : Append(a, s[k + 1])[i] = s[i]
        /\ Append(a, s[k + 1])[k + 1] = s[k + 1]
    BY <1>2, <2>2, <2>4, AppendProperties
  <2>6. Append(a, s[k + 1]) = b
    <3>1. \A i \in 1..(k + 1) : Append(a, s[k + 1])[i] = b[i]
      BY <2>3, <2>4, <2>5
    <3>2. QED
      BY <2>3, <2>4, <2>5, <3>1, SeqEqual
  <2>7. QED
    BY <2>4, <2>6
<1>4. /\ Head(SubSeq(s, k + 1, Len(s))) = s[k + 1]
      /\ Tail(SubSeq(s, k + 1, Len(s))) = SubSeq(s, k + 2, Len(s))
  BY <1>1, HeadTailOfSubSeq
<1>5. SubSeq(s, k + 1, Len(s)) \in Seq(S) /\ SubSeq(s, k + 1, Len(s)) # <<>>
  <2>1. \A i \in (k + 1)..Len(s) : s[i] \in S
    BY <1>1, ElementOfSeq
  <2>2. SubSeq(s, k + 1, Len(s)) \in Seq(S) /\ Len(SubSeq(s, k + 1, Len(s))) # 0
    BY <1>1, <2>1, SubSeqProperties
  <2>3. QED
    BY <2>2, EmptySeq
<1>6. QED
  BY <1>2, <1>3, <1>4, <1>5

\* The parts of a sequence that grows.
Grown(b, a, e) == b = Append(a, e)

LEMMA Growth ==
  ASSUME NEW S, NEW s \in Seq(S), NEW e \in S, NEW k \in Nat, k <= Len(s),
         NEW i, i = k + 1, NEW m, m = Len(s) + 1
  PROVE  /\ Append(s, e) \in Seq(S) /\ Len(Append(s, e)) = m /\ Len(s) \in Nat
         /\ SubSeq(s, i, Len(s)) \in Seq(S)
         /\ SubSeq(Append(s, e), 1, k) = SubSeq(s, 1, k)
         /\ Grown(SubSeq(Append(s, e), i, m), SubSeq(s, i, Len(s)), e)
<1> DEFINE n == Len(s)
<1>1. PICK t \in Seq(S) : t = Append(s, e)
  BY AppendProperties
<1>2. /\ n \in Nat /\ Len(t) = n + 1 /\ t[n + 1] = e
      /\ \A j \in 1..n : t[j] = s[j]
      /\ \A j \in 1..n : s[j] \in S
      /\ \A j \in 1..(n + 1) : t[j] \in S
  BY <1>1, AppendProperties, LenProperties, ElementOfSeq
<1> HIDE DEF n
<1>3. SubSeq(t, 1, k) = SubSeq(s, 1, k)
  <2>1. \A j \in 1..k : t[j] = s[j] /\ t[j] \in S /\ s[j] \in S /\ 1 + j - 1 = j /\ j \in 1..(k - 1 + 1)
    BY <1>2 DEF n
  <2>2. /\ SubSeq(s, 1, k) \in Seq(S) /\ Len(SubSeq(s, 1, k)) = k
        /\ \A j \in 1..k : SubSeq(s, 1, k)[j] = s[j]
    BY <2>1, SubSeqProperties
  <2>3. /\ SubSeq(t, 1, k) \in Seq(S) /\ Len(SubSeq(t, 1, k)) = k
        /\ \A j \in 1..k : SubSeq(t, 1, k)[j] = t[j]
    BY <2>1, SubSeqProperties
  <2>4. QED
    BY <2>1, <2>2, <2>3, SeqEqual
<1>4. /\ SubSeq(s, k + 1, n) \in Seq(S)
      /\ SubSeq(t, k + 1, n + 1) = Append(SubSeq(s, k + 1, n), e)
  <2>1. /\ k + 1 \in Int /\ n \in Int /\ n + 1 \in Int
        /\ \A j \in (k + 1)..n : s[j] \in S
        /\ \A j \in (k + 1)..(n + 1) : t[j] \in S
    BY <1>2
  <2>2. /\ SubSeq(s, k + 1, n) \in Seq(S)
        /\ Len(SubSeq(s, k + 1, n)) = n - k
        /\ \A j \in 1..(n - k) : SubSeq(s, k + 1, n)[j] = s[k + j]
    <3>1. /\ SubSeq(s, k + 1, n) \in Seq(S)
          /\ Len(SubSeq(s, k + 1, n)) = IF k + 1 <= n THEN n - (k + 1) + 1 ELSE 0
          /\ \A j \in 1..(n - (k + 1) + 1) : SubSeq(s, k + 1, n)[j] = s[(k + 1) + j - 1]
      BY <2>1, SubSeqProperties
    <3>2. k <= n
      BY DEF n
    <3>3. QED
      BY <1>2, <3>1, <3>2
  <2>3. /\ SubSeq(t, k + 1, n + 1) \in Seq(S)
        /\ Len(SubSeq(t, k + 1, n + 1)) = n - k + 1
        /\ \A j \in 1..(n - k + 1) : SubSeq(t, k + 1, n + 1)[j] = t[k + j]
    <3>1. /\ SubSeq(t, k + 1, n + 1) \in Seq(S)
          /\ Len(SubSeq(t, k + 1, n + 1)) = IF k + 1 <= n + 1 THEN n + 1 - (k + 1) + 1 ELSE 0
          /\ \A j \in 1..(n + 1 - (k + 1) + 1) : SubSeq(t, k + 1, n + 1)[j] = t[(k + 1) + j - 1]
      BY <2>1, SubSeqProperties
    <3>2. k <= n
      BY DEF n
    <3>3. QED
      BY <1>2, <3>1, <3>2
  <2>4. PICK a \in Seq(S), b \in Seq(S) : a = SubSeq(s, k + 1, n) /\ b = SubSeq(t, k + 1, n + 1)
    BY <2>2, <2>3
  <2>5. /\ Append(a, e) \in Seq(S) /\ Len(Append(a, e)) = n - k + 1
        /\ \A j \in 1..(n - k) : Append(a, e)[j] = s[k + j]
        /\ Append(a, e)[n - k + 1] = e
    <3>1. Len(a) = n - k /\ \A j \in 1..(n - k) : a[j] = s[k + j]
      BY <2>2, <2>4
    <3>2. /\ Append(a, e) \in Seq(S) /\ Len(Append(a, e)) = Len(a) + 1
          /\ \A j \in 1..Len(a) : Append(a, e)[j] = a[j]
          /\ Append(a, e)[Len(a) + 1] = e
      BY AppendProperties
    <3>3. QED
      BY <3>1, <3>2
  <2>6. \A j \in 1..(n - k + 1) : Append(a, e)[j] = b[j]
    <3>1. ASSUME NEW j \in 1..(n - k + 1) PROVE Append(a, e)[j] = b[j]
      <4>1. b[j] = t[k + j]
        BY <2>3, <2>4
      <4>2. CASE j \in 1..(n - k)
        <5>1. k + j \in 1..n
          BY <4>2, <1>2
        <5>2. QED
          BY <4>1, <4>2, <5>1, <2>5, <1>2
      <4>3. CASE j = n - k + 1
        <5>1. k + j = n + 1
          BY <4>3, <1>2
        <5>2. QED
          BY <4>1, <4>3, <5>1, <2>5, <1>2
      <4>4. j \in 1..(n - k) \/ j = n - k + 1
        BY <1>2
      <4>5. QED
        BY <4>2, <4>3, <4>4
    <3>2. QED
      BY <3>1
  <2>7. Append(a, e) = b
    BY <2>3, <2>4, <2>5, <2>6, SeqEqual
  <2>8. QED
    BY <2>2, <2>4, <2>7
<1>5. QED
  BY <1>1, <1>2, <1>3, <1>4 DEF n, Grown

\* A filter returns the whole sequence when there is nothing to leave out.
LEMMA KeepAll ==
  ASSUME NEW S, NEW s \in Seq(S), NEW T, \A i \in 1..Len(s) : s[i] \in T
  PROVE  Keep(s, T) = s
<1> DEFINE g == [i \in 0..Len(s) |-> SubSeq(s, 1, i)]
<1>1. Len(s) \in Nat
  BY LenProperties
<1>2. \A k \in Nat : k < Len(s) => Append(SubSeq(s, 1, k), s[k + 1]) = SubSeq(s, 1, k + 1)
  BY Beginning
<1>3. ASSUME NEW i \in 1..Len(s)
      PROVE  g[i] = IF s[i] \in T THEN Append(g[i - 1], s[i]) ELSE g[i - 1]
  <2>1. i - 1 \in Nat /\ i - 1 < Len(s) /\ (i - 1) + 1 = i /\ i - 1 \in 0..Len(s) /\ i \in 0..Len(s)
    BY <1>1
  <2>2. Append(SubSeq(s, 1, i - 1), s[i]) = SubSeq(s, 1, i)
    BY <1>2, <2>1
  <2>3. QED
    BY <2>1, <2>2
<1>4. g[0] = <<>> /\ g[Len(s)] = s
  BY <1>1, SubSeqEmpty, SubSeqFull
<1>5. DOMAIN g = 0..Len(s) /\ g = [i \in DOMAIN g |-> g[i]]
  OBVIOUS
<1> HIDE DEF g
<1>6. KeepTurns(g, s, T)
  BY <1>3, <1>4 DEF KeepTurns
<1>7. QED
  BY <1>4, <1>5, <1>6, KeepUnique

\* What filters keep of a sequence that grows at its end.
LEMMA KeepMore ==
  ASSUME NEW S, NEW s \in Seq(S), NEW x \in Seq(S), NEW T
  PROVE  /\ (\A i \in 1..Len(x) : x[i] \in T) => Keep(s \o x, T) = Keep(s, T) \o x
         /\ (\A i \in 1..Len(x) : x[i] \notin T) => Keep(s \o x, T) = Keep(s, T)
<1>1. Keep(s \o x, T) = Keep(s, T) \o Keep(x, T)
  BY KeepConcat
<1>2. ASSUME \A i \in 1..Len(x) : x[i] \in T PROVE Keep(x, T) = x
  BY <1>2, KeepAll
<1>3. ASSUME \A i \in 1..Len(x) : x[i] \notin T PROVE Keep(x, T) = <<>>
  BY <1>3, KeepNone
<1>4. Keep(s, T) \o <<>> = Keep(s, T)
  BY KeepType, ConcatEmptySeq
<1>5. QED
  BY <1>1, <1>2, <1>3, <1>4

-----------------------------------------------------------------------------
(* Insertion and removal *)

\* What inserting an element at a position of a sequence returns.
LEMMA InsertAtProperties ==
  ASSUME NEW S, NEW s \in Seq(S), NEW e \in S, NEW i \in 1..(Len(s) + 1)
  PROVE  /\ InsertAt(s, i, e) \in Seq(S)
         /\ Len(InsertAt(s, i, e)) = Len(s) + 1
         /\ \A j \in 1..(Len(s) + 1) :
              InsertAt(s, i, e)[j] = IF j < i THEN s[j]
                                     ELSE IF j = i THEN e ELSE s[j - 1]
<1> DEFINE a == SubSeq(s, 1, i - 1)
           c == SubSeq(s, i, Len(s))
<1>1. /\ a \in Seq(S) /\ Len(a) = i - 1
      /\ \A j \in 1..(i - 1) : a[j] = s[j]
  <2>1. \A j \in 1..(i - 1) : s[j] \in S
    BY ElementOfSeq, LenProperties
  <2>2. QED
    BY <2>1, SubSeqProperties, LenProperties
<1>2. /\ c \in Seq(S) /\ Len(c) = Len(s) - i + 1
      /\ \A j \in 1..(Len(s) - i + 1) : c[j] = s[i + j - 1]
  <2>1. \A j \in i..Len(s) : s[j] \in S
    BY ElementOfSeq, LenProperties
  <2>2. QED
    BY <2>1, SubSeqProperties, LenProperties
<1>3. /\ <<e>> \in Seq(S) /\ Len(<<e>>) = 1 /\ <<e>>[1] = e
  OBVIOUS
<1> DEFINE b == a \o <<e>>
<1>4. /\ b \in Seq(S) /\ Len(b) = i
      /\ \A j \in 1..i : b[j] = IF j < i THEN s[j] ELSE e
  <2> HIDE DEF a
  <2>1. /\ b \in Seq(S)
        /\ Len(b) = Len(a) + Len(<<e>>)
        /\ \A j \in 1..(Len(a) + Len(<<e>>)) :
             b[j] = IF j <= Len(a) THEN a[j] ELSE <<e>>[j - Len(a)]
    BY <1>1, <1>3, ConcatProperties
  <2>2. QED
    BY <2>1, <1>1, <1>3, LenProperties
<1>5. InsertAt(s, i, e) = b \o c
  BY DEF InsertAt
<1> HIDE DEF a, b, c
<1>6. /\ b \o c \in Seq(S)
      /\ Len(b \o c) = Len(b) + Len(c)
      /\ \A j \in 1..(Len(b) + Len(c)) :
           (b \o c)[j] = IF j <= Len(b) THEN b[j] ELSE c[j - Len(b)]
  BY <1>2, <1>4, ConcatProperties
<1>7. Len(s) \in Nat
  BY LenProperties
<1>8. Len(b \o c) = Len(s) + 1
  BY <1>2, <1>4, <1>6, <1>7
<1>9. ASSUME NEW j \in 1..(Len(s) + 1)
      PROVE  (b \o c)[j] = IF j < i THEN s[j] ELSE IF j = i THEN e ELSE s[j - 1]
  <2>1. CASE j <= i
    BY <2>1, <1>2, <1>4, <1>6, <1>7
  <2>2. CASE j > i
    <3>1. j - i \in 1..(Len(s) - i + 1)
      BY <2>2, <1>7
    <3>2. c[j - i] = s[i + (j - i) - 1]
      BY <3>1, <1>2
    <3>3. QED
      BY <2>2, <3>1, <3>2, <1>2, <1>4, <1>6, <1>7
  <2>3. j <= i \/ j > i
    BY <1>7
  <2>4. QED
    BY <2>1, <2>2, <2>3, Zenon
<1>10. QED
  BY <1>5, <1>6, <1>8, <1>9

\* It adds that element and no other.
LEMMA InsertAtElements ==
  ASSUME NEW S, NEW s \in Seq(S), NEW e \in S, NEW i \in 1..(Len(s) + 1)
  PROVE  \A j \in 1..Len(InsertAt(s, i, e)) :
           \/ InsertAt(s, i, e)[j] = e
           \/ \E m \in 1..Len(s) : InsertAt(s, i, e)[j] = s[m]
<1> DEFINE r == InsertAt(s, i, e)
<1>1. /\ Len(r) = Len(s) + 1
      /\ \A j \in 1..(Len(s) + 1) :
           r[j] = IF j < i THEN s[j] ELSE IF j = i THEN e ELSE s[j - 1]
  BY InsertAtProperties
<1>2. Len(s) \in Nat
  BY LenProperties
<1> HIDE DEF r
<1>3. SUFFICES ASSUME NEW j \in 1..(Len(s) + 1)
               PROVE  r[j] = e \/ \E m \in 1..Len(s) : r[j] = s[m]
  BY <1>1 DEF r
<1>4. CASE j < i
  BY <1>1, <1>2, <1>4
<1>5. CASE j = i
  BY <1>1, <1>2, <1>5
<1>6. CASE j > i
  <2>1. j - 1 \in 1..Len(s) /\ r[j] = s[j - 1]
    BY <1>1, <1>2, <1>6
  <2>2. QED
    BY <2>1
<1>7. QED
  BY <1>2, <1>4, <1>5, <1>6

\* What removing the element at a position of a sequence returns.
LEMMA RemoveAtProperties ==
  ASSUME NEW S, NEW s \in Seq(S), NEW i \in 1..Len(s)
  PROVE  /\ RemoveAt(s, i) \in Seq(S)
         /\ Len(RemoveAt(s, i)) = Len(s) - 1
         /\ \A j \in 1..(Len(s) - 1) :
              RemoveAt(s, i)[j] = IF j < i THEN s[j] ELSE s[j + 1]
<1> DEFINE a == SubSeq(s, 1, i - 1)
           c == SubSeq(s, i + 1, Len(s))
<1>1. /\ a \in Seq(S) /\ Len(a) = i - 1
      /\ \A j \in 1..(i - 1) : a[j] = s[j]
  <2>1. \A j \in 1..(i - 1) : s[j] \in S
    BY ElementOfSeq, LenProperties
  <2>2. QED
    BY <2>1, SubSeqProperties, LenProperties
<1>2. /\ c \in Seq(S) /\ Len(c) = Len(s) - i
      /\ \A j \in 1..(Len(s) - i) : c[j] = s[i + j]
  <2>1. \A j \in (i + 1)..Len(s) : s[j] \in S
    BY ElementOfSeq, LenProperties
  <2>2. QED
    BY <2>1, SubSeqProperties, LenProperties
<1>3. RemoveAt(s, i) = a \o c
  BY DEF RemoveAt
<1> HIDE DEF a, c
<1>4. /\ a \o c \in Seq(S)
      /\ Len(a \o c) = Len(a) + Len(c)
      /\ \A j \in 1..(Len(a) + Len(c)) :
           (a \o c)[j] = IF j <= Len(a) THEN a[j] ELSE c[j - Len(a)]
  BY <1>1, <1>2, ConcatProperties
<1>5. Len(s) \in Nat
  BY LenProperties
<1>6. Len(a \o c) = Len(s) - 1
  BY <1>1, <1>2, <1>4, <1>5
<1>7. ASSUME NEW j \in 1..(Len(s) - 1)
      PROVE  (a \o c)[j] = IF j < i THEN s[j] ELSE s[j + 1]
  <2>1. CASE j < i
    BY <2>1, <1>1, <1>2, <1>4, <1>5
  <2>2. CASE j >= i
    <3>1. j - (i - 1) \in 1..(Len(s) - i)
      BY <2>2, <1>5
    <3>2. c[j - (i - 1)] = s[i + (j - (i - 1))]
      BY <3>1, <1>2
    <3>3. QED
      BY <2>2, <3>1, <3>2, <1>1, <1>2, <1>4, <1>5
  <2>3. j < i \/ j >= i
    BY <1>5
  <2>4. QED
    BY <2>1, <2>2, <2>3, Zenon
<1>8. QED
  BY <1>3, <1>4, <1>6, <1>7

-----------------------------------------------------------------------------
(* Order *)

\* The elements of r occur in s in the same order.
SubsequenceOf(r, s) ==
  \A j \in 1..Len(r) : \E b \in 1..Len(s) :
    /\ r[j] = s[b]
    /\ \A i \in 1..(j - 1) : \E a \in 1..(b - 1) : r[i] = s[a]

\* Popping a pending leaves the others in their order.
LEMMA RemoveAtSubsequence ==
  ASSUME NEW S, NEW s \in Seq(S), NEW k \in 1..Len(s)
  PROVE  SubsequenceOf(RemoveAt(s, k), s)
<1> DEFINE r == RemoveAt(s, k)
           At(j) == IF j < k THEN j ELSE j + 1
<1>1. /\ Len(s) \in Nat
      /\ Len(r) = Len(s) - 1
      /\ \A j \in 1..(Len(s) - 1) : r[j] = IF j < k THEN s[j] ELSE s[j + 1]
  BY RemoveAtProperties, LenProperties
<1> HIDE DEF r
<1>2. \A j \in 1..Len(r) : At(j) \in 1..Len(s) /\ r[j] = s[At(j)]
  BY <1>1
<1>3. \A j \in 1..Len(r) : \A i \in 1..(j - 1) :
        i \in 1..Len(r) /\ At(i) \in 1..(At(j) - 1)
  BY <1>1
<1>4. SUFFICES ASSUME NEW j \in 1..Len(r)
               PROVE  \E b \in 1..Len(s) :
                        /\ r[j] = s[b]
                        /\ \A i \in 1..(j - 1) : \E a \in 1..(b - 1) : r[i] = s[a]
  BY DEF SubsequenceOf, r
<1> HIDE DEF At
<1>5. \A i \in 1..(j - 1) : \E a \in 1..(At(j) - 1) : r[i] = s[a]
  BY <1>2, <1>3
<1>6. QED
  BY <1>2, <1>5

\* Popping the head gives a subsequence.
LEMMA TailSubsequence ==
  ASSUME NEW S, NEW s \in Seq(S), s # <<>>
  PROVE  SubsequenceOf(Tail(s), s)
<1>1. /\ Len(s) \in Nat \ {0}
      /\ Len(Tail(s)) = Len(s) - 1
      /\ \A i \in 1..(Len(s) - 1) : Tail(s)[i] = s[i + 1]
  BY EmptySeq, HeadTailProperties, LenProperties
<1>2. SUFFICES ASSUME NEW j \in 1..Len(Tail(s))
               PROVE  /\ j + 1 \in 1..Len(s)
                      /\ Tail(s)[j] = s[j + 1]
                      /\ \A i \in 1..(j - 1) : \E a \in 1..(j + 1 - 1) :
                           Tail(s)[i] = s[a]
  BY DEF SubsequenceOf
<1>3. j + 1 \in 1..Len(s) /\ Tail(s)[j] = s[j + 1]
  BY <1>1
<1>4. ASSUME NEW i \in 1..(j - 1)
      PROVE  i + 1 \in 1..(j + 1 - 1) /\ Tail(s)[i] = s[i + 1]
  BY <1>1
<1>5. QED
  BY <1>3, <1>4

\* A queue is a subsequence of itself.
LEMMA SameSubsequence ==
  ASSUME NEW S, NEW s \in Seq(S)
  PROVE  SubsequenceOf(s, s)
BY LenProperties DEF SubsequenceOf

\* r is s with e inserted at i; r is s without its i-th element.
Inserted(r, s, i, e) ==
  /\ Len(r) = Len(s) + 1
  /\ \A j \in 1..(Len(s) + 1) :
       r[j] = IF j < i THEN s[j] ELSE IF j = i THEN e ELSE s[j - 1]
Removed(r, s, i) ==
  /\ Len(r) = Len(s) - 1
  /\ \A j \in 1..(Len(s) - 1) : r[j] = IF j < i THEN s[j] ELSE s[j + 1]

\* The same facts as InsertAtProperties, in one predicate.
LEMMA InsertAtInserted ==
  ASSUME NEW S, NEW s \in Seq(S), NEW e \in S, NEW i \in 1..(Len(s) + 1)
  PROVE  Inserted(InsertAt(s, i, e), s, i, e)
BY InsertAtProperties DEF Inserted

\* The same facts as RemoveAtProperties, in one predicate.
LEMMA RemoveAtRemoved ==
  ASSUME NEW S, NEW s \in Seq(S), NEW i \in 1..Len(s)
  PROVE  Removed(RemoveAt(s, i), s, i)
BY RemoveAtProperties DEF Removed

\* Popping keeps the shape and the order of a queue.
LEMMA ShapedSubsequence ==
  ASSUME NEW r, NEW s, NEW band, NEW id,
         SubsequenceOf(r, s), Shaped(s, band, id)
  PROVE  Shaped(r, band, id)
<1>1. SUFFICES ASSUME NEW j \in 1..Len(r), NEW i \in 1..(j - 1)
               PROVE  \/ band[r[i]] < band[r[j]]
                      \/ /\ band[r[i]] = band[r[j]]
                         /\ IF band[r[i]] = 1 THEN id[r[j]] < id[r[i]]
                                              ELSE id[r[i]] < id[r[j]]
  BY DEF Shaped
<1>2. PICK b \in 1..Len(s) :
        r[j] = s[b] /\ \A m \in 1..(j - 1) : \E a \in 1..(b - 1) : r[m] = s[a]
  BY DEF SubsequenceOf
<1>3. PICK a \in 1..(b - 1) : r[i] = s[a]
  BY <1>2
<1>4. QED
  BY <1>2, <1>3 DEF Shaped

\* Popping keeps the order of the sends.
LEMMA InOrderSubsequence ==
  ASSUME NEW r, NEW s, NEW band, NEW sent,
         SubsequenceOf(r, s), InOrder(s, band, sent)
  PROVE  InOrder(r, band, sent)
<1>1. SUFFICES ASSUME NEW j \in 1..Len(r), NEW i \in 1..(j - 1),
                      band[r[i]] = 2, band[r[j]] = 2
               PROVE  r[j] \notin sent
  BY DEF InOrder
<1>2. PICK b \in 1..Len(s) :
        r[j] = s[b] /\ \A m \in 1..(j - 1) : \E a \in 1..(b - 1) : r[m] = s[a]
  BY DEF SubsequenceOf
<1>3. PICK a \in 1..(b - 1) : r[i] = s[a]
  BY <1>2
<1>4. QED
  BY <1>1, <1>2, <1>3 DEF InOrder

\* Two positions of a queue of that shape hold different pendings.
LEMMA ShapedInjective ==
  ASSUME NEW S, NEW s \in Seq(S), NEW band \in [S -> 0..2],
         NEW id \in [S -> Nat], Shaped(s, band, id),
         NEW j \in 1..Len(s), NEW i \in 1..Len(s), s[i] = s[j]
  PROVE  i = j
<1>1. s[i] \in S /\ s[j] \in S /\ Len(s) \in Nat
  BY ElementOfSeq, LenProperties
<1>2. ASSUME NEW b \in 1..Len(s), NEW a \in 1..(b - 1), s[a] = s[b], s[b] \in S
      PROVE  FALSE
  BY <1>2 DEF Shaped
<1>3. i < j => FALSE
  BY <1>1, <1>2
<1>4. j < i => FALSE
  BY <1>1, <1>2
<1>5. QED
  BY <1>1, <1>3, <1>4

\* Sending the next pending keeps the order.
LEMMA InOrderSend ==
  ASSUME NEW S, NEW s \in Seq(S), NEW band \in [S -> 0..2],
         NEW id \in [S -> Nat], NEW sent, NEW imm, NEW k \in 1..Len(s),
         \A x \in imm : band[x] = 0,
         Shaped(s, band, id), InOrder(s, band, sent),
         NextIndex(s, imm, sent, k)
  PROVE  InOrder(s, band, sent \cup {s[k]})
<1>1. SUFFICES ASSUME NEW j \in 1..Len(s), NEW i \in 1..(j - 1),
                      band[s[i]] = 2, band[s[j]] = 2, s[j] = s[k]
               PROVE  FALSE
  BY DEF InOrder
<1>2. j = k
  BY <1>1, ShapedInjective
<1>3. s[i] \in imm
  BY <1>2 DEF NextIndex
<1>4. QED
  BY <1>1, <1>3

\* Pushing a pending with the largest id keeps the shape.
LEMMA ShapedInsert ==
  ASSUME NEW S, NEW s \in Seq(S), NEW band \in [S -> 0..2],
         NEW id \in [S -> Nat], NEW p \in S, NEW prio, NEW imm,
         NEW i \in 1..(Len(s) + 1),
         \A x \in S : x \in imm <=> band[x] = 0,
         band[p] = IF prio = "IMMEDIATELY" THEN 0
                   ELSE IF prio = "HIGH" THEN 1 ELSE 2,
         \A j \in 1..Len(s) : id[s[j]] < id[p],
         Shaped(s, band, id), PushIndex(s, prio, imm, i)
  PROVE  Shaped(InsertAt(s, i, p), band, id)
<1> DEFINE r == InsertAt(s, i, p)
<1>1. /\ Len(s) \in Nat
      /\ Len(r) = Len(s) + 1
      /\ \A j \in 1..(Len(s) + 1) :
           r[j] = IF j < i THEN s[j] ELSE IF j = i THEN p ELSE s[j - 1]
  <2>1. Len(s) \in Nat
    BY LenProperties
  <2>2. Inserted(r, s, i, p)
    BY InsertAtInserted
  <2>3. QED
    BY <2>1, <2>2 DEF Inserted
<1> DEFINE Rel(x, y) == \/ band[x] < band[y]
                        \/ /\ band[x] = band[y]
                           /\ IF band[x] = 1 THEN id[y] < id[x] ELSE id[x] < id[y]
<1> HIDE DEF r
<1>2. \A j \in 1..Len(s) : s[j] \in S
  BY ElementOfSeq
<1>3. \A m \in 1..Len(s) : \A n \in 1..(m - 1) : Rel(s[n], s[m])
  BY DEF Shaped
<1>10. SUFFICES ASSUME NEW b \in 1..(Len(s) + 1), NEW a \in 1..(b - 1)
                PROVE  Rel(r[a], r[b])
  BY <1>1 DEF Shaped, r
<1>4. CASE b = i
  <2>1. a \in 1..Len(s) /\ r[b] = p /\ r[a] = s[a] /\ s[a] \in S /\ id[s[a]] < id[p]
    BY <1>1, <1>2, <1>4
  <2>2. prio \in {"IMMEDIATELY", "HIGH"} => band[s[a]] = 0
    BY <1>4, <2>1 DEF PushIndex
  <2>3. CASE prio \in {"IMMEDIATELY", "HIGH"}
    BY <2>1, <2>2, <2>3
  <2>4. CASE prio \notin {"IMMEDIATELY", "HIGH"}
    <3>1. band[p] = 2 /\ band[s[a]] \in 0..2
      BY <2>1, <2>4
    <3>2. QED
      BY <2>1, <3>1
  <2>5. QED
    BY <2>3, <2>4
<1>5. CASE a = i
  <2>1. /\ b - 1 \in 1..Len(s) /\ r[b] = s[b - 1] /\ r[a] = p
        /\ i \in 1..Len(s) /\ s[b - 1] \in S /\ s[i] \in S
        /\ id[s[b - 1]] < id[p] /\ i <= b - 1
    BY <1>1, <1>2, <1>5
  <2>2. prio \in {"IMMEDIATELY", "HIGH"} /\ s[i] \notin imm
    BY <2>1, <1>1 DEF PushIndex
  <2>3. band[s[i]] \in 1..2
    BY <2>1, <2>2
  <2>4. band[s[b - 1]] \in 1..2
    <3>1. CASE i = b - 1
      BY <2>3, <3>1
    <3>2. CASE i < b - 1
      <4>1. i \in 1..(b - 1 - 1)
        BY <3>2, <2>1
      <4>2. Rel(s[i], s[b - 1])
        BY <1>3, <2>1, <4>1
      <4>3. band[s[b - 1]] \in 0..2
        BY <2>1
      <4>4. QED
        BY <2>3, <4>2, <4>3
    <3>3. QED
      BY <2>1, <3>1, <3>2
  <2>5. QED
    BY <2>1, <2>2, <2>4
<1>6. CASE a # i /\ b # i
  <2> HIDE DEF Rel
  <2>1. CASE b < i
    <3>1. r[a] = s[a] /\ r[b] = s[b] /\ b \in 1..Len(s)
      BY <1>1, <2>1
    <3>2. QED
      BY <3>1, <1>3
  <2>2. CASE a < i /\ i < b
    <3>1. r[a] = s[a] /\ r[b] = s[b - 1] /\ b - 1 \in 1..Len(s) /\ a \in 1..(b - 1 - 1)
      BY <1>1, <2>2
    <3>2. QED
      BY <3>1, <1>3
  <2>3. CASE i < a
    <3>1. /\ r[a] = s[a - 1] /\ r[b] = s[b - 1] /\ b - 1 \in 1..Len(s)
          /\ a - 1 \in 1..(b - 1 - 1)
      BY <1>1, <2>3
    <3>2. QED
      BY <3>1, <1>3
  <2>4. QED
    BY <1>1, <1>6, <2>1, <2>2, <2>3
<1>7. QED
  BY <1>4, <1>5, <1>6

\* Pushing a pending that was not sent keeps the order.
LEMMA InOrderInsert ==
  ASSUME NEW S, NEW s \in Seq(S), NEW band \in [S -> 0..2], NEW sent,
         NEW p \in S, p \notin sent, NEW prio, NEW imm,
         NEW i \in 1..(Len(s) + 1),
         band[p] = IF prio = "IMMEDIATELY" THEN 0
                   ELSE IF prio = "HIGH" THEN 1 ELSE 2,
         InOrder(s, band, sent), PushIndex(s, prio, imm, i)
  PROVE  InOrder(InsertAt(s, i, p), band, sent)
<1> DEFINE r == InsertAt(s, i, p)
<1>1. /\ Len(s) \in Nat
      /\ Len(r) = Len(s) + 1
      /\ \A j \in 1..(Len(s) + 1) :
           r[j] = IF j < i THEN s[j] ELSE IF j = i THEN p ELSE s[j - 1]
  BY InsertAtProperties, LenProperties
<1> HIDE DEF r
<1>2. SUFFICES ASSUME NEW b \in 1..(Len(s) + 1), NEW a \in 1..(b - 1),
                      band[r[a]] = 2, band[r[b]] = 2
               PROVE  r[b] \notin sent
  BY <1>1 DEF InOrder, r
<1>3. CASE b = i
  BY <1>1, <1>3
<1>4. CASE a = i
  <2>1. i # Len(s) + 1 /\ r[a] = p
    BY <1>1, <1>4
  <2>2. prio \in {"IMMEDIATELY", "HIGH"}
    BY <2>1 DEF PushIndex
  <2>3. QED
    BY <1>2, <2>1, <2>2
<1>5. CASE a # i /\ b # i
  <2>1. CASE b < i
    <3>1. r[a] = s[a] /\ r[b] = s[b] /\ b \in 1..Len(s)
      BY <1>1, <2>1
    <3>2. QED
      BY <3>1, <1>2 DEF InOrder
  <2>2. CASE a < i /\ i < b
    <3>1. r[a] = s[a] /\ r[b] = s[b - 1] /\ b - 1 \in 1..Len(s) /\ a \in 1..(b - 1 - 1)
      BY <1>1, <2>2
    <3>2. QED
      BY <3>1, <1>2 DEF InOrder
  <2>3. CASE i < a
    <3>1. /\ r[a] = s[a - 1] /\ r[b] = s[b - 1] /\ b - 1 \in 1..Len(s)
          /\ a - 1 \in 1..(b - 1 - 1)
      BY <1>1, <2>3
    <3>2. QED
      BY <3>1, <1>2 DEF InOrder
  <2>4. QED
    BY <1>1, <1>5, <2>1, <2>2, <2>3
<1>6. QED
  BY <1>3, <1>4, <1>5
-----------------------------------------------------------------------------
(* What a filter keeps, in its order *)

\* r is a part of the first n elements of s, all in T, in their order.
PartOf(r, s, n, T) ==
  \A j \in 1..Len(r) : \E b \in 1..n :
    /\ r[j] = s[b] /\ s[b] \in T
    /\ \A i \in 1..(j - 1) : \E a \in 1..(b - 1) : r[i] = s[a]

LEMMA PartStays ==
  ASSUME NEW r, NEW s, NEW n \in Nat, NEW T, PartOf(r, s, n, T)
  PROVE  PartOf(r, s, n + 1, T)
<1>1. 1..n \subseteq 1..(n + 1)
  OBVIOUS
<1>2. QED
  BY <1>1, Zenon DEF PartOf

LEMMA PartGrows ==
  ASSUME NEW S, NEW r \in Seq(S), NEW s, NEW n \in Nat, NEW T, PartOf(r, s, n, T),
         NEW m, m = n + 1, s[m] \in S, s[m] \in T
  PROVE  PartOf(Append(r, s[m]), s, m, T)
<1>1. PICK t \in Seq(S), e \in S : t = Append(r, e) /\ e = s[m]
  BY AppendProperties
<1>2. /\ Len(r) \in Nat /\ Len(t) = Len(r) + 1 /\ t[Len(r) + 1] = e
      /\ \A j \in 1..Len(r) : t[j] = r[j]
  BY <1>1, AppendProperties, LenProperties
<1>3. ASSUME NEW j \in 1..Len(r)
      PROVE  \E b \in 1..m : /\ t[j] = s[b] /\ s[b] \in T
                             /\ \A i \in 1..(j - 1) : \E a \in 1..(b - 1) : t[i] = s[a]
  <2>1. PICK b \in 1..n : /\ r[j] = s[b] /\ s[b] \in T
                          /\ \A i \in 1..(j - 1) : \E a \in 1..(b - 1) : r[i] = s[a]
    BY DEF PartOf
  <2>2. b \in 1..m /\ \A i \in 1..(j - 1) : i \in 1..Len(r)
    BY <1>2
  <2>3. QED
    BY <1>2, <2>1, <2>2, Zenon
<1>4. \A i \in 1..Len(r) : \E a \in 1..n : t[i] = s[a]
  BY <1>2, Zenon DEF PartOf
<1>5. \A j \in 1..Len(t) : j \in 1..Len(r) \/ j = Len(r) + 1
  BY <1>2
<1>6. m \in 1..m /\ m - 1 = n /\ (Len(r) + 1) - 1 = Len(r)
  BY <1>2
<1>7. ASSUME NEW j \in 1..Len(t)
      PROVE  \E b \in 1..m : /\ t[j] = s[b] /\ s[b] \in T
                             /\ \A i \in 1..(j - 1) : \E a \in 1..(b - 1) : t[i] = s[a]
  <2>1. CASE j \in 1..Len(r)
    BY <1>3, <2>1, Zenon
  <2>2. CASE j = Len(r) + 1
    <3>1. j - 1 = Len(r) /\ t[j] = s[m] /\ s[m] \in T
      BY <1>1, <1>2, <1>6, <2>2
    <3>2. \A i \in 1..(j - 1) : \E a \in 1..(m - 1) : t[i] = s[a]
      BY <1>4, <1>6, <3>1, Zenon
    <3>3. QED
      BY <1>6, <3>1, <3>2, Zenon
  <2>3. QED
    BY <1>5, <2>1, <2>2
<1>8. QED
  BY <1>1, <1>7 DEF PartOf

LEMMA KeepPart ==
  ASSUME NEW S, NEW s \in Seq(S), NEW T
  PROVE  PartOf(Keep(s, T), s, Len(s), T)
<1>1. PICK g \in [0..Len(s) -> Seq(S)] : KeepTurns(g, s, T) /\ Keep(s, T) = g[Len(s)]
  BY KeepLoop
<1>2. Len(s) \in Nat /\ \A n \in 1..Len(s) : s[n] \in S
  BY LenProperties, ElementOfSeq
<1> DEFINE U == {n \in Nat : n <= Len(s) => PartOf(g[n], s, n, T)}
<1>3. 0 \in U
  <2>1. g[0] = <<>> /\ Len(<<>>) = 0
    BY <1>1, EmptySeq DEF KeepTurns
  <2>2. PartOf(g[0], s, 0, T)
    BY <2>1 DEF PartOf
  <2>3. QED
    BY <2>2
<1>4. ASSUME NEW n \in Nat, n <= Len(s) => PartOf(g[n], s, n, T), n + 1 <= Len(s)
      PROVE  PartOf(g[n + 1], s, n + 1, T)
  <2>1. PICK m : m = n + 1
    OBVIOUS
  <2>2. m \in 1..Len(s) /\ m - 1 = n /\ n \in 0..Len(s) /\ n <= Len(s)
    BY <1>2, <1>4, <2>1
  <2>3. PartOf(g[n], s, n, T) /\ g[n] \in Seq(S) /\ s[m] \in S
    BY <1>2, <1>4, <2>2
  <2>4. g[m] = IF s[m] \in T THEN Append(g[n], s[m]) ELSE g[n]
    BY <1>1, <2>2 DEF KeepTurns
  <2>5. CASE s[m] \in T
    BY <2>1, <2>3, <2>4, <2>5, PartGrows
  <2>6. CASE s[m] \notin T
    BY <2>1, <2>3, <2>4, <2>6, PartStays
  <2>7. QED
    BY <2>1, <2>5, <2>6
<1>5. Nat \subseteq U
  <2>1. \A n \in Nat : n \in U => n + 1 \in U
    BY <1>4
  <2> HIDE DEF U
  <2>2. QED
    BY <1>3, <2>1, SetInduction
<1>6. QED
  BY <1>1, <1>2, <1>5

\* A filter returns some of the elements of a sequence, in their order.
LEMMA KeepSubsequence ==
  ASSUME NEW S, NEW s \in Seq(S), NEW T
  PROVE  /\ SubsequenceOf(Keep(s, T), s)
         /\ \A j \in 1..Len(Keep(s, T)) : Keep(s, T)[j] \in T
                                          /\ \E b \in 1..Len(s) : Keep(s, T)[j] = s[b]
  BY KeepPart DEF PartOf, SubsequenceOf

\* The same of two sequences joined, as an operator.
LEMMA KeepCat ==
  ASSUME NEW S, NEW a \in Seq(S), NEW b \in Seq(S), NEW T
  PROVE  Keep(Cat(a, b), T) = Cat(Keep(a, T), Keep(b, T))
BY KeepConcat DEF Cat

\* The first element that a filter keeps is the first that is in its set.
LEMMA KeepFirst ==
  ASSUME NEW S, NEW s \in Seq(S), NEW T, Keep(s, T) # <<>>
  PROVE  \E m \in 1..Len(s) : /\ Head(Keep(s, T)) = s[m] /\ s[m] \in T
                              /\ \A i \in 1..(m - 1) : s[i] \notin T
<1> DEFINE U == {i \in 1..Len(s) : s[i] \in T}
<1>1. Len(s) \in Nat
  BY LenProperties
<1>2. U # {} /\ U \subseteq Nat
  BY <1>1, KeepNone
<1>3. PICK m \in U : \A i \in U : m <= i
  <2> HIDE DEF U
  <2>1. QED
    BY <1>2, LeastOf
<1>4. m \in 1..Len(s) /\ s[m] \in T /\ \A i \in 1..(m - 1) : s[i] \notin T /\ i \in 1..Len(s)
  BY <1>1, <1>3
<1> HIDE DEF U
<1> DEFINE n == Len(s)
           a == SubSeq(s, 1, m - 1)
           b == SubSeq(s, m, n)
<1>5. a \in Seq(S) /\ b \in Seq(S) /\ b # <<>> /\ \A i \in 1..Len(a) : a[i] \notin T
  <2>1. \A i \in 1..(m - 1) : s[i] \in S /\ 1 + i - 1 = i
    BY <1>4, ElementOfSeq
  <2>2. \A i \in m..n : s[i] \in S
    BY <1>1, <1>4, ElementOfSeq
  <2>3. /\ a \in Seq(S) /\ Len(a) = m - 1 /\ \A i \in 1..(m - 1) : a[i] = s[i]
    BY <1>4, <2>1, SubSeqProperties
  <2>4. b \in Seq(S) /\ Len(b) # 0
    BY <1>1, <1>4, <2>2, SubSeqProperties
  <2> HIDE DEF a, b
  <2>5. QED
    BY <1>4, <2>3, <2>4, EmptySeq
<1>6. Cat(a, b) = s
  <2>1. 1 \in 1..(Len(s) + 1) /\ m - 1 \in (1 - 1)..Len(s) /\ n \in (m - 1)..Len(s)
        /\ (m - 1) + 1 = m
    BY <1>1, <1>4
  <2>2. SubSeq(s, 1, m - 1) \o SubSeq(s, (m - 1) + 1, n) = SubSeq(s, 1, n)
    BY <2>1, ConcatAdjacentSubSeq
  <2>3. SubSeq(s, 1, n) = s
    BY SubSeqFull
  <2>4. QED
    BY <2>1, <2>2, <2>3 DEF Cat
<1>7. Head(b) = s[m]
  BY <1>1, <1>4, HeadTailOfSubSeq
<1> HIDE DEF a, b, n
<1>8. Keep(a, T) = <<>>
  BY <1>5, KeepNone
<1>9. PICK c \in Seq(S), d \in Seq(S) : c = Keep(Tail(b), T) /\ d = <<s[m]>>
  <2>1. s[m] \in S
    BY <1>4, ElementOfSeq
  <2>2. <<s[m]>> \in Seq(S)
    BY <2>1
  <2>3. Keep(Tail(b), T) \in Seq(S)
    BY <1>5, HeadTailProperties, KeepType
  <2>4. QED
    BY <2>2, <2>3, Zenon
<1>10. Keep(b, T) = Cat(d, c)
  BY <1>4, <1>5, <1>7, <1>9, KeepHead DEF Cat
<1>11. Keep(s, T) = Cat(d, c)
  <2>1. Keep(Cat(a, b), T) = Cat(Keep(a, T), Keep(b, T))
    BY <1>5, KeepCat
  <2>2. Cat(<<>>, Keep(b, T)) = Keep(b, T)
    BY <1>5, KeepType, CatProperties
  <2>3. QED
    BY <1>6, <1>8, <1>10, <2>1, <2>2, Zenon
<1>12. Len(d) = 1 /\ d[1] = s[m]
  BY <1>9
<1>13. Head(Keep(s, T)) = s[m]
  <2>1. Joined(Keep(s, T), d, c)
    BY <1>11, CatJoined
  <2>2. Keep(s, T)[1] = d[1]
    BY <1>12, <2>1 DEF Joined
  <2>3. QED
    BY <1>12, <2>2
<1>14. QED
  BY <1>4, <1>13

\* A filter of the rest of a list, from position k + 1 on: what it leaves out,
\* and what it returns first.
LEMMA KeepAfter ==
  ASSUME NEW S, NEW s \in Seq(S), NEW T, NEW k \in 0..Len(s)
  PROVE  LET r == Keep(SubSeq(s, k + 1, Len(s)), T) IN
         /\ r = <<>> => \A i \in (k + 1)..Len(s) : s[i] \notin T
         /\ r # <<>> => \E m \in (k + 1)..Len(s) :
              Head(r) = s[m] /\ s[m] \in T /\ \A i \in (k + 1)..(m - 1) : s[i] \notin T
<1> DEFINE q == SubSeq(s, k + 1, Len(s))
           r == Keep(q, T)
<1>1. Len(s) \in Nat /\ k \in Nat /\ k <= Len(s)
  BY LenProperties
<1>2. /\ q \in Seq(S) /\ Len(q) = Len(s) - k
      /\ \A i \in 1..(Len(s) - k) : q[i] = s[k + i]
  <2>1. \A i \in (k + 1)..Len(s) : s[i] \in S
    BY <1>1, ElementOfSeq
  <2>2. k + 1 \in Int /\ Len(s) \in Int
    BY <1>1
  <2>3. /\ q \in Seq(S)
        /\ Len(q) = IF k + 1 <= Len(s) THEN Len(s) - (k + 1) + 1 ELSE 0
        /\ \A i \in 1..(Len(s) - (k + 1) + 1) : q[i] = s[(k + 1) + i - 1]
    BY <2>1, <2>2, SubSeqProperties
  <2>4. QED
    BY <1>1, <2>3
<1> HIDE DEF q
<1>3. \A i \in (k + 1)..Len(s) : i - k \in 1..Len(q) /\ q[i - k] = s[i]
  <2>1. \A i \in (k + 1)..Len(s) : i - k \in 1..(Len(s) - k) /\ k + (i - k) = i
    BY <1>1
  <2>2. QED
    BY <1>2, <2>1
<1>4. ASSUME r = <<>>, NEW i \in (k + 1)..Len(s) PROVE s[i] \notin T
  BY <1>2, <1>3, <1>4, KeepSome
<1>5. ASSUME r # <<>>
      PROVE  \E m \in (k + 1)..Len(s) :
               Head(r) = s[m] /\ s[m] \in T /\ \A i \in (k + 1)..(m - 1) : s[i] \notin T
  <2>1. PICK j \in 1..Len(q) : /\ Head(r) = q[j] /\ q[j] \in T
                               /\ \A i \in 1..(j - 1) : q[i] \notin T
    BY <1>2, <1>5, KeepFirst
  <2>2. /\ k + j \in (k + 1)..Len(s) /\ q[j] = s[k + j]
        /\ \A i \in (k + 1)..((k + j) - 1) : i - k \in 1..(j - 1) /\ i \in (k + 1)..Len(s)
    BY <1>1, <1>2
  <2>3. QED
    BY <1>3, <2>1, <2>2
<1>6. QED
  BY <1>4, <1>5 DEF q

\* A filter keeps every element that is in its set.
LEMMA KeepHas ==
  ASSUME NEW S, NEW s \in Seq(S), NEW T, NEW k \in 1..Len(s), s[k] \in T
  PROVE  \E j \in 1..Len(Keep(s, T)) : Keep(s, T)[j] = s[k]
<1>1. PICK g \in [0..Len(s) -> Seq(S)] : KeepTurns(g, s, T) /\ Keep(s, T) = g[Len(s)]
  BY KeepLoop
<1>2. Len(s) \in Nat /\ s[k] \in S /\ k \in 0..Len(s) /\ k - 1 \in 0..Len(s)
  BY LenProperties, ElementOfSeq
<1> DEFINE Has(n) == \E j \in 1..Len(g[n]) : g[n][j] = s[k]
           U == {n \in Nat : n + k <= Len(s) => Has(n + k)}
<1>3. \A i \in 1..Len(s) : g[i] = IF s[i] \in T THEN Append(g[i - 1], s[i]) ELSE g[i - 1]
  BY <1>1 DEF KeepTurns
<1>4. Has(k)
  <2>1. g[k] = Append(g[k - 1], s[k]) /\ g[k - 1] \in Seq(S)
    BY <1>2, <1>3
  <2>2. /\ Len(g[k]) = Len(g[k - 1]) + 1 /\ Len(g[k - 1]) \in Nat
        /\ g[k][Len(g[k - 1]) + 1] = s[k]
    BY <1>2, <2>1, AppendProperties, LenProperties
  <2>3. QED
    BY <2>2
<1>5. ASSUME NEW n \in Nat, n + k <= Len(s) => Has(n + k), n + 1 + k <= Len(s)
      PROVE  Has(n + 1 + k)
  <2> DEFINE a == n + k
             b == n + 1 + k
  <2>1. b \in 1..Len(s) /\ b - 1 = a /\ a \in 0..Len(s) /\ Has(a)
    BY <1>2, <1>5
  <2> HIDE DEF a, b
  <2>2. /\ g[b] = IF s[b] \in T THEN Append(g[a], s[b]) ELSE g[a]
        /\ g[a] \in Seq(S) /\ s[b] \in S
    BY <1>3, <2>1, ElementOfSeq
  <2>3. /\ Len(g[a]) \in Nat /\ Len(Append(g[a], s[b])) = Len(g[a]) + 1
        /\ \A j \in 1..Len(g[a]) : Append(g[a], s[b])[j] = g[a][j]
    BY <2>2, AppendProperties, LenProperties
  <2>4. Has(b)
    BY <2>1, <2>2, <2>3
  <2>5. QED
    BY <2>4 DEF b
<1>6. Nat \subseteq U
  <2>1. 0 \in U
    BY <1>4
  <2>2. \A n \in Nat : n \in U => n + 1 \in U
    <3> HIDE DEF Has
    <3>1. QED
      BY <1>5
  <2> HIDE DEF U
  <2>3. QED
    BY <2>1, <2>2, SetInduction
<1>7. PICK n \in Nat : n + k = Len(s)
  <2>1. Len(s) - k \in Nat /\ (Len(s) - k) + k = Len(s)
    BY <1>2
  <2>2. QED
    BY <2>1
<1>8. Has(Len(s))
  <2>1. n \in U /\ n + k <= Len(s)
    BY <1>2, <1>6, <1>7
  <2>2. Has(n + k)
    BY <2>1
  <2>3. QED
    BY <1>7, <2>2
<1>9. QED
  BY <1>1, <1>8

\* A filter depends on the elements of its sequence only.
LEMMA KeepSame ==
  ASSUME NEW S, NEW s \in Seq(S), NEW T, NEW U,
         \A i \in 1..Len(s) : s[i] \in T <=> s[i] \in U
  PROVE  Keep(s, T) = Keep(s, U)
<1>1. PICK g \in [0..Len(s) -> Seq(S)] : KeepTurns(g, s, T) /\ Keep(s, T) = g[Len(s)]
  BY KeepLoop
<1>2. KeepTurns(g, s, U)
  BY <1>1 DEF KeepTurns
<1>3. Keep(s, U) = g[Len(s)]
  BY <1>2, KeepUnique
<1>4. QED
  BY <1>1, <1>3

\* Two filters, one after the other.
LEMMA KeepTwice ==
  ASSUME NEW S, NEW s \in Seq(S), NEW T, NEW U
  PROVE  Keep(Keep(s, T), U) = Keep(s, T \cap U)
<1>1. PICK g \in [0..Len(s) -> Seq(S)] : KeepTurns(g, s, T) /\ Keep(s, T) = g[Len(s)]
  BY KeepLoop
<1> DEFINE h == [i \in 0..Len(s) |-> Keep(g[i], U)]
<1>2. Len(s) \in Nat
  BY LenProperties
<1>3. h[0] = <<>>
  BY <1>1, <1>2, KeepEmpty DEF KeepTurns
<1>4. ASSUME NEW i \in 1..Len(s)
      PROVE  h[i] = IF s[i] \in T \cap U THEN Append(h[i - 1], s[i]) ELSE h[i - 1]
  <2>1. i \in 0..Len(s) /\ i - 1 \in 0..Len(s)
    BY <1>2
  <2>2. PICK a \in Seq(S), e \in S : a = g[i - 1] /\ e = s[i]
    BY <2>1, ElementOfSeq
  <2>3. g[i] = IF e \in T THEN Append(a, e) ELSE a
    BY <1>1, <2>2 DEF KeepTurns
  <2>4. h[i] = Keep(g[i], U) /\ h[i - 1] = Keep(a, U)
    BY <2>1, <2>2
  <2> HIDE DEF h
  <2>5. Keep(Append(a, e), U) = IF e \in U THEN Append(Keep(a, U), e) ELSE Keep(a, U)
    BY KeepAppend
  <2>6. QED
    BY <2>2, <2>3, <2>4, <2>5
<1>5. KeepTurns(h, s, T \cap U)
  BY <1>3, <1>4 DEF KeepTurns
<1>6. DOMAIN h = 0..Len(s) /\ h = [i \in DOMAIN h |-> h[i]] /\ h[Len(s)] = Keep(g[Len(s)], U)
  BY <1>2
<1> HIDE DEF h
<1>7. Keep(s, T \cap U) = h[Len(s)]
  BY <1>5, <1>6, KeepUnique
<1>8. QED
  BY <1>1, <1>6, <1>7

\* The elements that a filter keeps.
LEMMA KeepElements ==
  ASSUME NEW S, NEW s \in Seq(S), NEW T
  PROVE  ToSet(Keep(s, T)) = ToSet(s) \cap T
<1>1. Keep(s, T) \in Seq(S)
  BY KeepType
<1>2. DOMAIN s = 1..Len(s) /\ DOMAIN Keep(s, T) = 1..Len(Keep(s, T))
  BY <1>1, LenProperties
<1>3. ASSUME NEW e \in ToSet(Keep(s, T)) PROVE e \in ToSet(s) \cap T
  <2>1. PICK j \in 1..Len(Keep(s, T)) : e = Keep(s, T)[j]
    BY <1>2 DEF ToSet
  <2>2. e \in T /\ \E b \in 1..Len(s) : e = s[b]
    BY <2>1, KeepSubsequence
  <2>3. QED
    BY <1>2, <2>2 DEF ToSet
<1>4. ASSUME NEW e \in ToSet(s) \cap T PROVE e \in ToSet(Keep(s, T))
  <2>1. PICK k \in 1..Len(s) : e = s[k]
    BY <1>2 DEF ToSet
  <2>2. \E j \in 1..Len(Keep(s, T)) : Keep(s, T)[j] = e
    BY <2>1, KeepHas
  <2>3. QED
    BY <1>2, <2>2 DEF ToSet
<1>5. QED
  BY <1>3, <1>4

-----------------------------------------------------------------------------
(* A relation between every two elements, in their order *)

Ordered(s, R) == \A i, j \in 1..Len(s) : i < j => <<s[i], s[j]>> \in R

\* It holds of a part.
LEMMA OrderedPart ==
  ASSUME NEW S, NEW r \in Seq(S), NEW s \in Seq(S), NEW R, SubsequenceOf(r, s), Ordered(s, R)
  PROVE  Ordered(r, R)
<1>1. SUFFICES ASSUME NEW i \in 1..Len(r), NEW j \in 1..Len(r), i < j
               PROVE  <<r[i], r[j]>> \in R
  BY DEF Ordered
<1>2. Len(r) \in Nat /\ Len(s) \in Nat
  BY LenProperties
<1>3. i \in 1..(j - 1)
  BY <1>1, <1>2
<1>4. PICK b \in 1..Len(s) : r[j] = s[b] /\ \A h \in 1..(j - 1) : \E a \in 1..(b - 1) : r[h] = s[a]
  BY DEF SubsequenceOf
<1>5. PICK a \in 1..(b - 1) : r[i] = s[a]
  BY <1>3, <1>4
<1>6. a \in 1..Len(s) /\ a < b
  BY <1>2
<1>7. QED
  BY <1>4, <1>5, <1>6 DEF Ordered

\* It holds of two sequences joined.
LEMMA OrderedConcat ==
  ASSUME NEW S, NEW a \in Seq(S), NEW b \in Seq(S), NEW R, Ordered(a, R), Ordered(b, R),
         \A i \in 1..Len(a), j \in 1..Len(b) : <<a[i], b[j]>> \in R
  PROVE  Ordered(a \o b, R)
<1> DEFINE u == a \o b
<1>1. Joined(u, a, b)
  BY CatJoined DEF Cat
<1> HIDE DEF u
<1>2. Len(a) \in Nat /\ Len(b) \in Nat /\ Len(u) = Len(a) + Len(b)
  BY <1>1 DEF Joined
<1>3. SUFFICES ASSUME NEW i \in 1..Len(u), NEW j \in 1..Len(u), i < j
               PROVE  <<u[i], u[j]>> \in R
  BY DEF Ordered, u
<1>4. CASE j \in 1..Len(a)
  <2>1. i \in 1..Len(a)
    BY <1>2, <1>3, <1>4
  <2>2. u[i] = a[i] /\ u[j] = a[j]
    BY <1>1, <1>4, <2>1 DEF Joined
  <2>3. QED
    BY <1>3, <1>4, <2>1, <2>2 DEF Ordered
<1>5. CASE i \in 1..Len(a) /\ j \notin 1..Len(a)
  <2>1. PICK m \in 1..Len(b) : j = Len(a) + m
    <3>1. j - Len(a) \in 1..Len(b) /\ j = Len(a) + (j - Len(a))
      BY <1>2, <1>3, <1>5
    <3>2. QED
      BY <3>1
  <2>2. u[i] = a[i] /\ u[j] = b[m]
    BY <1>1, <1>5, <2>1 DEF Joined
  <2>3. QED
    BY <1>5, <2>2
<1>6. CASE i \notin 1..Len(a) /\ j \notin 1..Len(a)
  <2>1. PICK n \in 1..Len(b), m \in 1..Len(b) : i = Len(a) + n /\ j = Len(a) + m
    <3>1. /\ i - Len(a) \in 1..Len(b) /\ i = Len(a) + (i - Len(a))
          /\ j - Len(a) \in 1..Len(b) /\ j = Len(a) + (j - Len(a))
      BY <1>2, <1>3, <1>6
    <3>2. QED
      BY <3>1
  <2>2. n < m
    BY <1>2, <1>3, <2>1
  <2>3. u[i] = b[n] /\ u[j] = b[m]
    BY <1>1, <2>1 DEF Joined
  <2>4. QED
    BY <2>2, <2>3 DEF Ordered
<1>7. QED
  BY <1>4, <1>5, <1>6

\* It holds of a sequence with one element more, at its end.
LEMMA OrderedAppend ==
  ASSUME NEW S, NEW s \in Seq(S), NEW e \in S, NEW R, Ordered(s, R),
         \A i \in 1..Len(s) : <<s[i], e>> \in R
  PROVE  Ordered(Append(s, e), R)
<1> DEFINE u == Append(s, e)
<1>1. /\ Len(s) \in Nat /\ Len(u) = Len(s) + 1 /\ u[Len(s) + 1] = e
      /\ \A i \in 1..Len(s) : u[i] = s[i]
  BY AppendProperties, LenProperties
<1> HIDE DEF u
<1>2. SUFFICES ASSUME NEW i \in 1..Len(u), NEW j \in 1..Len(u), i < j
               PROVE  <<u[i], u[j]>> \in R
  BY DEF Ordered, u
<1>3. i \in 1..Len(s) /\ (j \in 1..Len(s) \/ j = Len(s) + 1)
  BY <1>1, <1>2
<1>4. CASE j \in 1..Len(s)
  BY <1>1, <1>2, <1>3, <1>4 DEF Ordered
<1>5. CASE j = Len(s) + 1
  BY <1>1, <1>3, <1>5
<1>6. QED
  BY <1>3, <1>4, <1>5
=============================================================================
