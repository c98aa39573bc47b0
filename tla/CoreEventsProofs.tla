-------------------------- MODULE CoreEventsProofs --------------------------
(***************************************************************************)
(* Proofs about CoreEvents, for any objects, HALs, callbacks and events,   *)
(* and careful plugins: what the AT channels hold, and that an emission    *)
(* reaches every callback.                                                 *)
(***************************************************************************)
EXTENDS CoreEvents, SeqLemmas

-----------------------------------------------------------------------------
(* Types *)

EntryType == [pdu : BOOLEAN, items : Seq(Cbs)]
Tables == UNION {[D -> EntryType] : D \in SUBSET Names}

AtLists == [kind : {"at"}, of : AtHals, prefix : Names]
CoLists == [kind : {"co"}, of : Objects, prefix : Events]
WalkType ==
  [list : AtLists \cup CoLists, at : Cbs, next : Cbs \cup {None}, called : SUBSET Cbs,
   cut : BOOLEAN, acted : BOOLEAN]

Types ==
  /\ objects \in SUBSET Objects /\ live \in SUBSET Cbs /\ dropped \in SUBSET live
  /\ hal \in [Objects -> Hals \cup {None}]
  /\ callbacks \in [Objects -> Seq(Cbs)]
  /\ owner \in [Cbs -> Objects \cup {None}] /\ event \in [Cbs -> Events \cup {None}]
  /\ \A k \in live : owner[k] \in Objects /\ event[k] \in Events
  /\ table \in [AtHals -> Tables]
  /\ pduNoti \in [AtHals -> Names \cup {None}]
  /\ InCallback => walk \in WalkType
  /\ ~InCallback => walk = Idle

Different == {x \in Cbs \X Cbs : x[1] # x[2]}

LEMMA OnePlace ==
  ASSUME NEW s \in Seq(Cbs), Ordered(s, Different),
         NEW i \in 1..Len(s), NEW j \in 1..Len(s), s[i] = s[j]
  PROVE  i = j
<1>1. ~(i < j) /\ ~(j < i)
  BY DEF Ordered, Different
<1>2. QED
  BY <1>1, LenProperties

LEMMA PlaceOf ==
  ASSUME NEW s \in Seq(Cbs), NEW k, Contains(s, k)
  PROVE  Position(s, k) \in 1..Len(s) /\ s[Position(s, k)] = k
<1>1. \E i \in DOMAIN s : s[i] = k
  BY LenProperties DEF Contains
<1>2. QED
  BY <1>1, LenProperties DEF Position

LEMMA ContainsSet ==
  ASSUME NEW s \in Seq(Cbs), NEW k
  PROVE  Contains(s, k) <=> k \in ToSet(s)
BY LenProperties DEF Contains, ToSet

LEMMA SetOf ==
  ASSUME NEW s \in Seq(Cbs)
  PROVE  ToSet(s) \subseteq Cbs /\ (\A i \in 1..Len(s) : s[i] \in ToSet(s))
         /\ \A k \in ToSet(s) : \E i \in 1..Len(s) : s[i] = k
BY LenProperties, ElementOfSeq DEF ToSet

LEMMA CatSet ==
  ASSUME NEW a \in Seq(Cbs), NEW b \in Seq(Cbs)
  PROVE  Cat(a, b) \in Seq(Cbs) /\ ToSet(Cat(a, b)) = ToSet(a) \cup ToSet(b)
<1> DEFINE c == Cat(a, b)
<1>1. Joined(c, a, b) /\ c \in Seq(Cbs)
  BY CatJoined, CatProperties
<1> HIDE DEF c
<1>2. Len(a) \in Nat /\ Len(b) \in Nat /\ Len(c) = Len(a) + Len(b)
  BY <1>1 DEF Joined
<1>3. ASSUME NEW k \in ToSet(a) PROVE k \in ToSet(c)
  <2>1. PICK i \in 1..Len(a) : a[i] = k
    BY SetOf
  <2>2. i \in 1..Len(c) /\ c[i] = k
    BY <1>1, <1>2, <2>1 DEF Joined
  <2>3. QED
    BY <1>1, <2>2, SetOf
<1>4. ASSUME NEW k \in ToSet(b) PROVE k \in ToSet(c)
  <2>1. PICK i \in 1..Len(b) : b[i] = k
    BY SetOf
  <2>2. Len(a) + i \in 1..Len(c) /\ c[Len(a) + i] = k
    BY <1>1, <1>2, <2>1 DEF Joined
  <2>3. QED
    BY <1>1, <2>2, SetOf
<1>5. ASSUME NEW k \in ToSet(c) PROVE k \in ToSet(a) \/ k \in ToSet(b)
  <2>1. PICK j \in 1..Len(c) : c[j] = k
    BY <1>1, SetOf
  <2>2. CASE j \in 1..Len(a)
    BY <1>1, <2>1, <2>2, SetOf DEF Joined
  <2>3. CASE j \notin 1..Len(a)
    <3>1. j - Len(a) \in 1..Len(b) /\ j = Len(a) + (j - Len(a))
      BY <1>2, <2>3
    <3>2. k = b[j - Len(a)]
      BY <1>1, <2>1, <3>1 DEF Joined
    <3>3. QED
      BY <3>1, <3>2, SetOf
  <2>4. QED
    BY <2>2, <2>3
<1>6. ToSet(c) = ToSet(a) \cup ToSet(b)
  BY <1>3, <1>4, <1>5
<1>7. QED
  BY <1>1, <1>6 DEF c

-----------------------------------------------------------------------------
(* The order of a walk *)

\* All of s that are linked before k are in D.
Covered(s, k, D) == \A i, j \in 1..Len(s) : s[j] = k /\ i < j => s[i] \in D

\* That holds in a part of the list ...
LEMMA CoveredPart ==
  ASSUME NEW s \in Seq(Cbs), NEW r \in Seq(Cbs), SubsequenceOf(r, s), NEW k, NEW D,
         Covered(s, k, D)
  PROVE  Covered(r, k, D)
<1>1. SUFFICES ASSUME NEW i \in 1..Len(r), NEW j \in 1..Len(r), r[j] = k, i < j
               PROVE  r[i] \in D
  BY DEF Covered
<1>2. Len(r) \in Nat /\ Len(s) \in Nat /\ i \in 1..(j - 1)
  BY <1>1, LenProperties
<1>3. PICK b \in 1..Len(s) : r[j] = s[b] /\ \A h \in 1..(j - 1) : \E a \in 1..(b - 1) : r[h] = s[a]
  BY DEF SubsequenceOf
<1>4. PICK a \in 1..(b - 1) : r[i] = s[a]
  BY <1>2, <1>3
<1>5. a \in 1..Len(s) /\ a < b
  BY <1>2
<1>6. QED
  BY <1>1, <1>3, <1>4, <1>5 DEF Covered

\* ... and when others are linked behind.
LEMMA CoveredLonger ==
  ASSUME NEW r \in Seq(Cbs), NEW x \in Seq(Cbs), NEW t \in Seq(Cbs), Joined(t, r, x),
         Ordered(t, Different), NEW k, NEW D, Contains(r, k), Covered(r, k, D)
  PROVE  Contains(t, k) /\ Covered(t, k, D)
<1>1. /\ Len(r) \in Nat /\ Len(x) \in Nat /\ Len(t) = Len(r) + Len(x)
      /\ \A i \in 1..Len(r) : t[i] = r[i]
  BY DEF Joined
<1>2. PICK m \in 1..Len(r) : r[m] = k
  BY DEF Contains
<1>3. m \in 1..Len(t) /\ t[m] = k
  BY <1>1, <1>2
<1>4. ASSUME NEW i \in 1..Len(t), NEW j \in 1..Len(t), t[j] = k, i < j PROVE t[i] \in D
  <2>1. j = m
    BY <1>3, <1>4, OnePlace
  <2>2. i \in 1..Len(r) /\ j \in 1..Len(r)
    BY <1>1, <1>4, <2>1
  <2>3. QED
    BY <1>1, <1>4, <2>2 DEF Covered
<1>5. QED
  BY <1>3, <1>4 DEF Contains, Covered

\* The walk goes on behind place n, of a list whose callbacks up to there, and
\* all that it does not want, are in D.
LEMMA GoesOn ==
  ASSUME NEW s \in Seq(Cbs), Ordered(s, Different), NEW n \in 0..Len(s), NEW D, NEW T,
         \A k \in Cbs : k \in T \/ k \in D,
         \A i \in 1..n : s[i] \in D
  PROVE  LET r == Keep(SubSeq(s, n + 1, Len(s)), T) IN
         /\ r = <<>> => ToSet(s) \subseteq D
         /\ r # <<>> => /\ Contains(s, Head(r)) /\ Covered(s, Head(r), D)
                        /\ \A i \in 1..n : s[i] # Head(r)
<1> DEFINE r == Keep(SubSeq(s, n + 1, Len(s)), T)
<1>1. Len(s) \in Nat /\ n \in Nat /\ n <= Len(s) /\ \A i \in 1..Len(s) : s[i] \in Cbs
  BY LenProperties, ElementOfSeq
<1>2. /\ r = <<>> => \A i \in (n + 1)..Len(s) : s[i] \notin T
      /\ r # <<>> => \E m \in (n + 1)..Len(s) :
           Head(r) = s[m] /\ s[m] \in T /\ \A i \in (n + 1)..(m - 1) : s[i] \notin T
  BY KeepAfter
<1> HIDE DEF r
<1>3. ASSUME r = <<>> PROVE ToSet(s) \subseteq D
  <2>1. \A i \in 1..Len(s) : i \in 1..n \/ i \in (n + 1)..Len(s)
    BY <1>1
  <2>2. \A i \in 1..Len(s) : s[i] \in D
    BY <1>1, <1>2, <1>3, <2>1
  <2>3. QED
    BY <2>2, SetOf
<1>4. ASSUME r # <<>>
      PROVE  /\ Contains(s, Head(r)) /\ Covered(s, Head(r), D)
             /\ \A i \in 1..n : s[i] # Head(r)
  <2>1. PICK m \in (n + 1)..Len(s) :
          Head(r) = s[m] /\ s[m] \in T /\ \A i \in (n + 1)..(m - 1) : s[i] \notin T
    BY <1>2, <1>4
  <2>2. m \in 1..Len(s) /\ \A i \in 1..n : i \in 1..Len(s) /\ i # m
    BY <1>1, <2>1
  <2>3. ASSUME NEW i \in 1..Len(s), NEW j \in 1..Len(s), s[j] = Head(r), i < j
        PROVE  s[i] \in D
    <3>1. j = m
      BY <2>1, <2>2, <2>3, OnePlace
    <3>2. i \in 1..n \/ i \in (n + 1)..(m - 1)
      BY <1>1, <2>1, <2>3, <3>1
    <3>3. QED
      BY <1>1, <2>1, <3>2
  <2>4. \A i \in 1..n : s[i] # Head(r)
    BY <2>1, <2>2, OnePlace
  <2>5. QED
    BY <2>1, <2>2, <2>3, <2>4 DEF Contains, Covered
<1>5. QED
  BY <1>3, <1>4 DEF r

-----------------------------------------------------------------------------
(* A walk *)

Unwanted(list) == {k \in Cbs : ~Wanted(list, k)}
Done(w) == w.called \cup Unwanted(w.list)

\* A walk w over s, D what it need not call any more: all before the callback
\* that is called are in D, and so are all before the one linked behind it - as
\* long as nobody has called the library, and when the walk is cut.
GoodWalk(w, s, D) ==
  /\ w.cut => w.acted
  /\ w.at \in w.called
  /\ ~w.cut => Contains(s, w.at) /\ Covered(s, w.at, D)
  /\ (w.acted => w.cut) /\ w.next # None => Contains(s, w.next) /\ Covered(s, w.next, D)

LEMMA GoodMore ==
  ASSUME NEW w, NEW s \in Seq(Cbs), NEW D, NEW E, GoodWalk(w, s, D),
         \A i \in 1..Len(s) : s[i] \in D => s[i] \in E
  PROVE  GoodWalk(w, s, E)
BY DEF GoodWalk, Covered

\* A callback is called.
LEMMA VisitGood ==
  ASSUME NEW list \in AtLists \cup CoLists, NEW s \in Seq(Cbs), Ordered(s, Different),
         NEW k \in Cbs, Contains(s, k), NEW called \in SUBSET Cbs,
         Covered(s, k, called \cup Unwanted(list))
  PROVE  LET v == Visit(list, s, k, called)
         IN /\ v \in WalkType /\ v.at = k /\ v.list = list /\ GoodWalk(v, s, Done(v))
            /\ \A i, j \in 1..Len(s) : s[j] = k /\ i <= j => s[i] # v.next
<1> DEFINE D == (called \cup {k}) \cup Unwanted(list)
           n == Position(s, k)
           T == {c \in Cbs : Wanted(list, c)}
           r == Keep(SubSeq(s, n + 1, Len(s)), T)
           v == Visit(list, s, k, called)
           next == From(list, s, n + 1)
<1>1. n \in 1..Len(s) /\ s[n] = k /\ Len(s) \in Nat
  BY PlaceOf, LenProperties
<1>2. \A i \in 1..n : s[i] \in D
  <2>1. SUFFICES ASSUME NEW i \in 1..n PROVE s[i] \in D
    OBVIOUS
  <2>2. CASE i = n
    BY <1>1, <2>2
  <2>3. CASE i # n
    <3>1. i \in 1..Len(s) /\ i < n
      BY <1>1, <2>3
    <3>2. s[i] \in called \cup Unwanted(list)
      BY <1>1, <3>1 DEF Covered
    <3>3. QED
      BY <3>2
  <2>4. QED
    BY <2>2, <2>3
<1>3. \A c \in Cbs : c \in T \/ c \in D
  BY DEF Unwanted
<1>4. n \in 0..Len(s) /\ n \in 1..n
  BY <1>1
<1>5. /\ r # <<>> => /\ Contains(s, Head(r)) /\ Covered(s, Head(r), D)
                     /\ \A i \in 1..n : s[i] # Head(r)
  <2> HIDE DEF n, D, T
  <2>1. QED
    BY <1>2, <1>3, <1>4, GoesOn
<1>6. next = IF r = <<>> THEN None ELSE Head(r)
  BY DEF From
<1>7. None \notin Cbs
  BY EventsAssumption
<1> HIDE DEF r, T, n
<1>8. next # None => next \in Cbs /\ Contains(s, next) /\ Covered(s, next, D)
  <2>1. \A c : Contains(s, c) => c \in Cbs
    BY ElementOfSeq DEF Contains
  <2>2. QED
    BY <1>5, <1>6, <2>1
<1>9. ASSUME NEW i \in 1..Len(s), NEW j \in 1..Len(s), s[j] = k, i <= j PROVE s[i] # next
  <2>1. j = n
    BY <1>1, <1>9, OnePlace
  <2>2. i \in 1..n /\ s[i] \in Cbs
    BY <1>9, <2>1, ElementOfSeq
  <2>3. QED
    BY <1>5, <1>6, <1>7, <2>2
<1>10. v = [list |-> list, at |-> k, next |-> next, called |-> called \cup {k},
            cut |-> FALSE, acted |-> FALSE]
  BY DEF Visit, n
<1>11. next \in Cbs \cup {None}
  BY <1>8
<1> HIDE DEF next, v
<1>12. v \in WalkType
  BY <1>10, <1>11 DEF WalkType
<1>13. Done(v) = D /\ v.at = k /\ v.next = next /\ v.list = list /\ v.called = called \cup {k}
       /\ ~v.cut /\ ~v.acted
  BY <1>10 DEF Done
<1>14. Covered(s, k, D)
  BY DEF Covered
<1>15. GoodWalk(v, s, D)
  BY <1>8, <1>13, <1>14 DEF GoodWalk
<1>16. QED
  BY <1>9, <1>12, <1>13, <1>15 DEF v

\* An emission begins.
LEMMA StartGood ==
  ASSUME NEW list \in AtLists \cup CoLists, NEW s \in Seq(Cbs), Ordered(s, Different),
         NEW w, w = IF From(list, s, 1) = None THEN Idle ELSE Visit(list, s, From(list, s, 1), {})
  PROVE  w # Idle => w \in WalkType /\ w.list = list /\ GoodWalk(w, s, Done(w))
<1> DEFINE D == {} \cup Unwanted(list)
           T == {c \in Cbs : Wanted(list, c)}
           r == Keep(SubSeq(s, 0 + 1, Len(s)), T)
           k == From(list, s, 1)
<1>1. SUFFICES ASSUME w # Idle PROVE w \in WalkType /\ w.list = list /\ GoodWalk(w, s, Done(w))
  OBVIOUS
<1>2. w = Visit(list, s, k, {}) /\ k # None
  BY <1>1
<1>3. \A c \in Cbs : c \in T \/ c \in D
  BY DEF Unwanted
<1>4. 0 \in 0..Len(s) /\ 1..0 = {}
  BY LenProperties
<1>5. k = IF r = <<>> THEN None ELSE Head(r)
  BY DEF From
<1>6. r # <<>> => Contains(s, Head(r)) /\ Covered(s, Head(r), D)
  <2> HIDE DEF D, T
  <2>1. QED
    BY <1>3, <1>4, GoesOn
<1> HIDE DEF r, T
<1>7. Contains(s, k) /\ Covered(s, k, D)
  BY <1>2, <1>5, <1>6
<1>8. k \in Cbs
  BY <1>7, ElementOfSeq DEF Contains
<1> HIDE DEF k
<1>9. QED
  BY <1>2, <1>7, <1>8, VisitGood

\* A callback has returned, and the walk goes on in what is left, r.
LEMMA OnwardGood ==
  ASSUME NEW w \in WalkType, NEW s \in Seq(Cbs), Ordered(s, Different), GoodWalk(w, s, Done(w)),
         NEW k, k \in IF w.cut THEN {None, w.next} ELSE {From(w.list, s, Position(s, w.at) + 1)},
         NEW r, r = s \/ (~w.cut /\ r = Keep(s, Cbs \ {w.at}))
  PROVE  /\ k = None /\ ~w.cut => ToSet(s) \subseteq Done(w)
         /\ k # None => LET v == Visit(w.list, s, k, w.called)
                        IN v \in WalkType /\ v.list = w.list /\ GoodWalk(v, r, Done(v))
<1> DEFINE D == Done(w)
           n == Position(s, w.at)
           T == {c \in Cbs : Wanted(w.list, c)}
           q == Keep(SubSeq(s, n + 1, Len(s)), T)
<1>1. /\ w.list \in AtLists \cup CoLists /\ w.called \in SUBSET Cbs /\ w.at \in Cbs
      /\ w.next \in Cbs \cup {None} /\ w.cut \in BOOLEAN /\ w.acted \in BOOLEAN
  BY DEF WalkType
<1>2. w.at \in D /\ None \notin Cbs
  BY EventsAssumption DEF GoodWalk, Done
<1>3. ASSUME ~w.cut
      PROVE  /\ k = None => ToSet(s) \subseteq D
             /\ k # None => /\ Contains(s, k) /\ Covered(s, k, D) /\ k # w.at
                            /\ \E i \in 1..Len(s) : s[i] = w.at /\ \A j \in 1..i : s[j] # k
  <2>1. Contains(s, w.at) /\ Covered(s, w.at, D)
    BY <1>3 DEF GoodWalk
  <2>2. n \in 1..Len(s) /\ s[n] = w.at /\ Len(s) \in Nat
    BY <2>1, PlaceOf, LenProperties
  <2>3. k = IF q = <<>> THEN None ELSE Head(q)
    BY <1>3 DEF From
  <2> HIDE DEF n
  <2>4. \A i \in 1..n : s[i] \in D
    <3>1. SUFFICES ASSUME NEW i \in 1..n PROVE s[i] \in D
      OBVIOUS
    <3>2. CASE i = n
      BY <1>2, <2>2, <3>2
    <3>3. CASE i # n
      <4>1. i \in 1..Len(s) /\ i < n
        BY <2>2, <3>3
      <4>2. QED
        BY <2>1, <2>2, <4>1 DEF Covered
    <3>4. QED
      BY <3>2, <3>3
  <2>5. \A c \in Cbs : c \in T \/ c \in D
    BY DEF Done, Unwanted
  <2>6. n \in 0..Len(s) /\ n \in 1..n
    BY <2>2
  <2> HIDE DEF D, T
  <2>7. /\ q = <<>> => ToSet(s) \subseteq D
        /\ q # <<>> => /\ Contains(s, Head(q)) /\ Covered(s, Head(q), D)
                       /\ \A i \in 1..n : s[i] # Head(q)
    BY <2>4, <2>5, <2>6, GoesOn
  <2> HIDE DEF q
  <2>8. q # <<>> => Head(q) # None
    BY <1>2, <2>7, ElementOfSeq DEF Contains
  <2>9. QED
    BY <2>2, <2>3, <2>6, <2>7, <2>8
<1>4. ASSUME k # None
      PROVE  LET v == Visit(w.list, s, k, w.called)
             IN v \in WalkType /\ v.list = w.list /\ GoodWalk(v, r, Done(v))
  <2>1. Contains(s, k) /\ Covered(s, k, D)
    <3>1. CASE ~w.cut
      BY <1>3, <1>4, <3>1
    <3>2. CASE w.cut
      BY <1>4, <3>2 DEF GoodWalk
    <3>3. QED
      BY <3>1, <3>2
  <2>2. k \in Cbs
    BY <2>1, ElementOfSeq DEF Contains
  <2> DEFINE v == Visit(w.list, s, k, w.called)
             next == v.next
  <2>3. /\ v \in WalkType /\ v.at = k /\ v.list = w.list /\ GoodWalk(v, s, Done(v))
        /\ \A i, j \in 1..Len(s) : s[j] = k /\ i <= j => s[i] # next
    <3>1. PICK list \in AtLists \cup CoLists, called \in SUBSET Cbs :
            list = w.list /\ called = w.called
      BY <1>1
    <3>2. Covered(s, k, called \cup Unwanted(list))
      BY <2>1, <3>1 DEF Done
    <3>3. LET u == Visit(list, s, k, called)
          IN /\ u \in WalkType /\ u.at = k /\ u.list = list /\ GoodWalk(u, s, Done(u))
             /\ \A i, j \in 1..Len(s) : s[j] = k /\ i <= j => s[i] # u.next
      BY <2>1, <2>2, <3>2, VisitGood
    <3>4. QED
      BY <3>1, <3>3
  <2>4. CASE r = s
    BY <2>3, <2>4
  <2>5. CASE r = Keep(s, Cbs \ {w.at}) /\ ~w.cut
    <3>1. k # w.at /\ r \in Seq(Cbs) /\ SubsequenceOf(r, s)
      BY <1>3, <1>4, <2>5, KeepType, KeepSubsequence
    <3>2. ToSet(r) = ToSet(s) \cap (Cbs \ {w.at})
      BY <2>5, KeepElements
    <3>3. Contains(s, w.at) /\ ~v.cut /\ ~v.acted
      BY <2>5 DEF GoodWalk, Visit
    <3>4. Contains(r, k)
      BY <2>1, <2>2, <3>1, <3>2, ContainsSet
    <3> HIDE DEF v
    <3>5. Covered(r, k, Done(v))
      BY <2>3, <3>1, <3>3, CoveredPart DEF GoodWalk
    <3>6. next # None => Contains(r, next) /\ Covered(r, next, Done(v))
      <4>1. next # None => Contains(s, next) /\ Covered(s, next, Done(v))
        BY <2>3, <3>3 DEF GoodWalk
      <4>2. next # w.at
        <5>1. PICK i \in 1..Len(s) : s[i] = w.at /\ \A j \in 1..i : s[j] # k
          BY <1>3, <1>4, <2>5
        <5>2. PICK j \in 1..Len(s) : s[j] = k
          BY <2>1 DEF Contains
        <5>3. i <= j
          BY <5>1, <5>2
        <5>4. QED
          BY <2>3, <5>1, <5>2, <5>3
      <4>3. QED
        BY <3>1, <3>2, <4>1, <4>2, ContainsSet, SetOf, CoveredPart
    <3>7. QED
      BY <2>3, <3>3, <3>4, <3>5, <3>6 DEF GoodWalk, v
  <2>6. QED
    BY <2>4, <2>5
<1>5. QED
  BY <1>3, <1>4

\* A walk whose callback has called the library, which left r of the list.
CutOf(w, r) ==
  IF Contains(r, w.at) THEN [w EXCEPT !.acted = TRUE]
  ELSE [w EXCEPT !.acted = TRUE, !.cut = TRUE,
                 !.next = IF Contains(r, w.next) THEN w.next ELSE None]

\* The walk stays in order, x linked behind what is left.
LEMMA ActedGood ==
  ASSUME NEW w \in WalkType, NEW s \in Seq(Cbs), NEW r \in Seq(Cbs), NEW x \in Seq(Cbs),
         NEW t \in Seq(Cbs), SubsequenceOf(r, s), Joined(t, r, x), Ordered(t, Different),
         NEW D, GoodWalk(w, s, D), ~w.acted,
         NEW v, v = CutOf(w, r)
  PROVE  /\ v \in WalkType /\ v.list = w.list /\ v.called = w.called /\ v.at = w.at
         /\ GoodWalk(v, t, D)
<1>1. /\ ~w.cut /\ w.at \in w.called
      /\ Covered(s, w.at, D)
      /\ w.next # None => Covered(s, w.next, D)
  BY DEF GoodWalk
<1>2. CASE Contains(r, w.at)
  <2>1. /\ v \in WalkType /\ v.list = w.list /\ v.called = w.called /\ v.at = w.at
        /\ v.acted /\ ~v.cut
    BY <1>1, <1>2 DEF WalkType, CutOf
  <2>2. Contains(t, w.at) /\ Covered(t, w.at, D)
    BY <1>1, <1>2, CoveredPart, CoveredLonger
  <2>3. QED
    BY <1>1, <2>1, <2>2 DEF GoodWalk
<1>3. CASE ~Contains(r, w.at)
  <2> DEFINE n == IF Contains(r, w.next) THEN w.next ELSE None
  <2>1. n \in Cbs \cup {None} /\ (n # None => n = w.next /\ Contains(r, n))
    BY DEF WalkType
  <2>2. v = [w EXCEPT !.acted = TRUE, !.cut = TRUE, !.next = n]
    BY <1>3 DEF CutOf
  <2> HIDE DEF n
  <2>3. /\ v \in WalkType /\ v.list = w.list /\ v.called = w.called /\ v.at = w.at
        /\ v.acted /\ v.cut /\ v.next = n
    BY <2>1, <2>2 DEF WalkType
  <2>4. n # None => Contains(t, n) /\ Covered(t, n, D)
    BY <1>1, <2>1, CoveredPart, CoveredLonger
  <2>5. QED
    BY <1>1, <2>3, <2>4 DEF GoodWalk
<1>4. QED
  BY <1>2, <1>3

-----------------------------------------------------------------------------
(* The table of an AT channel *)

LEMMA TableType ==
  ASSUME NEW t \in Tables
  PROVE  /\ DOMAIN t \in SUBSET Names /\ t \in [DOMAIN t -> EntryType]
         /\ \A p \in DOMAIN t : /\ p \in Names /\ t[p] \in EntryType
                                /\ t[p].items \in Seq(Cbs) /\ t[p].pdu \in BOOLEAN
         /\ \A p : Items(t, p) \in Seq(Cbs)
<1>1. PICK D \in SUBSET Names : t \in [D -> EntryType]
  BY DEF Tables
<1>2. DOMAIN t = D /\ \A p \in D : t[p] \in EntryType
  BY <1>1
<1>3. \A p \in D : t[p].items \in Seq(Cbs) /\ t[p].pdu \in BOOLEAN
  BY <1>2 DEF EntryType
<1>4. <<>> \in Seq(Cbs)
  OBVIOUS
<1>5. \A p : Items(t, p) \in Seq(Cbs)
  BY <1>2, <1>3, <1>4 DEF Items
<1>6. QED
  BY <1>1, <1>2, <1>3, <1>5

\* An event is its name and its kind.
LEMMA EventType ==
  ASSUME NEW e \in Events
  PROVE  /\ e.prefix \in Names /\ e.pdu \in BOOLEAN
         /\ e = [prefix |-> e.prefix, pdu |-> e.pdu]
         /\ \A p, b : e = [prefix |-> p, pdu |-> b] <=> e.prefix = p /\ e.pdu = b
<1>1. e.pdu \in BOOLEAN /\ e = [prefix |-> e.prefix, pdu |-> e.pdu]
  BY EventsAssumption
<1>2. ASSUME NEW p, NEW b PROVE e = [prefix |-> p, pdu |-> b] <=> e.prefix = p /\ e.pdu = b
  <2>1. [prefix |-> p, pdu |-> b].prefix = p /\ [prefix |-> p, pdu |-> b].pdu = b
    OBVIOUS
  <2>2. QED
    BY <1>1, <2>1
<1>3. QED
  BY <1>1, <1>2 DEF Names

\* What callbacks that are added make of a table.
LEMMA AddEntries ==
  ASSUME NEW t \in Tables, NEW s \in Seq(Cbs), NEW ev, \A k \in ToSet(s) : ev[k] \in Events,
         NEW u, u = AddNotifications(t, s, ev)
  PROVE  /\ u \in Tables /\ DOMAIN t \subseteq DOMAIN u
         /\ \A p \in DOMAIN t : u[p].pdu = t[p].pdu
         /\ \A p \in DOMAIN u : u[p].pdu = PduEntry(t, s, ev, p)
         /\ \A p : Items(u, p) = Items(t, p) \o Taken(t, s, ev, p)
<1> DEFINE D == DOMAIN t \cup {ev[k].prefix : k \in ToSet(s)}
           B(p) == PduEntry(t, s, ev, p)
           I(p) == Items(t, p) \o Taken(t, s, ev, p)
<1>1. u = [p \in D |-> [pdu |-> B(p), items |-> I(p)]]
  BY DEF AddNotifications
<1>2. D \in SUBSET Names
  BY TableType, EventType
<1>3. ASSUME NEW p \in D PROVE B(p) \in BOOLEAN
  <2>1. CASE p \in DOMAIN t
    BY <2>1, TableType DEF PduEntry
  <2>2. CASE p \notin DOMAIN t
    <3> DEFINE T == {k \in ToSet(s) : ev[k].prefix = p}
               r == Keep(s, T)
    <3>1. PICK i \in 1..Len(s) : s[i] \in T
      BY <2>2, SetOf
    <3>2. r # <<>>
      BY <3>1, KeepSome
    <3>3. Head(r) \in T
      <4> HIDE DEF T
      <4>1. QED
        BY <3>2, KeepFirst
    <3>4. B(p) = ev[Head(r)].pdu
      BY <2>2 DEF PduEntry
    <3>5. QED
      BY <3>3, <3>4, EventType
  <2>3. QED
    BY <2>1, <2>2
<1>4. ASSUME NEW p PROVE I(p) \in Seq(Cbs)
  BY TableType, KeepType, ConcatProperties DEF Taken
<1>5. ASSUME NEW p, p \notin D PROVE Items(t, p) = <<>> /\ Taken(t, s, ev, p) = <<>>
  <2> DEFINE T == {k \in ToSet(s) : ev[k] = [prefix |-> p, pdu |-> PduEntry(t, s, ev, p)]}
  <2>1. T = {}
    <3>1. \A k \in ToSet(s) : ev[k].prefix # p
      BY <1>5
    <3>2. QED
      BY <3>1, EventType
  <2>2. Keep(s, T) = <<>>
    BY <2>1, KeepNone
  <2>3. QED
    BY <1>5, <2>2 DEF Items, Taken
<1> HIDE DEF D, B, I
<1>6. u \in [D -> EntryType] /\ DOMAIN u = D
  BY <1>1, <1>3, <1>4 DEF EntryType
<1>7. \A p \in D : u[p].pdu = B(p) /\ u[p].items = I(p)
  BY <1>1
<1>8. \A p \in DOMAIN t : p \in D /\ B(p) = t[p].pdu
  BY DEF B, D, PduEntry
<1>9. ASSUME NEW p PROVE Items(u, p) = I(p)
  <2>1. CASE p \in D
    BY <1>6, <1>7, <2>1 DEF Items
  <2>2. CASE p \notin D
    <3>1. Items(u, p) = <<>>
      BY <1>6, <2>2 DEF Items
    <3>2. I(p) = <<>> \o <<>>
      BY <1>5, <2>2 DEF I
    <3>3. <<>> \o <<>> = <<>>
      OBVIOUS
    <3>4. QED
      BY <3>1, <3>2, <3>3
  <2>3. QED
    BY <2>1, <2>2
<1>10. QED
  BY <1>2, <1>6, <1>7, <1>8, <1>9 DEF Tables, B, I

\* An entry is made for a callback that comes into it.
LEMMA NewEntries ==
  ASSUME NEW t \in Tables, NEW s \in Seq(Cbs), NEW ev, \A k \in ToSet(s) : ev[k] \in Events,
         NEW u, u = AddNotifications(t, s, ev)
  PROVE  \A p \in DOMAIN u : p \in DOMAIN t \/ Items(u, p) # <<>>
<1>1. SUFFICES ASSUME NEW p \in DOMAIN u, p \notin DOMAIN t PROVE Items(u, p) # <<>>
  OBVIOUS
<1> DEFINE T == {k \in ToSet(s) : ev[k].prefix = p}
           A == {k \in ToSet(s) : ev[k] = [prefix |-> p, pdu |-> PduEntry(t, s, ev, p)]}
           r == Keep(s, T)
<1>2. \E c \in ToSet(s) : c \in T
  BY <1>1 DEF AddNotifications
<1>3. PICK i \in 1..Len(s) : s[i] \in T
  BY <1>2, SetOf
<1>4. PduEntry(t, s, ev, p) = ev[Head(r)].pdu
  BY <1>1 DEF PduEntry
<1>5. Head(r) \in T
  <2> HIDE DEF T
  <2>1. QED
    BY <1>3, KeepSome, KeepFirst
<1>6. PICK k \in ToSet(s) : k = Head(r) /\ ev[k].prefix = p
  BY <1>5
<1>7. k \in A
  <2>1. ev[k] \in Events /\ ev[k].pdu = PduEntry(t, s, ev, p)
    BY <1>4, <1>6
  <2>2. QED
    BY <1>6, <2>1, EventType
<1>8. PICK a \in Seq(Cbs) : a = Items(t, p)
  BY TableType
<1>9. Items(u, p) = Cat(a, Keep(s, A))
  <2>1. Items(u, p) = Items(t, p) \o Taken(t, s, ev, p)
    BY AddEntries
  <2>2. Taken(t, s, ev, p) = Keep(s, A)
    BY DEF Taken
  <2>3. QED
    BY <1>8, <2>1, <2>2 DEF Cat
<1> HIDE DEF A, T, r
<1>10. Keep(s, A) \in Seq(Cbs) /\ k \in ToSet(Keep(s, A))
  BY <1>7, KeepType, KeepElements
<1>11. k \in ToSet(Items(u, p))
  BY <1>9, <1>10, CatSet
<1>12. ToSet(<<>>) = {}
  BY DEF ToSet
<1>13. QED
  BY <1>11, <1>12

\* What callbacks that are removed leave of a table.
LEMMA RemoveEntries ==
  ASSUME NEW t \in Tables, NEW s, NEW u, u = RemoveNotifications(t, s)
  PROVE  /\ u \in Tables /\ DOMAIN u = DOMAIN t
         /\ \A p \in DOMAIN t : u[p].pdu = t[p].pdu
         /\ \A p : Items(u, p) =
              Keep(Items(t, p), Cbs \ {k \in ToSet(s) : event[k] = [prefix |-> p, pdu |-> FALSE]})
<1> DEFINE N(p) == Cbs \ {k \in ToSet(s) : event[k] = [prefix |-> p, pdu |-> FALSE]}
           I(p) == Keep(t[p].items, N(p))
<1>1. u = [p \in DOMAIN t |-> [t[p] EXCEPT !.items = I(p)]]
  BY DEF RemoveNotifications
<1>2. \A p \in DOMAIN t : t[p] \in EntryType /\ I(p) \in Seq(Cbs)
  BY TableType, KeepType
<1> HIDE DEF N
<1>3. \A p : p \notin DOMAIN t => Keep(Items(t, p), N(p)) = <<>>
  BY KeepEmpty DEF Items
<1>4. \A p \in DOMAIN t : Keep(Items(t, p), N(p)) = I(p)
  BY DEF Items
<1> HIDE DEF I
<1>5. \A p \in DOMAIN t : u[p] \in EntryType /\ u[p].items = I(p) /\ u[p].pdu = t[p].pdu
  BY <1>1, <1>2 DEF EntryType
<1>6. u \in [DOMAIN t -> EntryType] /\ DOMAIN u = DOMAIN t
  BY <1>1, <1>5
<1>7. \A p : Items(u, p) = Keep(Items(t, p), N(p))
  BY <1>3, <1>4, <1>5, <1>6 DEF Items
<1>8. QED
  BY <1>5, <1>6, <1>7, TableType DEF Tables, N

-----------------------------------------------------------------------------
(* What a table t holds *)

\* Of the callbacks that are registered with it: each is under its event, in
\* the list of its object, whose HAL h has this table.
Enters(t, h, hl, cb, ow, ev) ==
  \A p \in DOMAIN t :
    /\ Ordered(t[p].items, Different)
    /\ \A k \in ToSet(t[p].items) :
         /\ ow[k] \in Objects /\ k \in ToSet(cb[ow[k]]) /\ hl[ow[k]] = h
         /\ ev[k] = [prefix |-> p, pdu |-> t[p].pdu]

\* Of the callbacks s of the object o: all but those dropped, in their order.
Own(o, ow) == {k \in Cbs : ow[k] = o}
Heard(s, p, ev, dr) == {k \in ToSet(s) : ev[k].prefix = p /\ k \notin dr}
Mirrors(t, s, o, ow, ev, dr) ==
  \A p \in Names : Keep(Items(t, p), Own(o, ow)) = Keep(s, Heard(s, p, ev, dr))

LEMMA EntersItems ==
  ASSUME NEW t \in Tables, NEW h, NEW hl, NEW cb, NEW ow, NEW ev, Enters(t, h, hl, cb, ow, ev),
         NEW p, NEW k \in ToSet(Items(t, p))
  PROVE  /\ p \in DOMAIN t /\ ow[k] \in Objects /\ k \in ToSet(cb[ow[k]]) /\ hl[ow[k]] = h
         /\ ev[k] = [prefix |-> p, pdu |-> t[p].pdu]
<1>1. p \in DOMAIN t
  <2>1. ToSet(<<>>) = {}
    BY DEF ToSet
  <2>2. QED
    BY <2>1 DEF Items
<1>2. QED
  BY <1>1 DEF Enters, Items

\* Callbacks leave the table, or nothing that concerns the others changes.
LEMMA EntersPart ==
  ASSUME NEW t \in Tables, NEW u \in Tables, DOMAIN u \subseteq DOMAIN t,
         \A p \in DOMAIN u : u[p].pdu = t[p].pdu /\ SubsequenceOf(u[p].items, t[p].items),
         NEW h, NEW hl, NEW cb, NEW ow, NEW ev, Enters(t, h, hl, cb, ow, ev),
         NEW hl2, NEW cb2, NEW ow2, NEW ev2,
         \A p \in DOMAIN u : \A k \in ToSet(u[p].items) :
           /\ ow2[k] = ow[k] /\ k \in ToSet(cb2[ow[k]]) /\ hl2[ow[k]] = hl[ow[k]]
           /\ ev2[k] = ev[k]
  PROVE  Enters(u, h, hl2, cb2, ow2, ev2)
<1>1. SUFFICES ASSUME NEW p \in DOMAIN u
               PROVE  /\ Ordered(u[p].items, Different)
                      /\ \A k \in ToSet(u[p].items) :
                           /\ ow2[k] \in Objects /\ k \in ToSet(cb2[ow2[k]]) /\ hl2[ow2[k]] = h
                           /\ ev2[k] = [prefix |-> p, pdu |-> u[p].pdu]
  BY DEF Enters
<1>2. u[p].items \in Seq(Cbs) /\ t[p].items \in Seq(Cbs) /\ p \in DOMAIN t
  BY TableType
<1>3. Ordered(u[p].items, Different)
  <2>1. PICK a \in Seq(Cbs), b \in Seq(Cbs) : a = u[p].items /\ b = t[p].items
    BY <1>2
  <2>2. SubsequenceOf(a, b) /\ Ordered(b, Different)
    BY <1>2, <2>1 DEF Enters
  <2>3. Ordered(a, Different)
    BY <2>2, OrderedPart
  <2>4. QED
    BY <2>1, <2>3
<1>4. ASSUME NEW k \in ToSet(u[p].items) PROVE k \in ToSet(t[p].items)
  <2>1. PICK j \in 1..Len(u[p].items) : u[p].items[j] = k
    BY <1>2, SetOf
  <2>2. \E b \in 1..Len(t[p].items) : k = t[p].items[b]
    BY <2>1 DEF SubsequenceOf
  <2>3. QED
    BY <1>2, <2>2, SetOf
<1>5. QED
  BY <1>2, <1>3, <1>4 DEF Enters

\* Callbacks of an object with this HAL are added.
LEMMA EntersAdd ==
  ASSUME NEW t \in Tables, NEW h, NEW hl, NEW cb, NEW ow, NEW ev, Enters(t, h, hl, cb, ow, ev),
         NEW s \in Seq(Cbs), Ordered(s, Different), NEW o \in Objects, hl[o] = h,
         \A k \in ToSet(s) : ow[k] = o /\ k \in ToSet(cb[o]) /\ ev[k] \in Events,
         \A p : \A k \in ToSet(Items(t, p)) : k \notin ToSet(s),
         NEW u, u = AddNotifications(t, s, ev)
  PROVE  Enters(u, h, hl, cb, ow, ev)
<1>1. SUFFICES ASSUME NEW p \in DOMAIN u
               PROVE  /\ Ordered(u[p].items, Different)
                      /\ \A k \in ToSet(u[p].items) :
                           /\ ow[k] \in Objects /\ k \in ToSet(cb[ow[k]]) /\ hl[ow[k]] = h
                           /\ ev[k] = [prefix |-> p, pdu |-> u[p].pdu]
  BY DEF Enters
<1> DEFINE a == Items(t, p)
           A == {k \in ToSet(s) : ev[k] = [prefix |-> p, pdu |-> PduEntry(t, s, ev, p)]}
           b == Keep(s, A)
           c == u[p].items
<1>2. u[p].pdu = PduEntry(t, s, ev, p) /\ c = a \o b /\ (p \in DOMAIN t => u[p].pdu = t[p].pdu)
  <2>1. /\ \A q \in DOMAIN t : u[q].pdu = t[q].pdu
        /\ \A q \in DOMAIN u : u[q].pdu = PduEntry(t, s, ev, q)
        /\ \A q : Items(u, q) = Items(t, q) \o Taken(t, s, ev, q)
    BY AddEntries
  <2>2. QED
    BY <2>1 DEF Items, Taken
<1>3. a \in Seq(Cbs) /\ b \in Seq(Cbs)
  BY TableType, KeepType
<1>4. \A k \in ToSet(a) : /\ p \in DOMAIN t /\ ow[k] \in Objects /\ k \in ToSet(cb[ow[k]])
                          /\ hl[ow[k]] = h /\ ev[k] = [prefix |-> p, pdu |-> t[p].pdu]
  BY EntersItems
<1>5. ToSet(b) = ToSet(s) \cap A
  BY KeepElements
<1>6. Ordered(a, Different)
  <2>1. CASE p \in DOMAIN t
    BY <2>1 DEF Enters, Items
  <2>2. CASE p \notin DOMAIN t
    <3>1. a = <<>> /\ Len(<<>>) = 0
      BY <2>2 DEF Items
    <3>2. QED
      BY <3>1 DEF Ordered
  <2>3. QED
    BY <2>1, <2>2
<1>7. Ordered(b, Different)
  BY KeepType, KeepSubsequence, OrderedPart
<1>8. \A i \in 1..Len(a), j \in 1..Len(b) : <<a[i], b[j]>> \in Different
  <2>1. \A i \in 1..Len(a), j \in 1..Len(b) : a[i] \in ToSet(a) /\ b[j] \in ToSet(b)
    BY <1>3, SetOf
  <2>2. ToSet(a) \subseteq Cbs /\ ToSet(b) \subseteq Cbs
    BY <1>3, SetOf
  <2>3. QED
    BY <1>5, <2>1, <2>2 DEF Different
<1> HIDE DEF a, b, c, A
<1>9. Ordered(c, Different)
  BY <1>2, <1>3, <1>6, <1>7, <1>8, OrderedConcat
<1>10. ToSet(c) = ToSet(a) \cup ToSet(b)
  BY <1>2, <1>3, CatSet DEF Cat
<1>11. \A k \in ToSet(b) : /\ ow[k] \in Objects /\ k \in ToSet(cb[ow[k]]) /\ hl[ow[k]] = h
                           /\ ev[k] = [prefix |-> p, pdu |-> u[p].pdu]
  BY <1>2, <1>5 DEF A
<1>12. QED
  BY <1>2, <1>4, <1>9, <1>10, <1>11 DEF c

\* Callbacks of o are added: those that are refused count as dropped.
LEMMA MirrorsAdd ==
  ASSUME NEW t \in Tables, NEW s \in Seq(Cbs), NEW ev, \A k \in ToSet(s) : ev[k] \in Events,
         NEW u, u = AddNotifications(t, s, ev),
         NEW o, NEW ow, NEW dr, \A k \in ToSet(s) : ow[k] = o,
         \A k \in ToSet(s) : k \in dr <=> k \in Refused(t, s, ev),
         NEW c \in Seq(Cbs), Mirrors(t, c, o, ow, ev, dr),
         NEW d, d = c \o s
  PROVE  Mirrors(u, d, o, ow, ev, dr)
<1>1. SUFFICES ASSUME NEW p \in Names
               PROVE  Keep(Items(u, p), Own(o, ow)) = Keep(d, Heard(d, p, ev, dr))
  BY DEF Mirrors
<1> DEFINE a == Items(t, p)
           A == {k \in ToSet(s) : ev[k] = [prefix |-> p, pdu |-> PduEntry(t, s, ev, p)]}
           O == Own(o, ow)
           H == Heard(d, p, ev, dr)
           b == Keep(s, A)
<1>2. Items(u, p) = a \o b /\ a \in Seq(Cbs) /\ b \in Seq(Cbs)
  <2>1. Items(u, p) = Items(t, p) \o Taken(t, s, ev, p)
    BY AddEntries
  <2>2. b = Taken(t, s, ev, p)
    BY DEF Taken
  <2> HIDE DEF A
  <2>3. a \in Seq(Cbs) /\ b \in Seq(Cbs)
    BY TableType, KeepType
  <2>4. QED
    BY <2>1, <2>2, <2>3
<1>3. Keep(Items(u, p), O) = Keep(a, O) \o Keep(b, O)
  <2> HIDE DEF a, b, O
  <2>1. Items(u, p) = Cat(a, b)
    BY <1>2 DEF Cat
  <2>2. Keep(Cat(a, b), O) = Cat(Keep(a, O), Keep(b, O))
    BY <1>2, KeepCat
  <2>3. QED
    BY <2>1, <2>2 DEF Cat
<1>4. \A k : k \in ToSet(d) <=> k \in ToSet(c) \/ k \in ToSet(s)
  BY CatSet DEF Cat
<1>5. \A k \in ToSet(s) : k \in A \cap O <=> k \in H
  <2>1. SUFFICES ASSUME NEW k \in ToSet(s) PROVE k \in A \cap O <=> k \in H
    OBVIOUS
  <2>2. k \in Cbs /\ ow[k] = o /\ ev[k] \in Events /\ k \in ToSet(d)
    BY <1>4, SetOf
  <2>3. k \in O
    BY <2>2 DEF Own
  <2>4. k \in A <=> ev[k].prefix = p /\ ev[k].pdu = PduEntry(t, s, ev, p)
    BY <2>2, EventType
  <2>5. k \in dr <=> ev[k].pdu # PduEntry(t, s, ev, ev[k].prefix)
    BY DEF Refused
  <2>6. QED
    BY <2>2, <2>3, <2>4, <2>5 DEF Heard
<1>6. Keep(b, O) = Keep(s, H)
  <2>1. Keep(b, O) = Keep(s, A \cap O)
    <3> HIDE DEF A, O
    <3>1. QED
      BY KeepTwice
  <2>2. \A i \in 1..Len(s) : s[i] \in A \cap O <=> s[i] \in H
    BY <1>5, SetOf
  <2> HIDE DEF A, O, H, b
  <2>3. Keep(s, A \cap O) = Keep(s, H)
    BY <2>2, KeepSame
  <2>4. QED
    BY <2>1, <2>3
<1>7. Keep(a, O) = Keep(c, H)
  <2>1. Keep(a, O) = Keep(c, Heard(c, p, ev, dr))
    BY DEF Mirrors
  <2> DEFINE G == Heard(c, p, ev, dr)
  <2>2. \A i \in 1..Len(c) : c[i] \in G <=> c[i] \in H
    BY <1>4, SetOf DEF Heard
  <2> HIDE DEF H, G
  <2>3. Keep(c, G) = Keep(c, H)
    BY <2>2, KeepSame
  <2> USE DEF G
  <2>4. QED
    BY <2>1, <2>3
<1>8. Keep(d, H) = Keep(c, H) \o Keep(s, H)
  BY KeepConcat
<1> HIDE DEF a, b, O, H, A
<1>9. QED
  BY <1>3, <1>6, <1>7, <1>8 DEF O, H

\* Callbacks of others are added.
LEMMA MirrorsOther ==
  ASSUME NEW t \in Tables, NEW s \in Seq(Cbs), NEW ev, \A k \in ToSet(s) : ev[k] \in Events,
         NEW u, u = AddNotifications(t, s, ev),
         NEW o, NEW ow, NEW dr, \A k \in ToSet(s) : ow[k] # o,
         NEW c, Mirrors(t, c, o, ow, ev, dr)
  PROVE  Mirrors(u, c, o, ow, ev, dr)
<1>1. SUFFICES ASSUME NEW p \in Names
               PROVE  Keep(Items(u, p), Own(o, ow)) = Keep(Items(t, p), Own(o, ow))
  BY DEF Mirrors
<1> DEFINE a == Items(t, p)
           b == Taken(t, s, ev, p)
           O == Own(o, ow)
<1>2. Items(u, p) = a \o b /\ a \in Seq(Cbs) /\ b \in Seq(Cbs)
  <2>1. Items(u, p) = a \o b /\ a \in Seq(Cbs)
    BY AddEntries, TableType
  <2>2. b \in Seq(Cbs)
    BY KeepType DEF Taken
  <2>3. QED
    BY <2>1, <2>2
<1>3. ToSet(b) \subseteq ToSet(s)
  <2> DEFINE A == {k \in ToSet(s) : ev[k] = [prefix |-> p, pdu |-> PduEntry(t, s, ev, p)]}
  <2>1. b = Keep(s, A)
    BY DEF Taken
  <2> HIDE DEF A, b
  <2>2. QED
    BY <2>1, KeepElements
<1>4. \A i \in 1..Len(b) : b[i] \notin O
  BY <1>2, <1>3, SetOf DEF Own
<1> HIDE DEF a, b, O
<1>5. Keep(b, O) = <<>> /\ Keep(a, O) \in Seq(Cbs)
  BY <1>2, <1>4, KeepNone, KeepType
<1>6. Keep(a \o b, O) = Keep(a, O) \o Keep(b, O)
  BY <1>2, KeepConcat
<1>7. Keep(a, O) \o <<>> = Keep(a, O)
  BY <1>5, ConcatEmptySeq
<1>8. QED
  BY <1>2, <1>5, <1>6, <1>7 DEF a, O

\* Nothing that concerns o changes.
LEMMA MirrorsSame ==
  ASSUME NEW t \in Tables, NEW u \in Tables, \A p : Items(u, p) = Items(t, p),
         NEW c \in Seq(Cbs), NEW o, NEW ow, NEW ev, NEW dr,
         Mirrors(t, c, o, ow, ev, dr), NEW ow2, NEW ev2, NEW dr2,
         \A p : \A k \in ToSet(Items(t, p)) : ow2[k] = o <=> ow[k] = o,
         \A k \in ToSet(c) : ev2[k] = ev[k] /\ (k \in dr2 <=> k \in dr)
  PROVE  Mirrors(u, c, o, ow2, ev2, dr2)
<1>1. SUFFICES ASSUME NEW p \in Names
               PROVE  Keep(Items(u, p), Own(o, ow2)) = Keep(c, Heard(c, p, ev2, dr2))
  BY DEF Mirrors
<1>2. PICK a \in Seq(Cbs) : a = Items(t, p) /\ a = Items(u, p)
  BY TableType
<1>3. Keep(a, Own(o, ow)) = Keep(c, Heard(c, p, ev, dr))
  BY <1>2 DEF Mirrors
<1>4. \A i \in 1..Len(a) : a[i] \in Own(o, ow2) <=> a[i] \in Own(o, ow)
  BY <1>2, SetOf DEF Own
<1>5. Heard(c, p, ev2, dr2) = Heard(c, p, ev, dr)
  BY DEF Heard
<1>6. Keep(a, Own(o, ow2)) = Keep(a, Own(o, ow))
  BY <1>4, KeepSame
<1>7. QED
  BY <1>2, <1>3, <1>5, <1>6

\* An object without callbacks in the table.
LEMMA MirrorsNone ==
  ASSUME NEW t \in Tables, NEW o, NEW ow, NEW ev, NEW dr,
         \A p : \A k \in ToSet(Items(t, p)) : ow[k] # o
  PROVE  Mirrors(t, <<>>, o, ow, ev, dr)
<1>1. SUFFICES ASSUME NEW p \in Names
               PROVE  Keep(Items(t, p), Own(o, ow)) = Keep(<<>>, Heard(<<>>, p, ev, dr))
  BY DEF Mirrors
<1>2. PICK a \in Seq(Cbs) : a = Items(t, p)
  BY TableType
<1>3. \A i \in 1..Len(a) : a[i] \notin Own(o, ow)
  BY <1>2, SetOf DEF Own
<1>4. QED
  BY <1>2, <1>3, KeepNone, KeepEmpty

\* u is t without the callbacks X; r is what is left of the list c, where those
\* of X that stay in it count as dropped.
Without(t, u, X) == \A p : Items(u, p) = Keep(Items(t, p), Cbs \ X)
Left(c, r, X, dr, dr2) ==
  /\ r = c \/ r = Keep(c, Cbs \ X)
  /\ \A k \in ToSet(r) : k \in dr2 <=> k \in dr \/ k \in X

LEMMA MirrorsPart ==
  ASSUME NEW t \in Tables, NEW u, NEW X, Without(t, u, X),
         NEW c \in Seq(Cbs), NEW o, NEW ow, NEW ev, NEW dr, Mirrors(t, c, o, ow, ev, dr),
         NEW r, NEW dr2, Left(c, r, X, dr, dr2)
  PROVE  Mirrors(u, r, o, ow, ev, dr2)
<1>1. SUFFICES ASSUME NEW p \in Names
               PROVE  Keep(Items(u, p), Own(o, ow)) = Keep(r, Heard(r, p, ev, dr2))
  BY DEF Mirrors
<1> DEFINE Y == Cbs \ X
           O == Own(o, ow)
           G == Heard(c, p, ev, dr)
           H == Heard(r, p, ev, dr2)
<1>2. PICK a \in Seq(Cbs) : a = Items(t, p)
  BY TableType
<1>3. Keep(a, O) = Keep(c, G)
  BY <1>2 DEF Mirrors
<1>4. Items(u, p) = Keep(a, Y)
  BY <1>2 DEF Without
<1>5. ASSUME r = c PROVE \A k \in ToSet(c) : k \in G \cap Y <=> k \in H
  BY <1>5, SetOf DEF Heard, Left
<1>6. ASSUME r = Keep(c, Y) PROVE \A k \in ToSet(c) : k \in G \cap Y <=> k \in Y \cap H
  <2>1. ToSet(r) = ToSet(c) \cap Y
    <3> HIDE DEF Y
    <3>1. QED
      BY <1>6, KeepElements
  <2>2. QED
    BY <2>1, SetOf DEF Heard, Left
<1>7. r = c \/ r = Keep(c, Y)
  BY DEF Left
<1> HIDE DEF Y, O, G, H
<1>8. Keep(Keep(a, Y), O) = Keep(a, Y \cap O) /\ Keep(Keep(a, O), Y) = Keep(a, O \cap Y)
  BY KeepTwice
<1>9. Y \cap O = O \cap Y
  OBVIOUS
<1>10. Keep(Items(u, p), O) = Keep(c, G \cap Y)
  <2>1. Keep(Keep(c, G), Y) = Keep(c, G \cap Y)
    BY KeepTwice
  <2>2. QED
    BY <1>3, <1>4, <1>8, <1>9, <2>1
<1>11. CASE r = c
  <2>1. \A i \in 1..Len(c) : c[i] \in G \cap Y <=> c[i] \in H
    BY <1>5, <1>11, SetOf
  <2>2. Keep(c, G \cap Y) = Keep(c, H)
    BY <2>1, KeepSame
  <2>3. QED
    BY <1>10, <1>11, <2>2 DEF H, O
<1>12. CASE r = Keep(c, Y)
  <2>1. \A i \in 1..Len(c) : c[i] \in G \cap Y <=> c[i] \in Y \cap H
    BY <1>6, <1>12, SetOf
  <2>2. Keep(c, G \cap Y) = Keep(c, Y \cap H)
    BY <2>1, KeepSame
  <2>3. Keep(Keep(c, Y), H) = Keep(c, Y \cap H)
    BY KeepTwice
  <2>4. QED
    BY <1>10, <1>12, <2>2, <2>3 DEF H, O
<1>13. QED
  BY <1>7, <1>11, <1>12

\* Callbacks of events that are not PDUs are removed: the table keeps the others.
LEMMA RemoveItems ==
  ASSUME NEW t \in Tables, NEW h, NEW hl, NEW cb, NEW ow, Enters(t, h, hl, cb, ow, event),
         NEW s, \A k \in ToSet(s) : event[k] \in Events /\ ~event[k].pdu,
         NEW u, u = RemoveNotifications(t, s)
  PROVE  /\ u \in Tables /\ DOMAIN u = DOMAIN t
         /\ \A p \in DOMAIN t : u[p].pdu = t[p].pdu
         /\ Without(t, u, ToSet(s))
<1>1. /\ u \in Tables /\ DOMAIN u = DOMAIN t
      /\ \A p \in DOMAIN t : u[p].pdu = t[p].pdu
  BY RemoveEntries
<1>2. ASSUME NEW p PROVE Items(u, p) = Keep(Items(t, p), Cbs \ ToSet(s))
  <2> DEFINE N == Cbs \ {k \in ToSet(s) : event[k] = [prefix |-> p, pdu |-> FALSE]}
             Y == Cbs \ ToSet(s)
  <2>1. Items(u, p) = Keep(Items(t, p), N)
    BY RemoveEntries
  <2>2. PICK a \in Seq(Cbs) : a = Items(t, p)
    BY TableType
  <2>3. ASSUME NEW k \in ToSet(a) PROVE k \in N <=> k \in Y
    <3>1. CASE k \in ToSet(s)
      <4>1. event[k] = [prefix |-> p, pdu |-> t[p].pdu]
        BY <2>2, EntersItems
      <4>2. event[k].prefix = p /\ event[k] \in Events /\ event[k].pdu = FALSE
        BY <3>1, <4>1, EventType
      <4>3. event[k] = [prefix |-> p, pdu |-> FALSE]
        BY <4>2, EventType
      <4>4. QED
        BY <3>1, <4>3
    <3>2. CASE k \notin ToSet(s)
      BY <2>2, <3>2, SetOf
    <3>3. QED
      BY <3>1, <3>2
  <2> HIDE DEF N, Y
  <2>4. \A i \in 1..Len(a) : a[i] \in N <=> a[i] \in Y
    BY <2>3, SetOf
  <2>5. Keep(a, N) = Keep(a, Y)
    BY <2>4, KeepSame
  <2>6. QED
    BY <2>1, <2>2, <2>5 DEF Y
<1>3. QED
  BY <1>1, <1>2 DEF Without

\* A part of the items of each entry.
LEMMA ItemsPart ==
  ASSUME NEW t \in Tables, NEW u \in Tables, DOMAIN u = DOMAIN t, NEW X, Without(t, u, X)
  PROVE  /\ \A p \in DOMAIN u : SubsequenceOf(u[p].items, t[p].items)
         /\ \A p : \A k \in ToSet(Items(u, p)) : k \in ToSet(Items(t, p)) /\ k \in Cbs /\ k \notin X
<1>1. ASSUME NEW p PROVE /\ SubsequenceOf(Items(u, p), Items(t, p))
                         /\ ToSet(Items(u, p)) = ToSet(Items(t, p)) \cap (Cbs \ X)
  <2>1. PICK a \in Seq(Cbs) : a = Items(t, p)
    BY TableType
  <2> DEFINE Y == Cbs \ X
  <2>2. Items(u, p) = Keep(a, Y)
    BY <2>1 DEF Without
  <2> HIDE DEF Y
  <2>3. SubsequenceOf(Keep(a, Y), a) /\ ToSet(Keep(a, Y)) = ToSet(a) \cap Y
    BY KeepSubsequence, KeepElements
  <2>4. QED
    BY <2>1, <2>2, <2>3 DEF Y
<1>2. QED
  BY <1>1 DEF Items

\* Nothing that concerns the callbacks in a table changes.
LEMMA EntersSame ==
  ASSUME NEW t \in Tables, NEW h, NEW hl, NEW cb, NEW ow, NEW ev, Enters(t, h, hl, cb, ow, ev),
         NEW hl2, NEW cb2, NEW ow2, NEW ev2,
         \A p : \A k \in ToSet(Items(t, p)) :
           /\ ow2[k] = ow[k] /\ k \in ToSet(cb2[ow[k]]) /\ hl2[ow[k]] = hl[ow[k]]
           /\ ev2[k] = ev[k]
  PROVE  Enters(t, h, hl2, cb2, ow2, ev2)
BY DEF Enters, Items

-----------------------------------------------------------------------------
(* All tables *)

Begins(a, b) == \E x \in Seq(Cbs) : b = Cat(a, x)

\* From T to T2 callbacks are linked behind those of each entry.
Grows(T, T2) ==
  \A g \in AtHals : /\ DOMAIN T[g] \subseteq DOMAIN T2[g]
                    /\ \A p \in DOMAIN T[g] : T2[g][p].pdu = T[g][p].pdu
                    /\ \A p \in DOMAIN T2[g] : p \in DOMAIN T[g] \/ Items(T2[g], p) # <<>>
                    /\ \A p : Begins(Items(T[g], p), Items(T2[g], p))

LEMMA NothingBehind ==
  ASSUME NEW a \in Seq(Cbs)
  PROVE  Begins(a, a)
<1>1. Cat(a, <<>>) = a
  BY CatProperties
<1>2. <<>> \in Seq(Cbs)
  OBVIOUS
<1>3. QED
  BY <1>1, <1>2 DEF Begins

LEMMA GrowsSame ==
  ASSUME NEW T \in [AtHals -> Tables]
  PROVE  Grows(T, T)
<1>1. ASSUME NEW g \in AtHals, NEW p
      PROVE  Begins(Items(T[g], p), Items(T[g], p))
  <2>1. PICK a \in Seq(Cbs) : a = Items(T[g], p)
    BY TableType
  <2>2. QED
    BY <2>1, NothingBehind
<1>2. QED
  BY <1>1 DEF Grows

\* The callbacks s of the object o are added to the table T[h] of its HAL.
CanLink(T, hl, cb, ow, ev, dr, o, h, s, c, Q) ==
  /\ \A g \in AtHals : Enters(T[g], g, hl, cb, ow, ev)
  /\ hl[o] = h /\ Ordered(s, Different) /\ cb[o] = c \o s
  /\ \A k \in ToSet(s) : ow[k] = o /\ k \in ToSet(cb[o]) /\ ev[k] \in Events
  /\ \A k \in ToSet(s) : k \in dr <=> k \in Refused(T[h], s, ev)
  /\ \A p : \A k \in ToSet(Items(T[h], p)) : k \notin ToSet(s)
  /\ Mirrors(T[h], c, o, ow, ev, dr)
  /\ \A q \in Q : q # o /\ (hl[q] \in AtHals => Mirrors(T[hl[q]], cb[q], q, ow, ev, dr))

HasLinked(T, hl, cb, ow, ev, dr, o, h, Q) ==
  /\ \A g \in AtHals : Enters(T[g], g, hl, cb, ow, ev)
  /\ Mirrors(T[h], cb[o], o, ow, ev, dr)
  /\ \A q \in Q : hl[q] \in AtHals => Mirrors(T[hl[q]], cb[q], q, ow, ev, dr)

LEMMA On ==
  ASSUME NEW T \in [AtHals -> Tables], NEW hl, NEW cb, NEW ow, NEW ev, NEW dr,
         NEW o \in Objects, NEW h \in AtHals, NEW s \in Seq(Cbs), NEW c \in Seq(Cbs), NEW Q,
         CanLink(T, hl, cb, ow, ev, dr, o, h, s, c, Q),
         NEW T2, T2 = [T EXCEPT ![h] = AddNotifications(@, s, ev)]
  PROVE  T2 \in [AtHals -> Tables] /\ Grows(T, T2) /\ HasLinked(T2, hl, cb, ow, ev, dr, o, h, Q)
<1>0. /\ \A g \in AtHals : Enters(T[g], g, hl, cb, ow, ev)
      /\ hl[o] = h /\ Ordered(s, Different) /\ cb[o] = c \o s
      /\ \A k \in ToSet(s) : ow[k] = o /\ k \in ToSet(cb[o]) /\ ev[k] \in Events
      /\ \A k \in ToSet(s) : k \in dr <=> k \in Refused(T[h], s, ev)
      /\ \A p : \A k \in ToSet(Items(T[h], p)) : k \notin ToSet(s)
      /\ Mirrors(T[h], c, o, ow, ev, dr)
      /\ \A q \in Q : q # o /\ (hl[q] \in AtHals => Mirrors(T[hl[q]], cb[q], q, ow, ev, dr))
  BY DEF CanLink
<1> DEFINE t == T[h]
           u == AddNotifications(t, s, ev)
<1>1. t \in Tables /\ Enters(t, h, hl, cb, ow, ev)
  BY <1>0
<1>2. T2 = [g \in AtHals |-> IF g = h THEN u ELSE T[g]]
  OBVIOUS
<1>3. \A k \in ToSet(s) : ev[k] \in Events
  BY <1>0
<1>4. T2[h] = u /\ \A g \in AtHals : g # h => T2[g] = T[g]
  BY <1>2
<1> HIDE DEF u
<1>5. /\ u \in Tables /\ DOMAIN t \subseteq DOMAIN u
      /\ \A p \in DOMAIN t : u[p].pdu = t[p].pdu
      /\ \A p \in DOMAIN u : p \in DOMAIN t \/ Items(u, p) # <<>>
      /\ \A p : Items(u, p) = Items(t, p) \o Taken(t, s, ev, p)
  <2> HIDE DEF t
  <2>1. QED
    BY <1>1, <1>3, AddEntries, NewEntries DEF u
<1>6. Enters(u, h, hl, cb, ow, ev)
  BY <1>0, <1>1, EntersAdd DEF u
<1>7. Mirrors(u, cb[o], o, ow, ev, dr)
  BY <1>0, <1>1, <1>3, MirrorsAdd DEF u
<1>8. ASSUME NEW q \in Q, hl[q] \in AtHals PROVE Mirrors(T2[hl[q]], cb[q], q, ow, ev, dr)
  <2>1. q # o /\ Mirrors(T[hl[q]], cb[q], q, ow, ev, dr)
    BY <1>0, <1>8
  <2>2. CASE hl[q] = h
    <3>1. \A k \in ToSet(s) : ow[k] # q
      BY <1>0, <2>1
    <3>2. Mirrors(t, cb[q], q, ow, ev, dr)
      BY <2>1, <2>2
    <3>3. Mirrors(u, cb[q], q, ow, ev, dr)
      <4> HIDE DEF t
      <4>1. QED
        BY <1>1, <1>3, <3>1, <3>2, MirrorsOther DEF u
    <3>4. QED
      BY <1>4, <2>2, <3>3
  <2>3. CASE hl[q] # h
    BY <1>4, <1>8, <2>1, <2>3
  <2>4. QED
    BY <2>2, <2>3
<1>9. \A g \in AtHals : \A p : Items(T[g], p) \in Seq(Cbs)
  BY TableType
<1>10. ASSUME NEW g \in AtHals, NEW p
       PROVE  Begins(Items(T[g], p), Items(T2[g], p))
  <2>1. CASE g = h
    <3>1. Taken(t, s, ev, p) \in Seq(Cbs)
      BY KeepType DEF Taken
    <3>2. QED
      BY <1>4, <1>5, <2>1, <3>1 DEF Cat, Begins
  <2>2. CASE g # h
    BY <1>4, <1>9, <2>2, NothingBehind
  <2>3. QED
    BY <2>1, <2>2
<1>11. T2 \in [AtHals -> Tables]
  BY <1>2, <1>5
<1>12. ASSUME NEW g \in AtHals
       PROVE  /\ Enters(T2[g], g, hl, cb, ow, ev)
              /\ DOMAIN T[g] \subseteq DOMAIN T2[g]
              /\ \A p \in DOMAIN T[g] : T2[g][p].pdu = T[g][p].pdu
              /\ \A p \in DOMAIN T2[g] : p \in DOMAIN T[g] \/ Items(T2[g], p) # <<>>
  BY <1>0, <1>4, <1>5, <1>6
<1>13. Mirrors(T2[h], cb[o], o, ow, ev, dr)
  BY <1>4, <1>7
<1>14. Grows(T, T2)
  BY <1>10, <1>12 DEF Grows
<1>15. QED
  BY <1>8, <1>11, <1>12, <1>13, <1>14 DEF HasLinked

\* From T to T2 the callbacks X leave, and nothing happens to the entries of PDUs.
Leaves(T, T2, X) ==
  \A g \in AtHals : /\ DOMAIN T2[g] = DOMAIN T[g]
                    /\ \A p \in DOMAIN T[g] : T2[g][p].pdu = T[g][p].pdu
                    /\ Without(T[g], T2[g], X)
                    /\ \A p \in DOMAIN T[g] : T[g][p].pdu => Items(T2[g], p) = Items(T[g], p)

\* The callbacks s, whose events are not those of PDUs, are removed from the
\* table of the HAL of their object o - if it has one.
OffOf(T, h, s) == IF h \in AtHals THEN [T EXCEPT ![h] = RemoveNotifications(@, s)] ELSE T
CanLeave(T, hl, cb, ow, o, s) ==
  /\ \A g \in AtHals : Enters(T[g], g, hl, cb, ow, event)
  /\ \A k \in ToSet(s) : ow[k] = o /\ event[k] \in Events
  /\ hl[o] \in AtHals => \A k \in ToSet(s) : ~event[k].pdu

LEMMA Off ==
  ASSUME NEW T \in [AtHals -> Tables], NEW hl, NEW cb, NEW ow, NEW o, NEW s,
         CanLeave(T, hl, cb, ow, o, s),
         NEW T2, T2 = OffOf(T, hl[o], s)
  PROVE  T2 \in [AtHals -> Tables] /\ Leaves(T, T2, ToSet(s))
<1> DEFINE Y == Cbs \ ToSet(s)
<1>0. /\ \A g \in AtHals : Enters(T[g], g, hl, cb, ow, event)
      /\ \A k \in ToSet(s) : ow[k] = o /\ event[k] \in Events
      /\ hl[o] \in AtHals => \A k \in ToSet(s) : ~event[k].pdu
  BY DEF CanLeave
<1>1. ASSUME NEW g \in AtHals, NEW p, \A k \in ToSet(Items(T[g], p)) : k \notin ToSet(s)
      PROVE  Keep(Items(T[g], p), Y) = Items(T[g], p)
  <2>1. PICK a \in Seq(Cbs) : a = Items(T[g], p)
    BY TableType
  <2>2. \A i \in 1..Len(a) : a[i] \in Y
    BY <1>1, <2>1, SetOf
  <2> HIDE DEF Y
  <2>3. Keep(a, Y) = a
    BY <2>2, KeepAll
  <2>4. QED
    BY <2>1, <2>3
<1>2. ASSUME NEW g \in AtHals, NEW p, NEW k \in ToSet(Items(T[g], p))
      PROVE  /\ p \in DOMAIN T[g] /\ event[k] = [prefix |-> p, pdu |-> T[g][p].pdu]
             /\ k \in ToSet(s) => g = hl[o]
  <2>1. T[g] \in Tables /\ Enters(T[g], g, hl, cb, ow, event)
    BY <1>0
  <2>2. /\ p \in DOMAIN T[g] /\ hl[ow[k]] = g
        /\ event[k] = [prefix |-> p, pdu |-> T[g][p].pdu]
    BY <2>1, EntersItems
  <2>3. QED
    BY <1>0, <2>2
<1>3. ASSUME NEW g \in AtHals, T2[g] = T[g], hl[o] # g
      PROVE  /\ DOMAIN T2[g] = DOMAIN T[g]
             /\ \A p \in DOMAIN T[g] : T2[g][p].pdu = T[g][p].pdu
             /\ Without(T[g], T2[g], ToSet(s))
             /\ \A p \in DOMAIN T[g] : T[g][p].pdu => Items(T2[g], p) = Items(T[g], p)
  <2>1. \A p : \A k \in ToSet(Items(T[g], p)) : k \notin ToSet(s)
    BY <1>2, <1>3
  <2>2. \A p : Items(T2[g], p) = Keep(Items(T[g], p), Y)
    BY <1>1, <1>3, <2>1
  <2>3. QED
    BY <1>3, <2>2 DEF Without
<1>4. CASE hl[o] \notin AtHals
  <2>1. T2 = T
    BY <1>4 DEF OffOf
  <2>2. QED
    BY <1>3, <1>4, <2>1 DEF Leaves
<1>5. CASE hl[o] \in AtHals
  <2> DEFINE h == hl[o]
             u == RemoveNotifications(T[h], s)
  <2>1. T2 = [g \in AtHals |-> IF g = h THEN u ELSE T[g]]
    BY <1>5 DEF OffOf
  <2>2. T[h] \in Tables /\ Enters(T[h], h, hl, cb, ow, event)
    BY <1>0, <1>5
  <2>3. \A k \in ToSet(s) : event[k] \in Events /\ ~event[k].pdu
    BY <1>0, <1>5
  <2>4. /\ u \in Tables /\ DOMAIN u = DOMAIN T[h]
        /\ \A p \in DOMAIN T[h] : u[p].pdu = T[h][p].pdu
        /\ Without(T[h], u, ToSet(s))
    BY <2>2, <2>3, RemoveItems
  <2> HIDE DEF u
  <2>5. T2 \in [AtHals -> Tables] /\ T2[h] = u /\ \A g \in AtHals : g # h => T2[g] = T[g]
    BY <1>5, <2>1, <2>4
  <2>6. ASSUME NEW p \in DOMAIN T[h], T[h][p].pdu PROVE Items(u, p) = Items(T[h], p)
    <3>1. ASSUME NEW k \in ToSet(Items(T[h], p)), k \in ToSet(s) PROVE FALSE
      <4>1. event[k] = [prefix |-> p, pdu |-> T[h][p].pdu] /\ event[k] \in Events
        BY <1>2, <1>5, <2>3, <3>1
      <4>2. event[k].pdu = T[h][p].pdu
        BY <4>1, EventType
      <4>3. QED
        BY <2>3, <2>6, <3>1, <4>2
    <3>2. Keep(Items(T[h], p), Y) = Items(T[h], p)
      BY <1>1, <1>5, <3>1
    <3>3. QED
      BY <2>4, <3>2 DEF Without
  <2>7. ASSUME NEW g \in AtHals
        PROVE  /\ DOMAIN T2[g] = DOMAIN T[g]
               /\ \A p \in DOMAIN T[g] : T2[g][p].pdu = T[g][p].pdu
               /\ Without(T[g], T2[g], ToSet(s))
               /\ \A p \in DOMAIN T[g] : T[g][p].pdu => Items(T2[g], p) = Items(T[g], p)
    <3>1. CASE g = h
      BY <2>4, <2>5, <2>6, <3>1
    <3>2. CASE g # h
      BY <1>3, <2>5, <3>2
    <3>3. QED
      BY <3>1, <3>2
  <2>8. QED
    BY <2>5, <2>7 DEF Leaves
<1>6. QED
  BY <1>4, <1>5

\* What is left of one table.
RestOf(t, u, X) ==
  /\ DOMAIN u = DOMAIN t
  /\ \A p \in DOMAIN u : u[p].pdu = t[p].pdu /\ SubsequenceOf(u[p].items, t[p].items)
  /\ \A p : \A k \in ToSet(Items(u, p)) : k \in ToSet(Items(t, p)) /\ k \in Cbs /\ k \notin X

LEMMA LeavesPart ==
  ASSUME NEW T \in [AtHals -> Tables], NEW T2 \in [AtHals -> Tables], NEW X, Leaves(T, T2, X),
         NEW g \in AtHals
  PROVE  \E t, u \in Tables : t = T[g] /\ u = T2[g] /\ RestOf(t, u, X)
<1>1. PICK t \in Tables, u \in Tables : t = T[g] /\ u = T2[g]
  OBVIOUS
<1>2. /\ DOMAIN u = DOMAIN t /\ \A p \in DOMAIN u : u[p].pdu = t[p].pdu
      /\ Without(t, u, X)
  BY <1>1 DEF Leaves
<1>3. /\ \A p \in DOMAIN u : SubsequenceOf(u[p].items, t[p].items)
      /\ \A p : \A k \in ToSet(Items(u, p)) : k \in ToSet(Items(t, p)) /\ k \in Cbs /\ k \notin X
  BY <1>2, ItemsPart
<1>4. QED
  BY <1>1, <1>2, <1>3 DEF RestOf

-----------------------------------------------------------------------------
(* The invariant *)

\* The list of an object holds its own callbacks, once each.
Listed ==
  \A o \in Objects :
    /\ Ordered(callbacks[o], Different)
    /\ \A k \in ToSet(callbacks[o]) : k \in live /\ owner[k] = o
    /\ o \notin objects => callbacks[o] = <<>>

Entered == \A h \in AtHals : Enters(table[h], h, hal, callbacks, owner, event)

Mirrored ==
  \A o \in objects : hal[o] \in AtHals =>
    Mirrors(table[hal[o]], callbacks[o], o, owner, event, dropped)

\* Every entry of a PDU is in use, and one of them waits for a second line, if any.
InUse(T, noti) ==
  \A h \in AtHals :
    /\ \A p \in DOMAIN T[h] : T[h][p].pdu => Items(T[h], p) # <<>>
    /\ noti[h] # None => noti[h] \in DOMAIN T[h] /\ T[h][noti[h]].pdu
Waits == InUse(table, pduNoti)

\* The list that w walks.
ListOf(w, t, c) ==
  IF w.list.kind = "at" THEN Items(t[w.list.of], w.list.prefix) ELSE c[w.list.of]

\* The walk is in order, and the entry that is walked is in the table.
Walks ==
  InCallback =>
    /\ GoodWalk(walk, ListOf(walk, table, callbacks), Done(walk))
    /\ walk.list.kind = "at" => /\ walk.list.prefix \in DOMAIN table[walk.list.of]
                                /\ pduNoti[walk.list.of] = None

EventsInv == Types /\ Listed /\ Entered /\ Mirrored /\ Waits /\ Walks

-----------------------------------------------------------------------------
(* Calls of the library during a walk *)

LEMMA ListType ==
  ASSUME NEW w \in WalkType, NEW t \in [AtHals -> Tables], NEW c \in [Objects -> Seq(Cbs)]
  PROVE  ListOf(w, t, c) \in Seq(Cbs)
<1>1. CASE w.list \in AtLists
  <2>1. w.list.kind = "at" /\ w.list.of \in AtHals
    BY <1>1 DEF AtLists
  <2>2. t[w.list.of] \in Tables
    BY <2>1
  <2>3. QED
    BY <2>1, <2>2, TableType DEF ListOf
<1>2. CASE w.list \in CoLists
  BY <1>2 DEF CoLists, ListOf
<1>3. QED
  BY <1>1, <1>2 DEF WalkType

LEMMA ListOrdered ==
  ASSUME NEW w \in WalkType, NEW t \in [AtHals -> Tables], NEW c \in [Objects -> Seq(Cbs)],
         NEW hl, NEW ow, NEW ev, \A h \in AtHals : Enters(t[h], h, hl, c, ow, ev),
         \A o \in Objects : Ordered(c[o], Different)
  PROVE  Ordered(ListOf(w, t, c), Different)
<1>1. CASE w.list \in AtLists
  <2>1. w.list.kind = "at" /\ w.list.of \in AtHals
    BY <1>1 DEF AtLists
  <2>2. Enters(t[w.list.of], w.list.of, hl, c, ow, ev)
    BY <2>1
  <2>3. Ordered(Items(t[w.list.of], w.list.prefix), Different)
    <3>1. CASE w.list.prefix \in DOMAIN t[w.list.of]
      BY <2>2, <3>1 DEF Enters, Items
    <3>2. CASE w.list.prefix \notin DOMAIN t[w.list.of]
      <4>1. Items(t[w.list.of], w.list.prefix) = <<>> /\ Len(<<>>) = 0
        BY <3>2 DEF Items
      <4>2. QED
        BY <4>1 DEF Ordered
    <3>3. QED
      BY <3>1, <3>2
  <2>4. QED
    BY <2>1, <2>3 DEF ListOf
<1>2. CASE w.list \in CoLists
  BY <1>2 DEF CoLists, ListOf
<1>3. QED
  BY <1>1, <1>2 DEF WalkType

\* Whatever is linked is allocated.
LEMMA ListLive ==
  ASSUME Types, Listed, Entered, InCallback, NEW k \in ToSet(ListOf(walk, table, callbacks))
  PROVE  k \in live
<1>1. walk \in WalkType
  BY DEF Types
<1>2. CASE walk.list \in AtLists
  <2>1. walk.list.kind = "at" /\ walk.list.of \in AtHals
    BY <1>2 DEF AtLists
  <2>2. /\ table[walk.list.of] \in Tables
        /\ Enters(table[walk.list.of], walk.list.of, hal, callbacks, owner, event)
    BY <2>1 DEF Types, Entered
  <2>3. k \in ToSet(Items(table[walk.list.of], walk.list.prefix))
    BY <2>1 DEF ListOf
  <2>4. owner[k] \in Objects /\ k \in ToSet(callbacks[owner[k]])
    <3>1. PICK t \in Tables : t = table[walk.list.of]
      BY <2>2
    <3>2. k \in ToSet(Items(t, walk.list.prefix))
      BY <2>3, <3>1
    <3>3. Enters(t, walk.list.of, hal, callbacks, owner, event)
      BY <2>2, <3>1
    <3>4. \A p : \A c \in ToSet(Items(t, p)) : owner[c] \in Objects /\ c \in ToSet(callbacks[owner[c]])
      BY <3>3, EntersItems
    <3>5. QED
      BY <3>2, <3>4, Zenon
  <2>5. QED
    BY <2>4 DEF Listed
<1>3. CASE walk.list \in CoLists
  BY <1>3 DEF CoLists, ListOf, Listed
<1>4. QED
  BY <1>1, <1>2, <1>3 DEF WalkType

\* Outside an emission there is nothing to keep.
LEMMA NoWalk ==
  ASSUME Types, ~InCallback, walk' = walk \/ walk' = Acted
  PROVE  walk' = Idle /\ ~InCallback' /\ Walks'
<1>1. walk = Idle
  BY DEF Types
<1>2. Acted = Idle
  <2>1. InCallback = FALSE
    OBVIOUS
  <2>2. Acted = [walk EXCEPT !.acted = FALSE]
    BY <2>1 DEF Acted
  <2>3. QED
    BY <1>1, <2>2 DEF Idle
<1>3. walk' = Idle /\ Idle.at = None
  BY <1>1, <1>2 DEF Idle
<1>4. QED
  BY <1>3 DEF InCallback, Walks

\* The list that is walked is left with r, and x is linked behind.
LEMMA Called ==
  ASSUME EventsInv, InCallback, Callable,
         table' \in [AtHals -> Tables], callbacks' \in [Objects -> Seq(Cbs)],
         Entered', \A o \in Objects : Ordered(callbacks'[o], Different),
         pduNoti' = pduNoti, \A h \in AtHals : DOMAIN table[h] \subseteq DOMAIN table'[h],
         \A k \in live : event'[k] = event[k],
         NEW r \in Seq(Cbs), SubsequenceOf(r, ListOf(walk, table, callbacks)),
         NEW x \in Seq(Cbs), ListOf(walk, table', callbacks') = Cat(r, x),
         walk' = Cut(r)
  PROVE  walk' \in WalkType /\ InCallback' /\ Walks'
<1> DEFINE s == ListOf(walk, table, callbacks)
           l == ListOf(walk, table', callbacks')
           E == walk.called \cup {k \in Cbs : ~(walk.list.kind = "at" \/ event'[k] = walk.list.prefix)}
<1>1. walk \in WalkType /\ ~walk.acted /\ walk.at \in Cbs
  BY DEF EventsInv, Types, Callable, WalkType
<1>2. s \in Seq(Cbs) /\ GoodWalk(walk, s, Done(walk))
  BY <1>1, ListType DEF EventsInv, Types, Walks
<1>3. l \in Seq(Cbs)
  BY <1>1, ListType
<1>4. Ordered(l, Different)
  BY <1>1, ListOrdered DEF Entered
<1>5. \A i \in 1..Len(s) : s[i] \in Done(walk) => s[i] \in E
  <2>1. \A i \in 1..Len(s) : s[i] \in live /\ s[i] \in Cbs
    BY <1>2, ListLive, SetOf DEF EventsInv
  <2>2. QED
    BY <2>1 DEF Done, Unwanted, Wanted
<1>6. GoodWalk(walk, s, E)
  <2> HIDE DEF s, E
  <2>1. QED
    BY <1>2, <1>5, GoodMore
<1>7. walk' = CutOf(walk, r)
  BY DEF Cut, Acted, CutOf
<1>8. Joined(l, r, x)
  BY CatJoined
<1>9. /\ walk' \in WalkType /\ walk'.list = walk.list /\ walk'.called = walk.called
      /\ walk'.at = walk.at /\ GoodWalk(walk', l, E)
  <2> HIDE DEF s, l, E
  <2>1. SubsequenceOf(r, s)
    BY DEF s
  <2>2. QED
    BY <1>1, <1>2, <1>3, <1>4, <1>6, <1>7, <1>8, <2>1, ActedGood
<1>10. Done(walk)' = E
  BY <1>9 DEF Done, Unwanted, Wanted
<1>11. ListOf(walk, table, callbacks)' = l
  BY <1>9 DEF ListOf
<1>12. InCallback'
  BY <1>1, <1>9, EventsAssumption DEF InCallback
<1>13. walk'.list.kind = "at" => /\ walk'.list.prefix \in DOMAIN table'[walk'.list.of]
                                 /\ pduNoti'[walk'.list.of] = None
  <2>1. SUFFICES ASSUME walk.list.kind = "at"
                 PROVE  /\ walk.list.prefix \in DOMAIN table'[walk.list.of]
                        /\ pduNoti'[walk.list.of] = None
    BY <1>9
  <2>2. walk.list.of \in AtHals
    BY <1>1, <2>1 DEF WalkType, AtLists, CoLists
  <2>3. QED
    BY <2>1, <2>2 DEF EventsInv, Walks
<1> HIDE DEF E, l, s
<1>14. QED
  BY <1>9, <1>10, <1>11, <1>12, <1>13 DEF Walks

\* The same, whether or not there is an emission.
LEMMA WalkKept ==
  ASSUME EventsInv, Callable,
         table' \in [AtHals -> Tables], callbacks' \in [Objects -> Seq(Cbs)],
         Entered', \A o \in Objects : Ordered(callbacks'[o], Different),
         pduNoti' = pduNoti, \A h \in AtHals : DOMAIN table[h] \subseteq DOMAIN table'[h],
         \A k \in live : event'[k] = event[k],
         InCallback => \E r, x \in Seq(Cbs) :
           /\ SubsequenceOf(r, ListOf(walk, table, callbacks))
           /\ ListOf(walk, table', callbacks') = Cat(r, x)
           /\ walk' = Cut(r),
         ~InCallback => walk' = walk \/ walk' = Acted
  PROVE  (InCallback' => walk' \in WalkType) /\ (~InCallback' => walk' = Idle) /\ Walks'
<1>1. CASE InCallback
  <2>1. PICK r \in Seq(Cbs), x \in Seq(Cbs) :
          /\ SubsequenceOf(r, ListOf(walk, table, callbacks))
          /\ ListOf(walk, table', callbacks') = Cat(r, x)
          /\ walk' = Cut(r)
    BY <1>1
  <2>2. walk' \in WalkType /\ InCallback' /\ Walks'
    BY <1>1, <2>1, Called
  <2>3. QED
    BY <2>2
<1>2. CASE ~InCallback
  BY <1>2, NoWalk DEF EventsInv
<1>3. QED
  BY <1>1, <1>2

\* Nothing has been freed: the walk goes on.
LEMMA NothingCut ==
  ASSUME EventsInv, InCallback, Callable
  PROVE  /\ Acted = Cut(ListOf(walk, table, callbacks))
         /\ ListOf(walk, table, callbacks) \in Seq(Cbs)
         /\ SubsequenceOf(ListOf(walk, table, callbacks), ListOf(walk, table, callbacks))
<1> DEFINE s == ListOf(walk, table, callbacks)
<1>1. ~walk.acted /\ GoodWalk(walk, s, Done(walk)) /\ walk \in WalkType
  BY DEF EventsInv, Walks, Callable, Types
<1> HIDE DEF s
<1>2. Contains(s, walk.at)
  BY <1>1 DEF GoodWalk
<1>3. Acted = Cut(s)
  BY <1>2 DEF Cut
<1>4. s \in Seq(Cbs)
  BY <1>1, ListType DEF s, EventsInv, Types
<1>5. SubsequenceOf(s, s)
  BY <1>4, SameSubsequence
<1>6. QED
  BY <1>3, <1>4, <1>5 DEF s

\* What is known of a callback that an AT channel holds, and of one in a list.
Held(t, h) ==
  /\ Enters(t, h, hal, callbacks, owner, event)
  /\ \A p : \A k \in ToSet(Items(t, p)) :
       /\ k \in live /\ owner[k] \in objects /\ owner[k] \in Objects /\ hal[owner[k]] = h
       /\ k \in ToSet(callbacks[owner[k]])
       /\ p \in DOMAIN t /\ event[k] = [prefix |-> p, pdu |-> t[p].pdu]

LEMMA ItemFacts ==
  ASSUME EventsInv, NEW h \in AtHals
  PROVE  \E t \in Tables : t = table[h] /\ Held(t, h)
<1>1. PICK t \in Tables : t = table[h] /\ Enters(t, h, hal, callbacks, owner, event)
  BY DEF EventsInv, Types, Entered
<1>2. \A p : \A k \in ToSet(Items(t, p)) :
        /\ p \in DOMAIN t /\ owner[k] \in Objects /\ k \in ToSet(callbacks[owner[k]])
        /\ hal[owner[k]] = h /\ event[k] = [prefix |-> p, pdu |-> t[p].pdu]
  BY <1>1, EntersItems
<1>3. ToSet(<<>>) = {}
  BY DEF ToSet
<1>4. \A p : \A k \in ToSet(Items(t, p)) : k \in live /\ owner[k] \in objects
  <2>1. \A o \in Objects : \A k \in ToSet(callbacks[o]) : k \in live /\ o \in objects
    BY <1>3 DEF EventsInv, Listed
  <2>2. QED
    BY <1>2, <2>1
<1>5. QED
  BY <1>1, <1>2, <1>4 DEF Held

LEMMA ListFacts ==
  ASSUME EventsInv, NEW o \in Objects
  PROVE  /\ callbacks[o] \in Seq(Cbs) /\ Ordered(callbacks[o], Different)
         /\ \A k \in ToSet(callbacks[o]) : /\ k \in live /\ k \in Cbs /\ owner[k] = o
                                           /\ event[k] \in Events /\ o \in objects
         /\ o \notin objects => callbacks[o] = <<>>
<1>1. /\ callbacks[o] \in Seq(Cbs) /\ Ordered(callbacks[o], Different)
      /\ \A k \in ToSet(callbacks[o]) : k \in live /\ owner[k] = o
      /\ o \notin objects => callbacks[o] = <<>>
  BY DEF EventsInv, Types, Listed
<1>2. ToSet(<<>>) = {}
  BY DEF ToSet
<1>3. QED
  BY <1>1, <1>2 DEF EventsInv, Types

-----------------------------------------------------------------------------
(* Each action keeps the invariant *)

LEMMA NewKeeps ==
  ASSUME EventsInv, NEW o \in Objects, New(o)
  PROVE  EventsInv'
<1>1. PICK h \in Hals \cup {None} : hal' = [hal EXCEPT ![o] = h]
  BY DEF New
<1>2. /\ o \notin objects /\ objects' = objects \cup {o} /\ walk' = Acted /\ Callable
      /\ callbacks' = callbacks /\ live' = live /\ owner' = owner /\ event' = event
      /\ table' = table /\ pduNoti' = pduNoti /\ dropped' = dropped
  BY DEF New, cbVars
<1>3. \A q \in Objects : q # o => hal'[q] = hal[q]
  BY <1>1 DEF EventsInv, Types
<1>4. Listed'
  BY <1>2 DEF EventsInv, Listed
<1>5. Entered'
  <2>1. SUFFICES ASSUME NEW g \in AtHals
                 PROVE  Enters(table[g], g, hal', callbacks, owner, event)
    BY <1>2 DEF Entered
  <2>2. PICK t \in Tables : t = table[g] /\ Held(t, g)
    BY ItemFacts
  <2>3. \A p : \A k \in ToSet(Items(t, p)) :
          k \in ToSet(callbacks[owner[k]]) /\ hal'[owner[k]] = hal[owner[k]]
    <3>1. \A p : \A k \in ToSet(Items(t, p)) :
            /\ hal[owner[k]] = g /\ owner[k] \in Objects /\ owner[k] \in objects
            /\ k \in ToSet(callbacks[owner[k]])
      BY <2>2 DEF Held
    <3>2. \A p : \A k \in ToSet(Items(t, p)) : owner[k] # o
      BY <1>2, <3>1
    <3>3. QED
      BY <1>3, <3>1, <3>2
  <2>4. Enters(t, g, hal', callbacks, owner, event)
    BY <2>2, <2>3, EntersSame DEF Held
  <2>5. QED
    BY <2>2, <2>4
<1>6. Mirrored'
  <2>1. SUFFICES ASSUME NEW q \in objects \cup {o}, hal'[q] \in AtHals
                 PROVE  Mirrors(table[hal'[q]], callbacks[q], q, owner, event, dropped)
    BY <1>2 DEF Mirrored
  <2>2. CASE q # o
    BY <1>3, <2>1, <2>2 DEF EventsInv, Mirrored, Types
  <2>3. CASE q = o
    <3>1. callbacks[o] = <<>>
      BY <1>2 DEF EventsInv, Listed
    <3>2. PICK t \in Tables : t = table[hal'[q]] /\ Held(t, hal'[q])
      BY <2>1, ItemFacts
    <3>3. \A p : \A k \in ToSet(Items(t, p)) : owner[k] # o
      BY <1>2, <3>2 DEF Held
    <3>4. Mirrors(t, <<>>, o, owner, event, dropped)
      BY <3>3, MirrorsNone
    <3>5. QED
      BY <2>3, <3>1, <3>2, <3>4
  <2>4. QED
    BY <2>2, <2>3
<1>7. Waits'
  BY <1>2 DEF EventsInv, Waits
<1>8. (InCallback' => walk' \in WalkType) /\ (~InCallback' => walk' = Idle) /\ Walks'
  <2>1. InCallback => \E r, x \in Seq(Cbs) :
          /\ SubsequenceOf(r, ListOf(walk, table, callbacks))
          /\ ListOf(walk, table', callbacks') = Cat(r, x)
          /\ walk' = Cut(r)
    <3>1. SUFFICES ASSUME InCallback
                   PROVE  \E r, x \in Seq(Cbs) :
                            /\ SubsequenceOf(r, ListOf(walk, table, callbacks))
                            /\ ListOf(walk, table', callbacks') = Cat(r, x)
                            /\ walk' = Cut(r)
      OBVIOUS
    <3>2. PICK r \in Seq(Cbs) : /\ r = ListOf(walk, table, callbacks) /\ Acted = Cut(r)
                                /\ SubsequenceOf(r, ListOf(walk, table, callbacks))
      BY <1>2, <3>1, NothingCut
    <3>3. r = Cat(r, <<>>)
      BY CatProperties
    <3>4. <<>> \in Seq(Cbs) /\ ListOf(walk, table', callbacks') = r
      BY <1>2, <3>2
    <3>5. QED
      BY <1>2, <3>2, <3>3, <3>4
  <2>2. QED
    BY <1>2, <1>4, <1>5, <2>1, WalkKept DEF EventsInv, Types, Listed
<1>9. Types'
  BY <1>1, <1>2, <1>8 DEF EventsInv, Types
<1>10. QED
  BY <1>4, <1>5, <1>6, <1>7, <1>8, <1>9 DEF EventsInv

\* Only the lists of others go on as before.
LEMMA FreeKeeps ==
  ASSUME Careful, EventsInv, NEW o \in Objects, FreeObject(o)
  PROVE  EventsInv'
<1> DEFINE X == ToSet(callbacks[o])
<1>1. /\ o \in objects /\ objects' = objects \ {o} /\ live' = live \ X
      /\ dropped' = dropped \ X /\ callbacks' = [callbacks EXCEPT ![o] = <<>>]
      /\ hal' = [hal EXCEPT ![o] = None] /\ walk' = Walked(table, callbacks') /\ Callable
      /\ owner' = owner /\ event' = event /\ table' = table /\ pduNoti' = pduNoti
      /\ MayFree(o)
  BY DEF FreeObject
<1>2. hal[o] = None /\ None \notin AtHals
  BY <1>1, EventsAssumption DEF MayFree
<1>3. /\ \A q \in Objects : q # o => hal'[q] = hal[q] /\ callbacks'[q] = callbacks[q]
      /\ hal'[o] = None /\ callbacks'[o] = <<>>
      /\ callbacks' \in [Objects -> Seq(Cbs)] /\ hal' \in [Objects -> Hals \cup {None}]
  BY <1>1 DEF EventsInv, Types
<1>4. \A q \in Objects : q # o => \A k \in ToSet(callbacks[q]) : k \notin X
  BY ListFacts
<1> HIDE DEF X
<1>5. Listed'
  <2>1. SUFFICES ASSUME NEW q \in Objects
                 PROVE  /\ Ordered(callbacks'[q], Different)
                        /\ \A k \in ToSet(callbacks'[q]) : k \in live' /\ owner[k] = q
                        /\ q \notin objects' => callbacks'[q] = <<>>
    BY <1>1 DEF Listed
  <2>2. CASE q = o
    <3>1. ToSet(<<>>) = {} /\ Len(<<>>) = 0
      BY DEF ToSet
    <3>2. QED
      BY <1>3, <2>2, <3>1 DEF Ordered
  <2>3. CASE q # o
    BY <1>1, <1>3, <1>4, <2>3, ListFacts
  <2>4. QED
    BY <2>2, <2>3
<1>6. Entered'
  <2>1. SUFFICES ASSUME NEW g \in AtHals
                 PROVE  Enters(table[g], g, hal', callbacks', owner, event)
    BY <1>1 DEF Entered
  <2>2. PICK t \in Tables : t = table[g] /\ Held(t, g)
    BY ItemFacts
  <2>3. \A p : \A k \in ToSet(Items(t, p)) :
          k \in ToSet(callbacks'[owner[k]]) /\ hal'[owner[k]] = hal[owner[k]]
    <3>1. \A p : \A k \in ToSet(Items(t, p)) :
            /\ hal[owner[k]] = g /\ owner[k] \in Objects /\ owner[k] \in objects
            /\ k \in ToSet(callbacks[owner[k]])
      BY <2>2 DEF Held
    <3>2. \A p : \A k \in ToSet(Items(t, p)) : owner[k] # o
      BY <1>2, <3>1
    <3>3. QED
      BY <1>3, <3>1, <3>2
  <2>4. Enters(t, g, hal', callbacks', owner, event)
    BY <2>2, <2>3, EntersSame DEF Held
  <2>5. QED
    BY <2>2, <2>4
<1>7. Mirrored'
  <2>1. SUFFICES ASSUME NEW q \in objects, q # o, hal[q] \in AtHals
                 PROVE  Mirrors(table[hal[q]], callbacks[q], q, owner, event, dropped')
    BY <1>1, <1>3 DEF Mirrored, EventsInv, Types
  <2>2. PICK t \in Tables : t = table[hal[q]]
    BY <2>1 DEF EventsInv, Types
  <2>3. Mirrors(t, callbacks[q], q, owner, event, dropped) /\ q \in Objects
    BY <2>1, <2>2 DEF EventsInv, Mirrored, Types
  <2>4. callbacks[q] \in Seq(Cbs) /\ \A k \in ToSet(callbacks[q]) : k \in dropped' <=> k \in dropped
    BY <1>1, <1>4, <2>1, <2>3, ListFacts
  <2>5. Mirrors(t, callbacks[q], q, owner, event, dropped')
    BY <2>3, <2>4, MirrorsSame
  <2>6. QED
    BY <2>2, <2>5
<1>8. Waits'
  BY <1>1 DEF EventsInv, Waits
<1>9. (InCallback' => walk' \in WalkType) /\ (~InCallback' => walk' = Idle) /\ Walks'
  <2>1. InCallback => \E r, x \in Seq(Cbs) :
          /\ SubsequenceOf(r, ListOf(walk, table, callbacks))
          /\ ListOf(walk, table', callbacks') = Cat(r, x)
          /\ walk' = Cut(r)
    <3>1. SUFFICES ASSUME InCallback
                   PROVE  \E r, x \in Seq(Cbs) :
                            /\ SubsequenceOf(r, ListOf(walk, table, callbacks))
                            /\ ListOf(walk, table', callbacks') = Cat(r, x)
                            /\ walk' = Cut(r)
      OBVIOUS
    <3>2. walk \in WalkType
      BY <3>1 DEF EventsInv, Types
    <3>3. ListOf(walk, table, callbacks') = ListOf(walk, table, callbacks)
      <4>1. CASE walk.list \in AtLists
        BY <4>1 DEF AtLists, ListOf
      <4>2. CASE walk.list \in CoLists
        <5>1. walk.list.kind = "co" /\ walk.list.of \in Objects
              /\ walk.list = [kind |-> "co", of |-> walk.list.of, prefix |-> walk.list.prefix]
          BY <4>2 DEF CoLists
        <5>2. walk.list.of # o
          BY <1>1, <3>1, <5>1 DEF MayFree, CoList
        <5>3. QED
          BY <1>3, <5>1, <5>2 DEF ListOf
      <4>3. QED
        BY <3>2, <4>1, <4>2 DEF WalkType
    <3>4. PICK r \in Seq(Cbs) : /\ r = ListOf(walk, table, callbacks)
                                /\ SubsequenceOf(r, ListOf(walk, table, callbacks))
      BY <1>1, <3>1, NothingCut
    <3>5. walk' = Cut(r)
      BY <1>1, <3>1, <3>3, <3>4 DEF Walked, ListNow, ListOf
    <3>6. r = Cat(r, <<>>)
      BY CatProperties
    <3>7. <<>> \in Seq(Cbs)
      OBVIOUS
    <3>8. QED
      BY <1>1, <3>3, <3>4, <3>5, <3>6, <3>7
  <2>2. ~InCallback => walk' = walk
    BY <1>1 DEF Walked
  <2>3. QED
    BY <1>1, <1>3, <1>5, <1>6, <2>1, <2>2, WalkKept DEF EventsInv, Types, Listed
<1>10. Types'
  BY <1>1, <1>3, <1>9 DEF EventsInv, Types
<1>11. QED
  BY <1>5, <1>6, <1>7, <1>8, <1>9, <1>10 DEF EventsInv

-----------------------------------------------------------------------------
(* Callbacks are linked behind those of an object *)

LEMMA WaitsGrow ==
  ASSUME NEW T \in [AtHals -> Tables], NEW T2, Grows(T, T2), NEW noti, InUse(T, noti)
  PROVE  InUse(T2, noti)
<1>1. ASSUME NEW h \in AtHals, NEW p \in DOMAIN T[h], Items(T[h], p) # <<>>
      PROVE  Items(T2[h], p) # <<>>
  <2>1. PICK a \in Seq(Cbs) : a = Items(T[h], p)
    BY TableType
  <2>2. PICK x \in Seq(Cbs) : Items(T2[h], p) = Cat(a, x)
    BY <2>1 DEF Grows, Begins
  <2>3. Len(a) \in Nat /\ Len(x) \in Nat /\ Len(Cat(a, x)) = Len(a) + Len(x) /\ Len(a) # 0
    BY <1>1, <2>1, CatJoined, EmptySeq, LenProperties DEF Joined
  <2>4. Cat(a, x) # <<>>
    BY <2>3, EmptySeq
  <2>5. QED
    BY <2>2, <2>4
<1>2. QED
  BY <1>1 DEF Grows, InUse

Longer(c, c2) == \A o \in Objects : Begins(c[o], c2[o])

LEMMA ListGrows ==
  ASSUME NEW w \in WalkType, NEW T \in [AtHals -> Tables], NEW T2, Grows(T, T2),
         NEW c \in [Objects -> Seq(Cbs)], NEW c2, Longer(c, c2)
  PROVE  Begins(ListOf(w, T, c), ListOf(w, T2, c2))
<1>1. CASE w.list \in AtLists
  BY <1>1 DEF AtLists, ListOf, Grows
<1>2. CASE w.list \in CoLists
  BY <1>2 DEF CoLists, ListOf, Longer
<1>3. QED
  BY <1>1, <1>2 DEF WalkType

\* The walk of the state that follows, when callbacks are only linked behind.
LEMMA WalkGrows ==
  ASSUME EventsInv, Callable,
         table' \in [AtHals -> Tables], callbacks' \in [Objects -> Seq(Cbs)],
         Entered', \A o \in Objects : Ordered(callbacks'[o], Different),
         pduNoti' = pduNoti, Grows(table, table'),
         Longer(callbacks, callbacks'),
         \A k \in live : event'[k] = event[k],
         walk' = Acted
  PROVE  (InCallback' => walk' \in WalkType) /\ (~InCallback' => walk' = Idle) /\ Walks'
<1>1. ASSUME InCallback
      PROVE  \E r, x \in Seq(Cbs) :
               /\ SubsequenceOf(r, ListOf(walk, table, callbacks))
               /\ ListOf(walk, table', callbacks') = Cat(r, x)
               /\ walk' = Cut(r)
  <2>1. PICK r \in Seq(Cbs) : /\ r = ListOf(walk, table, callbacks) /\ Acted = Cut(r)
                              /\ SubsequenceOf(r, ListOf(walk, table, callbacks))
    BY <1>1, NothingCut
  <2>2. /\ walk \in WalkType /\ table \in [AtHals -> Tables]
        /\ callbacks \in [Objects -> Seq(Cbs)]
    BY <1>1 DEF EventsInv, Types
  <2>3. Begins(ListOf(walk, table, callbacks), ListOf(walk, table', callbacks'))
    BY <2>2, ListGrows
  <2>4. PICK x \in Seq(Cbs) : ListOf(walk, table', callbacks') = Cat(r, x)
    BY <2>1, <2>3 DEF Begins
  <2>5. QED
    BY <2>1, <2>4
<1>2. \A h \in AtHals : DOMAIN table[h] \subseteq DOMAIN table'[h]
  BY DEF Grows
<1>3. QED
  BY <1>1, <1>2, WalkKept

\* The callbacks s, which were not allocated, are linked behind those of o.
Links(o, s) ==
  /\ objects' = objects \cup {o}
  /\ hal' \in [Objects -> Hals \cup {None}] /\ \A q \in objects : hal'[q] = hal[q]
  /\ live' = live \cup ToSet(s) /\ \A k \in ToSet(s) : k \notin live
  /\ owner' \in [Cbs -> Objects \cup {None}] /\ event' \in [Cbs -> Events \cup {None}]
  /\ \A k \in Cbs : owner'[k] = IF k \in ToSet(s) THEN o ELSE owner[k]
  /\ \A k \in Cbs : k \notin ToSet(s) => event'[k] = event[k]
  /\ \A k \in ToSet(s) : event'[k] \in Events
  /\ callbacks' = [callbacks EXCEPT ![o] = Cat(@, s)]
  /\ hal'[o] \in AtHals =>
       /\ table' = [table EXCEPT ![hal'[o]] = AddNotifications(@, s, event')]
       /\ dropped' = (dropped \ ToSet(s)) \cup Refused(table[hal'[o]], s, event')
  /\ hal'[o] \notin AtHals => table' = table /\ dropped' = dropped
  /\ walk' = Acted /\ pduNoti' = pduNoti

LEMMA LinksKeep ==
  ASSUME EventsInv, Callable, NEW o \in Objects, NEW s \in Seq(Cbs), Ordered(s, Different),
         Links(o, s)
  PROVE  EventsInv'
<1>1. /\ callbacks' \in [Objects -> Seq(Cbs)]
      /\ callbacks'[o] = Cat(callbacks[o], s)
      /\ \A q \in Objects : q # o => callbacks'[q] = callbacks[q]
      /\ ToSet(callbacks'[o]) = ToSet(callbacks[o]) \cup ToSet(s)
  <2>1. callbacks \in [Objects -> Seq(Cbs)] /\ callbacks' = [callbacks EXCEPT ![o] = Cat(@, s)]
    BY DEF EventsInv, Types, Links
  <2>2. /\ Cat(callbacks[o], s) \in Seq(Cbs)
        /\ ToSet(Cat(callbacks[o], s)) = ToSet(callbacks[o]) \cup ToSet(s)
    BY <2>1, CatSet
  <2>3. QED
    BY <2>1, <2>2
<1>2. \A k \in live : k \notin ToSet(s) /\ owner'[k] = owner[k] /\ event'[k] = event[k]
  BY DEF Links, EventsInv, Types
<1>3. ToSet(s) \subseteq Cbs
  BY SetOf
<1>4. \A k \in ToSet(s) : owner'[k] = o /\ event'[k] \in Events /\ k \in live'
  BY <1>3 DEF Links
<1>5. \A q \in Objects : q # o =>
        (q \in objects' <=> q \in objects) /\ (q \in objects => hal'[q] = hal[q])
  BY DEF Links
<1>6. Listed'
  <2>1. SUFFICES ASSUME NEW q \in Objects
                 PROVE  /\ Ordered(callbacks'[q], Different)
                        /\ \A k \in ToSet(callbacks'[q]) : k \in live' /\ owner'[k] = q
                        /\ q \notin objects' => callbacks'[q] = <<>>
    BY DEF Listed
  <2>2. CASE q # o
    <3>1. live \subseteq live'
      BY DEF Links
    <3>2. QED
      BY <1>1, <1>2, <1>5, <2>2, <3>1, ListFacts
  <2>3. CASE q = o
    <3>1. PICK c \in Seq(Cbs) : c = callbacks[o] /\ Ordered(c, Different)
      BY ListFacts
    <3>2. \A k \in ToSet(c) : k \in live /\ owner[k] = o
      BY <3>1, ListFacts
    <3>3. \A i \in 1..Len(c), j \in 1..Len(s) : <<c[i], s[j]>> \in Different
      <4>1. \A i \in 1..Len(c) : c[i] \in live /\ c[i] \in Cbs
        BY <3>2, SetOf
      <4>2. \A j \in 1..Len(s) : s[j] \in ToSet(s) /\ s[j] \in Cbs
        BY SetOf
      <4>3. \A i \in 1..Len(c), j \in 1..Len(s) : c[i] # s[j]
        BY <1>2, <4>1, <4>2
      <4>4. QED
        BY <4>1, <4>2, <4>3 DEF Different
    <3>4. Ordered(Cat(c, s), Different)
      BY <3>1, <3>3, OrderedConcat DEF Cat
    <3>5. \A k \in ToSet(callbacks'[o]) : k \in live' /\ owner'[k] = o
      <4>1. live \subseteq live'
        BY DEF Links
      <4>2. QED
        BY <1>1, <1>2, <1>4, <3>1, <3>2, <4>1
    <3>6. o \in objects'
      BY DEF Links
    <3>7. QED
      BY <1>1, <2>3, <3>1, <3>4, <3>5, <3>6
  <2>4. QED
    BY <2>2, <2>3
<1>7. \A g \in AtHals : Enters(table[g], g, hal', callbacks', owner', event')
  <2>1. SUFFICES ASSUME NEW g \in AtHals
                 PROVE  Enters(table[g], g, hal', callbacks', owner', event')
    OBVIOUS
  <2>2. PICK t \in Tables : t = table[g] /\ Held(t, g)
    BY ItemFacts
  <2>3. \A p : \A k \in ToSet(Items(t, p)) :
          /\ owner'[k] = owner[k] /\ k \in ToSet(callbacks'[owner[k]])
          /\ hal'[owner[k]] = hal[owner[k]] /\ event'[k] = event[k]
    <3>1. \A p : \A k \in ToSet(Items(t, p)) :
            /\ k \in live /\ owner[k] \in Objects /\ owner[k] \in objects
            /\ k \in ToSet(callbacks[owner[k]])
      BY <2>2 DEF Held
    <3>2. \A q \in objects : hal'[q] = hal[q]
      BY DEF Links
    <3>3. \A q \in Objects : ToSet(callbacks[q]) \subseteq ToSet(callbacks'[q])
      BY <1>1
    <3>4. QED
      BY <1>2, <3>1, <3>2, <3>3
  <2>4. Enters(t, g, hal', callbacks', owner', event')
    BY <2>2, <2>3, EntersSame DEF Held
  <2>5. QED
    BY <2>2, <2>4
<1>8. \A k \in Cbs : k \notin ToSet(s) => (k \in dropped' <=> k \in dropped)
  BY DEF Links, Refused
<1>9. ASSUME NEW q \in Objects, q \in objects, NEW t \in Tables, NEW h \in AtHals,
             t = table[h], Mirrors(t, callbacks[q], q, owner, event, dropped)
      PROVE  Mirrors(t, callbacks[q], q, owner', event', dropped')
  <2>1. PICK u \in Tables : u = table[h] /\ Held(u, h)
    BY ItemFacts
  <2>2. \A p : \A k \in ToSet(Items(t, p)) : k \in live
    BY <1>9, <2>1 DEF Held
  <2>3. \A p : \A k \in ToSet(Items(t, p)) : owner'[k] = q <=> owner[k] = q
    BY <1>2, <2>2
  <2>4. /\ callbacks[q] \in Seq(Cbs)
        /\ \A k \in ToSet(callbacks[q]) : k \in live /\ k \in Cbs
    BY ListFacts
  <2>5. \A k \in ToSet(callbacks[q]) : event'[k] = event[k] /\ (k \in dropped' <=> k \in dropped)
    BY <1>2, <1>8, <2>4
  <2>6. QED
    BY <1>9, <2>3, <2>4, <2>5, MirrorsSame
<1>10. ASSUME NEW q \in objects, q # o, hal'[q] \in AtHals
       PROVE  Mirrors(table[hal'[q]], callbacks'[q], q, owner', event', dropped')
  <2>1. q \in Objects /\ hal'[q] = hal[q] /\ callbacks'[q] = callbacks[q]
    BY <1>1, <1>5, <1>10 DEF EventsInv, Types
  <2>2. PICK t \in Tables : t = table[hal[q]]
    BY <1>10, <2>1 DEF EventsInv, Types
  <2>3. Mirrors(t, callbacks[q], q, owner, event, dropped)
    BY <1>10, <2>1, <2>2 DEF EventsInv, Mirrored
  <2>4. Mirrors(t, callbacks[q], q, owner', event', dropped')
    BY <1>9, <1>10, <2>1, <2>2, <2>3
  <2>5. QED
    BY <2>1, <2>2, <2>4
<1>11. ASSUME hal'[o] \in AtHals
       PROVE  Mirrors(table[hal'[o]], callbacks[o], o, owner', event', dropped')
  <2>1. PICK h \in AtHals : h = hal'[o]
    BY <1>11
  <2>2. PICK t \in Tables : t = table[h] /\ Held(t, h)
    BY ItemFacts
  <2>3. CASE o \in objects
    <3>1. hal[o] = h
      BY <2>1, <2>3 DEF Links
    <3>2. Mirrors(t, callbacks[o], o, owner, event, dropped)
      BY <2>2, <2>3, <3>1 DEF EventsInv, Mirrored
    <3>3. QED
      BY <1>9, <2>1, <2>2, <2>3, <3>2
  <2>4. CASE o \notin objects
    <3>1. callbacks[o] = <<>>
      BY <2>4, ListFacts
    <3>2. \A p : \A k \in ToSet(Items(t, p)) : k \in live /\ owner[k] \in objects
      BY <2>2 DEF Held
    <3>3. \A p : \A k \in ToSet(Items(t, p)) : owner'[k] # o
      BY <1>2, <2>4, <3>2
    <3>4. Mirrors(t, <<>>, o, owner', event', dropped')
      BY <3>3, MirrorsNone
    <3>5. QED
      BY <2>1, <2>2, <3>1, <3>4
  <2>5. QED
    BY <2>3, <2>4
<1>12. /\ table' \in [AtHals -> Tables]
       /\ \A g \in AtHals : Enters(table'[g], g, hal', callbacks', owner', event')
       /\ Grows(table, table')
       /\ hal'[o] \in AtHals => Mirrors(table'[hal'[o]], callbacks'[o], o, owner', event', dropped')
       /\ \A q \in objects \ {o} : hal'[q] \in AtHals =>
            Mirrors(table'[hal'[q]], callbacks'[q], q, owner', event', dropped')
  <2>1. CASE hal'[o] \in AtHals
    <3>1. PICK h \in AtHals : h = hal'[o]
      BY <2>1
    <3>2. table \in [AtHals -> Tables]
      BY DEF EventsInv, Types
    <3>3. table' = [table EXCEPT ![h] = AddNotifications(@, s, event')]
      BY <3>1 DEF Links
    <3>4. \A k \in ToSet(s) : k \in dropped' <=> k \in Refused(table[h], s, event')
      BY <3>1 DEF Links
    <3>5. \A k \in ToSet(s) : owner'[k] = o /\ k \in ToSet(callbacks'[o]) /\ event'[k] \in Events
      BY <1>1, <1>4
    <3>6. \A p : \A k \in ToSet(Items(table[h], p)) : k \notin ToSet(s)
      <4>1. PICK t \in Tables : t = table[h] /\ Held(t, h)
        BY ItemFacts
      <4>2. \A p : \A k \in ToSet(Items(t, p)) : k \in live
        BY <4>1 DEF Held
      <4>3. QED
        BY <1>2, <4>1, <4>2
    <3>7. PICK c \in Seq(Cbs) : c = callbacks[o]
      BY ListFacts
    <3>8. callbacks'[o] = c \o s /\ Mirrors(table[h], c, o, owner', event', dropped')
      BY <1>1, <1>11, <3>1, <3>7 DEF Cat
    <3>9. \A q \in objects \ {o} : /\ q # o
            /\ hal'[q] \in AtHals => Mirrors(table[hal'[q]], callbacks'[q], q, owner', event', dropped')
      BY <1>10
    <3>10. CanLink(table, hal', callbacks', owner', event', dropped', o, h, s, c, objects \ {o})
      BY <1>7, <3>1, <3>4, <3>5, <3>6, <3>8, <3>9 DEF CanLink
    <3>11. /\ table' \in [AtHals -> Tables] /\ Grows(table, table')
           /\ HasLinked(table', hal', callbacks', owner', event', dropped', o, h, objects \ {o})
      BY <3>2, <3>3, <3>10, On
    <3>12. QED
      BY <3>1, <3>11 DEF HasLinked
  <2>2. CASE hal'[o] \notin AtHals
    <3>1. table' = table /\ table \in [AtHals -> Tables]
      BY <2>2 DEF Links, EventsInv, Types
    <3>2. Grows(table, table)
      BY <3>1, GrowsSame
    <3>3. QED
      BY <1>7, <1>10, <2>2, <3>1, <3>2
  <2>3. QED
    BY <2>1, <2>2
<1>13. Entered'
  BY <1>12 DEF Entered
<1>14. Mirrored'
  <2>1. objects' = (objects \ {o}) \cup {o}
    BY DEF Links
  <2>2. QED
    BY <1>12, <2>1 DEF Mirrored
<1>15. Waits'
  <2>1. table \in [AtHals -> Tables] /\ InUse(table, pduNoti)
    BY DEF EventsInv, Types, Waits
  <2>2. InUse(table', pduNoti)
    BY <1>12, <2>1, WaitsGrow
  <2>3. QED
    BY <2>2 DEF Waits, Links
<1>16. (InCallback' => walk' \in WalkType) /\ (~InCallback' => walk' = Idle) /\ Walks'
  <2>1. Longer(callbacks, callbacks')
    <3>1. SUFFICES ASSUME NEW q \in Objects
                   PROVE  Begins(callbacks[q], callbacks'[q])
      BY DEF Longer
    <3>2. CASE q = o
      BY <1>1, <3>2 DEF Begins
    <3>3. CASE q # o
      BY <1>1, <3>3, ListFacts, NothingBehind
    <3>4. QED
      BY <3>2, <3>3
  <2>2. pduNoti' = pduNoti /\ walk' = Acted
    BY DEF Links
  <2>3. \A q \in Objects : Ordered(callbacks'[q], Different)
    BY <1>6 DEF Listed
  <2>4. QED
    BY <1>1, <1>2, <1>12, <1>13, <2>1, <2>2, <2>3, WalkGrows
<1>17. Types'
  <2>1. /\ objects \in SUBSET Objects /\ live \in SUBSET Cbs /\ dropped \in SUBSET live
        /\ pduNoti' \in [AtHals -> Names \cup {None}]
        /\ \A k \in live : owner[k] \in Objects /\ event[k] \in Events
    BY DEF EventsInv, Types, Links
  <2>2. objects' \in SUBSET Objects /\ live' \in SUBSET Cbs
    BY <1>3, <2>1 DEF Links
  <2>3. dropped' \in SUBSET live'
    BY <2>1 DEF Links, Refused
  <2>4. \A k \in live' : owner'[k] \in Objects /\ event'[k] \in Events
    BY <1>2, <1>4, <2>1 DEF Links
  <2>5. hal' \in [Objects -> Hals \cup {None}] /\ owner' \in [Cbs -> Objects \cup {None}]
        /\ event' \in [Cbs -> Events \cup {None}]
    BY DEF Links
  <2>6. QED
    BY <1>1, <1>12, <1>16, <2>1, <2>2, <2>3, <2>4, <2>5 DEF Types
<1>18. QED
  BY <1>6, <1>13, <1>14, <1>15, <1>16, <1>17 DEF EventsInv

LEMMA AddKeeps ==
  ASSUME EventsInv, NEW o \in Objects, NEW e \in Events, NEW k \in Cbs, AddCallback(o, e, k)
  PROVE  EventsInv'
<1>1. PICK s \in Seq(Cbs) : s = <<k>>
  <2>1. <<k>> \in Seq(Cbs)
    OBVIOUS
  <2>2. QED
    BY <2>1, Zenon
<1>2. ToSet(s) = {k} /\ Ordered(s, Different)
  <2>1. Len(s) = 1 /\ s[1] = k
    BY <1>1
  <2>2. QED
    BY <2>1, SetOf DEF Ordered
<1>3. /\ o \in objects /\ k \notin live /\ Callable
      /\ live' = live \cup {k} /\ owner' = [owner EXCEPT ![k] = o]
      /\ event' = [event EXCEPT ![k] = e]
      /\ callbacks' = [callbacks EXCEPT ![o] = Append(@, k)]
      /\ hal[o] \in AtHals =>
           /\ table' = [table EXCEPT ![hal[o]] = AddNotifications(@, s, event')]
           /\ dropped' = (dropped \ {k}) \cup Refused(table[hal[o]], s, event')
      /\ hal[o] \notin AtHals => table' = table /\ dropped' = dropped
      /\ walk' = Acted /\ objects' = objects /\ hal' = hal /\ pduNoti' = pduNoti
  BY <1>1 DEF AddCallback
<1>4. callbacks' = [callbacks EXCEPT ![o] = Cat(@, s)]
  <2>1. PICK c \in Seq(Cbs) : c = callbacks[o]
    BY ListFacts
  <2>2. Append(c, k) = c \o <<k>>
    BY AppendIsConcat
  <2>3. Append(c, k) = Cat(c, s)
    BY <1>1, <2>2 DEF Cat
  <2>4. QED
    BY <1>3, <2>1, <2>3
<1>5. /\ hal' \in [Objects -> Hals \cup {None}] /\ objects' = objects \cup {o}
      /\ owner \in [Cbs -> Objects \cup {None}] /\ event \in [Cbs -> Events \cup {None}]
  BY <1>3 DEF EventsInv, Types
<1>6. /\ owner' \in [Cbs -> Objects \cup {None}] /\ event' \in [Cbs -> Events \cup {None}]
      /\ \A c \in Cbs : owner'[c] = IF c \in {k} THEN o ELSE owner[c]
      /\ \A c \in Cbs : c \notin {k} => event'[c] = event[c]
      /\ event'[k] = e
  BY <1>3, <1>5
<1>7. Links(o, s)
  BY <1>2, <1>3, <1>4, <1>5, <1>6 DEF Links
<1>8. QED
  BY <1>2, <1>3, <1>7, LinksKeep

LEMMA CloneKeeps ==
  ASSUME EventsInv, NEW o \in Objects, NEW d \in Objects, Clone(o, d)
  PROVE  EventsInv'
<1>1. PICK c \in Seq(Cbs) : c = callbacks[o]
  BY ListFacts
<1>2. PICK s \in [DOMAIN c -> Cbs \ live] :
        /\ IsInjective(s)
        /\ objects' = objects \cup {d} /\ hal' = [hal EXCEPT ![d] = hal[o]]
        /\ live' = live \cup ToSet(s)
        /\ owner' = [k \in Cbs |-> IF Contains(s, k) THEN d ELSE owner[k]]
        /\ event' = [k \in Cbs |-> IF Contains(s, k) THEN event[c[Position(s, k)]] ELSE event[k]]
        /\ callbacks' = [callbacks EXCEPT ![d] = s]
        /\ IF hal[o] \in AtHals
           THEN /\ table' = [table EXCEPT ![hal[o]] = AddNotifications(@, s, event')]
                /\ dropped' = (dropped \ ToSet(s)) \cup Refused(table[hal[o]], s, event')
           ELSE UNCHANGED <<table, dropped>>
  BY <1>1 DEF Clone
<1>3. o \in objects /\ d \notin objects /\ Callable /\ walk' = Acted /\ pduNoti' = pduNoti
  BY DEF Clone
<1>4. /\ s \in Seq(Cbs) /\ Len(s) = Len(c) /\ Len(c) \in Nat
      /\ \A i \in 1..Len(s) : s[i] \in Cbs \ live
  <2>1. DOMAIN c = 1..Len(c) /\ Len(c) \in Nat
    BY LenProperties
  <2>2. s \in [1..Len(c) -> Cbs]
    BY <2>1
  <2>3. s \in Seq(Cbs)
    BY <2>1, <2>2
  <2>4. DOMAIN s = 1..Len(c) /\ DOMAIN s = 1..Len(s) /\ Len(s) \in Nat
    BY <2>2, <2>3, LenProperties
  <2>5. Len(s) = Len(c)
    BY <2>1, <2>4
  <2>6. QED
    BY <2>1, <2>3, <2>4, <2>5
<1>5. Ordered(s, Different)
  <2>1. DOMAIN s = 1..Len(s) /\ Len(s) \in Nat
    BY <1>4, LenProperties
  <2>2. \A i, j \in 1..Len(s) : s[i] = s[j] => i = j
    BY <1>2, <2>1 DEF IsInjective
  <2>3. QED
    BY <1>4, <2>1, <2>2 DEF Ordered, Different
<1>6. \A k \in ToSet(s) : k \notin live
  BY <1>4, SetOf
<1>7. \A k : Contains(s, k) <=> k \in ToSet(s)
  BY <1>4, ContainsSet
<1>8. \A k \in ToSet(s) : k \in Cbs /\ event'[k] \in Events
  <2>1. SUFFICES ASSUME NEW k \in ToSet(s) PROVE k \in Cbs /\ event'[k] \in Events
    OBVIOUS
  <2>2. k \in Cbs /\ Contains(s, k)
    BY <1>4, <1>7, SetOf
  <2>3. Position(s, k) \in 1..Len(c)
    BY <1>4, <2>2, PlaceOf
  <2>4. event[c[Position(s, k)]] \in Events
    <3>1. c[Position(s, k)] \in ToSet(c)
      BY <2>3, SetOf
    <3>2. QED
      BY <1>1, <3>1, ListFacts
  <2>5. QED
    BY <1>2, <2>2, <2>4
<1>9. callbacks' = [callbacks EXCEPT ![d] = Cat(@, s)]
  <2>1. callbacks[d] = <<>>
    BY <1>3, ListFacts
  <2>2. Cat(<<>>, s) = s
    BY <1>4, CatProperties
  <2>3. QED
    BY <1>2, <2>1, <2>2
<1>10. /\ hal \in [Objects -> Hals \cup {None}] /\ objects \in SUBSET Objects
       /\ owner \in [Cbs -> Objects \cup {None}] /\ event \in [Cbs -> Events \cup {None}]
  BY DEF EventsInv, Types
<1>11. /\ hal' \in [Objects -> Hals \cup {None}] /\ hal'[d] = hal[o]
       /\ \A q \in objects : hal'[q] = hal[q]
  BY <1>2, <1>3, <1>10
<1>12. \A k \in Cbs : owner'[k] = IF k \in ToSet(s) THEN d ELSE owner[k]
  BY <1>2, <1>7
<1>13. owner' \in [Cbs -> Objects \cup {None}]
  BY <1>2, <1>10
<1>14. \A k \in Cbs : k \notin ToSet(s) => event'[k] = event[k]
  BY <1>2, <1>7
<1>15. event' \in [Cbs -> Events \cup {None}]
  <2>1. \A k \in Cbs : event'[k] \in Events \cup {None}
    BY <1>8, <1>10, <1>14
  <2>2. event' = [k \in Cbs |-> event'[k]]
    BY <1>2
  <2>3. QED
    BY <2>1, <2>2
<1>16. /\ hal'[d] \in AtHals =>
            /\ table' = [table EXCEPT ![hal'[d]] = AddNotifications(@, s, event')]
            /\ dropped' = (dropped \ ToSet(s)) \cup Refused(table[hal'[d]], s, event')
       /\ hal'[d] \notin AtHals => table' = table /\ dropped' = dropped
  BY <1>2, <1>11
<1>17. Links(d, s)
  BY <1>2, <1>3, <1>6, <1>8, <1>9, <1>11, <1>12, <1>13, <1>14, <1>15, <1>16 DEF Links
<1>18. QED
  BY <1>3, <1>4, <1>5, <1>17, LinksKeep

-----------------------------------------------------------------------------
(* Callbacks are removed *)

LEMMA ListShrinks ==
  ASSUME NEW w \in WalkType, NEW T \in [AtHals -> Tables], NEW T2 \in [AtHals -> Tables],
         NEW X, Leaves(T, T2, X),
         NEW c, NEW c2, \A o \in Objects : SubsequenceOf(c2[o], c[o])
  PROVE  SubsequenceOf(ListOf(w, T2, c2), ListOf(w, T, c))
<1>1. CASE w.list \in AtLists
  <2>1. w.list.kind = "at" /\ w.list.of \in AtHals
    BY <1>1 DEF AtLists
  <2>2. PICK a \in Seq(Cbs) : a = Items(T[w.list.of], w.list.prefix)
    BY <2>1, TableType
  <2>3. Items(T2[w.list.of], w.list.prefix) = Keep(a, Cbs \ X)
    BY <2>1, <2>2 DEF Leaves, Without
  <2>4. SubsequenceOf(Keep(a, Cbs \ X), a)
    BY KeepSubsequence
  <2>5. QED
    BY <2>1, <2>2, <2>3, <2>4 DEF ListOf
<1>2. CASE w.list \in CoLists
  BY <1>2 DEF CoLists, ListOf
<1>3. QED
  BY <1>1, <1>2 DEF WalkType

\* The walk of the state that follows, when the callbacks X are removed and
\* others are then linked behind.
LEMMA WalkShrinks ==
  ASSUME EventsInv, Callable,
         table' \in [AtHals -> Tables], callbacks' \in [Objects -> Seq(Cbs)],
         Entered', \A o \in Objects : Ordered(callbacks'[o], Different),
         pduNoti' = pduNoti, event' = event,
         NEW T \in [AtHals -> Tables], NEW X, Leaves(table, T, X), Grows(T, table'),
         \A o \in Objects : SubsequenceOf(callbacks'[o], callbacks[o]),
         walk' = Walked(T, callbacks')
  PROVE  (InCallback' => walk' \in WalkType) /\ (~InCallback' => walk' = Idle) /\ Walks'
<1>1. table \in [AtHals -> Tables] /\ callbacks \in [Objects -> Seq(Cbs)]
  BY DEF EventsInv, Types
<1>2. ASSUME InCallback
      PROVE  \E r, x \in Seq(Cbs) :
               /\ SubsequenceOf(r, ListOf(walk, table, callbacks))
               /\ ListOf(walk, table', callbacks') = Cat(r, x)
               /\ walk' = Cut(r)
  <2>1. walk \in WalkType
    BY <1>2 DEF EventsInv, Types
  <2>2. PICK r \in Seq(Cbs) : r = ListOf(walk, T, callbacks')
    BY <2>1, ListType
  <2>3. SubsequenceOf(ListOf(walk, T, callbacks'), ListOf(walk, table, callbacks))
    BY <1>1, <2>1, ListShrinks
  <2>4. Longer(callbacks', callbacks')
    BY NothingBehind DEF Longer
  <2>5. Begins(ListOf(walk, T, callbacks'), ListOf(walk, table', callbacks'))
    BY <2>1, <2>4, ListGrows
  <2>6. walk' = Cut(r)
    BY <1>2, <2>2 DEF Walked, ListNow, ListOf
  <2>7. PICK x \in Seq(Cbs) : ListOf(walk, table', callbacks') = Cat(r, x)
    BY <2>2, <2>5 DEF Begins
  <2>8. QED
    BY <2>2, <2>3, <2>6, <2>7
<1>3. ~InCallback => walk' = walk
  BY DEF Walked
<1>4. \A h \in AtHals : DOMAIN table[h] \subseteq DOMAIN table'[h]
  BY DEF Grows, Leaves
<1>5. \A k \in live : event'[k] = event[k]
  OBVIOUS
<1>6. QED
  BY <1>2, <1>3, <1>4, <1>5, WalkKept

\* Entries of PDUs are in use afterwards, too.
LEMMA WaitsShrink ==
  ASSUME NEW T \in [AtHals -> Tables], NEW T1 \in [AtHals -> Tables], NEW X, Leaves(T, T1, X),
         NEW T2, Grows(T1, T2), NEW noti, InUse(T, noti)
  PROVE  InUse(T2, noti)
<1>1. InUse(T1, noti)
  BY DEF Leaves, InUse
<1>2. QED
  BY <1>1, WaitsGrow

LEMMA DelKeeps ==
  ASSUME Careful, EventsInv, NEW o \in Objects, NEW e \in Events, DelCallback(o, e)
  PROVE  EventsInv'
<1>1. PICK c \in Seq(Cbs) : c = callbacks[o]
  BY ListFacts
<1>2. Callable /\ (e.pdu => hal[o] \notin AtHals)
  BY DEF DelCallback
<1>3. PICK s : /\ s \in Seq(Cbs) /\ \A k \in ToSet(s) : k \in ToSet(c) /\ event[k] = e
               /\ table' = IF hal[o] \in AtHals
                           THEN [table EXCEPT ![hal[o]] = RemoveNotifications(@, s)] ELSE table
               /\ callbacks' = [callbacks EXCEPT ![o] = Keep(@, Cbs \ ToSet(s))]
               /\ live' = live \ ToSet(s) /\ dropped' = dropped \ ToSet(s)
               /\ walk' = Walked(table', callbacks')
  <2> DEFINE Fitting == {k \in ToSet(c) : event[k] = e}
             Deletes(given, s) ==
               /\ table' = IF hal[o] \in AtHals
                           THEN [table EXCEPT ![hal[o]] = RemoveNotifications(@, s)] ELSE table
               /\ callbacks' = [callbacks EXCEPT ![o] = Keep(@, Cbs \ given)]
               /\ live' = live \ given /\ dropped' = dropped \ given
               /\ walk' = Walked(table', callbacks')
  <2>1. \E given \in SUBSET Fitting : Deletes(given, Keep(c, given))
    BY <1>1 DEF DelCallback
  <2> HIDE DEF Deletes
  <2>2. PICK given : given \subseteq Fitting /\ Deletes(given, Keep(c, given))
    BY <2>1
  <2>3. given \subseteq ToSet(c) /\ \A k \in given : event[k] = e
    BY <2>2
  <2> HIDE DEF Fitting
  <2> DEFINE s == Keep(c, given)
  <2>4. s \in Seq(Cbs) /\ ToSet(s) = ToSet(c) \cap given
    BY KeepType, KeepElements
  <2>5. ToSet(s) = given
    BY <2>3, <2>4
  <2> HIDE DEF s
  <2>6. Deletes(ToSet(s), s)
    BY <2>2, <2>5 DEF s
  <2>7. \A k \in ToSet(s) : k \in ToSet(c) /\ event[k] = e
    BY <2>3, <2>5
  <2>8. QED
    BY <2>4, <2>6, <2>7 DEF Deletes
<1>4. /\ objects' = objects /\ hal' = hal /\ owner' = owner /\ event' = event
      /\ pduNoti' = pduNoti
  BY DEF DelCallback
<1> DEFINE X == ToSet(s)
           r == Keep(c, Cbs \ X)
<1>5. s \in Seq(Cbs) /\ \A k \in X : k \in ToSet(c) /\ event[k] = e
  BY <1>3
<1>6. \A k \in X : k \in Cbs /\ k \in live /\ owner[k] = o /\ event[k] \in Events
  BY <1>1, <1>5, ListFacts
<1>7. table' \in [AtHals -> Tables] /\ Leaves(table, table', X)
  <2>1. hal[o] \in AtHals => \A k \in ToSet(s) : ~event[k].pdu
    BY <1>2, <1>5
  <2>2. table \in [AtHals -> Tables] /\ \A g \in AtHals : Enters(table[g], g, hal, callbacks, owner, event)
    BY DEF EventsInv, Types, Entered
  <2>3. \A k \in ToSet(s) : owner[k] = o /\ event[k] \in Events
    BY <1>6
  <2>4. CanLeave(table, hal, callbacks, owner, o, s)
    BY <2>1, <2>2, <2>3 DEF CanLeave
  <2>5. table' = OffOf(table, hal[o], s)
    BY <1>3 DEF OffOf
  <2> HIDE DEF X, r
  <2>6. table' \in [AtHals -> Tables] /\ Leaves(table, table', ToSet(s))
    BY <2>2, <2>4, <2>5, Off
  <2>7. QED
    BY <2>6 DEF X
<1>8. /\ r \in Seq(Cbs) /\ SubsequenceOf(r, c) /\ ToSet(r) = ToSet(c) \ X
      /\ callbacks' = [callbacks EXCEPT ![o] = r]
  <2>1. ToSet(r) = ToSet(c) \cap (Cbs \ X) /\ r \in Seq(Cbs) /\ SubsequenceOf(r, c)
    <3> DEFINE Y == Cbs \ X
    <3> HIDE DEF Y
    <3>1. ToSet(Keep(c, Y)) = ToSet(c) \cap Y /\ Keep(c, Y) \in Seq(Cbs) /\ SubsequenceOf(Keep(c, Y), c)
      BY KeepElements, KeepType, KeepSubsequence
    <3>2. QED
      BY <3>1 DEF Y
  <2>2. ToSet(c) \subseteq Cbs
    BY SetOf
  <2> HIDE DEF r
  <2>3. ToSet(r) = ToSet(c) \ X
    BY <2>1, <2>2
  <2>4. callbacks' = [callbacks EXCEPT ![o] = r]
    BY <1>1, <1>3 DEF r
  <2>5. QED
    BY <2>1, <2>3, <2>4
<1> HIDE DEF r, X
<1>9. /\ callbacks' \in [Objects -> Seq(Cbs)] /\ callbacks'[o] = r
      /\ \A q \in Objects : q # o => callbacks'[q] = callbacks[q]
  BY <1>8 DEF EventsInv, Types
<1>10. \A q \in Objects : /\ SubsequenceOf(callbacks'[q], callbacks[q])
                          /\ ToSet(callbacks'[q]) = ToSet(callbacks[q]) \ X
  <2>1. SUFFICES ASSUME NEW q \in Objects
                 PROVE  /\ SubsequenceOf(callbacks'[q], callbacks[q])
                        /\ ToSet(callbacks'[q]) = ToSet(callbacks[q]) \ X
    OBVIOUS
  <2>2. CASE q = o
    BY <1>1, <1>8, <1>9, <2>2
  <2>3. CASE q # o
    <3>1. callbacks[q] \in Seq(Cbs) /\ \A k \in ToSet(callbacks[q]) : owner[k] = q
      BY ListFacts
    <3>2. \A k \in ToSet(callbacks[q]) : k \notin X
      BY <1>6, <2>3, <3>1
    <3>3. QED
      BY <1>9, <2>3, <3>1, <3>2, SameSubsequence
  <2>4. QED
    BY <2>2, <2>3
<1>11. Listed'
  <2>1. SUFFICES ASSUME NEW q \in Objects
                 PROVE  /\ Ordered(callbacks'[q], Different)
                        /\ \A k \in ToSet(callbacks'[q]) : k \in live' /\ owner[k] = q
                        /\ q \notin objects => callbacks'[q] = <<>>
    BY <1>4 DEF Listed
  <2>2. PICK a \in Seq(Cbs), b \in Seq(Cbs) : a = callbacks'[q] /\ b = callbacks[q]
    BY <1>9, ListFacts
  <2>3. Ordered(b, Different) /\ SubsequenceOf(a, b)
    BY <1>10, <2>2, ListFacts
  <2>4. Ordered(a, Different)
    BY <2>3, OrderedPart
  <2>5. \A k \in ToSet(a) : k \in live' /\ owner[k] = q
    <3>1. \A k \in ToSet(a) : k \in ToSet(callbacks[q]) /\ k \notin X
      BY <1>10, <2>2
    <3>2. QED
      BY <1>3, <3>1, ListFacts DEF X
  <2>6. q \notin objects => a = <<>>
    <3>1. SUFFICES ASSUME q \notin objects PROVE a = <<>>
      OBVIOUS
    <3>2. b = <<>> /\ Len(<<>>) = 0
      BY <2>2, <3>1, ListFacts
    <3>3. Len(a) = 0
      <4>1. \A j \in 1..Len(a) : \E i \in 1..0 : TRUE
        BY <2>3, <3>2 DEF SubsequenceOf
      <4>2. Len(a) \in Nat
        BY LenProperties
      <4>3. QED
        BY <4>1, <4>2
    <3>4. QED
      BY <3>3, EmptySeq
  <2>7. QED
    BY <2>2, <2>4, <2>5, <2>6
<1>12. Entered'
  <2>1. SUFFICES ASSUME NEW g \in AtHals
                 PROVE  Enters(table'[g], g, hal, callbacks', owner, event)
    BY <1>4 DEF Entered
  <2>2. table \in [AtHals -> Tables]
    BY DEF EventsInv, Types
  <2>3. PICK t \in Tables, u \in Tables : t = table[g] /\ u = table'[g] /\ RestOf(t, u, X)
    BY <1>7, <2>2, LeavesPart
  <2>4. Held(t, g)
    BY <2>3, ItemFacts
  <2>5. \A p : \A k \in ToSet(Items(u, p)) : k \in ToSet(callbacks'[owner[k]])
    <3>1. \A p : \A k \in ToSet(Items(t, p)) : owner[k] \in Objects /\ k \in ToSet(callbacks[owner[k]])
      BY <2>4 DEF Held
    <3>2. QED
      BY <1>10, <2>3, <3>1 DEF RestOf
  <2>6. \A p \in DOMAIN u : \A k \in ToSet(u[p].items) : k \in ToSet(callbacks'[owner[k]])
    BY <2>5 DEF Items
  <2>7. Enters(t, g, hal, callbacks, owner, event)
    BY <2>4 DEF Held
  <2>8. Enters(u, g, hal, callbacks', owner, event)
    BY <2>3, <2>6, <2>7, EntersPart DEF RestOf
  <2>9. QED
    BY <2>3, <2>8
<1>13. Mirrored'
  <2>1. SUFFICES ASSUME NEW q \in objects, hal[q] \in AtHals
                 PROVE  Mirrors(table'[hal[q]], callbacks'[q], q, owner, event, dropped')
    BY <1>4 DEF Mirrored
  <2>2. q \in Objects
    BY DEF EventsInv, Types
  <2>3. PICK t \in Tables, u \in Tables : t = table[hal[q]] /\ u = table'[hal[q]]
    BY <1>7, <2>1 DEF EventsInv, Types
  <2>4. Without(t, u, X)
    BY <1>7, <2>1, <2>3 DEF Leaves
  <2>5. PICK a \in Seq(Cbs) : a = callbacks[q]
    BY <2>2, ListFacts
  <2>6. Mirrors(t, a, q, owner, event, dropped)
    BY <2>1, <2>3, <2>5 DEF EventsInv, Mirrored
  <2>7. callbacks'[q] = a \/ callbacks'[q] = Keep(a, Cbs \ X)
    BY <1>1, <1>9, <2>2, <2>5 DEF r
  <2>8. \A k \in ToSet(callbacks'[q]) : k \in dropped' <=> k \in dropped \/ k \in X
    BY <1>3, <1>10, <2>2 DEF X
  <2>9. Mirrors(u, callbacks'[q], q, owner, event, dropped')
    <3>1. Left(a, callbacks'[q], X, dropped, dropped')
      BY <2>7, <2>8 DEF Left
    <3>2. QED
      BY <2>4, <2>6, <3>1, MirrorsPart
  <2>10. QED
    BY <2>3, <2>9
<1>14. Grows(table', table')
  BY <1>7, GrowsSame
<1>15. Waits'
  <2>1. table \in [AtHals -> Tables] /\ InUse(table, pduNoti)
    BY DEF EventsInv, Types, Waits
  <2>2. InUse(table', pduNoti)
    BY <1>7, <1>14, <2>1, WaitsShrink
  <2>3. QED
    BY <1>4, <2>2 DEF Waits
<1>16. (InCallback' => walk' \in WalkType) /\ (~InCallback' => walk' = Idle) /\ Walks'
  <2>1. \A q \in Objects : Ordered(callbacks'[q], Different)
    BY <1>11 DEF Listed
  <2>2. QED
    BY <1>2, <1>3, <1>4, <1>7, <1>9, <1>10, <1>12, <1>14, <2>1, WalkShrinks
<1>17. Types'
  BY <1>3, <1>4, <1>7, <1>9, <1>16 DEF EventsInv, Types
<1>18. QED
  BY <1>11, <1>12, <1>13, <1>15, <1>16, <1>17 DEF EventsInv

\* The callbacks of o leave the table of the old HAL, and come into that of the new.
LEMMA SetHalKeeps ==
  ASSUME Careful, EventsInv, NEW o \in Objects, SetHal(o)
  PROVE  EventsInv'
<1>1. PICK c \in Seq(Cbs) : c = callbacks[o]
  BY ListFacts
<1> DEFINE X == ToSet(c)
           T == Unregister(hal[o], o)
<1>2. PICK h \in Hals \cup {None} :
        /\ hal' = [hal EXCEPT ![o] = h]
        /\ IF h \in AtHals
           THEN /\ table' = [T EXCEPT ![h] = AddNotifications(@, c, event)]
                /\ dropped' = (dropped \ X) \cup Refused(T[h], c, event)
           ELSE table' = T /\ UNCHANGED dropped
  BY <1>1 DEF SetHal
<1>3. /\ o \in objects /\ Callable /\ MayMove(o)
      /\ walk' = Walked(T, callbacks) /\ objects' = objects /\ callbacks' = callbacks
      /\ live' = live /\ owner' = owner /\ event' = event /\ pduNoti' = pduNoti
  BY DEF SetHal, cbVars
<1>4. \A k \in X : k \in Cbs /\ k \in live /\ owner[k] = o /\ event[k] \in Events
  BY <1>1, ListFacts
<1>5. T \in [AtHals -> Tables] /\ Leaves(table, T, X)
  <2>1. hal[o] \in AtHals => \A k \in ToSet(c) : ~event[k].pdu
    <3>1. SUFFICES ASSUME hal[o] \in AtHals, NEW k \in ToSet(c) PROVE ~event[k].pdu
      OBVIOUS
    <3>2. PICK i \in 1..Len(c) : c[i] = k
      BY SetOf
    <3>3. i \in DOMAIN callbacks[o] /\ callbacks[o][i] = k
      BY <1>1, <3>2, LenProperties
    <3>4. ~PduOf(o)
      BY <1>3, <3>1 DEF MayMove
    <3>5. QED
      BY <3>3, <3>4 DEF PduOf
  <2>2. /\ table \in [AtHals -> Tables]
        /\ \A g \in AtHals : Enters(table[g], g, hal, callbacks, owner, event)
    BY DEF EventsInv, Types, Entered
  <2>3. CanLeave(table, hal, callbacks, owner, o, c)
    BY <1>4, <2>1, <2>2 DEF CanLeave
  <2>4. T = OffOf(table, hal[o], c)
    BY <1>1 DEF OffOf, Unregister
  <2> HIDE DEF T
  <2>5. T \in [AtHals -> Tables] /\ Leaves(table, T, ToSet(c))
    BY <2>2, <2>3, <2>4, Off
  <2>6. QED
    BY <2>5
<1> HIDE DEF T, X
<1>6. /\ hal' \in [Objects -> Hals \cup {None}] /\ hal'[o] = h
      /\ \A q \in Objects : q # o => hal'[q] = hal[q]
  BY <1>2 DEF EventsInv, Types
<1>7. \A q \in Objects : q # o => \A k \in ToSet(callbacks[q]) : k \notin X
  <2>1. SUFFICES ASSUME NEW q \in Objects, q # o, NEW k \in ToSet(callbacks[q]), k \in X
                 PROVE  FALSE
    OBVIOUS
  <2>2. owner[k] = q
    BY ListFacts
  <2>3. QED
    BY <1>4, <2>1, <2>2
<1>8. /\ dropped' \in SUBSET live
      /\ \A k : k \notin X => (k \in dropped' <=> k \in dropped)
  <2>1. dropped \in SUBSET live /\ X \subseteq live
    BY <1>4 DEF EventsInv, Types
  <2>2. Refused(T[h], c, event) \subseteq X
    BY DEF Refused, X
  <2>3. QED
    BY <1>2, <2>1, <2>2
\* In between, no table holds a callback of o.
<1>9. ASSUME NEW g \in AtHals
      PROVE  /\ Enters(T[g], g, hal', callbacks, owner, event)
             /\ \A p : \A k \in ToSet(Items(T[g], p)) : k \notin X /\ owner[k] # o
  <2>1. table \in [AtHals -> Tables]
    BY DEF EventsInv, Types
  <2>2. PICK t \in Tables, u \in Tables : t = table[g] /\ u = T[g] /\ RestOf(t, u, X)
    BY <1>5, <2>1, LeavesPart
  <2>3. Held(t, g)
    BY <2>2, ItemFacts
  <2>4. \A p : \A k \in ToSet(Items(t, p)) : owner[k] \in Objects /\ k \in ToSet(callbacks[owner[k]])
    BY <2>3 DEF Held
  <2>5. \A p : \A k \in ToSet(Items(u, p)) : /\ k \notin X /\ owner[k] # o /\ owner[k] \in Objects
                                             /\ k \in ToSet(callbacks[owner[k]])
    <3>1. \A p : \A k \in ToSet(Items(u, p)) : k \in ToSet(Items(t, p)) /\ k \notin X
      BY <2>2 DEF RestOf
    <3>2. QED
      BY <1>1, <2>4, <3>1 DEF X
  <2>6. \A p \in DOMAIN u : \A k \in ToSet(u[p].items) :
          k \in ToSet(callbacks[owner[k]]) /\ hal'[owner[k]] = hal[owner[k]]
    BY <1>6, <2>5 DEF Items
  <2>7. Enters(t, g, hal, callbacks, owner, event)
    BY <2>3 DEF Held
  <2>8. Enters(u, g, hal', callbacks, owner, event)
    BY <2>2, <2>6, <2>7, EntersPart DEF RestOf
  <2>9. QED
    BY <2>2, <2>5, <2>8
<1>10. ASSUME NEW q \in objects \ {o}, hal'[q] \in AtHals
       PROVE  Mirrors(T[hal'[q]], callbacks[q], q, owner, event, dropped')
  <2>1. q \in Objects /\ q # o /\ hal'[q] = hal[q] /\ hal[q] \in AtHals
    BY <1>6, <1>10 DEF EventsInv, Types
  <2>2. PICK t \in Tables, u \in Tables : t = table[hal[q]] /\ u = T[hal[q]]
    BY <1>5, <2>1 DEF EventsInv, Types
  <2>3. Without(t, u, X)
    BY <1>5, <2>1, <2>2 DEF Leaves
  <2>4. PICK a \in Seq(Cbs) : a = callbacks[q]
    BY <2>1, ListFacts
  <2>5. Mirrors(t, a, q, owner, event, dropped)
    BY <2>1, <2>2, <2>4 DEF EventsInv, Mirrored
  <2>6. Left(a, a, X, dropped, dropped')
    BY <1>7, <1>8, <2>1, <2>4 DEF Left
  <2>7. Mirrors(u, a, q, owner, event, dropped')
    BY <2>3, <2>5, <2>6, MirrorsPart
  <2>8. QED
    BY <2>1, <2>2, <2>4, <2>7
<1>11. ASSUME h \in AtHals
       PROVE  Mirrors(T[h], <<>>, o, owner, event, dropped')
  <2>1. PICK t \in Tables : t = T[h]
    BY <1>5, <1>11
  <2>2. \A p : \A k \in ToSet(Items(t, p)) : owner[k] # o
    BY <1>9, <1>11, <2>1
  <2>3. Mirrors(t, <<>>, o, owner, event, dropped')
    BY <2>2, MirrorsNone
  <2>4. QED
    BY <2>1, <2>3
<1>12. /\ table' \in [AtHals -> Tables] /\ Grows(T, table')
       /\ \A g \in AtHals : Enters(table'[g], g, hal', callbacks, owner, event)
       /\ h \in AtHals => Mirrors(table'[h], callbacks[o], o, owner, event, dropped')
       /\ \A q \in objects \ {o} : hal'[q] \in AtHals =>
            Mirrors(table'[hal'[q]], callbacks[q], q, owner, event, dropped')
  <2>1. CASE h \in AtHals
    <3>1. table' = [T EXCEPT ![h] = AddNotifications(@, c, event)]
      BY <1>2, <2>1
    <3>2. PICK e \in Seq(Cbs) : e = <<>>
      <4>1. <<>> \in Seq(Cbs)
        OBVIOUS
      <4>2. QED
        BY <4>1
    <3>3. callbacks[o] = e \o c /\ Mirrors(T[h], e, o, owner, event, dropped')
      <4>1. Cat(e, c) = c
        BY <3>2, CatProperties
      <4>2. QED
        BY <1>1, <1>11, <2>1, <3>2, <4>1 DEF Cat
    <3>4. hal'[o] = h /\ Ordered(c, Different)
      BY <1>1, <1>6, ListFacts
    <3>5. \A k \in ToSet(c) : owner[k] = o /\ k \in ToSet(callbacks[o]) /\ event[k] \in Events
      BY <1>1, <1>4 DEF X
    <3>6. \A k \in ToSet(c) : k \in dropped' <=> k \in Refused(T[h], c, event)
      BY <1>2, <2>1 DEF X
    <3>7. \A p : \A k \in ToSet(Items(T[h], p)) : k \notin ToSet(c)
      BY <1>9, <2>1 DEF X
    <3>8. \A q \in objects \ {o} : q # o /\
            (hal'[q] \in AtHals => Mirrors(T[hal'[q]], callbacks[q], q, owner, event, dropped'))
      BY <1>10
    <3>9. CanLink(T, hal', callbacks, owner, event, dropped', o, h, c, e, objects \ {o})
      BY <1>9, <3>3, <3>4, <3>5, <3>6, <3>7, <3>8 DEF CanLink
    <3>10. /\ table' \in [AtHals -> Tables] /\ Grows(T, table')
           /\ HasLinked(table', hal', callbacks, owner, event, dropped', o, h, objects \ {o})
      BY <1>5, <2>1, <3>1, <3>9, On
    <3>11. QED
      BY <3>10 DEF HasLinked
  <2>2. CASE h \notin AtHals
    <3>1. table' = T
      BY <1>2, <2>2
    <3>2. Grows(T, T)
      BY <1>5, GrowsSame
    <3>3. QED
      BY <1>5, <1>9, <1>10, <2>2, <3>1, <3>2
  <2>3. QED
    BY <2>1, <2>2
<1>13. Listed'
  BY <1>3 DEF EventsInv, Listed
<1>14. Entered'
  BY <1>3, <1>12 DEF Entered
<1>15. Mirrored'
  <2>1. SUFFICES ASSUME NEW q \in objects, hal'[q] \in AtHals
                 PROVE  Mirrors(table'[hal'[q]], callbacks[q], q, owner, event, dropped')
    BY <1>3 DEF Mirrored
  <2>2. CASE q = o
    BY <1>6, <1>12, <2>1, <2>2
  <2>3. CASE q # o
    BY <1>12, <2>1, <2>3
  <2>4. QED
    BY <2>2, <2>3
<1>16. Waits'
  <2>1. table \in [AtHals -> Tables] /\ InUse(table, pduNoti)
    BY DEF EventsInv, Types, Waits
  <2>2. InUse(table', pduNoti)
    BY <1>5, <1>12, <2>1, WaitsShrink
  <2>3. QED
    BY <1>3, <2>2 DEF Waits
<1>17. (InCallback' => walk' \in WalkType) /\ (~InCallback' => walk' = Idle) /\ Walks'
  <2>1. \A q \in Objects : SubsequenceOf(callbacks'[q], callbacks[q])
    BY <1>3, ListFacts, SameSubsequence
  <2>2. callbacks' \in [Objects -> Seq(Cbs)] /\ \A q \in Objects : Ordered(callbacks'[q], Different)
    BY <1>3 DEF EventsInv, Types, Listed
  <2>3. walk' = Walked(T, callbacks')
    BY <1>3
  <2>4. QED
    BY <1>3, <1>5, <1>12, <1>14, <2>1, <2>2, <2>3, WalkShrinks
<1>18. Types'
  BY <1>3, <1>6, <1>8, <1>12, <1>17 DEF EventsInv, Types
<1>19. QED
  BY <1>13, <1>14, <1>15, <1>16, <1>17, <1>18 DEF EventsInv

-----------------------------------------------------------------------------
(* Emissions *)

\* An emission over the list s begins, or is over at once.
LEMMA Begun ==
  ASSUME NEW list \in AtLists \cup CoLists, NEW s \in Seq(Cbs), Ordered(s, Different),
         Start(list, s), event' = event
  PROVE  /\ InCallback' => /\ walk' \in WalkType /\ walk'.list = list
                           /\ GoodWalk(walk', s, Done(walk)') /\ Contains(s, walk'.at)
         /\ ~InCallback' => walk' = Idle
<1>1. PICK w : w = walk'
  OBVIOUS
<1>2. w = IF From(list, s, 1) = None THEN Idle ELSE Visit(list, s, From(list, s, 1), {})
  BY <1>1 DEF Start
<1>3. w # Idle => w \in WalkType /\ w.list = list /\ GoodWalk(w, s, Done(w))
  BY <1>2, StartGood
<1>4. w # Idle => ~w.cut
  BY <1>2 DEF Visit
<1>5. w # Idle => Contains(s, w.at)
  BY <1>3, <1>4 DEF GoodWalk
<1>6. InCallback' <=> w # Idle
  <2>1. w # Idle => w.at # None
    BY <1>3, EventsAssumption DEF WalkType
  <2>2. w = Idle => w.at = None
    BY DEF Idle
  <2>3. QED
    BY <1>1, <2>1, <2>2 DEF InCallback
<1>7. Done(walk)' = Done(w)
  BY <1>1 DEF Done, Unwanted, Wanted
<1>8. QED
  BY <1>1, <1>3, <1>5, <1>6, <1>7

\* From T to T2 entries without callbacks go.
Fewer(T, T2) ==
  \A g \in AtHals :
    /\ DOMAIN T2[g] \subseteq DOMAIN T[g]
    /\ \A q \in DOMAIN T2[g] : T2[g][q].pdu = T[g][q].pdu
    /\ \A q \in DOMAIN T[g] : T[g][q].pdu => q \in DOMAIN T2[g]
    /\ \A q : Items(T2[g], q) = Items(T[g], q)

LEMMA FewerSame ==
  ASSUME NEW T
  PROVE  Fewer(T, T)
BY DEF Fewer

LEMMA OneFewer ==
  ASSUME NEW T \in [AtHals -> Tables], NEW h \in AtHals, NEW p \in DOMAIN T[h],
         ~T[h][p].pdu, T[h][p].items = <<>>,
         NEW T2, T2 = [T EXCEPT ![h] = [q \in DOMAIN @ \ {p} |-> @[q]]]
  PROVE  T2 \in [AtHals -> Tables] /\ Fewer(T, T2)
<1>1. PICK t \in Tables : t = T[h]
  OBVIOUS
<1> DEFINE D == DOMAIN t \ {p}
           u == [q \in D |-> t[q]]
<1>2. DOMAIN u = D /\ \A q \in D : u[q] = t[q]
  OBVIOUS
<1>3. u \in Tables
  <2>1. DOMAIN t \in SUBSET Names /\ \A q \in DOMAIN t : t[q] \in EntryType
    BY TableType
  <2>2. u \in [D -> EntryType] /\ D \in SUBSET Names
    BY <2>1
  <2>3. QED
    BY <2>2 DEF Tables
<1>4. T2 = [g \in AtHals |-> IF g = h THEN u ELSE T[g]]
  BY <1>1
<1> HIDE DEF u
<1>5. T2 \in [AtHals -> Tables] /\ T2[h] = u /\ \A g \in AtHals : g # h => T2[g] = T[g]
  BY <1>3, <1>4
<1>6. \A q : Items(u, q) = Items(t, q)
  BY <1>1, <1>2 DEF Items
<1>7. \A q \in DOMAIN t : t[q].pdu => q \in DOMAIN u
  BY <1>1, <1>2
<1>8. QED
  BY <1>1, <1>2, <1>5, <1>6, <1>7 DEF Fewer

\* Nothing that the proofs are about depends on them.
LEMMA FewerKeeps ==
  ASSUME NEW T \in [AtHals -> Tables], NEW T2 \in [AtHals -> Tables], Fewer(T, T2),
         NEW g \in AtHals
  PROVE  /\ \A hl, cb, ow, ev : Enters(T[g], g, hl, cb, ow, ev) => Enters(T2[g], g, hl, cb, ow, ev)
         /\ \A c, o, ow, ev, dr : Mirrors(T[g], c, o, ow, ev, dr) => Mirrors(T2[g], c, o, ow, ev, dr)
<1>1. /\ DOMAIN T2[g] \subseteq DOMAIN T[g]
      /\ \A q \in DOMAIN T2[g] : T2[g][q].pdu = T[g][q].pdu
      /\ \A q : Items(T2[g], q) = Items(T[g], q)
  BY DEF Fewer
<1>2. \A q \in DOMAIN T2[g] : T2[g][q].items = T[g][q].items
  BY <1>1 DEF Items
<1>3. QED
  BY <1>1, <1>2 DEF Enters, Mirrors

LEMMA FewerInUse ==
  ASSUME NEW T, NEW T2, Fewer(T, T2), NEW noti, InUse(T, noti)
  PROVE  InUse(T2, noti)
BY DEF Fewer, InUse

\* Only the walk and the empty entries change.
LEMMA LineKeeps ==
  ASSUME EventsInv, NEW h \in AtHals, NEW p, Line(h, p)
  PROVE  EventsInv'
<1>1. /\ ~InCallback /\ pduNoti[h] = None /\ p \in DOMAIN table[h]
      /\ objects' = objects /\ hal' = hal /\ callbacks' = callbacks /\ dropped' = dropped
      /\ live' = live /\ owner' = owner /\ event' = event
  BY DEF Line, cbVars
<1>2. PICK t \in Tables : t = table[h] /\ Held(t, h)
  BY ItemFacts
<1>3. table \in [AtHals -> Tables] /\ p \in Names /\ t[p].items \in Seq(Cbs) /\ InUse(table, pduNoti)
  BY <1>1, <1>2, TableType DEF EventsInv, Types, Waits
<1>4. /\ table' \in [AtHals -> Tables] /\ Fewer(table, table') /\ InUse(table', pduNoti')
      /\ pduNoti' \in [AtHals -> Names \cup {None}]
      /\ (InCallback' => walk' \in WalkType) /\ (~InCallback' => walk' = Idle) /\ Walks'
  <2>1. CASE table[h][p].pdu
    <3>1. pduNoti' = [pduNoti EXCEPT ![h] = p] /\ table' = table /\ walk' = walk
      BY <2>1 DEF Line
    <3>2. pduNoti' \in [AtHals -> Names \cup {None}] /\ pduNoti'[h] = p
          /\ \A g \in AtHals : g # h => pduNoti'[g] = pduNoti[g]
      BY <1>3, <3>1 DEF EventsInv, Types
    <3>3. InUse(table, pduNoti')
      BY <1>1, <1>3, <2>1, <3>2 DEF InUse
    <3>4. Walks' /\ ~InCallback' /\ walk' = Idle
      BY <1>1, <3>1, NoWalk DEF EventsInv
    <3>5. QED
      BY <1>3, <3>1, <3>2, <3>3, <3>4, FewerSame
  <2>2. CASE ~table[h][p].pdu
    <3> DEFINE s == t[p].items
               list == AtList(h, p)
    <3>1. /\ Start(list, s) /\ pduNoti' = pduNoti
          /\ table' = IF s # <<>> THEN table
                      ELSE [table EXCEPT ![h] = [q \in DOMAIN @ \ {p} |-> @[q]]]
      BY <1>2, <2>2 DEF Line
    <3>2. list \in AtLists \cup CoLists /\ list.kind = "at" /\ list.of = h /\ list.prefix = p
      BY <1>3 DEF AtList, AtLists
    <3>3. Ordered(s, Different)
      BY <1>1, <1>2 DEF Held, Enters
    <3> HIDE DEF list, s
    <3>4. /\ InCallback' => /\ walk' \in WalkType /\ walk'.list = list
                            /\ GoodWalk(walk', s, Done(walk)') /\ Contains(s, walk'.at)
          /\ ~InCallback' => walk' = Idle
      BY <1>1, <1>3, <3>1, <3>2, <3>3, Begun DEF s
    <3>5. table' \in [AtHals -> Tables] /\ Fewer(table, table')
      <4>1. CASE s # <<>>
        BY <1>3, <3>1, <4>1, FewerSame
      <4>2. CASE s = <<>>
        BY <1>1, <1>2, <1>3, <2>2, <3>1, <4>2, OneFewer DEF s
      <4>3. QED
        BY <4>1, <4>2
    <3>6. InUse(table', pduNoti')
      BY <1>3, <3>1, <3>5, FewerInUse
    <3>7. Walks'
      <4>1. SUFFICES ASSUME InCallback'
                     PROVE  /\ GoodWalk(walk', ListOf(walk, table, callbacks)', Done(walk)')
                            /\ walk'.list.kind = "at" =>
                                 /\ walk'.list.prefix \in DOMAIN table'[walk'.list.of]
                                 /\ pduNoti'[walk'.list.of] = None
        BY DEF Walks
      <4>2. walk'.list = list /\ GoodWalk(walk', s, Done(walk)') /\ Contains(s, walk'.at)
        BY <3>4, <4>1
      <4>3. s # <<>>
        <5>1. Len(<<>>) = 0
          OBVIOUS
        <5>2. QED
          BY <4>2, <5>1 DEF Contains
      <4>4. table' = table
        BY <3>1, <4>3
      <4>5. ListOf(walk, table, callbacks)' = s
        BY <1>1, <1>2, <3>2, <4>2, <4>4 DEF ListOf, Items, s
      <4>6. QED
        BY <1>1, <3>1, <3>2, <4>2, <4>4, <4>5
    <3>8. QED
      BY <3>1, <3>4, <3>5, <3>6, <3>7 DEF EventsInv, Types
  <2>3. QED
    BY <2>1, <2>2
<1>5. Listed'
  BY <1>1 DEF EventsInv, Listed
<1>6. Entered'
  BY <1>1, <1>3, <1>4, FewerKeeps DEF EventsInv, Entered
<1>7. Mirrored'
  BY <1>1, <1>3, <1>4, FewerKeeps DEF EventsInv, Mirrored
<1>8. Waits'
  BY <1>4 DEF Waits
<1>9. Types'
  BY <1>1, <1>4 DEF EventsInv, Types
<1>10. QED
  BY <1>4, <1>5, <1>6, <1>7, <1>8, <1>9 DEF EventsInv

LEMMA PduLineKeeps ==
  ASSUME EventsInv, NEW h \in AtHals, PduLine(h)
  PROVE  EventsInv'
<1>1. PICK p : p = pduNoti[h]
  OBVIOUS
<1>2. PICK t \in Tables : t = table[h] /\ Held(t, h)
  BY ItemFacts
<1>3. p \in DOMAIN t /\ p \in Names /\ t[p].items \in Seq(Cbs) /\ InUse(table, pduNoti)
  BY <1>1, <1>2, TableType DEF EventsInv, Waits, InUse, PduLine
<1> DEFINE s == t[p].items
           list == AtList(h, p)
<1>4. /\ Start(list, s) /\ pduNoti' = [pduNoti EXCEPT ![h] = None]
      /\ objects' = objects /\ hal' = hal /\ callbacks' = callbacks /\ dropped' = dropped
      /\ live' = live /\ owner' = owner /\ event' = event /\ table' = table
  BY <1>1, <1>2 DEF PduLine, cbVars
<1>5. /\ pduNoti' \in [AtHals -> Names \cup {None}] /\ pduNoti'[h] = None
      /\ \A g \in AtHals : g # h => pduNoti'[g] = pduNoti[g]
  BY <1>4 DEF EventsInv, Types
<1>6. list \in AtLists \cup CoLists /\ list.kind = "at" /\ list.of = h /\ list.prefix = p
  BY <1>3 DEF AtList, AtLists
<1>7. Ordered(s, Different)
  BY <1>2, <1>3 DEF Held, Enters
<1> HIDE DEF list, s
<1>8. /\ InCallback' => /\ walk' \in WalkType /\ walk'.list = list
                        /\ GoodWalk(walk', s, Done(walk)') /\ Contains(s, walk'.at)
      /\ ~InCallback' => walk' = Idle
  BY <1>3, <1>4, <1>6, <1>7, Begun DEF s
<1>9. Walks'
  <2>1. SUFFICES ASSUME InCallback'
                 PROVE  /\ GoodWalk(walk', ListOf(walk, table, callbacks)', Done(walk)')
                        /\ walk'.list.kind = "at" =>
                             /\ walk'.list.prefix \in DOMAIN table'[walk'.list.of]
                             /\ pduNoti'[walk'.list.of] = None
    BY DEF Walks
  <2>2. walk'.list = list /\ GoodWalk(walk', s, Done(walk)')
    BY <1>8, <2>1
  <2>3. ListOf(walk, table, callbacks)' = s
    BY <1>2, <1>3, <1>4, <1>6, <2>2 DEF ListOf, Items, s
  <2>4. QED
    BY <1>2, <1>3, <1>4, <1>5, <1>6, <2>2, <2>3
<1>10. Waits'
  BY <1>3, <1>4, <1>5 DEF Waits, InUse
<1>11. Listed' /\ Entered' /\ Mirrored'
  BY <1>4 DEF EventsInv, Listed, Entered, Mirrored
<1>12. Types'
  BY <1>4, <1>5, <1>8 DEF EventsInv, Types
<1>13. QED
  BY <1>9, <1>10, <1>11, <1>12 DEF EventsInv

LEMMA EmitKeeps ==
  ASSUME EventsInv, NEW o \in Objects, NEW e \in Events, Emit(o, e)
  PROVE  EventsInv'
<1>1. PICK s \in Seq(Cbs) : s = callbacks[o] /\ Ordered(s, Different)
  BY ListFacts
<1> DEFINE list == CoList(o, e)
<1>2. /\ Start(list, s) /\ pduNoti' = pduNoti
      /\ objects' = objects /\ hal' = hal /\ callbacks' = callbacks /\ dropped' = dropped
      /\ live' = live /\ owner' = owner /\ event' = event /\ table' = table
  BY <1>1 DEF Emit, cbVars
<1>3. list \in AtLists \cup CoLists /\ list.kind = "co" /\ list.of = o
  BY DEF CoList, CoLists
<1> HIDE DEF list
<1>4. /\ InCallback' => /\ walk' \in WalkType /\ walk'.list = list
                        /\ GoodWalk(walk', s, Done(walk)') /\ Contains(s, walk'.at)
      /\ ~InCallback' => walk' = Idle
  BY <1>1, <1>2, <1>3, Begun
<1>5. Walks'
  <2>1. SUFFICES ASSUME InCallback'
                 PROVE  /\ GoodWalk(walk', ListOf(walk, table, callbacks)', Done(walk)')
                        /\ walk'.list.kind # "at"
    BY DEF Walks
  <2>2. walk'.list = list /\ GoodWalk(walk', s, Done(walk)')
    BY <1>4, <2>1
  <2>3. ListOf(walk, table, callbacks)' = s
    BY <1>1, <1>2, <1>3, <2>2 DEF ListOf
  <2>4. QED
    BY <1>3, <2>2, <2>3
<1>6. Listed' /\ Entered' /\ Mirrored' /\ Waits'
  BY <1>2 DEF EventsInv, Listed, Entered, Mirrored, Waits
<1>7. Types'
  BY <1>2, <1>4 DEF EventsInv, Types
<1>8. QED
  BY <1>5, <1>6, <1>7 DEF EventsInv

\* A callback has returned, r is what is left of the list s that is walked.
LEMMA WentOn ==
  ASSUME EventsInv, InCallback, event' = event,
         NEW s, s = ListOf(walk, table, callbacks), NEW k \in Onward(s),
         walk' = IF k = None THEN Idle ELSE Visit(walk.list, s, k, walk.called),
         NEW r, r = s \/ (~walk.cut /\ r = Keep(s, Cbs \ {walk.at}))
  PROVE  /\ InCallback' => /\ walk' \in WalkType /\ walk'.list = walk.list
                           /\ GoodWalk(walk', r, Done(walk)')
         /\ ~InCallback' => walk' = Idle
         /\ k = None <=> ~InCallback'
         /\ ~InCallback' /\ ~walk.cut => ToSet(s) \subseteq Done(walk)
<1>1. PICK w \in WalkType : w = walk
  BY DEF EventsInv, Types
<1>2. PICK v : v = walk'
  OBVIOUS
<1>3. PICK a \in Seq(Cbs) : a = s /\ Ordered(a, Different)
  <2>1. /\ table \in [AtHals -> Tables] /\ callbacks \in [Objects -> Seq(Cbs)]
        /\ \A h \in AtHals : Enters(table[h], h, hal, callbacks, owner, event)
        /\ \A o \in Objects : Ordered(callbacks[o], Different)
    BY DEF EventsInv, Types, Entered, Listed
  <2>2. s \in Seq(Cbs) /\ Ordered(s, Different)
    BY <1>1, <2>1, ListType, ListOrdered
  <2>3. QED
    BY <2>2
<1>4. GoodWalk(w, a, Done(w))
  BY <1>1, <1>3 DEF EventsInv, Walks
<1>5. k \in IF w.cut THEN {None, w.next} ELSE {From(w.list, a, Position(a, w.at) + 1)}
  BY <1>1, <1>3 DEF Onward
<1>6. r = a \/ (~w.cut /\ r = Keep(a, Cbs \ {w.at}))
  BY <1>1, <1>3
<1>7. v = IF k = None THEN Idle ELSE Visit(w.list, a, k, w.called)
  BY <1>1, <1>2, <1>3
<1>8. /\ k = None /\ ~w.cut => ToSet(a) \subseteq Done(w)
      /\ k # None => v \in WalkType /\ v.list = w.list /\ GoodWalk(v, r, Done(v))
  BY <1>3, <1>4, <1>5, <1>6, <1>7, OnwardGood
<1>9. k = None <=> ~InCallback'
  <2>1. k # None => v.at # None
    BY <1>8, EventsAssumption DEF WalkType
  <2>2. k = None => v.at = None
    BY <1>7 DEF Idle
  <2>3. QED
    BY <1>2, <2>1, <2>2 DEF InCallback
<1>10. Done(walk)' = Done(v)
  BY <1>2 DEF Done, Unwanted, Wanted
<1>11. QED
  BY <1>1, <1>2, <1>3, <1>7, <1>8, <1>9, <1>10

\* The callback that is called leaves the entry that is walked: it is in no other.
LEMMA OneLeaves ==
  ASSUME EventsInv, InCallback, walk.list.kind = "at", ~walk.cut,
         NEW h \in AtHals, h = walk.list.of, NEW p, p = walk.list.prefix, ~table[h][p].pdu,
         NEW T, T = [table EXCEPT ![h] = SetItems(@, p, Keep(Items(table[h], p), Cbs \ {walk.at}))]
  PROVE  /\ T \in [AtHals -> Tables] /\ Leaves(table, T, {walk.at})
         /\ walk.at \in live /\ Items(T[h], p) = Keep(Items(table[h], p), Cbs \ {walk.at})
<1>1. PICK t \in Tables : t = table[h] /\ Held(t, h)
  BY ItemFacts
<1>2. PICK a \in Seq(Cbs) : a = Items(t, p)
  BY TableType
<1>3. PICK k \in Cbs : k = walk.at
  BY DEF EventsInv, Types, WalkType
<1>4. p \in DOMAIN t /\ a = t[p].items
  BY <1>1, <1>2 DEF EventsInv, Walks, Items
<1>5. k \in ToSet(a)
  <2>1. GoodWalk(walk, a, Done(walk))
    BY <1>1, <1>2 DEF EventsInv, Walks, ListOf
  <2>2. Contains(a, k)
    BY <1>3, <2>1 DEF GoodWalk
  <2>3. QED
    BY <2>2, ContainsSet
<1>6. k \in live /\ hal[owner[k]] = h /\ event[k] = [prefix |-> p, pdu |-> t[p].pdu]
  BY <1>1, <1>2, <1>5 DEF Held
<1> DEFINE Y == Cbs \ {k}
           r == Keep(a, Y)
           u == [t EXCEPT ![p].items = r]
<1>7. /\ r \in Seq(Cbs) /\ t[p] \in EntryType /\ t \in [DOMAIN t -> EntryType]
      /\ DOMAIN t \in SUBSET Names
  BY <1>4, KeepType, TableType
<1> HIDE DEF r
<1>8. /\ u \in [DOMAIN t -> EntryType] /\ DOMAIN u = DOMAIN t /\ u[p].items = r
      /\ \A q \in DOMAIN t : u[q].pdu = t[q].pdu /\ (q # p => u[q] = t[q])
  BY <1>4, <1>7 DEF EntryType
<1>9. u \in Tables
  BY <1>7, <1>8 DEF Tables
<1>10. T = [g \in AtHals |-> IF g = h THEN u ELSE table[g]]
  BY <1>1, <1>2, <1>3 DEF EventsInv, Types, SetItems, r
<1> HIDE DEF u
<1>11. /\ T \in [AtHals -> Tables] /\ T[h] = u
       /\ \A g \in AtHals : g # h => T[g] = table[g]
  BY <1>9, <1>10 DEF EventsInv, Types
<1>12. ASSUME NEW g \in AtHals, NEW q, g # h \/ q # p
       PROVE  Items(T[g], q) = Items(table[g], q) /\ Keep(Items(table[g], q), Y) = Items(table[g], q)
  <2>1. PICK v \in Tables : v = table[g] /\ Held(v, g)
    BY ItemFacts
  <2>2. PICK b \in Seq(Cbs) : b = Items(v, q)
    BY TableType
  <2>3. k \notin ToSet(b)
    <3>1. SUFFICES ASSUME k \in ToSet(b) PROVE FALSE
      OBVIOUS
    <3>2. hal[owner[k]] = g /\ event[k] = [prefix |-> q, pdu |-> v[q].pdu]
      BY <2>1, <2>2, <3>1 DEF Held
    <3>3. event[k].prefix = q /\ event[k].prefix = p
      BY <1>6, <3>2
    <3>4. QED
      BY <1>6, <1>12, <3>2, <3>3
  <2>4. \A i \in 1..Len(b) : b[i] \in Y
    BY <2>3, SetOf
  <2> HIDE DEF Y
  <2>5. Keep(b, Y) = b
    BY <2>4, KeepAll
  <2>6. Items(T[g], q) = Items(table[g], q)
    <3>1. CASE g = h
      BY <1>1, <1>8, <1>11, <1>12, <3>1 DEF Items
    <3>2. CASE g # h
      BY <1>11, <3>2
    <3>3. QED
      BY <3>1, <3>2
  <2>7. QED
    BY <2>1, <2>2, <2>5, <2>6
<1>13. Items(T[h], p) = Keep(Items(table[h], p), Y)
  BY <1>1, <1>2, <1>4, <1>8, <1>11 DEF Items, r
<1> HIDE DEF Y
<1>14. \A g \in AtHals : \A q : Items(T[g], q) = Keep(Items(table[g], q), Y)
  BY <1>12, <1>13
<1>15. ASSUME NEW g \in AtHals
       PROVE  /\ DOMAIN T[g] = DOMAIN table[g]
              /\ \A q \in DOMAIN table[g] : T[g][q].pdu = table[g][q].pdu
              /\ \A q \in DOMAIN table[g] : table[g][q].pdu => Items(T[g], q) = Items(table[g], q)
  <2>1. DOMAIN T[g] = DOMAIN table[g] /\ \A q \in DOMAIN table[g] : T[g][q].pdu = table[g][q].pdu
    <3>1. CASE g = h
      BY <1>1, <1>8, <1>11, <3>1
    <3>2. CASE g # h
      BY <1>11, <3>2
    <3>3. QED
      BY <3>1, <3>2
  <2>2. ASSUME NEW q \in DOMAIN table[g], table[g][q].pdu PROVE Items(T[g], q) = Items(table[g], q)
    <3>1. g # h \/ q # p
      BY <2>2
    <3>2. QED
      BY <1>12, <3>1
  <2>3. QED
    BY <2>1, <2>2
<1>16. Leaves(table, T, {k})
  BY <1>14, <1>15 DEF Leaves, Without, Y
<1>17. QED
  BY <1>3, <1>6, <1>11, <1>13, <1>16 DEF Y

\* The callbacks X have left the tables, and stay allocated as dropped ones.
LEMMA LeftTables ==
  ASSUME EventsInv, NEW T \in [AtHals -> Tables], NEW X, X \subseteq live, Leaves(table, T, X),
         NEW dr, dr = dropped \cup X
  PROVE  /\ \A g \in AtHals : Enters(T[g], g, hal, callbacks, owner, event)
         /\ \A o \in objects : hal[o] \in AtHals =>
              Mirrors(T[hal[o]], callbacks[o], o, owner, event, dr)
         /\ InUse(T, pduNoti)
<1>1. table \in [AtHals -> Tables] /\ InUse(table, pduNoti)
  BY DEF EventsInv, Types, Waits
<1>2. ASSUME NEW g \in AtHals PROVE Enters(T[g], g, hal, callbacks, owner, event)
  <2>1. PICK t \in Tables, u \in Tables : t = table[g] /\ u = T[g] /\ RestOf(t, u, X)
    BY <1>1, LeavesPart
  <2>2. Held(t, g)
    BY <2>1, ItemFacts
  <2>3. \A p : \A k \in ToSet(Items(u, p)) : k \in ToSet(callbacks[owner[k]])
    BY <2>1, <2>2 DEF Held, RestOf
  <2>4. \A p \in DOMAIN u : \A k \in ToSet(u[p].items) : k \in ToSet(callbacks[owner[k]])
    BY <2>3 DEF Items
  <2>5. Enters(t, g, hal, callbacks, owner, event)
    BY <2>2 DEF Held
  <2>6. Enters(u, g, hal, callbacks, owner, event)
    BY <2>1, <2>4, <2>5, EntersPart DEF RestOf
  <2>7. QED
    BY <2>1, <2>6
<1>3. ASSUME NEW o \in objects, hal[o] \in AtHals
      PROVE  Mirrors(T[hal[o]], callbacks[o], o, owner, event, dr)
  <2>1. o \in Objects
    BY DEF EventsInv, Types
  <2>2. PICK t \in Tables, u \in Tables : t = table[hal[o]] /\ u = T[hal[o]]
    BY <1>1, <1>3
  <2>3. Without(t, u, X)
    BY <1>3, <2>2 DEF Leaves
  <2>4. PICK a \in Seq(Cbs) : a = callbacks[o]
    BY <2>1, ListFacts
  <2>5. Mirrors(t, a, o, owner, event, dropped)
    BY <1>3, <2>2, <2>4 DEF EventsInv, Mirrored
  <2>6. Left(a, a, X, dropped, dr)
    BY DEF Left
  <2>7. Mirrors(u, a, o, owner, event, dr)
    BY <2>3, <2>5, <2>6, MirrorsPart
  <2>8. QED
    BY <2>2, <2>4, <2>7
<1>4. InUse(T, pduNoti)
  BY <1>1, GrowsSame, WaitsShrink
<1>5. QED
  BY <1>2, <1>3, <1>4

\* An AT channel has called.
Gone(T, h, p) == [T EXCEPT ![h] = [q \in DOMAIN @ \ {p} |-> @[q]]]

LEMMA AtReturnKeeps ==
  ASSUME EventsInv, NEW keep \in BOOLEAN, Return(keep), walk.list.kind = "at"
  PROVE  EventsInv'
<1>1. PICK h \in AtHals : h = walk.list.of
  BY DEF Return, EventsInv, Types, WalkType, AtLists, CoLists
<1>2. PICK p : p = walk.list.prefix
  OBVIOUS
<1>3. PICK t \in Tables : t = table[h] /\ Held(t, h)
  BY ItemFacts
<1>4. PICK s \in Seq(Cbs) : s = Items(t, p)
  BY TableType
<1>5. /\ InCallback /\ p \in DOMAIN t /\ pduNoti[h] = None
      /\ s = ListOf(walk, table, callbacks) /\ s = ListNow(table, callbacks)
  BY <1>1, <1>2, <1>3, <1>4 DEF Return, EventsInv, Walks, ListOf, ListNow
<1>6. PICK k : k = walk.at /\ k \in Cbs
  BY <1>5 DEF EventsInv, Types, WalkType
<1> DEFINE goes == ~keep /\ ~walk.cut
           r == IF keep \/ walk.cut THEN s ELSE Keep(s, Cbs \ {k})
           T == [table EXCEPT ![h] = SetItems(@, p, r)]
           X == IF goes THEN {k} ELSE {}
<1>7. /\ objects' = objects /\ hal' = hal /\ callbacks' = callbacks /\ pduNoti' = pduNoti
      /\ live' = live /\ owner' = owner /\ event' = event
      /\ dropped' = dropped \cup X
      /\ ~keep => ~t[p].pdu
  BY <1>1, <1>2, <1>3, <1>6 DEF Return, MayDrop, cbVars
<1>8. PICK n \in Onward(s) :
        /\ walk' = IF n = None THEN Idle ELSE Visit(walk.list, s, n, walk.called)
        /\ table' = IF n = None /\ r = <<>>
                    THEN Gone(T, h, p) ELSE T
  <2> DEFINE a == ListNow(table, callbacks)
             b == IF keep \/ walk.cut THEN a ELSE Keep(a, Cbs \ {walk.at})
             U == [table EXCEPT ![walk.list.of] = SetItems(@, walk.list.prefix, b)]
  <2>1. PICK n \in Onward(a) :
          /\ walk' = IF n = None THEN Idle ELSE Visit(walk.list, a, n, walk.called)
          /\ table' = IF n = None /\ b = <<>>
                      THEN Gone(U, walk.list.of, walk.list.prefix) ELSE U
    BY DEF Return, Gone
  <2>2. r = b
    BY <1>5, <1>6
  <2> HIDE DEF r, b
  <2>3. T = U
    BY <1>1, <1>2, <2>2
  <2> HIDE DEF T, U
  <2>4. QED
    BY <1>1, <1>2, <1>5, <2>1, <2>2, <2>3
<1>9. /\ T \in [AtHals -> Tables] /\ Leaves(table, T, X) /\ X \subseteq live
      /\ Items(T[h], p) = r
  <2>1. CASE goes
    <3>1. r = Keep(Items(table[h], p), Cbs \ {walk.at})
      BY <1>3, <1>4, <1>6, <2>1
    <3> HIDE DEF r
    <3>2. T = [table EXCEPT ![h] = SetItems(@, p, Keep(Items(table[h], p), Cbs \ {walk.at}))]
      BY <3>1
    <3>3. ~walk.cut /\ ~table[h][p].pdu
      BY <1>3, <1>7, <2>1
    <3> HIDE DEF T
    <3>4. /\ T \in [AtHals -> Tables] /\ Leaves(table, T, {walk.at})
          /\ walk.at \in live /\ Items(T[h], p) = Keep(Items(table[h], p), Cbs \ {walk.at})
      BY <1>1, <1>2, <1>5, <3>2, <3>3, OneLeaves
    <3>5. QED
      BY <1>6, <2>1, <3>1, <3>4
  <2>2. CASE ~goes
    <3>1. r = s /\ X = {} /\ s = t[p].items
      BY <1>4, <1>5, <2>2 DEF Items
    <3>2. SetItems(t, p, r) = t
      BY <1>5, <3>1, TableType DEF SetItems, EntryType
    <3>3. table \in [AtHals -> Tables]
      BY DEF EventsInv, Types
    <3> HIDE DEF r
    <3>4. T = table
      BY <1>3, <3>2, <3>3
    <3>5. \A g \in AtHals : Without(table[g], table[g], {})
      <4>1. SUFFICES ASSUME NEW g \in AtHals, NEW q
                     PROVE  Items(table[g], q) = Keep(Items(table[g], q), Cbs \ {})
        BY DEF Without
      <4>2. PICK b \in Seq(Cbs) : b = Items(table[g], q)
        BY <3>3, TableType
      <4> DEFINE Y == Cbs \ {}
      <4>3. \A i \in 1..Len(b) : b[i] \in Y
        BY SetOf
      <4> HIDE DEF Y
      <4>4. Keep(b, Y) = b
        BY <4>3, KeepAll
      <4>5. QED
        BY <4>2, <4>4 DEF Y
    <3>6. Leaves(table, table, {})
      BY <3>5 DEF Leaves
    <3>7. QED
      BY <1>3, <1>4, <3>1, <3>3, <3>4, <3>6
  <2>3. QED
    BY <2>1, <2>2
<1>10. r = s \/ (~walk.cut /\ r = Keep(s, Cbs \ {walk.at}))
  BY <1>6
<1>11. t[p].pdu => r # <<>>
  <2>1. t[p].pdu => s # <<>>
    BY <1>3, <1>4, <1>5 DEF EventsInv, Waits, InUse
  <2>2. QED
    BY <1>7, <2>1
<1> HIDE DEF r, T, X, goes
<1>12. /\ \A g \in AtHals : Enters(T[g], g, hal, callbacks, owner, event)
       /\ \A o \in objects : hal[o] \in AtHals =>
            Mirrors(T[hal[o]], callbacks[o], o, owner, event, dropped')
       /\ InUse(T, pduNoti)
  BY <1>7, <1>9, LeftTables
<1>13. DOMAIN T[h] = DOMAIN t /\ T[h][p].pdu = t[p].pdu /\ T[h][p].items = r
  BY <1>3, <1>5, <1>9 DEF Leaves, Items
<1>14. table' \in [AtHals -> Tables] /\ Fewer(T, table')
  <2>1. CASE n = None /\ r = <<>>
    <3>1. ~T[h][p].pdu /\ T[h][p].items = <<>> /\ p \in DOMAIN T[h]
      BY <1>5, <1>11, <1>13, <2>1
    <3>2. table' = [T EXCEPT ![h] = [q \in DOMAIN @ \ {p} |-> @[q]]]
      BY <1>8, <2>1 DEF Gone
    <3>3. QED
      BY <1>9, <3>1, <3>2, OneFewer
  <2>2. CASE ~(n = None /\ r = <<>>)
    BY <1>8, <1>9, <2>2, FewerSame
  <2>3. QED
    BY <2>1, <2>2
<1>15. /\ InCallback' => /\ walk' \in WalkType /\ walk'.list = walk.list
                         /\ GoodWalk(walk', r, Done(walk)')
       /\ ~InCallback' => walk' = Idle
       /\ n = None <=> ~InCallback'
  BY <1>5, <1>7, <1>8, <1>10, WentOn
<1>16. Walks'
  <2>1. SUFFICES ASSUME InCallback'
                 PROVE  /\ GoodWalk(walk', ListOf(walk, table, callbacks)', Done(walk)')
                        /\ walk'.list.kind = "at" =>
                             /\ walk'.list.prefix \in DOMAIN table'[walk'.list.of]
                             /\ pduNoti'[walk'.list.of] = None
    BY DEF Walks
  <2>2. walk'.list = walk.list /\ GoodWalk(walk', r, Done(walk)') /\ table' = T
    BY <1>8, <1>15, <2>1
  <2>3. ListOf(walk, table, callbacks)' = r
    BY <1>1, <1>2, <1>9, <2>2 DEF ListOf
  <2>4. QED
    BY <1>1, <1>2, <1>5, <1>7, <1>13, <2>2, <2>3
<1>17. Listed'
  BY <1>7 DEF EventsInv, Listed
<1>18. Entered'
  BY <1>7, <1>9, <1>12, <1>14, FewerKeeps DEF Entered
<1>19. Mirrored'
  BY <1>7, <1>9, <1>12, <1>14, FewerKeeps DEF Mirrored
<1>20. Waits'
  BY <1>7, <1>12, <1>14, FewerInUse DEF Waits
<1>21. Types'
  BY <1>7, <1>9, <1>14, <1>15 DEF EventsInv, Types
<1>22. QED
  BY <1>16, <1>17, <1>18, <1>19, <1>20, <1>21 DEF EventsInv

\* An object has called: a careful callback that it drops is in no table.
LEMMA CoReturnKeeps ==
  ASSUME Careful, EventsInv, NEW keep \in BOOLEAN, Return(keep), walk.list.kind # "at"
  PROVE  EventsInv'
<1>1. walk.list \in CoLists /\ InCallback
  BY DEF Return, EventsInv, Types, WalkType, AtLists
<1>2. PICK o \in Objects : o = walk.list.of /\ walk.list.kind = "co"
  BY <1>1 DEF CoLists
<1>3. PICK s \in Seq(Cbs) : s = callbacks[o] /\ Ordered(s, Different)
  BY ListFacts
<1>4. s = ListOf(walk, table, callbacks) /\ s = ListNow(table, callbacks)
  BY <1>2, <1>3 DEF ListOf, ListNow
<1>5. PICK k : k = walk.at /\ k \in Cbs
  BY <1>1 DEF EventsInv, Types, WalkType
<1> DEFINE goes == ~keep /\ ~walk.cut
           r == IF keep \/ walk.cut THEN s ELSE Keep(s, Cbs \ {k})
<1>6. /\ objects' = objects /\ hal' = hal /\ pduNoti' = pduNoti /\ dropped' = dropped
      /\ live' = live /\ owner' = owner /\ event' = event
      /\ ~keep => hal[o] \notin AtHals
  BY <1>2 DEF Return, MayDrop, cbVars
<1>7. PICK n \in Onward(s) :
        /\ walk' = IF n = None THEN Idle ELSE Visit(walk.list, s, n, walk.called)
        /\ callbacks' = [callbacks EXCEPT ![o] = r] /\ table' = table
  <2> DEFINE a == ListNow(table, callbacks)
             b == IF keep \/ walk.cut THEN a ELSE Keep(a, Cbs \ {walk.at})
  <2>1. PICK n \in Onward(a) :
          /\ walk' = IF n = None THEN Idle ELSE Visit(walk.list, a, n, walk.called)
          /\ callbacks' = [callbacks EXCEPT ![walk.list.of] = b] /\ table' = table
    BY <1>2 DEF Return
  <2>2. r = b
    BY <1>4, <1>5
  <2> HIDE DEF r, b
  <2>3. QED
    BY <1>2, <1>4, <2>1, <2>2
<1>8. /\ r \in Seq(Cbs) /\ SubsequenceOf(r, s) /\ ToSet(r) \subseteq ToSet(s)
      /\ ~goes => r = s
  <2>1. CASE goes
    <3> DEFINE Y == Cbs \ {k}
    <3>1. r = Keep(s, Y)
      BY <2>1
    <3> HIDE DEF r, Y
    <3>2. QED
      BY <2>1, <3>1, KeepType, KeepSubsequence, KeepElements
  <2>2. CASE ~goes
    BY <2>2, SameSubsequence
  <2>3. QED
    BY <2>1, <2>2
<1>9. r = s \/ (~walk.cut /\ r = Keep(s, Cbs \ {walk.at}))
  BY <1>5
<1> HIDE DEF r
<1>10. /\ callbacks' \in [Objects -> Seq(Cbs)] /\ callbacks'[o] = r
       /\ \A q \in Objects : q # o => callbacks'[q] = callbacks[q]
  BY <1>7, <1>8 DEF EventsInv, Types
<1>11. \A q \in Objects : hal[q] \in AtHals => callbacks'[q] = callbacks[q]
  BY <1>3, <1>6, <1>8, <1>10
<1> HIDE DEF goes
<1>12. Listed'
  <2>1. SUFFICES ASSUME NEW q \in Objects
                 PROVE  /\ Ordered(callbacks'[q], Different)
                        /\ \A c \in ToSet(callbacks'[q]) : c \in live /\ owner[c] = q
                        /\ q \notin objects => callbacks'[q] = <<>>
    BY <1>6 DEF Listed
  <2>2. CASE q # o
    BY <1>10, <2>2, ListFacts
  <2>3. CASE q = o
    <3>1. Ordered(r, Different)
      BY <1>3, <1>8, OrderedPart
    <3>2. \A c \in ToSet(r) : c \in live /\ owner[c] = o
      BY <1>3, <1>8, ListFacts
    <3>3. o \notin objects => r = <<>>
      <4>1. SUFFICES ASSUME o \notin objects PROVE r = <<>>
        OBVIOUS
      <4>2. ToSet(r) = {}
        <5>1. ToSet(<<>>) = {}
          BY DEF ToSet
        <5>2. QED
          BY <1>3, <1>8, <4>1, <5>1, ListFacts
      <4>3. Len(r) = 0
        <5>1. Len(r) \in Nat /\ ~(1 \in 1..Len(r))
          BY <1>8, <4>2, SetOf, LenProperties
        <5>2. QED
          BY <5>1
      <4>4. QED
        BY <1>8, <4>3, EmptySeq
    <3>4. QED
      BY <1>10, <2>3, <3>1, <3>2, <3>3
  <2>4. QED
    BY <2>2, <2>3
<1>13. Entered'
  <2>1. SUFFICES ASSUME NEW g \in AtHals
                 PROVE  Enters(table[g], g, hal, callbacks', owner, event)
    BY <1>6, <1>7 DEF Entered
  <2>2. PICK t \in Tables : t = table[g] /\ Held(t, g)
    BY ItemFacts
  <2>3. \A p : \A c \in ToSet(Items(t, p)) : c \in ToSet(callbacks'[owner[c]])
    BY <1>11, <2>2 DEF Held
  <2>4. Enters(t, g, hal, callbacks', owner, event)
    BY <2>2, <2>3, EntersSame DEF Held
  <2>5. QED
    BY <2>2, <2>4
<1>14. Mirrored'
  BY <1>6, <1>7, <1>11 DEF EventsInv, Mirrored, Types
<1>15. Waits'
  BY <1>6, <1>7 DEF EventsInv, Waits
<1>16. /\ InCallback' => /\ walk' \in WalkType /\ walk'.list = walk.list
                         /\ GoodWalk(walk', r, Done(walk)')
       /\ ~InCallback' => walk' = Idle
  BY <1>1, <1>4, <1>6, <1>7, <1>9, WentOn
<1>17. Walks'
  <2>1. SUFFICES ASSUME InCallback'
                 PROVE  /\ GoodWalk(walk', ListOf(walk, table, callbacks)', Done(walk)')
                        /\ walk'.list.kind # "at"
    BY DEF Walks
  <2>2. walk'.list = walk.list /\ GoodWalk(walk', r, Done(walk)')
    BY <1>16, <2>1
  <2>3. ListOf(walk, table, callbacks)' = r
    BY <1>2, <1>10, <2>2 DEF ListOf
  <2>4. QED
    BY <1>2, <2>2, <2>3
<1>18. Types'
  BY <1>6, <1>7, <1>10, <1>16 DEF EventsInv, Types
<1>19. QED
  BY <1>12, <1>13, <1>14, <1>15, <1>17, <1>18 DEF EventsInv

-----------------------------------------------------------------------------
(* The theorems *)

LEMMA InitHolds ==
  ASSUME Init
  PROVE  EventsInv
<1>1. <<>> \in Seq(Cbs) /\ Len(<<>>) = 0 /\ ToSet(<<>>) = {}
  BY DEF ToSet
<1>2. NoTable \in Tables /\ DOMAIN NoTable = {}
  <2>1. NoTable \in [{} -> EntryType] /\ {} \in SUBSET Names
    BY DEF NoTable
  <2>2. QED
    BY <2>1 DEF Tables
<1>3. ~InCallback /\ walk = Idle
  BY DEF Init, InCallback, Idle
<1>4. Types
  BY <1>1, <1>2, <1>3 DEF Init, Types
<1>5. Listed
  BY <1>1 DEF Init, Listed, Ordered
<1>6. Entered
  BY <1>2 DEF Init, Entered, Enters
<1>7. Mirrored
  BY DEF Init, Mirrored
<1>8. Waits
  BY <1>2 DEF Init, Waits, InUse
<1>9. Walks
  BY <1>3 DEF Walks
<1>10. QED
  BY <1>4, <1>5, <1>6, <1>7, <1>8, <1>9 DEF EventsInv

LEMMA SameHolds ==
  ASSUME EventsInv, UNCHANGED vars
  PROVE  EventsInv'
<1>1. /\ objects' = objects /\ hal' = hal /\ callbacks' = callbacks /\ live' = live
      /\ owner' = owner /\ event' = event /\ table' = table /\ pduNoti' = pduNoti
      /\ walk' = walk /\ dropped' = dropped
  BY DEF vars
<1>2. Types'
  BY <1>1 DEF EventsInv, Types, InCallback
<1>3. Listed' /\ Entered' /\ Mirrored' /\ Waits'
  BY <1>1 DEF EventsInv, Listed, Entered, Mirrored, Waits
<1>4. Walks'
  BY <1>1 DEF EventsInv, Walks, InCallback, ListOf, Done, Unwanted, Wanted
<1>5. QED
  BY <1>2, <1>3, <1>4 DEF EventsInv

LEMMA StepHolds ==
  ASSUME Careful, EventsInv, [Next]_vars
  PROVE  EventsInv'
<1>1. CASE UNCHANGED vars
  BY <1>1, SameHolds
<1>2. ASSUME NEW o \in Objects, New(o) \/ FreeObject(o) \/ SetHal(o) PROVE EventsInv'
  BY <1>2, NewKeeps, FreeKeeps, SetHalKeeps
<1>3. ASSUME NEW o \in Objects, NEW e \in Events, NEW k \in Cbs, AddCallback(o, e, k)
      PROVE  EventsInv'
  BY <1>3, AddKeeps
<1>4. ASSUME NEW o \in Objects, NEW d \in Objects, Clone(o, d) PROVE EventsInv'
  BY <1>4, CloneKeeps
<1>5. ASSUME NEW o \in Objects, NEW e \in Events, DelCallback(o, e) \/ Emit(o, e)
      PROVE  EventsInv'
  BY <1>5, DelKeeps, EmitKeeps
<1>6. ASSUME NEW h \in AtHals, NEW p \in Names, Line(h, p) PROVE EventsInv'
  BY <1>6, LineKeeps
<1>7. ASSUME NEW h \in AtHals, PduLine(h) PROVE EventsInv'
  BY <1>7, PduLineKeeps
<1>8. ASSUME NEW keep \in BOOLEAN, Return(keep) PROVE EventsInv'
  BY <1>8, AtReturnKeeps, CoReturnKeeps
<1>9. QED
  BY <1>1, <1>2, <1>3, <1>4, <1>5, <1>6, <1>7, <1>8 DEF Next

\* The invariant of the proofs holds, when the plugins keep their discipline.
THEOREM EventsInvHolds ==
  ASSUME Careful
  PROVE  Spec => []EventsInv
BY InitHolds, StepHolds, PTL DEF Spec

LEMMA TypesOK ==
  ASSUME EventsInv
  PROVE  TypeOK
<1>1. ASSUME NEW o \in Objects PROVE ToSet(callbacks[o]) \subseteq live /\ IsInjective(callbacks[o])
  <2>1. PICK s \in Seq(Cbs) : s = callbacks[o] /\ Ordered(s, Different)
    BY <1>1, ListFacts
  <2>2. \A a, b \in DOMAIN s : s[a] = s[b] => a = b
    BY <2>1, OnePlace, LenProperties
  <2>3. IsInjective(s)
    BY <2>2 DEF IsInjective
  <2>4. QED
    BY <2>1, <2>3, ListFacts
<1>2. ASSUME NEW h \in AtHals
      PROVE  DOMAIN table[h] \subseteq Names /\ pduNoti[h] \in Names \cup {None}
  <2>1. PICK t \in Tables : t = table[h]
    BY DEF EventsInv, Types
  <2>2. QED
    BY <2>1, TableType DEF EventsInv, Types
<1>3. QED
  BY <1>1, <1>2 DEF EventsInv, Types, TypeOK

\* What an AT channel holds can be called: it is allocated, it belongs to an
\* object that has this HAL, and it is registered under its own event.
THEOREM AttachedHolds ==
  ASSUME Careful
  PROVE  Spec => []Attached
<1>1. ASSUME EventsInv PROVE Attached
  <2>1. ASSUME NEW h \in AtHals, NEW p \in DOMAIN table[h], NEW k \in ToSet(table[h][p].items)
        PROVE  /\ k \in live /\ owner[k] \in objects /\ hal[owner[k]] = h
               /\ event[k] = [prefix |-> p, pdu |-> table[h][p].pdu]
    <3>1. PICK t \in Tables : t = table[h] /\ Held(t, h)
      BY <1>1, ItemFacts
    <3>2. k \in ToSet(Items(t, p))
      BY <3>1 DEF Items
    <3>3. QED
      BY <3>1, <3>2 DEF Held
  <2>2. ASSUME NEW h \in AtHals, pduNoti[h] # None PROVE Items(table[h], pduNoti[h]) # <<>>
    BY <1>1, <2>2 DEF EventsInv, Waits, InUse
  <2>3. QED
    BY <1>1, <2>1, <2>2, TypesOK DEF Attached
<1>2. QED
  BY <1>1, EventsInvHolds, PTL

\* An AT channel holds the callbacks of each object that has its HAL, in the
\* order in which they were added, but for those dropped or refused.
THEOREM RegisteredHolds ==
  ASSUME Careful
  PROVE  Spec => []Registered
<1>1. ASSUME EventsInv PROVE Registered
  BY <1>1 DEF EventsInv, Mirrored, Mirrors, Own, Heard, Registered
<1>2. QED
  BY <1>1, EventsInvHolds, PTL

\* An emission ends only when all that it wants has been called.
THEOREM DeliveredHolds ==
  ASSUME Careful
  PROVE  Spec => Delivered
<1> DEFINE Reached == walk # Idle /\ walk' = Idle /\ ~walk.cut =>
                        \A k \in ToSet(ListNow(table, callbacks)) :
                          Wanted(walk.list, k) => k \in walk.called
<1>1. ASSUME EventsInv, [Next]_vars PROVE [Reached]_vars
  <2>1. CASE UNCHANGED vars
    BY <2>1
  <2>2. ASSUME NEW keep \in BOOLEAN, Return(keep) PROVE Reached
    <3>1. SUFFICES ASSUME walk # Idle, walk' = Idle, ~walk.cut,
                          NEW k \in ToSet(ListNow(table, callbacks)), Wanted(walk.list, k)
                   PROVE  k \in walk.called
      OBVIOUS
    <3>2. PICK s : s = ListNow(table, callbacks) /\ s = ListOf(walk, table, callbacks)
      BY DEF ListNow, ListOf
    <3>3. PICK n \in Onward(s) :
            walk' = IF n = None THEN Idle ELSE Visit(walk.list, s, n, walk.called)
      BY <2>2, <3>2 DEF Return
    <3>4. InCallback /\ event' = event /\ ~InCallback'
      BY <2>2, <3>1 DEF Return, cbVars, InCallback, Idle
    <3>5. ToSet(s) \subseteq Done(walk)
      BY <1>1, <3>1, <3>2, <3>3, <3>4, WentOn
    <3>6. QED
      BY <3>1, <3>2, <3>5 DEF Done, Unwanted
  <2>3. CASE ~InCallback
    BY <1>1, <2>3 DEF EventsInv, Types
  <2>4. ASSUME InCallback, Next, \A keep \in BOOLEAN : ~Return(keep) PROVE walk' # Idle
    <3>1. walk \in WalkType
      BY <1>1, <2>4 DEF EventsInv, Types
    <3>2. Acted.at = walk.at /\ \A l : Cut(l).at = walk.at
      <4>1. PICK a \in WalkType : a = Acted /\ a.at = walk.at
        <5>1. PICK w \in WalkType : w = walk
          BY <3>1
        <5>2. InCallback = TRUE
          BY <2>4
        <5>3. [w EXCEPT !.acted = TRUE] \in WalkType /\ [w EXCEPT !.acted = TRUE].at = w.at
          BY DEF WalkType
        <5>4. Acted = [w EXCEPT !.acted = TRUE]
          BY <5>1, <5>2 DEF Acted
        <5>5. QED
          BY <5>1, <5>3, <5>4
      <4>2. \A n : [a EXCEPT !.cut = TRUE, !.next = n].at = a.at
        BY DEF WalkType
      <4>3. QED
        BY <4>1, <4>2 DEF Cut
    <3>3. walk' = Acted \/ \E l : walk' = Cut(l)
      <4>1. ASSUME NEW o \in Objects, New(o) \/ FreeObject(o) \/ SetHal(o)
            PROVE  walk' = Acted \/ \E l : walk' = Cut(l)
        BY <2>4, <4>1 DEF New, FreeObject, SetHal, Walked
      <4>2. ASSUME NEW o \in Objects, NEW e \in Events, NEW k \in Cbs, AddCallback(o, e, k)
            PROVE  walk' = Acted
        BY <4>2 DEF AddCallback
      <4>3. ASSUME NEW o \in Objects, NEW d \in Objects, Clone(o, d) PROVE walk' = Acted
        BY <4>3 DEF Clone
      <4>4. ASSUME NEW o \in Objects, NEW e \in Events, DelCallback(o, e) \/ Emit(o, e)
            PROVE  \E l : walk' = Cut(l)
        BY <2>4, <4>4 DEF DelCallback, Emit, Walked
      <4>5. \A h, p : ~Line(h, p) /\ ~PduLine(h)
        BY <2>4 DEF Line, PduLine
      <4>6. QED
        BY <2>4, <4>1, <4>2, <4>3, <4>4, <4>5 DEF Next
    <3>4. walk'.at = walk.at /\ Idle.at = None
      BY <3>2, <3>3 DEF Idle
    <3>5. QED
      BY <2>4, <3>4 DEF InCallback
  <2>5. QED
    BY <1>1, <2>1, <2>2, <2>3, <2>4
<1>2. QED
  BY <1>1, EventsInvHolds, PTL DEF Spec, Delivered
=============================================================================
