-------------------------- MODULE PsContextProofs --------------------------
(***************************************************************************)
(* Proofs about PsContext, for any contexts, any number of ids, and any    *)
(* APNs that are fewer than the ids.                                       *)
(***************************************************************************)
EXTENDS PsContext, SeqLemmas, FiniteSetTheorems

-----------------------------------------------------------------------------
(* What the lists hold *)

\* A list holds an element exactly if the element has a place in it.
LEMMA HeldAt ==
  ASSUME NEW S, NEW s \in Seq(S)
  PROVE  /\ DOMAIN s = 1..Len(s)
         /\ Len(s) \in Nat
         /\ \A k \in DOMAIN s : s[k] \in S /\ Contains(s, s[k])
         /\ s = <<>> <=> ~ \E c \in S : Contains(s, c)
<1>1. DOMAIN s = 1..Len(s) /\ Len(s) \in Nat
  BY LenProperties
<1>2. \A k \in DOMAIN s : s[k] \in S /\ Contains(s, s[k])
  BY <1>1, ElementOfSeq DEF Contains
<1>3. s = <<>> <=> Len(s) = 0
  BY EmptySeq
<1>4. s = <<>> => ~ \E c \in S : Contains(s, c)
  BY <1>3 DEF Contains
<1>5. s # <<>> => Contains(s, s[1]) /\ s[1] \in S
  BY <1>1, <1>2, <1>3
<1>6. QED
  BY <1>1, <1>2, <1>4, <1>5

\* What appending a context to a list of others returns.
LEMMA AppendHolds ==
  ASSUME NEW S, NEW s \in Seq(S), NEW c \in S, ~Contains(s, c), IsInjective(s)
  PROVE  /\ Append(s, c) \in Seq(S)
         /\ \A d \in S : Contains(Append(s, c), d) <=> Contains(s, d) \/ d = c
         /\ IsInjective(Append(s, c))
<1> DEFINE t == Append(s, c)
           n == Len(s)
<1>1. /\ t \in Seq(S) /\ Len(t) = n + 1 /\ n \in Nat
      /\ \A i \in 1..n : t[i] = s[i]
      /\ t[n + 1] = c
  BY AppendProperties, LenProperties
<1>2. DOMAIN t = 1..(n + 1) /\ DOMAIN s = 1..n
  BY <1>1, LenProperties
<1> HIDE DEF t, n
<1>3. ASSUME NEW d \in S PROVE Contains(t, d) <=> Contains(s, d) \/ d = c
  <2>1. ASSUME Contains(t, d), d # c PROVE Contains(s, d)
    <3>1. PICK i \in 1..(n + 1) : t[i] = d
      BY <1>1, <2>1 DEF Contains
    <3>2. i \in 1..n /\ s[i] = d
      BY <1>1, <2>1, <3>1
    <3>3. QED
      BY <3>2 DEF Contains, n
  <2>2. ASSUME Contains(s, d) PROVE Contains(t, d)
    <3>1. PICK i \in 1..n : s[i] = d
      BY <2>2 DEF Contains, n
    <3>2. i \in 1..Len(t) /\ t[i] = d
      BY <1>1, <3>1
    <3>3. QED
      BY <3>2 DEF Contains
  <2>3. Contains(t, c)
    BY <1>1 DEF Contains
  <2>4. QED
    BY <2>1, <2>2, <2>3
<1>4. \A i \in 1..n : s[i] # c
  BY DEF Contains, n
<1>5. ASSUME NEW i \in 1..(n + 1), NEW j \in 1..(n + 1), t[i] = t[j] PROVE i = j
  <2>1. CASE i \in 1..n /\ j \in 1..n
    BY <1>1, <1>2, <1>5, <2>1 DEF IsInjective
  <2>2. CASE i = n + 1 /\ j \in 1..n
    BY <1>1, <1>4, <1>5, <2>2
  <2>3. CASE j = n + 1 /\ i \in 1..n
    BY <1>1, <1>4, <1>5, <2>3
  <2>4. QED
    BY <1>1, <2>1, <2>2, <2>3
<1>6. IsInjective(t)
  BY <1>2, <1>5 DEF IsInjective
<1>7. QED
  BY <1>1, <1>3, <1>6 DEF t

\* What unlinking a context from a list without repetition returns.
LEMMA UnlinkHolds ==
  ASSUME NEW S, NEW s \in Seq(S), NEW c \in S, IsInjective(s)
  PROVE  /\ Unlink(s, c) \in Seq(S)
         /\ \A d \in S : Contains(Unlink(s, c), d) <=> Contains(s, d) /\ d # c
         /\ IsInjective(Unlink(s, c))
<1>1. CASE ~Contains(s, c)
  BY <1>1 DEF Unlink
<1>2. CASE Contains(s, c)
  <2> DEFINE At(k) == s[k] = c /\ \A j \in 1..(k - 1) : s[j] # c
             p == CHOOSE k \in 1..Len(s) : At(k)
             t == RemoveAt(s, p)
             n == Len(s)
  <2>1. n \in Nat /\ DOMAIN s = 1..n
    BY LenProperties
  <2>2. PICK q \in 1..n : s[q] = c
    BY <1>2 DEF Contains
  <2>3. \A j \in 1..(q - 1) : s[j] # c
    BY <2>1, <2>2 DEF IsInjective
  <2>4. p \in 1..n /\ s[p] = c
    <3>1. \E k \in 1..n : At(k)
      BY <2>2, <2>3
    <3> HIDE DEF At
    <3>2. p \in 1..n /\ At(p)
      BY <3>1
    <3>3. QED
      BY <3>2 DEF At
  <2>5. Unlink(s, c) = t
    BY <1>2 DEF Unlink
  <2> HIDE DEF p
  <2>6. /\ t \in Seq(S) /\ Len(t) = n - 1
        /\ \A j \in 1..(n - 1) : t[j] = IF j < p THEN s[j] ELSE s[j + 1]
    BY <2>4, RemoveAtProperties
  <2>7. DOMAIN t = 1..(n - 1)
    BY <2>6, LenProperties
  <2> HIDE DEF t, n
  <2>8. ASSUME NEW d \in S PROVE Contains(t, d) <=> Contains(s, d) /\ d # c
    <3>1. ASSUME Contains(t, d) PROVE Contains(s, d) /\ d # c
      <4>1. PICK j \in 1..(n - 1) : t[j] = d
        BY <2>6, <3>1 DEF Contains
      <4>2. PICK k \in 1..n : k # p /\ s[k] = d
        BY <2>1, <2>4, <2>6, <4>1
      <4>3. d # c
        BY <2>1, <2>4, <4>2 DEF IsInjective
      <4>4. QED
        BY <4>2, <4>3 DEF Contains, n
    <3>2. ASSUME Contains(s, d), d # c PROVE Contains(t, d)
      <4>1. PICK k \in 1..n : s[k] = d
        BY <3>2 DEF Contains, n
      <4>2. k # p
        BY <2>4, <3>2, <4>1
      <4>3. \E j \in 1..(n - 1) : t[j] = d
        <5>1. CASE k < p
          <6>1. k \in 1..(n - 1)
            BY <2>1, <2>4, <5>1
          <6>2. QED
            BY <2>6, <4>1, <5>1, <6>1
        <5>2. CASE k > p
          <6>1. k - 1 \in 1..(n - 1) /\ ~(k - 1 < p) /\ (k - 1) + 1 = k
            BY <2>1, <2>4, <5>2
          <6>2. QED
            BY <2>6, <4>1, <6>1
        <5>3. QED
          BY <2>1, <2>4, <4>2, <5>1, <5>2
      <4>4. QED
        BY <2>6, <4>3 DEF Contains
    <3>3. QED
      BY <3>1, <3>2
  <2>9. ASSUME NEW i \in 1..(n - 1), NEW j \in 1..(n - 1), t[i] = t[j] PROVE i = j
    <3> DEFINE a == IF i < p THEN i ELSE i + 1
               b == IF j < p THEN j ELSE j + 1
    <3>1. a \in 1..n /\ b \in 1..n
      BY <2>1, <2>4
    <3>2. s[a] = s[b]
      BY <2>6, <2>9
    <3>3. a = b
      BY <2>1, <3>1, <3>2 DEF IsInjective
    <3>4. QED
      BY <2>1, <2>4, <3>3
  <2>10. IsInjective(t)
    BY <2>7, <2>9 DEF IsInjective
  <2>11. QED
    BY <2>5, <2>6, <2>8, <2>10
<1>3. QED
  BY <1>1, <1>2
-----------------------------------------------------------------------------
(* The table, seen as which contexts are in which entry *)

\* What the proofs assume of the plugin and of the number of ids.
Premises ==
  ClearsShared /\ IsFiniteSet(Apns) /\ Cardinality(Apns) < MaxCid

\* EntriesAgree without the places in the lists.
Placed(u, t, n) ==
  /\ \A i \in 0..MaxCid : i \in u <=> \E c \in Contexts : Contains(t[i], c)
  /\ \A i \in 0..MaxCid : IsInjective(t[i])
  /\ \A i \in 0..MaxCid : \A c \in Contexts : Contains(t[i], c) => n[c] = i

\* EntriesAgree of a given table.
Entries(u, t, n) ==
  /\ \A i \in 0..MaxCid : i \in u <=> t[i] # <<>>
  /\ \A i \in 0..MaxCid : IsInjective(t[i])
  /\ \A i \in 0..MaxCid : \A k \in DOMAIN t[i] : n[t[i][k]] = i

\* The two are the same.
LEMMA SameTable ==
  ASSUME NEW u, NEW t \in [0..MaxCid -> Seq(Contexts)], NEW n
  PROVE  Placed(u, t, n) <=> Entries(u, t, n)
<1>1. ASSUME NEW i \in 0..MaxCid
      PROVE  /\ t[i] # <<>> <=> \E c \in Contexts : Contains(t[i], c)
             /\ (\A k \in DOMAIN t[i] : n[t[i][k]] = i)
                  <=> \A c \in Contexts : Contains(t[i], c) => n[c] = i
  <2>1. t[i] \in Seq(Contexts)
    OBVIOUS
  <2>2. /\ DOMAIN t[i] = 1..Len(t[i])
        /\ \A k \in DOMAIN t[i] : t[i][k] \in Contexts /\ Contains(t[i], t[i][k])
        /\ t[i] = <<>> <=> ~ \E c \in Contexts : Contains(t[i], c)
    BY <2>1, HeldAt
  <2>3. ASSUME \A k \in DOMAIN t[i] : n[t[i][k]] = i, NEW c \in Contexts, Contains(t[i], c)
        PROVE  n[c] = i
    BY <2>2, <2>3 DEF Contains
  <2>4. QED
    BY <2>2, <2>3
<1>2. QED
  BY <1>1 DEF Placed, Entries

\* The invariant gives the second form.
LEMMA TablePlaced ==
  ASSUME ContextInv PROVE Placed(used, cid, id)
<1>1. Entries(used, cid, id) /\ cid \in [0..MaxCid -> Seq(Contexts)]
  BY DEF ContextInv, Entries, EntriesAgree, TypeOK
<1>2. QED
  BY <1>1, SameTable

\* What the searches of co_ps.c find, as long as the last id is not given out.
LEMMA SearchFinds ==
  ASSUME ContextInv, NEW c \in Contexts
  PROVE  /\ Placed(used, cid, id)
         /\ Searched = used
         /\ \A i \in used : \A k \in DOMAIN cid[i] :
              cid[i][k] \in Contexts /\ Contains(cid[i], cid[i][k])
         /\ IsActive(c) <=> \E i \in used : Contains(cid[i], c)
         /\ HasTwin(c) <=> \E i \in used : \E s \in Contexts :
                              Contains(cid[i], s) /\ s # c /\ apn[s] = apn[c]
         /\ \A s : Twin(c, s) =>
              /\ s \in Contexts /\ s # c /\ apn[s] = apn[c]
              /\ id[s] \in used /\ Contains(cid[id[s]], s)
<1>1. /\ TypeOK /\ EntriesAgree /\ Spare
      /\ MaxCid \in Nat \ {0}
  BY PsAssumption DEF ContextInv
<1>2. Placed(used, cid, id)
  BY TablePlaced
<1>3. Searched = used
  <2>1. used \subseteq 1..MaxCid /\ MaxCid \notin used
    BY <1>1 DEF TypeOK, Spare
  <2>2. ASSUME NEW i \in used PROVE i < MaxCid
    BY <1>1, <2>1, <2>2
  <2>3. QED
    BY <2>2 DEF Searched
<1>4. ASSUME NEW i \in used
      PROVE  /\ \A k \in DOMAIN cid[i] :
                  cid[i][k] \in Contexts /\ Contains(cid[i], cid[i][k])
             /\ \A s : Contains(cid[i], s) => \E k \in DOMAIN cid[i] : cid[i][k] = s
  <2>1. i \in 0..MaxCid /\ cid[i] \in Seq(Contexts)
    BY <1>1 DEF TypeOK
  <2>2. DOMAIN cid[i] = 1..Len(cid[i])
    BY <2>1, HeldAt
  <2>3. QED
    BY <2>1, <2>2, HeldAt DEF Contains
<1>5. IsActive(c) <=> \E i \in used : Contains(cid[i], c)
  BY <1>3 DEF IsActive
<1>6. HasTwin(c) <=> \E i \in used : \E s \in Contexts :
                       Contains(cid[i], s) /\ s # c /\ apn[s] = apn[c]
  <2>1. ASSUME HasTwin(c)
        PROVE  \E i \in used : \E s \in Contexts :
                 Contains(cid[i], s) /\ s # c /\ apn[s] = apn[c]
    <3>1. PICK i \in used : \E k \in DOMAIN cid[i] : Candidate(c, i, k)
      BY <1>3, <2>1 DEF HasTwin
    <3>2. PICK k \in DOMAIN cid[i] : Candidate(c, i, k)
      BY <3>1
    <3>3. QED
      BY <1>4, <3>2 DEF Candidate
  <2>2. ASSUME NEW i \in used, NEW s \in Contexts,
               Contains(cid[i], s), s # c, apn[s] = apn[c]
        PROVE  HasTwin(c)
    <3>1. PICK k \in DOMAIN cid[i] : cid[i][k] = s
      BY <1>4, <2>2
    <3>2. QED
      BY <1>3, <2>2, <3>1 DEF HasTwin, Candidate
  <2>3. QED
    BY <2>1, <2>2
<1>7. ASSUME NEW s, Twin(c, s)
      PROVE  /\ s \in Contexts /\ s # c /\ apn[s] = apn[c]
             /\ id[s] \in used /\ Contains(cid[id[s]], s)
  <2>1. PICK i \in used : \E k \in DOMAIN cid[i] : Candidate(c, i, k) /\ s = cid[i][k]
    BY <1>3, <1>7 DEF Twin
  <2>2. PICK k \in DOMAIN cid[i] : Candidate(c, i, k) /\ s = cid[i][k]
    BY <2>1
  <2>3. s \in Contexts /\ Contains(cid[i], s) /\ s # c /\ apn[s] = apn[c]
    BY <1>4, <2>2 DEF Candidate
  <2>4. id[s] = i
    BY <1>1, <1>2, <2>3 DEF Placed, TypeOK
  <2>5. QED
    BY <2>3, <2>4
<1>8. QED
  BY <1>2, <1>3, <1>4, <1>5, <1>6, <1>7

\* With fewer APNs than ids, a context without an id and without a context of
\* its APN to share with gets an id that is not the last one.
LEMMA FreeIdFound ==
  ASSUME Premises, ContextInv, NEW c \in Contexts, id[c] = 0, ~HasTwin(c),
         NEW i, FreeId(i)
  PROVE  i \in 1..MaxCid /\ i # MaxCid /\ i \notin used
<1>1. /\ i \in 1..MaxCid /\ i \notin used /\ \A j \in 1..(i - 1) : j \in used
      /\ MaxCid \in Nat \ {0}
  BY PsAssumption DEF FreeId
<1>2. TypeOK /\ OneApn /\ Placed(used, cid, id)
  BY SearchFinds DEF ContextInv
<1>3. ~ \E j \in used : \E s \in Contexts :
          Contains(cid[j], s) /\ s # c /\ apn[s] = apn[c]
  BY SearchFinds
<1>4. ASSUME i = MaxCid PROVE FALSE
  <2> DEFINE Member(j) == CHOOSE s \in Contexts : Contains(cid[j], s)
             f == [j \in 1..MaxCid |-> IF j = MaxCid THEN apn[c] ELSE apn[Member(j)]]
  <2>1. ASSUME NEW j \in 1..MaxCid, j # MaxCid
        PROVE  j \in used /\ Member(j) \in Contexts /\ Contains(cid[j], Member(j))
    <3>1. j \in 1..(i - 1)
      BY <1>1, <1>4, <2>1
    <3>2. j \in used /\ j \in 0..MaxCid
      BY <1>1, <3>1
    <3>3. \E s \in Contexts : Contains(cid[j], s)
      BY <1>2, <3>2 DEF Placed
    <3>4. QED
      BY <3>2, <3>3
  <2> HIDE DEF Member
  <2>2. f \in [1..MaxCid -> Apns]
    BY <1>2, <2>1 DEF TypeOK
  <2>3. ASSUME NEW j \in 1..MaxCid, j # MaxCid PROVE f[j] # apn[c]
    <3>1. Member(j) # c
      BY <1>1, <1>2, <2>1, <2>3 DEF Placed
    <3>2. apn[Member(j)] # apn[c]
      BY <1>3, <2>1, <2>3, <3>1
    <3>3. QED
      BY <2>3, <3>2
  <2>4. ASSUME NEW j \in 1..MaxCid, NEW k \in 1..MaxCid, f[j] = f[k] PROVE j = k
    <3>1. CASE j = MaxCid \/ k = MaxCid
      <4>1. MaxCid \in 1..MaxCid /\ f[MaxCid] = apn[c]
        BY <1>1
      <4> HIDE DEF f
      <4>2. QED
        BY <2>3, <2>4, <3>1, <4>1
    <3>2. CASE j # MaxCid /\ k # MaxCid
      <4>1. apn[Member(j)] = apn[Member(k)]
        BY <2>4, <3>2
      <4>2. QED
        BY <1>2, <2>1, <3>2, <4>1 DEF OneApn
    <3>3. QED
      BY <3>1, <3>2
  <2>5. IsFiniteSet(1..MaxCid) /\ Cardinality(1..MaxCid) = MaxCid
    BY <1>1, FS_Interval
  <2> HIDE DEF f
  <2>6. \E j, k \in 1..MaxCid : j # k /\ f[j] = f[k]
    <3> DEFINE S == 1..MaxCid
    <3>1. IsFiniteSet(Apns) /\ IsFiniteSet(S) /\ Cardinality(Apns) < Cardinality(S)
      BY <2>5 DEF Premises
    <3>2. f \in [S -> Apns]
      BY <2>2
    <3> HIDE DEF S
    <3>3. \E j, k \in S : j # k /\ f[j] = f[k]
      BY <3>1, <3>2, FS_PigeonHole, ZenonT(30)
    <3>4. QED
      BY <3>3 DEF S
  <2>7. QED
    BY <2>4, <2>6
<1>5. QED
  BY <1>1, <1>4

\* A context without an id gets a place in an entry.
LEMMA PlaceTaken ==
  ASSUME ContextInv, NEW c \in Contexts, id[c] = 0, NEW i \in 1..MaxCid,
         used' = used \cup {i},
         cid' = [cid EXCEPT ![i] = Append(@, c)],
         id' = [id EXCEPT ![c] = i]
  PROVE  /\ cid' \in [0..MaxCid -> Seq(Contexts)]
         /\ id' \in [Contexts -> 0..MaxCid]
         /\ EntriesAgree'
         /\ \A j \in 0..MaxCid : \A d \in Contexts :
              Contains(cid'[j], d) <=> Contains(cid[j], d) \/ (j = i /\ d = c)
<1>1. TypeOK /\ Placed(used, cid, id) /\ MaxCid \in Nat \ {0}
  BY PsAssumption, SearchFinds DEF ContextInv
<1>2. \A j \in 0..MaxCid : cid[j] \in Seq(Contexts)
  BY <1>1 DEF TypeOK
<1>3. i \in 0..MaxCid
  BY <1>1
<1>4. IsInjective(cid[i]) /\ \A j \in 0..MaxCid : ~Contains(cid[j], c)
  <2>1. 0 \in 0..MaxCid /\ 0 \notin used
    BY <1>1 DEF TypeOK
  <2>2. QED
    BY <1>1, <1>3, <2>1 DEF Placed
<1>5. /\ Append(cid[i], c) \in Seq(Contexts)
      /\ \A d \in Contexts : Contains(Append(cid[i], c), d) <=> Contains(cid[i], d) \/ d = c
      /\ IsInjective(Append(cid[i], c))
  BY <1>2, <1>3, <1>4, AppendHolds
<1>6. \A j \in 0..MaxCid : cid'[j] = IF j = i THEN Append(cid[i], c) ELSE cid[j]
  BY <1>1, <1>3 DEF TypeOK
<1>7. cid' \in [0..MaxCid -> Seq(Contexts)] /\ id' \in [Contexts -> 0..MaxCid]
  BY <1>1, <1>3, <1>5 DEF TypeOK
<1>8. \A j \in 0..MaxCid : \A d \in Contexts :
        Contains(cid'[j], d) <=> Contains(cid[j], d) \/ (j = i /\ d = c)
  BY <1>5, <1>6
<1>9. \A j \in 0..MaxCid : IsInjective(cid'[j])
  BY <1>1, <1>5, <1>6 DEF Placed
<1>10. \A d \in Contexts : id'[d] = IF d = c THEN i ELSE id[d]
  BY <1>1 DEF TypeOK
<1>11. Placed(used', cid', id')
  <2>1. \A j \in 0..MaxCid : j \in used' <=> \E d \in Contexts : Contains(cid'[j], d)
    BY <1>1, <1>3, <1>8 DEF Placed
  <2>2. ASSUME NEW j \in 0..MaxCid, NEW d \in Contexts, Contains(cid'[j], d)
        PROVE  id'[d] = j
    <3>1. CASE d = c
      <4>1. ~Contains(cid[j], c)
        BY <1>4
      <4>2. QED
        BY <1>8, <1>10, <2>2, <3>1, <4>1
    <3>2. CASE d # c
      BY <1>1, <1>8, <1>10, <2>2, <3>2 DEF Placed
    <3>3. QED
      BY <3>1, <3>2
  <2>3. QED
    BY <1>9, <2>1, <2>2 DEF Placed
<1>12. EntriesAgree'
  <2>1. Entries(used', cid', id')
    BY <1>7, <1>11, SameTable
  <2>2. QED
    BY <2>1 DEF Entries, EntriesAgree
<1>13. QED
  BY <1>7, <1>8, <1>12

\* A context gives up its place in an entry, which stays in use if it holds
\* others; those keep the id.
LEMMA PlaceLeft ==
  ASSUME ContextInv, NEW c \in Contexts, NEW i \in 0..MaxCid,
         cid' = [cid EXCEPT ![i] = Unlink(@, c)],
         used' = IF cid'[i] = <<>> THEN used \ {i} ELSE used,
         id' \in [Contexts -> 0..MaxCid],
         \A d \in Contexts : d # c => id'[d] = id[d],
         id[c] = i \/ id'[c] = id[c]
  PROVE  /\ cid' \in [0..MaxCid -> Seq(Contexts)]
         /\ EntriesAgree'
         /\ \A j \in 0..MaxCid : \A d \in Contexts :
              Contains(cid'[j], d) <=> Contains(cid[j], d) /\ ~(j = i /\ d = c)
<1>1. TypeOK /\ Placed(used, cid, id) /\ MaxCid \in Nat \ {0}
  BY PsAssumption, SearchFinds DEF ContextInv
<1>2. \A j \in 0..MaxCid : cid[j] \in Seq(Contexts)
  BY <1>1 DEF TypeOK
<1>3. IsInjective(cid[i])
  BY <1>1 DEF Placed
<1>4. /\ Unlink(cid[i], c) \in Seq(Contexts)
      /\ \A d \in Contexts : Contains(Unlink(cid[i], c), d) <=> Contains(cid[i], d) /\ d # c
      /\ IsInjective(Unlink(cid[i], c))
  BY <1>2, <1>3, UnlinkHolds
<1>5. \A j \in 0..MaxCid : cid'[j] = IF j = i THEN Unlink(cid[i], c) ELSE cid[j]
  BY <1>1 DEF TypeOK
<1>6. cid' \in [0..MaxCid -> Seq(Contexts)]
  BY <1>1, <1>4 DEF TypeOK
<1>7. \A j \in 0..MaxCid : \A d \in Contexts :
        Contains(cid'[j], d) <=> Contains(cid[j], d) /\ ~(j = i /\ d = c)
  BY <1>4, <1>5
<1>8. \A j \in 0..MaxCid : IsInjective(cid'[j])
  BY <1>1, <1>4, <1>5 DEF Placed
<1>9. Placed(used', cid', id')
  <2>1. cid'[i] = <<>> <=> ~ \E d \in Contexts : Contains(cid'[i], d)
    BY <1>6, HeldAt
  <2>2. \A j \in 0..MaxCid : j \in used' <=> \E d \in Contexts : Contains(cid'[j], d)
    BY <1>1, <1>7, <2>1 DEF Placed
  <2>3. \A j \in 0..MaxCid : \A d \in Contexts : Contains(cid'[j], d) => id'[d] = j
    BY <1>1, <1>7 DEF Placed
  <2>4. QED
    BY <1>8, <2>2, <2>3 DEF Placed
<1>10. EntriesAgree'
  <2>1. Entries(used', cid', id')
    BY <1>6, <1>9, SameTable
  <2>2. QED
    BY <2>1 DEF Entries, EntriesAgree
<1>11. QED
  BY <1>6, <1>7, <1>10

-----------------------------------------------------------------------------
(* The calls, one by one *)

\* Nobody has a connection at first.
LEMMA InitContext == ASSUME Premises PROVE Init => ContextInv
<1>1. SUFFICES ASSUME Init PROVE ContextInv
  OBVIOUS
<1>2. MaxCid \in Nat \ {0} /\ <<>> \in Seq(Contexts) /\ Len(<<>>) = 0
  BY PsAssumption, EmptySeq
<1>3. \A i \in 0..MaxCid : cid[i] = <<>>
  BY <1>1 DEF Init
<1>4. \A i \in 0..MaxCid : \A c \in Contexts : ~Contains(cid[i], c)
  BY <1>2, <1>3 DEF Contains
<1>5. TypeOK
  BY <1>1, <1>2 DEF Init, TypeOK, States
<1>6. EntriesAgree
  BY <1>1, <1>3 DEF Init, EntriesAgree, IsInjective
<1>7. OneApn /\ Reachable /\ Connected /\ Held /\ Spare
  BY <1>1, <1>2 DEF Init, OneApn, Reachable, Connected, Held, Spare
<1>8. Alike
  BY <1>4 DEF Alike
<1>9. QED
  BY <1>5, <1>6, <1>7, <1>8 DEF ContextInv

\* What a call that leaves the table alone has to keep.
LEMMA TableKept ==
  ASSUME ContextInv, UNCHANGED <<used, cid, id>>,
         TypeOK', OneApn', Reachable', Connected', Alike', Held'
  PROVE  ContextInv'
BY DEF ContextInv, EntriesAgree, Spare

\* Calls that only move on, and a change of the APN of a context that has no id.
LEMMA QuietCalls ==
  ASSUME ContextInv,
         \/ SetOnline \/ DeactivateContexts \/ WalkEntry
         \/ \E c \in Contexts : SetApn(c)
         \/ UNCHANGED vars
  PROVE  ContextInv'
<1>1. TypeOK /\ OneApn /\ Reachable /\ Connected /\ Alike /\ Held
      /\ MaxCid \in Nat \ {0}
  BY PsAssumption DEF ContextInv
<1>2. CASE SetOnline \/ DeactivateContexts \/ WalkEntry \/ UNCHANGED vars
  <2>1. UNCHANGED <<used, cid, id, state, apn, pdp>>
    BY <1>2 DEF SetOnline, DeactivateContexts, WalkEntry, vars
  <2>2. online' \in BOOLEAN
    BY <1>1, <1>2 DEF SetOnline, DeactivateContexts, WalkEntry, vars, TypeOK
  <2>3. walk' = <<>> \/ walk' \in (0..(MaxCid - 1)) \X (Nat \ {0})
    <3>1. CASE SetOnline \/ UNCHANGED vars
      BY <1>1, <3>1 DEF SetOnline, vars, TypeOK
    <3>2. CASE DeactivateContexts
      BY <1>1, <3>2 DEF DeactivateContexts
    <3>3. CASE WalkEntry
      BY <1>1, <3>3 DEF WalkEntry, TypeOK
    <3>4. QED
      BY <1>2, <3>1, <3>2, <3>3
  <2>4. TypeOK'
    BY <1>1, <2>1, <2>2, <2>3 DEF TypeOK
  <2>5. OneApn' /\ Reachable' /\ Connected' /\ Alike' /\ Held'
    BY <1>1, <2>1 DEF OneApn, Reachable, Connected, Alike, Held
  <2>6. QED
    BY <2>1, <2>4, <2>5, TableKept
<1>3. ASSUME NEW c \in Contexts, SetApn(c) PROVE ContextInv'
  <2>1. UNCHANGED <<used, cid, id, state, pdp, online, walk>>
        /\ state[c] = "DEACTIVATED" /\ id[c] = 0
    BY <1>3 DEF SetApn
  <2>2. /\ apn' \in [Contexts -> Apns]
        /\ \A d \in Contexts : d # c => apn'[d] = apn[d]
    BY <1>1, <1>3 DEF SetApn, TypeOK
  <2>3. \A i \in used : ~Contains(cid[i], c)
    <3>1. Placed(used, cid, id)
      BY SearchFinds
    <3>2. QED
      BY <1>1, <2>1, <3>1 DEF Placed, TypeOK
  <2>4. TypeOK'
    BY <1>1, <2>1, <2>2 DEF TypeOK
  <2>5. OneApn'
    BY <1>1, <2>1, <2>2, <2>3 DEF OneApn
  <2>6. Connected'
    BY <1>1, <2>1, <2>2 DEF Connected
  <2>7. Reachable' /\ Alike' /\ Held'
    BY <1>1, <2>1 DEF Reachable, Alike, Held
  <2>8. QED
    BY <2>1, <2>4, <2>5, <2>6, <2>7, TableKept
<1>4. QED
  BY <1>2, <1>3

\* An id is assigned to a deactivated context, and joined only while its
\* contexts are deactivated.
LEMMA AssignKeeps ==
  ASSUME Premises, ContextInv, NEW c \in Contexts, AssignContextId(c)
  PROVE  ContextInv'
<1>1. PICK i \in 1..MaxCid :
        /\ IF HasTwin(c)
           THEN pdp[i] = NoPdp /\ \E k \in DOMAIN cid[i] : Candidate(c, i, k)
           ELSE FreeId(i)
        /\ Enter(c, i)
  BY DEF AssignContextId
<1>2. UNCHANGED <<online, state, apn, pdp, walk>> /\ id[c] = 0
  BY DEF AssignContextId
<1>3. TypeOK /\ OneApn /\ Reachable /\ Connected /\ Alike /\ Held /\ Spare
      /\ MaxCid \in Nat \ {0} /\ Placed(used, cid, id)
  BY PsAssumption, SearchFinds DEF ContextInv
<1>4. /\ cid' \in [0..MaxCid -> Seq(Contexts)] /\ id' \in [Contexts -> 0..MaxCid]
      /\ EntriesAgree'
      /\ \A j \in 0..MaxCid : \A d \in Contexts :
           Contains(cid'[j], d) <=> Contains(cid[j], d) \/ (j = i /\ d = c)
      /\ used' = used \cup {i} /\ \A d \in Contexts : d # c => id'[d] = id[d]
  <2>1. /\ used' = used \cup {i}
        /\ cid' = [cid EXCEPT ![i] = Append(@, c)]
        /\ id' = [id EXCEPT ![c] = i]
    BY <1>1 DEF Enter
  <2>2. \A d \in Contexts : d # c => id'[d] = id[d]
    BY <1>3, <2>1 DEF TypeOK
  <2>3. QED
    BY <1>2, <2>1, <2>2, PlaceTaken
<1>5. /\ i # MaxCid
      /\ pdp[i] = NoPdp
      /\ \A d \in Contexts : Contains(cid[i], d) => apn[d] = apn[c]
      /\ \A j \in used \ {i} : \A d \in Contexts : Contains(cid[j], d) => apn[d] # apn[c]
  <2>1. CASE HasTwin(c)
    <3>1. PICK k \in DOMAIN cid[i] : Candidate(c, i, k)
      BY <1>1, <2>1
    <3>2. i \in used /\ i < MaxCid /\ apn[cid[i][k]] = apn[c]
      BY <3>1 DEF Candidate, Searched
    <3>3. cid[i][k] \in Contexts /\ Contains(cid[i], cid[i][k])
      BY <3>2, SearchFinds
    <3>4. \A j \in used : \A d \in Contexts :
            Contains(cid[j], d) => (i = j <=> apn[cid[i][k]] = apn[d])
      BY <1>3, <3>2, <3>3 DEF OneApn
    <3>5. QED
      BY <1>1, <1>3, <2>1, <3>2, <3>4
  <2>2. CASE ~HasTwin(c)
    <3>1. i # MaxCid /\ i \notin used /\ i \in 0..MaxCid
      BY <1>1, <1>2, <1>3, <2>2, FreeIdFound
    <3>2. \A d \in Contexts : ~Contains(cid[i], d)
      BY <1>3, <3>1 DEF Placed
    <3>3. \A j \in used : \A d \in Contexts :
            Contains(cid[j], d) /\ apn[d] = apn[c] => d = c
      BY <2>2, SearchFinds
    <3>4. \A j \in used : ~Contains(cid[j], c)
      BY <1>2, <1>3 DEF Placed, TypeOK
    <3>5. QED
      BY <1>3, <3>1, <3>2, <3>3, <3>4 DEF Held
  <2>3. QED
    BY <2>1, <2>2
<1>6. \A d \in Contexts : d = c \/ Contains(cid[i], d) => state[d] = "DEACTIVATED"
  <2>1. ASSUME NEW d \in Contexts, state[d] # "DEACTIVATED"
        PROVE  d # c /\ ~Contains(cid[i], d)
    <3>1. pdp[id[d]] = apn[d] /\ apn[d] # NoPdp /\ Contains(cid[id[d]], d)
      BY <1>3, <2>1, PdpAssumption DEF Connected, Reachable, TypeOK
    <3>2. id[d] \in used /\ id[d] # 0
      BY <1>3, <3>1 DEF Held, TypeOK
    <3>3. id[d] # i
      BY <1>5, <3>1
    <3>4. QED
      BY <1>2, <1>3, <3>2, <3>3 DEF Placed
  <2>2. QED
    BY <2>1
<1>7. TypeOK'
  <2>1. used' \subseteq 1..MaxCid
    BY <1>3, <1>4 DEF TypeOK
  <2>2. QED
    BY <1>2, <1>3, <1>4, <2>1 DEF TypeOK
<1>8. OneApn'
  <2>1. SUFFICES ASSUME NEW j \in used', NEW k \in used', NEW d \in Contexts, NEW e \in Contexts,
                        Contains(cid'[j], d), Contains(cid'[k], e)
                 PROVE  j = k <=> apn[d] = apn[e]
    BY <1>2 DEF OneApn
  <2>2. j \in 0..MaxCid /\ k \in 0..MaxCid
    <3>1. used' \subseteq 1..MaxCid
      BY <1>7 DEF TypeOK
    <3>2. QED
      BY <1>3, <2>1, <3>1
  <2>3. /\ Contains(cid[j], d) \/ (j = i /\ d = c)
        /\ Contains(cid[k], e) \/ (k = i /\ e = c)
    BY <1>4, <2>1, <2>2
  <2>4. \A l \in 0..MaxCid : \A f \in Contexts : Contains(cid[l], f) => l \in used
    BY <1>3 DEF Placed
  <2>5. QED
    BY <1>3, <1>5, <2>2, <2>3, <2>4 DEF OneApn
<1>9. Reachable' /\ Connected'
  <2>1. ASSUME NEW d \in Contexts, state[d] # "DEACTIVATED"
        PROVE  Contains(cid'[id'[d]], d) /\ pdp[id'[d]] = apn[d]
    <3>1. d # c /\ id'[d] = id[d] /\ id[d] \in 0..MaxCid
      BY <1>3, <1>4, <1>6, <2>1 DEF TypeOK
    <3>2. QED
      BY <1>3, <1>4, <2>1, <3>1 DEF Reachable, Connected
  <2>2. QED
    BY <1>2, <2>1 DEF Reachable, Connected
<1>10. Alike'
  <2>1. ASSUME NEW j \in 0..MaxCid, NEW d \in Contexts, NEW e \in Contexts,
               Contains(cid'[j], d), Contains(cid'[j], e)
        PROVE  state[d] = state[e]
    <3>1. CASE j = i
      BY <1>4, <1>6, <2>1, <3>1
    <3>2. CASE j # i
      BY <1>3, <1>4, <2>1, <3>2 DEF Alike
    <3>3. QED
      BY <3>1, <3>2
  <2>2. QED
    BY <1>2, <2>1 DEF Alike
<1>11. Held'
  BY <1>2, <1>3, <1>4, <1>5 DEF Held
<1>12. Spare'
  BY <1>3, <1>4, <1>5 DEF Spare
<1>13. QED
  BY <1>4, <1>7, <1>8, <1>9, <1>10, <1>11, <1>12 DEF ContextInv

\* An id is cleared for a deactivated context; if its connection is up, other
\* contexts hold it.
LEMMA ClearKeeps ==
  ASSUME Premises, ContextInv, NEW c \in Contexts, ClearContextId(c)
  PROVE  ContextInv'
<1> DEFINE i == id[c]
<1>1. /\ UNCHANGED <<online, state, apn, pdp, walk>> /\ state[c] = "DEACTIVATED" /\ i # 0
      /\ cid' = [cid EXCEPT ![i] = Unlink(@, c)]
      /\ used' = IF Unlink(cid[i], c) = <<>> THEN used \ {i} ELSE used
      /\ id' = [id EXCEPT ![c] = 0]
  BY DEF ClearContextId, Clear
<1>2. TypeOK /\ OneApn /\ Reachable /\ Connected /\ Alike /\ Held /\ Spare
      /\ MaxCid \in Nat \ {0} /\ Placed(used, cid, id)
  BY PsAssumption, SearchFinds DEF ContextInv
<1>3. i \in 0..MaxCid /\ id[c] = i
  BY <1>2 DEF TypeOK
<1> HIDE DEF i
<1>4. /\ used' = IF cid'[i] = <<>> THEN used \ {i} ELSE used
      /\ id' \in [Contexts -> 0..MaxCid]
      /\ \A d \in Contexts : d # c => id'[d] = id[d]
  <2>1. cid'[i] = Unlink(cid[i], c)
    BY <1>1, <1>2, <1>3 DEF TypeOK
  <2>2. id' \in [Contexts -> 0..MaxCid] /\ \A d \in Contexts : d # c => id'[d] = id[d]
    BY <1>1, <1>2 DEF TypeOK
  <2>3. QED
    BY <1>1, <2>1, <2>2
<1>5. /\ cid' \in [0..MaxCid -> Seq(Contexts)]
      /\ EntriesAgree'
      /\ \A j \in 0..MaxCid : \A d \in Contexts :
           Contains(cid'[j], d) <=> Contains(cid[j], d) /\ ~(j = i /\ d = c)
  <2>1. cid' = [cid EXCEPT ![i] = Unlink(@, c)]
    BY <1>1
  <2>2. QED
    BY <1>3, <1>4, <2>1, PlaceLeft
<1>6. used' \subseteq used
  BY <1>4
<1>7. TypeOK'
  <2>1. used' \subseteq 1..MaxCid
    BY <1>2, <1>6 DEF TypeOK
  <2>2. QED
    BY <1>1, <1>2, <1>4, <1>5, <2>1 DEF TypeOK
<1>8. OneApn'
  <2>1. used \subseteq 0..MaxCid
    BY <1>2 DEF TypeOK
  <2>2. /\ apn' = apn /\ OneApn
        /\ \A j \in used' : \A d \in Contexts :
             Contains(cid'[j], d) => j \in used /\ Contains(cid[j], d)
    BY <1>1, <1>2, <1>5, <1>6, <2>1
  <2>3. QED
    BY <2>2 DEF OneApn
<1>9. Reachable' /\ Connected'
  <2>1. ASSUME NEW d \in Contexts, state[d] # "DEACTIVATED"
        PROVE  Contains(cid'[id'[d]], d) /\ pdp[id'[d]] = apn[d]
    <3>1. d # c /\ id'[d] = id[d] /\ id[d] \in 0..MaxCid
      BY <1>1, <1>2, <1>4, <2>1 DEF TypeOK
    <3>2. QED
      BY <1>2, <1>5, <2>1, <3>1 DEF Reachable, Connected
  <2>2. QED
    BY <1>1, <2>1 DEF Reachable, Connected
<1>10. Alike'
  BY <1>1, <1>2, <1>5 DEF Alike
<1>11. Held'
  <2>1. ASSUME NEW j \in 0..MaxCid, pdp[j] # NoPdp
        PROVE  j \in used' /\ \A d \in Contexts : Contains(cid'[j], d) => state[d] # "DEACTIVATED"
    <3>1. j \in used /\ \A d \in Contexts : Contains(cid[j], d) => state[d] # "DEACTIVATED"
      BY <1>2, <2>1 DEF Held
    <3>2. PICK d \in Contexts : Contains(cid[j], d)
      BY <1>2, <3>1 DEF Placed
    <3>3. Contains(cid'[j], d)
      BY <1>1, <1>5, <3>1, <3>2
    <3>4. cid'[j] # <<>>
      BY <3>3, EmptySeq DEF Contains
    <3>5. QED
      BY <1>4, <1>5, <3>1, <3>4
  <2>2. QED
    BY <1>1, <2>1 DEF Held
<1>12. Spare'
  BY <1>2, <1>6 DEF Spare
<1>13. QED
  BY <1>5, <1>7, <1>8, <1>9, <1>10, <1>11, <1>12 DEF ContextInv

\* A context leaves the connection it shares to its twin.
LEMMA LeaveKeeps ==
  ASSUME ContextInv, NEW c \in Contexts, IsActive(c), NEW s, Twin(c, s), Leave(c, s),
         UNCHANGED <<online, apn>>,
         walk' = <<>> \/ walk' \in (0..(MaxCid - 1)) \X (Nat \ {0})
  PROVE  ContextInv'
<1> DEFINE i == id[s]
<1>1. /\ cid' = [cid EXCEPT ![i] = Unlink(@, c)] /\ UNCHANGED <<used, pdp>>
      /\ state' = [state EXCEPT ![c] = "DEACTIVATED"]
      /\ id' = [id EXCEPT ![c] = i]
  BY DEF Leave
<1>2. TypeOK /\ OneApn /\ Reachable /\ Connected /\ Alike /\ Held /\ Spare
      /\ MaxCid \in Nat \ {0} /\ Placed(used, cid, id)
  BY PsAssumption, SearchFinds DEF ContextInv
<1>3. /\ s \in Contexts /\ s # c /\ apn[s] = apn[c]
      /\ i \in used /\ Contains(cid[i], s) /\ i \in 0..MaxCid
  BY <1>2, SearchFinds DEF TypeOK
<1> HIDE DEF i
<1>4. Contains(cid[i], c) /\ id[c] = i
  <2>1. \E j \in used : Contains(cid[j], c)
    BY SearchFinds
  <2>2. QED
    BY <1>2, <1>3, <2>1 DEF OneApn, Placed
<1>5. id' = id
  BY <1>1, <1>2, <1>4 DEF TypeOK
<1>6. cid'[i] # <<>>
  <2>1. /\ Contains(Unlink(cid[i], c), s)
    BY <1>2, <1>3, UnlinkHolds DEF TypeOK, Placed
  <2>2. Contains(cid'[i], s)
    BY <1>1, <1>2, <1>3, <2>1 DEF TypeOK
  <2>3. QED
    BY <2>2, EmptySeq DEF Contains
<1>7. /\ cid' \in [0..MaxCid -> Seq(Contexts)]
      /\ EntriesAgree'
      /\ \A j \in 0..MaxCid : \A d \in Contexts :
           Contains(cid'[j], d) <=> Contains(cid[j], d) /\ ~(j = i /\ d = c)
  <2>1. used' = IF cid'[i] = <<>> THEN used \ {i} ELSE used
    BY <1>1, <1>6
  <2>2. id' \in [Contexts -> 0..MaxCid]
    BY <1>2, <1>5 DEF TypeOK
  <2>3. \A d \in Contexts : d # c => id'[d] = id[d]
    BY <1>5
  <2>4. cid' = [cid EXCEPT ![i] = Unlink(@, c)]
    BY <1>1
  <2>5. i \in 0..MaxCid /\ (id[c] = i \/ id'[c] = id[c])
    BY <1>3, <1>4
  <2>6. QED
    BY <2>1, <2>2, <2>3, <2>4, <2>5, PlaceLeft, ZenonT(60)
<1>8. /\ state' \in [Contexts -> States]
      /\ \A d \in Contexts : state'[d] = IF d = c THEN "DEACTIVATED" ELSE state[d]
  BY <1>1, <1>2 DEF TypeOK, States
<1>9. TypeOK'
  BY <1>1, <1>2, <1>5, <1>7, <1>8 DEF TypeOK
<1>10. OneApn'
  <2>1. used \subseteq 0..MaxCid
    BY <1>2 DEF TypeOK
  <2>2. /\ apn' = apn /\ OneApn
        /\ \A j \in used' : \A d \in Contexts :
             Contains(cid'[j], d) => j \in used /\ Contains(cid[j], d)
    BY <1>1, <1>2, <1>7, <2>1
  <2>3. QED
    BY <2>2 DEF OneApn
<1>11. Reachable' /\ Connected'
  <2>1. ASSUME NEW d \in Contexts, state'[d] # "DEACTIVATED"
        PROVE  Contains(cid'[id[d]], d) /\ pdp[id[d]] = apn[d]
    <3>1. d # c /\ id[d] \in 0..MaxCid /\ state[d] # "DEACTIVATED"
      BY <1>2, <1>8, <2>1 DEF TypeOK
    <3>2. QED
      BY <1>2, <1>7, <3>1 DEF Reachable, Connected
  <2>2. QED
    BY <1>1, <1>5, <2>1 DEF Reachable, Connected
<1>12. Alike'
  <2>1. ASSUME NEW j \in 0..MaxCid, NEW d \in Contexts, NEW e \in Contexts,
               Contains(cid'[j], d), Contains(cid'[j], e)
        PROVE  state'[d] = state'[e]
    <3>1. ~Contains(cid'[j], c)
      BY <1>2, <1>4, <1>7 DEF Placed
    <3>2. d # c /\ e # c /\ Contains(cid[j], d) /\ Contains(cid[j], e)
      BY <1>7, <2>1, <3>1
    <3>3. state[d] = state[e]
      BY <1>2, <3>2 DEF Alike
    <3>4. QED
      BY <1>8, <3>2, <3>3
  <2>2. QED
    BY <2>1 DEF Alike
<1>13. Held'
  <2>1. ASSUME NEW j \in 0..MaxCid, NEW d \in Contexts, Contains(cid'[j], d), pdp[j] # NoPdp
        PROVE  state'[d] # "DEACTIVATED"
    <3>1. d # c
      BY <1>2, <1>4, <1>7, <2>1 DEF Placed
    <3>2. QED
      BY <1>2, <1>7, <1>8, <2>1, <3>1 DEF Held
  <2>2. QED
    BY <1>1, <1>2, <2>1 DEF Held
<1>14. Spare'
  BY <1>1, <1>2 DEF Spare
<1>15. QED
  BY <1>7, <1>9, <1>10, <1>11, <1>12, <1>13, <1>14 DEF ContextInv

\* A context that nothing uses joins the connection of its twin.
LEMMA JoinKeeps ==
  ASSUME ContextInv, NEW c \in Contexts, id[c] = 0, NEW s, Twin(c, s), Join(c, s),
         UNCHANGED <<online, apn, walk>>
  PROVE  ContextInv'
<1> DEFINE i == id[s]
<1>1. /\ cid' = [cid EXCEPT ![i] = Append(@, c)] /\ UNCHANGED <<used, pdp>>
      /\ state' = [state EXCEPT ![c] = state[s]]
      /\ id' = [id EXCEPT ![c] = i]
  BY DEF Join
<1>2. TypeOK /\ OneApn /\ Reachable /\ Connected /\ Alike /\ Held /\ Spare
      /\ MaxCid \in Nat \ {0} /\ Placed(used, cid, id)
  BY PsAssumption, SearchFinds DEF ContextInv
<1>3. /\ s \in Contexts /\ s # c /\ apn[s] = apn[c] /\ id[s] = i
      /\ i \in used /\ Contains(cid[i], s) /\ i \in 1..MaxCid /\ i \in 0..MaxCid
  BY <1>2, SearchFinds DEF TypeOK
<1> HIDE DEF i
<1>4. used' = used \cup {i}
  BY <1>1, <1>3
<1>5. /\ cid' \in [0..MaxCid -> Seq(Contexts)] /\ id' \in [Contexts -> 0..MaxCid]
      /\ EntriesAgree'
      /\ \A j \in 0..MaxCid : \A d \in Contexts :
           Contains(cid'[j], d) <=> Contains(cid[j], d) \/ (j = i /\ d = c)
  <2>1. /\ cid' = [cid EXCEPT ![i] = Append(@, c)]
        /\ id' = [id EXCEPT ![c] = i]
    BY <1>1
  <2>2. i \in 1..MaxCid
    BY <1>3
  <2>3. QED
    BY <1>4, <2>1, <2>2, PlaceTaken
<1>6. /\ state' \in [Contexts -> States]
      /\ \A d \in Contexts : state'[d] = IF d = c THEN state[s] ELSE state[d]
      /\ \A d \in Contexts : id'[d] = IF d = c THEN i ELSE id[d]
  BY <1>1, <1>2, <1>3 DEF TypeOK
<1>7. TypeOK'
  BY <1>1, <1>2, <1>5, <1>6 DEF TypeOK
<1>8. OneApn'
  <2>1. SUFFICES ASSUME NEW j \in used, NEW k \in used, NEW d \in Contexts, NEW e \in Contexts,
                        Contains(cid'[j], d), Contains(cid'[k], e)
                 PROVE  j = k <=> apn[d] = apn[e]
    BY <1>1 DEF OneApn
  <2>2. j \in 0..MaxCid /\ k \in 0..MaxCid
    BY <1>2 DEF TypeOK
  <2>3. /\ Contains(cid[j], d) \/ (j = i /\ d = c)
        /\ Contains(cid[k], e) \/ (k = i /\ e = c)
    BY <1>5, <2>1, <2>2
  <2>4. \A l \in used : \A f \in Contexts :
          Contains(cid[l], f) => (i = l <=> apn[c] = apn[f])
    BY <1>2, <1>3 DEF OneApn
  <2>5. CASE Contains(cid[j], d) /\ Contains(cid[k], e)
    BY <1>2, <2>5 DEF OneApn
  <2>6. CASE (j = i /\ d = c) \/ (k = i /\ e = c)
    BY <2>3, <2>4, <2>6
  <2>7. QED
    BY <2>3, <2>5, <2>6
<1>9. Reachable' /\ Connected'
  <2>1. ASSUME NEW d \in Contexts, state'[d] # "DEACTIVATED"
        PROVE  Contains(cid'[id'[d]], d) /\ pdp[id'[d]] = apn[d]
    <3>1. CASE d = c
      <4>1. id'[c] = i /\ state[s] # "DEACTIVATED"
        BY <1>6, <2>1, <3>1
      <4>2. pdp[i] = apn[c]
        BY <1>2, <1>3, <4>1 DEF Connected
      <4>3. Contains(cid'[i], c)
        BY <1>3, <1>5
      <4>4. QED
        BY <3>1, <4>1, <4>2, <4>3
    <3>2. CASE d # c
      <4>1. id'[d] = id[d] /\ id[d] \in 0..MaxCid /\ state[d] # "DEACTIVATED"
        BY <1>2, <1>6, <2>1, <3>2 DEF TypeOK
      <4>2. QED
        BY <1>2, <1>5, <4>1 DEF Reachable, Connected
    <3>3. QED
      BY <3>1, <3>2
  <2>2. QED
    BY <1>1, <2>1 DEF Reachable, Connected
<1>10. Alike'
  <2>1. ASSUME NEW j \in 0..MaxCid, NEW d \in Contexts, NEW e \in Contexts,
               Contains(cid'[j], d), Contains(cid'[j], e)
        PROVE  state'[d] = state'[e]
    <3>1. CASE j = i
      <4>1. ASSUME NEW f \in Contexts, Contains(cid'[i], f) PROVE state'[f] = state[s]
        <5>1. Contains(cid[i], f) \/ f = c
          BY <1>3, <1>5, <4>1
        <5>2. Contains(cid[i], f) => state[f] = state[s]
          BY <1>2, <1>3 DEF Alike
        <5>3. QED
          BY <1>6, <5>1, <5>2
      <4>2. QED
        BY <2>1, <3>1, <4>1
    <3>2. CASE j # i
      <4>1. Contains(cid[j], d) /\ Contains(cid[j], e) /\ ~Contains(cid[j], c)
        <5>1. j # 0 => ~Contains(cid[j], c)
          BY <1>2 DEF Placed
        <5>2. ~Contains(cid[0], c)
          BY <1>2, 0 \in 0..MaxCid DEF Placed, TypeOK
        <5>3. QED
          BY <1>5, <2>1, <3>2, <5>1, <5>2
      <4>2. QED
        BY <1>2, <1>6, <4>1 DEF Alike
    <3>3. QED
      BY <3>1, <3>2
  <2>2. QED
    BY <2>1 DEF Alike
<1>11. Held'
  <2>1. ASSUME NEW j \in 0..MaxCid, NEW d \in Contexts, Contains(cid'[j], d), pdp[j] # NoPdp
        PROVE  state'[d] # "DEACTIVATED"
    <3>1. CASE d = c
      <4>1. j = i
        <5>1. j # 0 => ~Contains(cid[j], c)
          BY <1>2 DEF Placed
        <5>2. ~Contains(cid[0], c)
          BY <1>2, 0 \in 0..MaxCid DEF Placed, TypeOK
        <5>3. QED
          BY <1>5, <2>1, <3>1, <5>1, <5>2
      <4>2. QED
        BY <1>2, <1>3, <1>6, <2>1, <3>1, <4>1 DEF Held
    <3>2. CASE d # c
      BY <1>2, <1>5, <1>6, <2>1, <3>2 DEF Held
    <3>3. QED
      BY <3>1, <3>2
  <2>2. QED
    BY <1>1, <1>2, <2>1 DEF Held
<1>12. Spare'
  BY <1>1, <1>2 DEF Spare
<1>13. QED
  BY <1>5, <1>7, <1>8, <1>9, <1>10, <1>11, <1>12 DEF ContextInv

\* A context that has no id and no twin gets a free id and asks the modem for
\* the connection under it, which that has not been asked for.
LEMMA AskKeeps ==
  ASSUME Premises, ContextInv, NEW c \in Contexts, id[c] = 0, ~HasTwin(c),
         NEW i \in 1..MaxCid, FreeId(i), Enter(c, i), Ask(c, i),
         UNCHANGED <<online, apn, walk>>
  PROVE  ContextInv' /\ pdp[i] = NoPdp
<1>1. /\ used' = used \cup {i}
      /\ cid' = [cid EXCEPT ![i] = Append(@, c)]
      /\ id' = [id EXCEPT ![c] = i]
      /\ state' = [state EXCEPT ![c] = "ACTIVATING"]
      /\ pdp' = [pdp EXCEPT ![i] = apn[c]]
  BY DEF Enter, Ask
<1>2. TypeOK /\ OneApn /\ Reachable /\ Connected /\ Alike /\ Held /\ Spare
      /\ MaxCid \in Nat \ {0} /\ Placed(used, cid, id)
  BY PsAssumption, SearchFinds DEF ContextInv
<1>3. i # MaxCid /\ i \notin used /\ i \in 0..MaxCid
  BY <1>2, FreeIdFound
<1>4. /\ cid' \in [0..MaxCid -> Seq(Contexts)] /\ id' \in [Contexts -> 0..MaxCid]
      /\ EntriesAgree'
      /\ \A j \in 0..MaxCid : \A d \in Contexts :
           Contains(cid'[j], d) <=> Contains(cid[j], d) \/ (j = i /\ d = c)
  <2>1. /\ used' = used \cup {i}
        /\ cid' = [cid EXCEPT ![i] = Append(@, c)]
        /\ id' = [id EXCEPT ![c] = i]
    BY <1>1
  <2>2. QED
    BY <2>1, PlaceTaken
<1>5. /\ state' \in [Contexts -> States] /\ pdp' \in [0..MaxCid -> Apns \cup {NoPdp}]
      /\ \A d \in Contexts : state'[d] = IF d = c THEN "ACTIVATING" ELSE state[d]
      /\ \A d \in Contexts : id'[d] = IF d = c THEN i ELSE id[d]
      /\ \A j \in 0..MaxCid : pdp'[j] = IF j = i THEN apn[c] ELSE pdp[j]
  BY <1>1, <1>2, <1>3 DEF TypeOK, States
<1>6. \A d \in Contexts : ~Contains(cid[i], d)
  BY <1>2, <1>3 DEF Placed
<1>7. \A j \in 0..MaxCid : ~Contains(cid[j], c)
  BY <1>2, 0 \in 0..MaxCid DEF Placed, TypeOK
<1>8. pdp[i] = NoPdp
  BY <1>2, <1>3 DEF Held
<1>9. TypeOK'
  <2>1. used' \subseteq 1..MaxCid
    BY <1>1, <1>2 DEF TypeOK
  <2>2. QED
    BY <1>2, <1>4, <1>5, <2>1 DEF TypeOK
<1>10. OneApn'
  <2>1. SUFFICES ASSUME NEW j \in used', NEW k \in used', NEW d \in Contexts, NEW e \in Contexts,
                        Contains(cid'[j], d), Contains(cid'[k], e)
                 PROVE  j = k <=> apn[d] = apn[e]
    BY DEF OneApn
  <2>2. j \in 0..MaxCid /\ k \in 0..MaxCid
    <3>1. used' \subseteq 1..MaxCid
      BY <1>9 DEF TypeOK
    <3>2. QED
      BY <1>2, <2>1, <3>1
  <2>3. /\ Contains(cid[j], d) \/ (j = i /\ d = c)
        /\ Contains(cid[k], e) \/ (k = i /\ e = c)
    BY <1>4, <2>1, <2>2
  <2>4. \A l \in 0..MaxCid : \A f \in Contexts :
          Contains(cid[l], f) => l \in used /\ f # c /\ l # i /\ apn[f] # apn[c]
    <3>1. ~ \E l \in used : \E f \in Contexts :
              Contains(cid[l], f) /\ f # c /\ apn[f] = apn[c]
      BY SearchFinds
    <3>2. QED
      BY <1>2, <1>6, <1>7, <3>1 DEF Placed
  <2>5. QED
    BY <1>2, <2>2, <2>3, <2>4 DEF OneApn
<1>11. Reachable' /\ Connected'
  <2>1. ASSUME NEW d \in Contexts, state'[d] # "DEACTIVATED"
        PROVE  Contains(cid'[id'[d]], d) /\ pdp'[id'[d]] = apn[d]
    <3>1. CASE d = c
      BY <1>3, <1>4, <1>5, <3>1
    <3>2. CASE d # c
      <4>1. id'[d] = id[d] /\ id[d] \in 0..MaxCid /\ state[d] # "DEACTIVATED"
        BY <1>2, <1>5, <2>1, <3>2 DEF TypeOK
      <4>2. Contains(cid[id[d]], d) /\ pdp[id[d]] = apn[d]
        BY <1>2, <4>1 DEF Reachable, Connected
      <4>3. QED
        BY <1>4, <1>5, <1>6, <4>1, <4>2
    <3>3. QED
      BY <3>1, <3>2
  <2>2. QED
    BY <2>1 DEF Reachable, Connected
<1>12. Alike'
  <2>1. ASSUME NEW j \in 0..MaxCid, NEW d \in Contexts, NEW e \in Contexts,
               Contains(cid'[j], d), Contains(cid'[j], e)
        PROVE  state'[d] = state'[e]
    <3>1. CASE j = i
      BY <1>4, <1>6, <2>1, <3>1
    <3>2. CASE j # i
      <4>1. Contains(cid[j], d) /\ Contains(cid[j], e)
        BY <1>4, <2>1, <3>2
      <4>2. state[d] = state[e] /\ d # c /\ e # c
        BY <1>2, <1>7, <4>1 DEF Alike
      <4>3. QED
        BY <1>5, <4>2
    <3>3. QED
      BY <3>1, <3>2
  <2>2. QED
    BY <2>1 DEF Alike
<1>13. Held'
  <2>1. ASSUME NEW j \in 0..MaxCid, pdp'[j] # NoPdp
        PROVE  j \in used' /\ \A d \in Contexts : Contains(cid'[j], d) => state'[d] # "DEACTIVATED"
    BY <1>1, <1>2, <1>4, <1>5, <1>6, <2>1 DEF Held
  <2>2. QED
    BY <2>1 DEF Held
<1>14. Spare'
  BY <1>1, <1>2, <1>3 DEF Spare
<1>15. QED
  BY <1>4, <1>8, <1>9, <1>10, <1>11, <1>12, <1>13, <1>14 DEF ContextInv

\* A context that is alone on its connection starts to bring that down.
LEMMA StopKeeps ==
  ASSUME ContextInv, NEW c \in Contexts, ~HasTwin(c), state[c] = "ACTIVATED",
         state' = [state EXCEPT ![c] = "DEACTIVATING"],
         UNCHANGED <<used, cid, id, pdp, online, apn>>,
         walk' = <<>> \/ walk' \in (0..(MaxCid - 1)) \X (Nat \ {0})
  PROVE  ContextInv'
<1>1. TypeOK /\ OneApn /\ Reachable /\ Connected /\ Alike /\ Held
      /\ MaxCid \in Nat \ {0} /\ Placed(used, cid, id)
  BY PsAssumption, SearchFinds DEF ContextInv
<1>2. /\ state' \in [Contexts -> States]
      /\ \A d \in Contexts : state'[d] = IF d = c THEN "DEACTIVATING" ELSE state[d]
  BY <1>1 DEF TypeOK, States
<1>3. TypeOK'
  BY <1>1, <1>2 DEF TypeOK
<1>4. OneApn'
  BY <1>1 DEF OneApn
<1>5. Reachable' /\ Connected'
  BY <1>1, <1>2 DEF Reachable, Connected
<1>6. Alike'
  <2>1. ASSUME NEW j \in 0..MaxCid, NEW d \in Contexts, NEW e \in Contexts,
               Contains(cid[j], d), Contains(cid[j], e)
        PROVE  state'[d] = state'[e]
    <3>1. ASSUME NEW f \in Contexts, Contains(cid[j], c), Contains(cid[j], f) PROVE f = c
      <4>1. j \in used
        BY <1>1, <3>1 DEF Placed
      <4>2. apn[f] = apn[c]
        BY <1>1, <3>1, <4>1 DEF OneApn
      <4>3. QED
        BY <3>1, <4>1, <4>2, SearchFinds
    <3>2. CASE Contains(cid[j], c)
      BY <2>1, <3>1, <3>2
    <3>3. CASE ~Contains(cid[j], c)
      BY <1>1, <1>2, <2>1, <3>3 DEF Alike
    <3>4. QED
      BY <3>2, <3>3
  <2>2. QED
    BY <2>1 DEF Alike
<1>7. Held'
  BY <1>1, <1>2 DEF Held
<1>8. QED
  BY <1>3, <1>4, <1>5, <1>6, <1>7, TableKept

\* tcore_ps_activate_context: the context joins its twin or asks the modem.
LEMMA ActivateKeeps ==
  ASSUME Premises, ContextInv, NEW c \in Contexts, Activate(c)
  PROVE  /\ ContextInv'
         /\ \A i \in 0..MaxCid : pdp[i] # pdp'[i] => pdp[i] = NoPdp
         /\ state'[c] = "ACTIVATED" => id'[c] # id[c]
         /\ \A d \in Contexts \ {c} : state'[d] = state[d]
<1>1. TypeOK /\ Placed(used, cid, id) /\ MaxCid \in Nat \ {0}
  BY PsAssumption, SearchFinds DEF ContextInv
<1>2. id[c] = 0
  <2>1. ~ \E i \in used : Contains(cid[i], c)
    BY SearchFinds DEF Activate
  <2>2. id[c] # 0 => Contains(cid[id[c]], c)
    BY DEF Activate, Idle, Tidy, Premises
  <2>3. QED
    BY <1>1, <2>1, <2>2 DEF Placed, TypeOK
<1>3. UNCHANGED <<online, apn, walk>>
  BY DEF Activate
<1>4. CASE \E s \in Contexts : Twin(c, s) /\ Join(c, s)
  <2>1. PICK s \in Contexts : Twin(c, s) /\ Join(c, s)
    BY <1>4
  <2>2. id[s] \in used /\ id[s] # 0
    BY <1>1, <2>1, SearchFinds DEF TypeOK
  <2>3. pdp' = pdp /\ id'[c] = id[s] /\ \A d \in Contexts \ {c} : state'[d] = state[d]
    BY <1>1, <2>1 DEF Join, TypeOK
  <2>4. QED
    BY <1>2, <1>3, <2>1, <2>2, <2>3, JoinKeeps
<1>5. CASE ~ \E s \in Contexts : Twin(c, s) /\ Join(c, s)
  <2>1. ~HasTwin(c) /\ \E i \in 1..MaxCid : FreeId(i) /\ Enter(c, i) /\ Ask(c, i)
    BY <1>2, <1>5 DEF Activate
  <2>2. PICK i \in 1..MaxCid : FreeId(i) /\ Enter(c, i) /\ Ask(c, i)
    BY <2>1
  <2>3. ContextInv' /\ pdp[i] = NoPdp
    BY <1>2, <1>3, <2>1, <2>2, AskKeeps
  <2>4. /\ \A j \in 0..MaxCid : j # i => pdp'[j] = pdp[j]
        /\ state'[c] = "ACTIVATING"
        /\ \A d \in Contexts \ {c} : state'[d] = state[d]
    BY <1>1, <2>2 DEF Ask, TypeOK
  <2>5. QED
    BY <2>3, <2>4
<1>6. QED
  BY <1>4, <1>5

\* tcore_ps_deactivate_context, behind its checks: no connection changes, and
\* nothing becomes active.
LEMMA DropKeeps ==
  ASSUME ContextInv, NEW c \in Contexts, IsActive(c), Drop(c),
         UNCHANGED <<online, apn>>,
         walk' = <<>> \/ walk' \in (0..(MaxCid - 1)) \X (Nat \ {0})
  PROVE  /\ ContextInv'
         /\ pdp' = pdp
         /\ \A d \in Contexts : state'[d] = "ACTIVATED" => state[d] = "ACTIVATED"
<1>1. TypeOK
  BY DEF ContextInv
<1>2. CASE \E s \in Contexts : Twin(c, s) /\ Leave(c, s)
  <2>1. PICK s \in Contexts : Twin(c, s) /\ Leave(c, s)
    BY <1>2
  <2>2. ContextInv'
    BY <2>1, LeaveKeeps
  <2>3. pdp' = pdp /\ state' = [state EXCEPT ![c] = "DEACTIVATED"]
    BY <2>1 DEF Leave
  <2>4. QED
    BY <1>1, <2>2, <2>3 DEF TypeOK
<1>3. CASE ~ \E s \in Contexts : Twin(c, s) /\ Leave(c, s)
  <2>1. /\ ~HasTwin(c) /\ state[c] = "ACTIVATED"
        /\ state' = [state EXCEPT ![c] = "DEACTIVATING"]
        /\ UNCHANGED <<used, cid, id, pdp>>
    BY <1>3 DEF Drop
  <2>2. ContextInv'
    BY <2>1, StopKeeps
  <2>3. QED
    BY <1>1, <2>1, <2>2 DEF TypeOK
<1>4. QED
  BY <1>2, <1>3

\* tcore_ps_deactivate_contexts comes by a context.
LEMMA WalkKeeps ==
  ASSUME ContextInv, WalkContext
  PROVE  /\ ContextInv'
         /\ pdp' = pdp
         /\ \A d \in Contexts : state'[d] = "ACTIVATED" => state[d] = "ACTIVATED"
<1> DEFINE i == walk[1]
           k == walk[2]
           c == cid[i][k]
<1>1. TypeOK /\ MaxCid \in Nat \ {0} /\ Placed(used, cid, id)
  BY PsAssumption, TablePlaced DEF ContextInv
<1>2. /\ walk # <<>> /\ i \in Searched /\ k \in DOMAIN cid[i]
      /\ UNCHANGED <<online, apn>>
      /\ \/ /\ Drop(c)
            /\ IF cid'[i] = cid[i] THEN walk' = <<i, k + 1>>
               ELSE walk' \in {<<i, k>>, <<i, Len(cid'[i]) + 1>>}
         \/ /\ ~HasTwin(c) /\ state[c] # "ACTIVATED"
            /\ walk' = <<i, k + 1>>
            /\ UNCHANGED <<used, cid, state, id, pdp>>
  BY Zenon DEF WalkContext
<1>3. i \in 0..(MaxCid - 1) /\ k \in Nat \ {0}
  BY <1>1, <1>2 DEF TypeOK
<1>4. i \in used /\ i \in 0..MaxCid
  BY <1>1, <1>2, <1>3 DEF Searched
<1>5. c \in Contexts /\ Contains(cid[i], c)
  <2>1. cid[i] \in Seq(Contexts)
    BY <1>1, <1>4 DEF TypeOK
  <2>2. QED
    BY <1>2, <2>1, HeldAt
<1> HIDE DEF c, i, k
<1>6. IsActive(c)
  BY <1>4, <1>5, SearchFinds
<1>7. CASE /\ Drop(c)
           /\ IF cid'[i] = cid[i] THEN walk' = <<i, k + 1>>
              ELSE walk' \in {<<i, k>>, <<i, Len(cid'[i]) + 1>>}
  <2>1. cid'[i] \in Seq(Contexts)
    <3>1. IsInjective(cid[i]) /\ cid[i] \in Seq(Contexts)
      BY <1>1, <1>4 DEF Placed, TypeOK
    <3>2. Unlink(cid[i], c) \in Seq(Contexts)
      BY <1>5, <3>1, UnlinkHolds
    <3>3. cid' = cid \/ \E s \in Contexts : cid' = [cid EXCEPT ![id[s]] = Unlink(@, c)]
      BY <1>7 DEF Drop, Leave
    <3>4. cid'[i] \in {cid[i], Unlink(cid[i], c)}
      BY <1>1, <1>4, <3>3 DEF TypeOK
    <3>5. QED
      BY <3>1, <3>2, <3>4
  <2>2. Len(cid'[i]) + 1 \in Nat \ {0} /\ k + 1 \in Nat \ {0}
    BY <1>3, <2>1, LenProperties
  <2>3. walk' \in (0..(MaxCid - 1)) \X (Nat \ {0})
    BY <1>3, <1>7, <2>2
  <2>4. QED
    BY <1>2, <1>5, <1>6, <1>7, <2>3, DropKeeps
<1>8. CASE walk' = <<i, k + 1>> /\ UNCHANGED <<used, cid, state, id, pdp>>
  <2>1. /\ TypeOK /\ OneApn /\ Reachable /\ Connected /\ Alike /\ Held
    BY DEF ContextInv
  <2>2. walk' \in (0..(MaxCid - 1)) \X (Nat \ {0})
    BY <1>3, <1>8
  <2>3. TypeOK'
    BY <1>2, <1>8, <2>1, <2>2 DEF TypeOK
  <2>4. OneApn' /\ Reachable' /\ Connected' /\ Alike' /\ Held'
    BY <1>2, <1>8, <2>1 DEF OneApn, Reachable, Connected, Alike, Held
  <2>5. QED
    BY <1>8, <2>3, <2>4, TableKept
<1>9. QED
  BY <1>2, <1>7, <1>8

\* The modem reports that a connection is up.
LEMMA EstablishedKeeps ==
  ASSUME ContextInv, NEW i \in 1..MaxCid, Established(i)
  PROVE  /\ ContextInv'
         /\ pdp' = pdp
         /\ \A d \in Contexts : state'[d] = "ACTIVATED" => state[d] \in {"ACTIVATING", "ACTIVATED"}
<1>1. TypeOK /\ OneApn /\ Reachable /\ Connected /\ Alike /\ Held
      /\ MaxCid \in Nat \ {0} /\ Placed(used, cid, id)
  BY PsAssumption, TablePlaced DEF ContextInv
<1>2. /\ pdp[i] # NoPdp /\ i \in used /\ i \in 0..MaxCid
      /\ UNCHANGED <<online, used, cid, id, apn, pdp, walk>>
      /\ state' = [c \in Contexts |-> IF Contains(cid[i], c) THEN "ACTIVATED" ELSE state[c]]
  BY <1>1 DEF Established
<1>3. \A d \in Contexts : Contains(cid[i], d) => state[d] = "ACTIVATING"
  <2>1. PICK k \in DOMAIN cid[i] : state[cid[i][k]] = "ACTIVATING"
    BY DEF Established
  <2>2. cid[i] \in Seq(Contexts)
    BY <1>1, <1>2 DEF TypeOK
  <2>3. cid[i][k] \in Contexts /\ Contains(cid[i], cid[i][k])
    BY <2>2, HeldAt
  <2>4. QED
    BY <1>1, <1>2, <2>1, <2>3 DEF Alike
<1>4. /\ state' \in [Contexts -> States]
      /\ \A d \in Contexts : state'[d] = IF Contains(cid[i], d) THEN "ACTIVATED" ELSE state[d]
  BY <1>1, <1>2 DEF TypeOK, States
<1>5. TypeOK'
  BY <1>1, <1>2, <1>4 DEF TypeOK
<1>6. OneApn'
  <2>1. OneApn /\ UNCHANGED <<used, cid, apn>>
    BY <1>1, <1>2
  <2>2. QED
    BY <2>1 DEF OneApn
<1>7. Reachable' /\ Connected'
  <2>1. ASSUME NEW d \in Contexts, state'[d] # "DEACTIVATED" PROVE state[d] # "DEACTIVATED"
    BY <1>3, <1>4, <2>1
  <2>2. QED
    BY <1>1, <1>2, <2>1 DEF Reachable, Connected
<1>8. Alike'
  <2>1. ASSUME NEW j \in 0..MaxCid, NEW d \in Contexts, NEW e \in Contexts,
               Contains(cid[j], d), Contains(cid[j], e)
        PROVE  state'[d] = state'[e]
    <3>1. CASE j = i
      BY <1>4, <2>1, <3>1
    <3>2. CASE j # i
      BY <1>1, <1>2, <1>4, <2>1, <3>2 DEF Alike, Placed
    <3>3. QED
      BY <3>1, <3>2
  <2>2. QED
    BY <1>2, <2>1 DEF Alike
<1>9. Held'
  BY <1>1, <1>2, <1>4 DEF Held
<1>10. QED
  BY <1>2, <1>3, <1>4, <1>5, <1>6, <1>7, <1>8, <1>9, TableKept

\* The modem reports that a connection is down: its contexts lose the id.
LEMMA ReleasedKeeps ==
  ASSUME ContextInv, NEW i \in 1..MaxCid, Released(i)
  PROVE  /\ ContextInv'
         /\ \A j \in 0..MaxCid : pdp[j] # pdp'[j] => pdp'[j] = NoPdp
         /\ \A d \in Contexts : state'[d] = "ACTIVATED" => state[d] = "ACTIVATED"
<1>1. TypeOK /\ OneApn /\ Reachable /\ Connected /\ Alike /\ Held /\ Spare
      /\ MaxCid \in Nat \ {0} /\ Placed(used, cid, id)
  BY PsAssumption, TablePlaced DEF ContextInv
<1>2. /\ i \in 0..MaxCid
      /\ UNCHANGED <<online, apn, walk>>
      /\ pdp' = [pdp EXCEPT ![i] = NoPdp]
      /\ state' = [c \in Contexts |-> IF Contains(cid[i], c) THEN "DEACTIVATED" ELSE state[c]]
      /\ id' = [c \in Contexts |-> IF Contains(cid[i], c) THEN 0 ELSE id[c]]
      /\ cid' = [cid EXCEPT ![i] = <<>>]
      /\ used' = used \ {i}
  BY <1>1 DEF Released
<1>3. <<>> \in Seq(Contexts) /\ IsInjective(<<>>) /\ \A d \in Contexts : ~Contains(<<>>, d)
  <2>1. <<>> \in Seq(Contexts) /\ Len(<<>>) = 0
    BY EmptySeq
  <2>2. QED
    BY <2>1 DEF IsInjective, Contains
<1>4. /\ state' \in [Contexts -> States] /\ id' \in [Contexts -> 0..MaxCid]
      /\ pdp' \in [0..MaxCid -> Apns \cup {NoPdp}]
      /\ \A d \in Contexts : state'[d] = IF Contains(cid[i], d) THEN "DEACTIVATED" ELSE state[d]
      /\ \A d \in Contexts : id'[d] = IF Contains(cid[i], d) THEN 0 ELSE id[d]
      /\ \A j \in 0..MaxCid : pdp'[j] = IF j = i THEN NoPdp ELSE pdp[j]
  BY <1>1, <1>2 DEF TypeOK, States
<1>5. /\ cid' \in [0..MaxCid -> Seq(Contexts)]
      /\ \A j \in 0..MaxCid : IsInjective(cid'[j])
      /\ \A j \in 0..MaxCid : \A d \in Contexts :
           Contains(cid'[j], d) <=> Contains(cid[j], d) /\ j # i
  <2>1. \A j \in 0..MaxCid : cid'[j] = IF j = i THEN <<>> ELSE cid[j]
    BY <1>1, <1>2 DEF TypeOK
  <2>2. cid' \in [0..MaxCid -> Seq(Contexts)]
    BY <1>1, <1>2, <1>3 DEF TypeOK
  <2>3. \A j \in 0..MaxCid : IsInjective(cid'[j])
    BY <1>1, <1>3, <2>1 DEF Placed
  <2>4. QED
    BY <1>3, <2>1, <2>2, <2>3
<1>6. \A j \in 0..MaxCid : \A d \in Contexts :
        Contains(cid[j], d) /\ j # i => ~Contains(cid[i], d)
  BY <1>1, <1>2 DEF Placed
<1>7. EntriesAgree'
  <2>1. Placed(used', cid', id')
    BY <1>1, <1>2, <1>4, <1>5, <1>6 DEF Placed
  <2>2. Entries(used', cid', id')
    BY <1>5, <2>1, SameTable
  <2>3. QED
    BY <2>2 DEF Entries, EntriesAgree
<1>8. TypeOK'
  BY <1>1, <1>2, <1>4, <1>5 DEF TypeOK
<1>9. OneApn'
  <2>1. used \subseteq 0..MaxCid
    BY <1>1 DEF TypeOK
  <2>2. /\ apn' = apn /\ OneApn
        /\ \A j \in used' : \A d \in Contexts :
             Contains(cid'[j], d) => j \in used /\ Contains(cid[j], d)
    BY <1>1, <1>2, <1>5, <2>1
  <2>3. QED
    BY <2>2 DEF OneApn
<1>10. Reachable' /\ Connected'
  <2>1. ASSUME NEW d \in Contexts, state'[d] # "DEACTIVATED"
        PROVE  Contains(cid'[id'[d]], d) /\ pdp'[id'[d]] = apn[d]
    <3>1. /\ state[d] # "DEACTIVATED" /\ ~Contains(cid[i], d)
          /\ id'[d] = id[d] /\ id[d] \in 0..MaxCid
      BY <1>1, <1>4, <2>1 DEF TypeOK
    <3>2. Contains(cid[id[d]], d) /\ pdp[id[d]] = apn[d]
      BY <1>1, <3>1 DEF Reachable, Connected
    <3>3. QED
      BY <1>4, <1>5, <3>1, <3>2
  <2>2. QED
    BY <1>2, <2>1 DEF Reachable, Connected
<1>11. Alike'
  <2>1. ASSUME NEW j \in 0..MaxCid, NEW d \in Contexts, NEW e \in Contexts,
               Contains(cid'[j], d), Contains(cid'[j], e)
        PROVE  state'[d] = state'[e]
    <3>1. /\ Contains(cid[j], d) /\ Contains(cid[j], e)
          /\ ~Contains(cid[i], d) /\ ~Contains(cid[i], e)
      BY <1>5, <1>6, <2>1
    <3>2. QED
      BY <1>1, <1>4, <3>1 DEF Alike
  <2>2. QED
    BY <2>1 DEF Alike
<1>12. Held'
  BY <1>1, <1>2, <1>4, <1>5, <1>6 DEF Held
<1>13. Spare'
  BY <1>1, <1>2 DEF Spare
<1>14. QED
  BY <1>4, <1>5, <1>7, <1>8, <1>9, <1>10, <1>11, <1>12, <1>13 DEF ContextInv

-----------------------------------------------------------------------------
(* Every step, and the theorems *)

\* A step keeps the invariant; it changes the APN of a connection only from or
\* to none, and activates only contexts that were to be activated or get an id.
LEMMA ContextStep ==
  ASSUME Premises, ContextInv, [Next]_vars
  PROVE  /\ ContextInv'
         /\ \A i \in 0..MaxCid : pdp[i] # pdp'[i] => NoPdp \in {pdp[i], pdp'[i]}
         /\ \A c \in Contexts :
              state'[c] = "ACTIVATED" =>
                state[c] \in {"ACTIVATING", "ACTIVATED"} \/ id'[c] # id[c]
<1>1. CASE \/ SetOnline \/ DeactivateContexts \/ WalkEntry
           \/ \E c \in Contexts : SetApn(c)
           \/ UNCHANGED vars
  <2>1. pdp' = pdp /\ state' = state
    BY <1>1 DEF SetOnline, DeactivateContexts, WalkEntry, SetApn, vars
  <2>2. QED
    BY <1>1, <2>1, QuietCalls
<1>2. ASSUME NEW c \in Contexts, AssignContextId(c) \/ ClearContextId(c)
      PROVE  ContextInv' /\ pdp' = pdp /\ state' = state
  BY <1>2, AssignKeeps, ClearKeeps DEF AssignContextId, ClearContextId
<1>3. CASE \E c \in Contexts : Activate(c)
  BY <1>3, ActivateKeeps
<1>4. ASSUME NEW c \in Contexts, Deactivate(c)
      PROVE  /\ ContextInv' /\ pdp' = pdp
             /\ \A d \in Contexts : state'[d] = "ACTIVATED" => state[d] = "ACTIVATED"
  <2>1. /\ IsActive(c) /\ Drop(c) /\ UNCHANGED <<online, apn>> /\ walk' = <<>>
    BY <1>4 DEF Deactivate, Idle
  <2>2. QED
    BY <2>1, DropKeeps
<1>5. CASE WalkContext
  BY <1>5, WalkKeeps
<1>6. CASE \E i \in 1..MaxCid : Established(i)
  BY <1>6, EstablishedKeeps
<1>7. CASE \E i \in 1..MaxCid : Released(i)
  BY <1>7, ReleasedKeeps
<1>8. QED
  BY <1>1, <1>2, <1>3, <1>4, <1>5, <1>6, <1>7 DEF Next

\* For any contexts, and any APNs that are fewer than the ids, the invariant
\* holds throughout: what co_ps.c and co_context.c keep of the connections
\* agrees, when the plugin clears the ids of contexts that left one.
THEOREM ContextCorrect == ASSUME Premises PROVE Spec => []ContextInv
<1>1. Init => ContextInv
  BY InitContext
<1>2. ContextInv /\ [Next]_vars => ContextInv'
  BY ContextStep
<1>3. QED
  BY <1>1, <1>2, PTL DEF Spec

\* Every variable of the packet service keeps its type.
THEOREM ContextType == ASSUME Premises PROVE Spec => []TypeOK
<1>1. ContextInv => TypeOK
  BY DEF ContextInv
<1>2. QED
  BY <1>1, ContextCorrect, PTL

\* An id is in use exactly while contexts have it, each of them once.
THEOREM EntriesCorrect == ASSUME Premises PROVE Spec => []EntriesAgree
<1>1. ContextInv => EntriesAgree
  BY DEF ContextInv
<1>2. QED
  BY <1>1, ContextCorrect, PTL

\* No context is in use where the reports of the modem do not reach it.
THEOREM ContextsReachable == ASSUME Premises PROVE Spec => []Reachable
<1>1. ContextInv => Reachable
  BY DEF ContextInv
<1>2. QED
  BY <1>1, ContextCorrect, PTL

\* There is one connection for each APN in use, and its contexts hold it.
THEOREM ConnectionsShared == ASSUME Premises PROVE Spec => []Sharing
<1>1. ASSUME ContextInv PROVE Sharing
  <2>1. TypeOK /\ OneApn /\ Connected /\ Held /\ MaxCid \in Nat \ {0}
    BY <1>1, PsAssumption DEF ContextInv
  <2>2. ASSUME NEW i \in used, NEW k \in DOMAIN cid[i]
        PROVE  cid[i][k] \in Contexts /\ Contains(cid[i], cid[i][k])
    <3>1. cid[i] \in Seq(Contexts)
      BY <2>1 DEF TypeOK
    <3>2. QED
      BY <3>1, HeldAt
  <2>3. \A i, j \in used : \A k \in DOMAIN cid[i], l \in DOMAIN cid[j] :
          i = j <=> apn[cid[i][k]] = apn[cid[j][l]]
    BY <2>1, <2>2 DEF OneApn
  <2>4. \A i \in 1..MaxCid : pdp[i] # NoPdp => i \in used
    BY <2>1 DEF Held
  <2>5. QED
    BY <2>1, <2>3, <2>4 DEF Sharing, Connected
<1>2. QED
  BY <1>1, ContextCorrect, PTL

\* The modem is never asked to connect under an id that has a connection.
THEOREM ConnectionsApart == ASSUME Premises PROVE Spec => OneConnection
<1>1. ContextInv /\ [Next]_vars =>
        [\A i \in 0..MaxCid : pdp[i] # pdp'[i] => NoPdp \in {pdp[i], pdp'[i]}]_vars
  BY ContextStep
<1>2. QED
  BY <1>1, ContextCorrect, PTL DEF Spec, OneConnection

\* Late reports of the modem revive no context.
THEOREM ReportsRevive == ASSUME Premises PROVE Spec => NoRevival
<1>1. ContextInv /\ [Next]_vars =>
        [\A c \in Contexts :
           state'[c] = "ACTIVATED" =>
             state[c] \in {"ACTIVATING", "ACTIVATED"} \/ id'[c] # id[c]]_vars
  BY ContextStep
<1>2. QED
  BY <1>1, ContextCorrect, PTL DEF Spec, NoRevival
=============================================================================
