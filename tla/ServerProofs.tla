---------------------------- MODULE ServerProofs ----------------------------
(***************************************************************************)
(* Proofs about Server: the count of a user request is that of what holds  *)
(* it, for any number of plugins, objects, hooks and requests, and the     *)
(* default plugin stays.                                                   *)
(***************************************************************************)
EXTENDS Server, SeqLemmas, FiniteSetTheorems, TLAPS

Holders == {Comm, Hook, "stopper"} \cup Objects

RequestType ==
  [state : {"absent", "hooks", "objects", "out", "freed"},
   name : Plugins \cup {Default, "none"}, cmd : Commands["request"] \cup {"none"},
   left : SUBSET Objects, ok : BOOLEAN, ref : Nat, holders : SUBSET Holders]

\* The count of a request, which starts at 0.
Counted(u) ==
  /\ IsFiniteSet(u.holders)
  /\ u.state \in {"absent", "freed"} => u.holders = {}
  /\ u.state \in {"hooks", "objects", "out"} => Cardinality(u.holders) = u.ref + 1

\* Who may hold a request on its way: until it is accepted its communicator
\* does, and what has not been asked yet does not.
Dispatches(u) ==
  /\ u.state = "hooks" => Comm \in u.holders /\ u.holders \subseteq {Comm, Hook}
  /\ u.state = "objects" => /\ ~u.ok => Comm \in u.holders
                            /\ u.left \cap u.holders = {}

\* The inductive invariant.
RequestInv == /\ ur \in [Requests -> RequestType]
              /\ \A r \in Requests : Counted(ur[r]) /\ Dispatches(ur[r])

-----------------------------------------------------------------------------
(* One request *)

\* One holder more or less.
LEMMA CountHolder ==
  ASSUME NEW S, IsFiniteSet(S), NEW h
  PROVE  /\ IsFiniteSet(S \cup {h}) /\ IsFiniteSet(S \ {h}) /\ Cardinality(S) \in Nat
         /\ h \notin S => Cardinality(S \cup {h}) = Cardinality(S) + 1
         /\ h \in S => Cardinality(S \ {h}) = Cardinality(S) - 1
BY FS_AddElement, FS_RemoveElement, FS_CardinalityType

\* No holder, no count.
LEMMA NoHolder ==
  ASSUME NEW S, IsFiniteSet(S), Cardinality(S) = 0
  PROVE  S = {}
BY FS_EmptySet

\* tcore_user_request_free and _unref.
LEMMA LetGoCounts ==
  ASSUME NEW u \in RequestType, Counted(u), u.state \in {"hooks", "objects", "out"},
         NEW h \in u.holders
  PROVE  LetGo(u, h) \in RequestType /\ Counted(LetGo(u, h)) /\ Dispatches(LetGo(u, h))
<1> DEFINE S == u.holders \ {h}
<1>1. /\ u.ref \in Nat /\ IsFiniteSet(u.holders)
      /\ Cardinality(u.holders) = u.ref + 1
  BY DEF Counted, RequestType
<1>2. IsFiniteSet(S) /\ Cardinality(S) = u.ref /\ S \subseteq Holders
  BY <1>1, CountHolder DEF RequestType
<1>3. CASE u.ref > 0
  <2> DEFINE n == u.ref - 1
             v == [u EXCEPT !.holders = S, !.ref = n, !.state = "out"]
  <2>1. LetGo(u, h) = v
    BY <1>3 DEF LetGo, RequestType
  <2>2. n \in Nat /\ n + 1 = u.ref
    BY <1>1, <1>3
  <2> HIDE DEF n, S
  <2>3. v \in RequestType /\ v.holders = S /\ v.ref = n /\ v.state = "out"
    BY <1>2, <2>2 DEF RequestType
  <2> HIDE DEF v
  <2>4. QED
    BY <1>2, <2>1, <2>2, <2>3 DEF Counted, Dispatches
<1>4. CASE ~(u.ref > 0)
  <2> DEFINE v == [u EXCEPT !.holders = S, !.state = "freed"]
  <2>1. LetGo(u, h) = v
    BY <1>4 DEF LetGo, RequestType
  <2>2. v \in RequestType /\ v.holders = S /\ v.state = "freed"
    BY <1>1, <1>2 DEF RequestType
  <2>3. u.ref = 0
    BY <1>1, <1>4
  <2> HIDE DEF v
  <2>4. S = {}
    BY <1>2, <2>3, NoHolder
  <2>5. QED
    BY <1>2, <2>1, <2>2, <2>4 DEF Counted, Dispatches
<1>5. QED
  BY <1>3, <1>4

\* tcore_user_request_ref, or taking over from the communicator.
LEMMA AcceptCounts ==
  ASSUME NEW u \in RequestType, Counted(u), u.state \in {"hooks", "objects"},
         NEW h \in Holders, h \notin u.holders
  PROVE  LET v == Accept(u, h)
         IN /\ v \in RequestType /\ v.ok /\ v.left = u.left /\ v.state = u.state
            /\ Counted(v) /\ v.holders \subseteq u.holders \cup {h}
<1>1. /\ u.ref \in Nat /\ IsFiniteSet(u.holders) /\ u.holders \subseteq Holders
      /\ Cardinality(u.holders) = u.ref + 1
  BY DEF Counted, RequestType
<1>2. CASE Comm \in u.holders
  <2> DEFINE S == u.holders \ {Comm}
             T == S \cup {h}
             v == [u EXCEPT !.holders = T, !.ok = TRUE]
  <2>1. Accept(u, h) = v
    BY <1>2 DEF Accept, RequestType
  <2>2. IsFiniteSet(S) /\ Cardinality(S) = u.ref
    BY <1>1, <1>2, CountHolder
  <2>3. IsFiniteSet(T) /\ Cardinality(T) = u.ref + 1
    BY <2>2, CountHolder
  <2>4. /\ v \in RequestType /\ v.ok /\ v.left = u.left /\ v.state = u.state
        /\ v.holders = T /\ v.ref = u.ref
    BY <1>1 DEF RequestType
  <2>5. T \subseteq u.holders \cup {h}
    OBVIOUS
  <2> HIDE DEF v, T
  <2>6. QED
    BY <2>1, <2>3, <2>4, <2>5 DEF Counted
<1>3. CASE Comm \notin u.holders
  <2> DEFINE T == u.holders \cup {h}
             n == u.ref + 1
             v == [u EXCEPT !.holders = T, !.ok = TRUE, !.ref = n]
  <2>1. Accept(u, h) = v
    BY <1>3 DEF Accept, RequestType
  <2>2. /\ IsFiniteSet(T) /\ Cardinality(T) = n + 1 /\ n \in Nat
        /\ T \in SUBSET Holders /\ T \subseteq u.holders \cup {h}
    BY <1>1, CountHolder
  <2> HIDE DEF n, T
  <2>3. /\ v \in RequestType /\ v.ok /\ v.left = u.left /\ v.state = u.state
        /\ v.holders = T /\ v.ref = n
    BY <2>2 DEF RequestType
  <2> HIDE DEF v
  <2>4. QED
    BY <2>1, <2>2, <2>3 DEF Counted
<1>4. QED
  BY <1>2, <1>3

-----------------------------------------------------------------------------
(* The steps *)

\* What changes one request keeps the others as they were.
LEMMA OneRequest ==
  ASSUME RequestInv, NEW r \in Requests, NEW v \in RequestType, Counted(v), Dispatches(v),
         ur' = [ur EXCEPT ![r] = v]
  PROVE  RequestInv'
<1>1. ur' \in [Requests -> RequestType]
  BY DEF RequestInv
<1>2. ASSUME NEW q \in Requests PROVE Counted(ur'[q]) /\ Dispatches(ur'[q])
  BY DEF RequestInv
<1>3. QED
  BY <1>1, <1>2 DEF RequestInv

\* A communicator hands a request over.
LEMMA DispatchCounts ==
  ASSUME RequestInv, NEW r \in Requests, NEW name \in Plugins \cup {Default},
         NEW cmd \in Commands["request"], Dispatch(r, name, cmd)
  PROVE  RequestInv'
<1> DEFINE v == [state |-> "hooks", name |-> name, cmd |-> cmd, left |-> {},
                 ok |-> FALSE, ref |-> 0, holders |-> {Comm}]
<1>1. v \in RequestType
  BY DEF RequestType, Holders
<1>2. IsFiniteSet({Comm}) /\ Cardinality({Comm}) = 1
  BY FS_Singleton
<1>3. Counted(v) /\ Dispatches(v)
  BY <1>2 DEF Counted, Dispatches
<1>4. ur' = [ur EXCEPT ![r] = v]
  BY DEF Dispatch
<1> HIDE DEF v
<1>5. QED
  BY <1>1, <1>3, <1>4, OneRequest

\* A hook keeps the request that it lets pass.
LEMMA KeepCounts ==
  ASSUME RequestInv, NEW r \in Requests, HookKeeps(r)
  PROVE  RequestInv'
<1> DEFINE u == ur[r]
           n == u.ref + 1
           T == u.holders \cup {Hook}
           v == [u EXCEPT !.ref = n, !.holders = T]
<1>1. u \in RequestType /\ Counted(u) /\ Dispatches(u)
  BY DEF RequestInv
<1>2. u.state = "hooks" /\ Hook \notin u.holders
  BY DEF HookKeeps
<1>3. ur' = [ur EXCEPT ![r] = v]
  BY DEF HookKeeps, RequestInv
<1> HIDE DEF u
<1>4. IsFiniteSet(u.holders) /\ Cardinality(u.holders) = n /\ u.ref \in Nat
  BY <1>1, <1>2 DEF Counted, RequestType
<1>5. IsFiniteSet(T) /\ Cardinality(T) = n + 1 /\ n \in Nat
  BY <1>2, <1>4, CountHolder
<1>6. T \in SUBSET Holders /\ Comm \in T /\ T \subseteq {Comm, Hook}
  BY <1>1, <1>2 DEF RequestType, Holders, Dispatches
<1> HIDE DEF n, T
<1>7. v \in RequestType /\ v.ref = n /\ v.holders = T /\ v.state = "hooks"
  BY <1>1, <1>2, <1>5, <1>6 DEF RequestType
<1> HIDE DEF v
<1>8. Counted(v) /\ Dispatches(v)
  BY <1>5, <1>6, <1>7 DEF Counted, Dispatches
<1>9. QED
  BY <1>3, <1>7, <1>8, OneRequest

\* A hook stops it and holds it.
LEMMA StoppedCounts ==
  ASSUME RequestInv, NEW r \in Requests, Stopped(r)
  PROVE  RequestInv'
<1> DEFINE u == ur[r]
           h == IF Hook \in u.holders THEN "stopper" ELSE Hook
           a == Accept(u, h)
           v == [a EXCEPT !.state = "out"]
<1>1. u \in RequestType /\ Counted(u) /\ Dispatches(u)
  BY DEF RequestInv
<1>2. u.state = "hooks"
  BY DEF Stopped
<1>3. ur' = [ur EXCEPT ![r] = v]
  BY DEF Stopped, RequestInv
<1> HIDE DEF u
<1>4. h \in Holders /\ h \notin u.holders
  BY <1>1, <1>2 DEF Dispatches, Holders, Comm, Hook
<1> HIDE DEF h
<1>5. a \in RequestType /\ Counted(a) /\ a.state = "hooks"
  BY <1>1, <1>2, <1>4, AcceptCounts
<1> HIDE DEF a
<1>6. v \in RequestType /\ v.state = "out" /\ v.ref = a.ref /\ v.holders = a.holders
  BY <1>5 DEF RequestType
<1> HIDE DEF v
<1>7. Counted(v) /\ Dispatches(v)
  BY <1>5, <1>6 DEF Counted, Dispatches
<1>8. QED
  BY <1>3, <1>6, <1>7, OneRequest

\* The hooks let it pass: it goes to the objects of a plugin, or back.
LEMMA PassedCounts ==
  ASSUME RequestInv, NEW r \in Requests, Passed(r)
  PROVE  RequestInv'
<1> DEFINE u == ur[r]
<1>1. u \in RequestType /\ Counted(u) /\ Dispatches(u) /\ ur \in [Requests -> RequestType]
  BY DEF RequestInv
<1>2. u.state = "hooks" /\ Comm \in u.holders /\ u.holders \subseteq {Comm, Hook}
  BY <1>1 DEF Passed, Dispatches
<1>3. CASE ur' = [ur EXCEPT ![r] = LetGo(u, Comm)]
  <2> HIDE DEF u
  <2>1. LetGo(u, Comm) \in RequestType /\ Counted(LetGo(u, Comm)) /\ Dispatches(LetGo(u, Comm))
    BY <1>1, <1>2, LetGoCounts
  <2>2. QED
    BY <1>3, <2>1, OneRequest
<1>4. ASSUME NEW L \in SUBSET Objects, ur' = [ur EXCEPT ![r].state = "objects", ![r].left = L]
      PROVE  RequestInv'
  <2> DEFINE v == [u EXCEPT !.state = "objects", !.left = L]
  <2>1. ur' = [ur EXCEPT ![r] = v]
    BY <1>1, <1>4
  <2> HIDE DEF u
  <2>2. /\ v \in RequestType /\ v.state = "objects" /\ v.left = L
        /\ v.ref = u.ref /\ v.holders = u.holders
    BY <1>1 DEF RequestType
  <2> HIDE DEF v
  <2>3. Counted(v)
    BY <1>1, <1>2, <2>2 DEF Counted
  <2>4. v.left \cap v.holders = {}
    BY <1>2, <2>2, HoldersAssumption DEF Comm, Hook
  <2>5. Dispatches(v)
    BY <1>2, <2>2, <2>4 DEF Dispatches
  <2>6. QED
    BY <2>1, <2>2, <2>3, <2>5, OneRequest
<1>5. CASE Found(u.name) = {}
  BY <1>3, <1>5 DEF Passed
<1>6. CASE Found(u.name) # {}
  <2>1. PICK p \in Found(u.name) :
          ur' = [ur EXCEPT ![r].state = "objects", ![r].left = ObjectsOf(p, CategoryOf(u.cmd))]
    BY <1>6 DEF Passed
  <2>2. ObjectsOf(p, CategoryOf(u.cmd)) \in SUBSET Objects
    BY DEF ObjectsOf
  <2>3. QED
    BY <1>4, <2>1, <2>2
<1>7. QED
  BY <1>5, <1>6

\* An object is asked, and accepts it or not.
LEMMA AskCounts ==
  ASSUME RequestInv, NEW r \in Requests, Ask(r)
  PROVE  RequestInv'
<1> DEFINE u == ur[r]
<1>1. u \in RequestType /\ Counted(u) /\ Dispatches(u)
  BY DEF RequestInv
<1>2. PICK o \in u.left :
        LET rest == [u EXCEPT !.left = @ \ {o}]
        IN ur' = [ur EXCEPT ![r] = Accept(rest, o)] \/ ur' = [ur EXCEPT ![r] = rest]
  BY DEF Ask
<1> DEFINE L == u.left \ {o}
           rest == [u EXCEPT !.left = L]
           v == Accept(rest, o)
<1>3. u.state = "objects"
  BY DEF Ask
<1>4. ur' = [ur EXCEPT ![r] = v] \/ ur' = [ur EXCEPT ![r] = rest]
  BY <1>1, <1>2 DEF RequestType
<1> HIDE DEF u
<1>5. /\ u.left \cap u.holders = {} /\ u.left \subseteq Objects
      /\ ~u.ok => Comm \in u.holders
  BY <1>1, <1>3 DEF Dispatches, RequestType
<1>6. L \in SUBSET Objects /\ L \cap (u.holders \cup {o}) = {}
  BY <1>5
<1>7. o \in Holders /\ o \notin u.holders
  BY <1>5 DEF Holders
<1> HIDE DEF L
<1>8. /\ rest \in RequestType /\ rest.state = "objects" /\ rest.left = L /\ rest.ok = u.ok
      /\ rest.ref = u.ref /\ rest.holders = u.holders
  BY <1>1, <1>3, <1>6 DEF RequestType
<1> HIDE DEF rest
<1>9. Counted(rest) /\ Dispatches(rest)
  BY <1>1, <1>3, <1>5, <1>6, <1>8 DEF Counted, Dispatches
<1>10. /\ v \in RequestType /\ v.ok /\ v.left = L /\ v.state = "objects"
       /\ Counted(v) /\ v.holders \subseteq u.holders \cup {o}
  BY <1>7, <1>8, <1>9, AcceptCounts
<1> HIDE DEF v
<1>11. Dispatches(v)
  BY <1>6, <1>10 DEF Dispatches
<1>12. QED
  BY <1>4, <1>8, <1>9, <1>10, <1>11, OneRequest

\* The dispatch is over, or what works on the request lets it go.
LEMMA EndCounts ==
  ASSUME RequestInv, NEW r \in Requests, Returned(r) \/ \E h \in ur[r].holders : Release(r, h)
  PROVE  RequestInv'
<1> DEFINE u == ur[r]
<1>1. u \in RequestType /\ Counted(u) /\ Dispatches(u)
  BY DEF RequestInv
<1>2. u.state \in {"objects", "out"}
  BY DEF Returned, Release
<1>3. ASSUME NEW h \in u.holders, ur' = [ur EXCEPT ![r] = LetGo(u, h)]
      PROVE  RequestInv'
  <2> HIDE DEF u
  <2>1. LetGo(u, h) \in RequestType /\ Counted(LetGo(u, h)) /\ Dispatches(LetGo(u, h))
    BY <1>1, <1>2, LetGoCounts
  <2>2. QED
    BY <1>3, <2>1, OneRequest
<1>4. CASE \E h \in u.holders : Release(r, h)
  BY <1>3, <1>4 DEF Release
<1>5. CASE Returned(r) /\ ~u.ok
  <2>1. Comm \in u.holders /\ ur' = [ur EXCEPT ![r] = LetGo(u, Comm)]
    BY <1>1, <1>5 DEF Returned, Dispatches
  <2>2. QED
    BY <1>3, <2>1
<1>6. CASE Returned(r) /\ u.ok
  <2> DEFINE v == [u EXCEPT !.state = "out"]
  <2>1. ur' = [ur EXCEPT ![r] = v] /\ u.state = "objects"
    BY <1>6 DEF Returned
  <2> HIDE DEF u
  <2>2. v \in RequestType /\ v.state = "out" /\ v.ref = u.ref /\ v.holders = u.holders
    BY <1>1 DEF RequestType
  <2> HIDE DEF v
  <2>3. Counted(v) /\ Dispatches(v)
    BY <1>1, <2>1, <2>2 DEF Counted, Dispatches
  <2>4. QED
    BY <2>1, <2>2, <2>3, OneRequest
<1>7. QED
  BY <1>1, <1>4, <1>5, <1>6 DEF RequestType

\* Whatever happens.
LEMMA RequestStep == RequestInv /\ [Next]_vars => RequestInv'
<1>1. SUFFICES ASSUME RequestInv, [Next]_vars PROVE RequestInv'
  OBVIOUS
<1>2. CASE UNCHANGED ur
  BY <1>1, <1>2 DEF RequestInv
<1>3. CASE \E p \in Plugins : AddPlugin(p) \/ \E o \in Objects : AddObject(p, o)
  BY <1>2, <1>3 DEF AddPlugin, AddObject
<1>4. CASE \E r \in Requests, name \in Plugins \cup {Default} :
             \E cmd \in Commands["request"] : Dispatch(r, name, cmd)
  BY <1>1, <1>4, DispatchCounts
<1>5. ASSUME NEW r \in Requests,
             \/ HookKeeps(r) \/ Stopped(r) \/ Passed(r) \/ Ask(r) \/ Returned(r)
             \/ \E h \in ur[r].holders : Release(r, h)
      PROVE  RequestInv'
  BY <1>1, <1>5, KeepCounts, StoppedCounts, PassedCounts, AskCounts, EndCounts
<1>6. CASE \/ HooksNext /\ UNCHANGED serverVars
           \/ \E l \in Lists \ {"request", "notification"} :
                Idle /\ Walk(l, ForAll) /\ UNCHANGED serverVars
           \/ Over \/ UNCHANGED vars
  BY <1>2, <1>6 DEF serverVars, vars, Over
<1>7. QED
  BY <1>1, <1>3, <1>4, <1>5, <1>6 DEF Next

\* There are no requests at first.
LEMMA InitRequests == Init => RequestInv
<1>1. Absent \in RequestType
  BY DEF Absent, RequestType
<1>2. Counted(Absent) /\ Dispatches(Absent)
  BY FS_EmptySet DEF Absent, Counted, Dispatches
<1>3. QED
  BY <1>1, <1>2 DEF Init, RequestInv

\* The count of a request is one less than the number of what holds it, for any
\* number of plugins, objects, hooks and requests: it is freed by the last one.
THEOREM HoldersAreCounted == Spec => []HoldersCounted
<1>1. RequestInv => HoldersCounted
  BY DEF RequestInv, Counted, HoldersCounted
<1>2. QED
  BY <1>1, InitRequests, RequestStep, PTL DEF Spec

\* Once there is a default plugin it stays the default plugin.
THEOREM DefaultPluginStays == Spec => DefaultStays
<1>1. [Next]_vars => [default # "none" => default' = default]_vars
  <2>1. SUFFICES ASSUME Next, default # "none" PROVE default' = default
    BY DEF vars
  <2>2. ASSUME NEW r \in Requests, Passed(r) PROVE default' = default
    <3>1. CASE Found(ur[r].name) = {}
      BY <2>2, <3>1 DEF Passed
    <3>2. CASE Found(ur[r].name) # {}
      <4>1. PICK p \in Found(ur[r].name) :
              default' = IF ur[r].name = Default THEN p ELSE default
        BY <2>2, <3>2 DEF Passed
      <4>2. ur[r].name = Default => p = default
        BY <2>1, <4>1 DEF Found, FoundDefault
      <4>3. QED
        BY <4>1, <4>2
    <3>3. QED
      BY <3>1, <3>2
  <2>3. QED
    BY <2>1, <2>2
       DEF Next, AddPlugin, AddObject, Dispatch, HookKeeps, Stopped, Ask, Returned, Release,
           serverVars, Over
<1>2. QED
  BY <1>1, PTL DEF Spec, DefaultStays
-----------------------------------------------------------------------------
(* Hooks: what a walk over a list relies on *)

HookType == [fn : Functions, cmd : UNION {Commands[l] : l \in Lists}]

\* What walks are for.
Words == {"added", ForAll} \cup Commands["request"]

WalkType ==
  [list : Lists, cmd : Words, at : HookType, next : Seq(HookType), asked : SUBSET HookType,
   acted : BOOLEAN, cut : BOOLEAN, whole : BOOLEAN]

Different == {x \in HookType \X HookType : x[1] # x[2]}

\* All hooks for cmd up to the one at are in asked.
AskedUpTo(s, cmd, at, asked) ==
  \A k \in 1..Len(s) : s[k] = at => \A i \in 1..k : For(cmd, s[i]) => s[i] \in asked

\* A walk w over the hooks of s.
GoodWalk(w, s) ==
  /\ w.cut => w.acted /\ \A i \in 1..Len(w.next) : Contains(s, w.next[i])
  /\ ~w.cut => Contains(s, w.at)
  /\ w.whole /\ ~w.cut => AskedUpTo(s, w.cmd, w.at, w.asked)

\* The inductive invariant: no hook is twice in a list, and a walk knows where
\* it is and has asked what is before.
HookInv ==
  /\ hooks \in [Lists -> Seq(HookType)]
  /\ \A l \in Lists : Ordered(hooks[l], Different)
  /\ Walking => walk \in WalkType /\ verdict = "none" /\ GoodWalk(walk, hooks[walk.list])

LEMMA OnePlace ==
  ASSUME NEW s \in Seq(HookType), Ordered(s, Different),
         NEW i \in 1..Len(s), NEW j \in 1..Len(s), s[i] = s[j]
  PROVE  i = j
<1>1. ~(i < j) /\ ~(j < i)
  BY DEF Ordered, Different
<1>2. QED
  BY <1>1, LenProperties

\* The hooks of s that are for cmd.
ForCommand(s, cmd) == {h \in ToSet(s) : For(cmd, h)}

\* The walk goes on behind position k: it comes to the next hook for its
\* command, and if there is none, all have been asked.
LEMMA GoesOn ==
  ASSUME NEW s \in Seq(HookType), Ordered(s, Different), NEW cmd, NEW k \in 0..Len(s),
         NEW whole \in BOOLEAN, NEW asked,
         whole => \A i \in 1..k : For(cmd, s[i]) => s[i] \in asked
  PROVE  LET rest == Keep(SubSeq(s, k + 1, Len(s)), ForCommand(s, cmd)) IN
         /\ rest \in Seq(HookType)
         /\ rest = <<>> /\ whole => \A i \in 1..Len(s) : For(cmd, s[i]) => s[i] \in asked
         /\ rest # <<>> => Contains(s, Head(rest))
         /\ rest # <<>> /\ whole => AskedUpTo(s, cmd, Head(rest), asked \cup {Head(rest)})
<1> DEFINE F == ForCommand(s, cmd)
           r == Keep(SubSeq(s, k + 1, Len(s)), F)
<1>1. Len(s) \in Nat /\ k \in Nat /\ k <= Len(s)
  BY LenProperties
<1>2. \A i \in 1..Len(s) : s[i] \in F <=> For(cmd, s[i])
  BY LenProperties DEF ToSet, ForCommand
<1>3. SubSeq(s, k + 1, Len(s)) \in Seq(HookType)
  <2>1. \A i \in (k + 1)..Len(s) : s[i] \in HookType
    BY <1>1, ElementOfSeq
  <2>2. k + 1 \in Int /\ Len(s) \in Int
    BY <1>1
  <2>3. QED
    BY <2>1, <2>2, SubSeqProperties
<1> HIDE DEF F
<1>4. r \in Seq(HookType)
  BY <1>3, KeepType
<1>5. /\ r = <<>> => \A i \in (k + 1)..Len(s) : s[i] \notin F
      /\ r # <<>> => \E m \in (k + 1)..Len(s) :
           Head(r) = s[m] /\ s[m] \in F /\ \A i \in (k + 1)..(m - 1) : s[i] \notin F
  BY KeepAfter
<1> HIDE DEF r
<1>6. ASSUME r = <<>>, whole, NEW i \in 1..Len(s), For(cmd, s[i]) PROVE s[i] \in asked
  <2>1. i \in 1..k
    <3>1. i \notin (k + 1)..Len(s)
      BY <1>2, <1>5, <1>6
    <3>2. QED
      BY <1>1, <3>1
  <2>2. QED
    BY <1>6, <2>1
<1>7. ASSUME r # <<>>
      PROVE  Contains(s, Head(r)) /\ (whole => AskedUpTo(s, cmd, Head(r), asked \cup {Head(r)}))
  <2>1. PICK m \in (k + 1)..Len(s) :
          Head(r) = s[m] /\ s[m] \in F /\ \A i \in (k + 1)..(m - 1) : s[i] \notin F
    BY <1>5, <1>7
  <2>2. m \in 1..Len(s)
    BY <1>1, <2>1
  <2>3. ASSUME whole, NEW n \in 1..Len(s), s[n] = Head(r), NEW i \in 1..n, For(cmd, s[i])
        PROVE  s[i] \in asked \cup {Head(r)}
    <3>1. n = m /\ i \in 1..Len(s)
      BY <1>1, <2>1, <2>2, <2>3, OnePlace
    <3>2. i \notin (k + 1)..(m - 1)
      BY <1>2, <2>1, <2>3, <3>1
    <3>3. i \in 1..k \/ i = m
      BY <1>1, <2>1, <3>1, <3>2
    <3>4. QED
      BY <2>1, <2>3, <3>3
  <2>4. QED
    BY <2>1, <2>2, <2>3 DEF Contains, AskedUpTo
<1>8. QED
  BY <1>4, <1>6, <1>7 DEF r, F

-----------------------------------------------------------------------------
(* The steps of hooks *)

\* A function is called.
LEMMA CallKeeps ==
  ASSUME HookInv, NEW l \in Lists, NEW cmd \in Words, NEW rest \in Seq(HookType), rest # <<>>,
         NEW asked \in SUBSET HookType, NEW acted \in BOOLEAN, NEW whole \in BOOLEAN,
         Call(l, cmd, rest, asked, acted, whole), hooks' = hooks,
         verdict' = verdict, verdict = "none", Contains(hooks[l], Head(rest)),
         whole => AskedUpTo(hooks[l], cmd, Head(rest), asked \cup {Head(rest)})
  PROVE  HookInv'
<1> DEFINE w == [list |-> l, cmd |-> cmd, at |-> Head(rest), next |-> Tail(rest),
                 asked |-> asked \cup {Head(rest)}, acted |-> acted, cut |-> FALSE,
                 whole |-> whole]
<1>1. Head(rest) \in HookType /\ Tail(rest) \in Seq(HookType)
  BY HeadTailProperties
<1>2. w \in WalkType
  BY <1>1 DEF WalkType
<1>3. GoodWalk(w, hooks[l]) /\ w.list = l
  BY DEF GoodWalk
<1>4. walk' = w
  BY DEF Call
<1> HIDE DEF w
<1>5. QED
  BY <1>2, <1>3, <1>4 DEF HookInv

\* The walk begins.
LEMMA WalkKeeps ==
  ASSUME HookInv, NEW l \in Lists, NEW cmd \in Words, Walk(l, cmd)
  PROVE  HookInv'
<1> DEFINE rest == Later(l, cmd, 1)
           s == hooks[l]
<1>1. hooks' = hooks /\ ~Walking
  BY DEF Walk
<1>2. CASE rest = <<>>
  BY <1>1, <1>2 DEF Walk, HookInv, Walking
<1>3. CASE rest # <<>>
  <2>1. Call(l, cmd, rest, {}, FALSE, TRUE) /\ verdict' = verdict /\ verdict = "none"
    BY <1>3 DEF Walk
  <2>2. s \in Seq(HookType) /\ Ordered(s, Different)
    BY DEF HookInv
  <2>3. rest = Keep(SubSeq(s, 0 + 1, Len(s)), ForCommand(s, cmd))
    BY DEF Later, ForCommand
  <2> HIDE DEF rest
  <2>4. 0 \in 0..Len(s) /\ 1..0 = {}
    BY <2>2, LenProperties
  <2>5. /\ rest \in Seq(HookType) /\ Contains(s, Head(rest))
        /\ AskedUpTo(s, cmd, Head(rest), {} \cup {Head(rest)})
    BY <1>3, <2>2, <2>3, <2>4, GoesOn
  <2>6. QED
    BY <1>1, <1>3, <2>1, <2>5, CallKeeps
<1>4. QED
  BY <1>2, <1>3
\* Where the hook that is called is.
LEMMA PositionOf ==
  ASSUME NEW s \in Seq(HookType), NEW h, Contains(s, h)
  PROVE  Position(s, h) \in 1..Len(s) /\ s[Position(s, h)] = h
<1>1. \E i \in DOMAIN s : s[i] = h
  BY LenProperties DEF Contains
<1>2. QED
  BY <1>1, LenProperties DEF Position

\* What was asked up to the hook that is called.
LEMMA AskedBefore ==
  ASSUME NEW s \in Seq(HookType), NEW cmd, NEW at, NEW asked, Contains(s, at),
         AskedUpTo(s, cmd, at, asked)
  PROVE  \A i \in 1..Position(s, at) : For(cmd, s[i]) => s[i] \in asked
BY PositionOf DEF AskedUpTo

\* A hook returns.
LEMMA ReturnKeeps ==
  ASSUME HookInv, NEW stop \in BOOLEAN, ReturnHook(stop)
  PROVE  /\ HookInv'
         /\ verdict' = "passed" /\ walk.whole /\ ~walk.cut =>
              \A i \in 1..Len(hooks[walk.list]) :
                For(walk.cmd, hooks[walk.list][i]) => hooks[walk.list][i] \in walk.asked
<1> DEFINE w == walk
           s == hooks[w.list]
<1>1. Walking /\ hooks' = hooks
  BY DEF ReturnHook
<1>2. w \in WalkType /\ verdict = "none" /\ GoodWalk(w, s)
  BY <1>1 DEF HookInv
<1>3. /\ w.list \in Lists /\ w.cmd \in Words /\ w.next \in Seq(HookType)
      /\ w.asked \in SUBSET HookType /\ w.acted \in BOOLEAN /\ w.whole \in BOOLEAN
      /\ w.cut \in BOOLEAN
  BY <1>2 DEF WalkType
<1>4. s \in Seq(HookType) /\ Ordered(s, Different)
  BY <1>3 DEF HookInv
<1>5. PICK rest \in IF stop THEN {<<>>} ELSE Onward :
        IF rest = <<>>
        THEN /\ walk' = NoWalk
             /\ verdict' = IF stop THEN "stopped" ELSE "passed"
        ELSE Call(w.list, w.cmd, rest, w.asked, w.acted, w.whole /\ ~w.cut) /\ verdict' = verdict
  BY DEF ReturnHook
<1> DEFINE p == Position(s, w.at)
           whole == w.whole
<1>6. ASSUME ~w.cut, ~stop
      PROVE  /\ rest \in Seq(HookType)
             /\ rest = <<>> /\ whole => \A i \in 1..Len(s) : For(w.cmd, s[i]) => s[i] \in w.asked
             /\ rest # <<>> => Contains(s, Head(rest))
             /\ rest # <<>> /\ whole => AskedUpTo(s, w.cmd, Head(rest), w.asked \cup {Head(rest)})
  <2>1. p \in 1..Len(s) /\ whole => \A i \in 1..p : For(w.cmd, s[i]) => s[i] \in w.asked
    BY <1>2, <1>4, <1>6, PositionOf, AskedBefore DEF GoodWalk
  <2>2. p \in 0..Len(s)
    BY <1>2, <1>4, <1>6, PositionOf, LenProperties DEF GoodWalk
  <2>3. rest = Keep(SubSeq(s, p + 1, Len(s)), ForCommand(s, w.cmd))
    BY <1>5, <1>6 DEF Onward, Later, ForCommand
  <2>4. whole => \A i \in 1..p : For(w.cmd, s[i]) => s[i] \in w.asked
    BY <1>2, <1>4, <1>6, <2>1, PositionOf DEF GoodWalk
  <2> HIDE DEF s, w, p, whole
  <2>5. QED
    BY <1>3, <1>4, <2>2, <2>3, <2>4, GoesOn DEF whole
<1>7. ASSUME w.cut, ~stop, rest # <<>>
      PROVE  rest \in Seq(HookType) /\ Contains(s, Head(rest))
  <2>1. rest = w.next
    BY <1>5, <1>7 DEF Onward
  <2>2. 1 \in 1..Len(rest) /\ rest[1] = Head(rest)
    BY <1>3, <1>7, <2>1, EmptySeq, LenProperties
  <2>3. QED
    BY <1>2, <1>3, <1>7, <2>1, <2>2 DEF GoodWalk
<1>8. CASE rest = <<>>
  <2>1. HookInv'
    BY <1>1, <1>5, <1>8 DEF HookInv, Walking
  <2>2. verdict' = "passed" => ~stop
    BY <1>5, <1>8
  <2>3. QED
    BY <1>4, <1>6, <1>8, <2>1, <2>2
<1>9. CASE rest # <<>>
  <2>1. ~stop /\ verdict' = "none" /\ verdict' = verdict
    BY <1>2, <1>5, <1>9
  <2>2. Call(w.list, w.cmd, rest, w.asked, w.acted, w.whole /\ ~w.cut)
    BY <1>5, <1>9
  <2>3. rest \in Seq(HookType) /\ Contains(s, Head(rest))
    BY <1>3, <1>6, <1>7, <1>9, <2>1
  <2>4. (w.whole /\ ~w.cut) \in BOOLEAN
    OBVIOUS
  <2>5. w.whole /\ ~w.cut => AskedUpTo(s, w.cmd, Head(rest), w.asked \cup {Head(rest)})
    BY <1>6, <1>9, <2>1
  <2> HIDE DEF s, w
  <2>6. HookInv'
    BY <1>1, <1>2, <1>3, <1>9, <2>1, <2>2, <2>3, <2>4, <2>5, CallKeeps DEF s
  <2>7. QED
    BY <2>1, <2>6
<1>10. QED
  BY <1>8, <1>9

\* A walk whose list changes to t: what a function that is called does.
LEMMA DisturbedKeeps ==
  ASSUME HookInv, NEW l \in Lists, NEW t \in Seq(HookType), Callable,
         hooks' = [hooks EXCEPT ![l] = t], walk' = Disturbed(l, t), verdict' = verdict,
         Ordered(t, Different),
         Walking /\ walk.list = l /\ Contains(t, walk.at) /\ walk.whole =>
           AskedUpTo(t, walk.cmd, walk.at, walk.asked)
  PROVE  HookInv'
<1>1. /\ hooks' \in [Lists -> Seq(HookType)]
      /\ \A m \in Lists : Ordered(hooks'[m], Different)
  BY DEF HookInv
<1>2. CASE ~Walking
  BY <1>1, <1>2 DEF HookInv, Disturbed, Walking
<1>3. CASE Walking
  <2> DEFINE w == walk
             s == hooks[w.list]
  <2>1. w \in WalkType /\ verdict = "none" /\ GoodWalk(w, s) /\ ~w.acted /\ ~w.cut
    BY <1>3 DEF HookInv, Callable, GoodWalk, WalkType
  <2>2. w.list \in Lists /\ w.next \in Seq(HookType)
    BY <2>1 DEF WalkType
  <2>3. CASE w.list # l \/ Contains(t, w.at)
    <3> DEFINE v == [w EXCEPT !.acted = TRUE]
    <3>1. walk' = v
      BY <1>3, <2>3 DEF Disturbed
    <3>2. /\ v \in WalkType /\ v.list = w.list /\ v.at = w.at /\ v.cmd = w.cmd /\ ~v.cut
          /\ v.asked = w.asked /\ v.whole = w.whole
      BY <2>1 DEF WalkType
    <3> HIDE DEF v
    <3>3. GoodWalk(v, hooks'[w.list])
      <4>1. CASE w.list # l
        BY <2>1, <2>2, <3>2, <4>1 DEF GoodWalk, HookInv
      <4>2. CASE w.list = l
        <5>1. hooks'[w.list] = t
          BY <4>2 DEF HookInv
        <5>2. QED
          BY <1>3, <2>3, <3>2, <4>2, <5>1 DEF GoodWalk
      <4>3. QED
        BY <4>1, <4>2
    <3>4. QED
      BY <1>1, <2>1, <3>1, <3>2, <3>3 DEF HookInv
  <2>4. CASE w.list = l /\ ~Contains(t, w.at)
    <3> DEFINE n == Keep(w.next, ToSet(t))
               v == [w EXCEPT !.acted = TRUE, !.cut = TRUE, !.next = n]
    <3>1. walk' = v
      BY <1>3, <2>1, <2>4 DEF Disturbed, WalkType
    <3>2. n \in Seq(HookType)
      BY <2>2, KeepType
    <3>3. \A i \in 1..Len(n) : Contains(t, n[i])
      <4>1. \A i \in 1..Len(n) : n[i] \in ToSet(t)
        BY <2>2, KeepSubsequence
      <4>2. QED
        BY <4>1, LenProperties DEF ToSet, Contains
    <3> HIDE DEF n
    <3>4. v \in WalkType /\ v.list = l /\ v.acted /\ v.cut /\ v.next = n
      BY <2>1, <2>4, <3>2 DEF WalkType
    <3> HIDE DEF v
    <3>5. GoodWalk(v, t) /\ hooks'[l] = t
      BY <3>3, <3>4 DEF GoodWalk, HookInv
    <3>6. QED
      BY <1>1, <2>1, <3>1, <3>4, <3>5 DEF HookInv
  <2>5. QED
    BY <2>3, <2>4
<1>4. QED
  BY <1>2, <1>3
\* A hook is added.
LEMMA AddKeeps ==
  ASSUME HookInv, NEW l \in Lists, NEW f \in Functions, NEW c \in Commands[l], AddHook(l, f, c)
  PROVE  HookInv'
<1> DEFINE h == [fn |-> f, cmd |-> c]
           s == hooks[l]
           t == Append(s, h)
<1>1. h \in HookType
  BY DEF HookType
<1>2. /\ Callable /\ ~Contains(s, h) /\ verdict' = verdict
      /\ hooks' = [hooks EXCEPT ![l] = t] /\ walk' = Disturbed(l, hooks'[l])
  BY DEF AddHook
<1>3. s \in Seq(HookType) /\ Ordered(s, Different) /\ hooks'[l] = t
  BY <1>2 DEF HookInv
<1> HIDE DEF h
<1>4. \A i \in 1..Len(s) : s[i] \in HookType /\ s[i] # h
  BY <1>2, <1>3, ElementOfSeq DEF Contains
<1>5. t \in Seq(HookType) /\ Ordered(t, Different)
  BY <1>1, <1>3, <1>4, OrderedAppend, AppendProperties DEF Different
<1>6. ASSUME Walking, walk.list = l, walk.whole
      PROVE  AskedUpTo(t, walk.cmd, walk.at, walk.asked)
  <2>1. GoodWalk(walk, s) /\ walk \in WalkType /\ ~walk.acted
    BY <1>2, <1>6 DEF HookInv, Callable
  <2>2. AskedUpTo(s, walk.cmd, walk.at, walk.asked) /\ Contains(s, walk.at)
    BY <1>6, <2>1 DEF GoodWalk, WalkType
  <2>3. /\ Len(s) \in Nat /\ Len(t) = Len(s) + 1 /\ t[Len(s) + 1] = h
        /\ \A i \in 1..Len(s) : t[i] = s[i]
    BY <1>1, <1>3, AppendProperties, LenProperties
  <2>4. walk.at # h
    BY <1>2, <2>2
  <2> HIDE DEF t, s
  <2>5. ASSUME NEW k \in 1..Len(t), t[k] = walk.at, NEW i \in 1..k
        PROVE  k \in 1..Len(s) /\ i \in 1..Len(s)
    BY <2>3, <2>4, <2>5
  <2>6. QED
    BY <2>2, <2>3, <2>5 DEF AskedUpTo
<1> HIDE DEF t, s
<1>7. QED
  BY <1>2, <1>3, <1>5, <1>6, DisturbedKeeps

\* The hooks of a function are removed.
LEMMA RemoveKeeps ==
  ASSUME HookInv, NEW l \in Lists, NEW f \in Functions, RemoveHook(l, f)
  PROVE  HookInv'
<1> DEFINE s == hooks[l]
           t == Remainder(s, f)
<1>1. /\ Callable /\ verdict' = verdict
      /\ hooks' = [hooks EXCEPT ![l] = t] /\ walk' = Disturbed(l, hooks'[l])
  BY DEF RemoveHook
<1>2. s \in Seq(HookType) /\ Ordered(s, Different) /\ hooks'[l] = t
  BY <1>1 DEF HookInv
<1>3. t \in Seq(HookType) /\ SubsequenceOf(t, s)
  BY <1>2, KeepType, KeepSubsequence DEF Remainder
<1>4. Ordered(t, Different)
  BY <1>2, <1>3, OrderedPart
<1>5. ASSUME Walking, walk.list = l, walk.whole
      PROVE  AskedUpTo(t, walk.cmd, walk.at, walk.asked)
  <2>1. GoodWalk(walk, s) /\ walk \in WalkType /\ ~walk.acted
    BY <1>1, <1>5 DEF HookInv, Callable
  <2>2. AskedUpTo(s, walk.cmd, walk.at, walk.asked)
    BY <1>5, <2>1 DEF GoodWalk, WalkType
  <2> HIDE DEF t, s
  <2>3. SUFFICES ASSUME NEW k \in 1..Len(t), t[k] = walk.at, NEW i \in 1..k, For(walk.cmd, t[i])
                 PROVE  t[i] \in walk.asked
    BY DEF AskedUpTo
  <2>4. PICK b \in 1..Len(s) :
          t[k] = s[b] /\ \A j \in 1..(k - 1) : \E a \in 1..(b - 1) : t[j] = s[a]
    BY <1>3 DEF SubsequenceOf
  <2>5. PICK a \in 1..b : t[i] = s[a]
    <3>1. CASE i = k
      <4>1. b \in 1..b
        OBVIOUS
      <4>2. QED
        BY <2>4, <3>1, <4>1
    <3>2. CASE i # k
      <4>1. i \in 1..(k - 1)
        BY <3>2
      <4>2. PICK a \in 1..(b - 1) : t[i] = s[a]
        BY <2>4, <4>1
      <4>3. a \in 1..b
        OBVIOUS
      <4>4. QED
        BY <4>2, <4>3
    <3>3. QED
      BY <3>1, <3>2
  <2>6. QED
    BY <2>2, <2>3, <2>4, <2>5 DEF AskedUpTo
<1> HIDE DEF t, s
<1>6. QED
  BY <1>1, <1>2, <1>3, <1>4, <1>5, DisturbedKeeps

\* Everything else leaves hooks and walks alone, or comes after a walk.
LEMMA NoWalkKeeps ==
  ASSUME HookInv, hooks' = hooks, walk' = walk, verdict' = verdict \/ verdict' = "none"
  PROVE  HookInv'
BY DEF HookInv, Walking

LEMMA HookStep == HookInv /\ [Next]_vars => HookInv'
<1>1. SUFFICES ASSUME HookInv, [Next]_vars PROVE HookInv'
  OBVIOUS
<1>2. CASE UNCHANGED hookVars
  BY <1>1, <1>2, NoWalkKeeps DEF hookVars
<1>3. ASSUME NEW p \in Plugins, AddPlugin(p) \/ \E o \in Objects : AddObject(p, o)
      PROVE  HookInv'
  <2>1. "notification" \in Lists /\ "added" \in Words
    BY ListsAssumption DEF Words
  <2>2. QED
    BY <1>1, <1>2, <1>3, <2>1, WalkKeeps DEF AddPlugin, AddObject
<1>4. ASSUME NEW r \in Requests, NEW name \in Plugins \cup {Default},
             NEW cmd \in Commands["request"], Dispatch(r, name, cmd)
      PROVE  HookInv'
  <2>1. "request" \in Lists /\ cmd \in Words
    BY ListsAssumption DEF Words
  <2>2. QED
    BY <1>1, <1>4, <2>1, WalkKeeps DEF Dispatch
<1>5. ASSUME NEW r \in Requests,
             \/ HookKeeps(r) \/ Stopped(r) \/ Passed(r) \/ Ask(r) \/ Returned(r)
             \/ \E h \in ur[r].holders : Release(r, h)
      PROVE  HookInv'
  <2>1. hooks' = hooks /\ walk' = walk /\ (verdict' = verdict \/ verdict' = "none")
    BY <1>5 DEF HookKeeps, Stopped, Passed, Ask, Returned, Release, hookVars
  <2>2. QED
    BY <1>1, <2>1, NoWalkKeeps
<1>6. CASE HooksNext
  BY <1>1, <1>6, AddKeeps, RemoveKeeps, ReturnKeeps DEF HooksNext
<1>7. CASE \E l \in Lists \ {"request", "notification"} :
             Idle /\ Walk(l, ForAll) /\ UNCHANGED serverVars
  <2>1. ForAll \in Words
    BY DEF Words
  <2>2. QED
    BY <1>1, <1>7, <2>1, WalkKeeps
<1>8. CASE Over
  BY <1>1, <1>8, NoWalkKeeps DEF Over, Used
<1>9. QED
  BY <1>1, <1>2, <1>3, <1>4, <1>5, <1>6, <1>7, <1>8 DEF Next, vars

\* There are no hooks at first.
LEMMA InitHooks == Init => HookInv
<1>1. SUFFICES ASSUME Init PROVE HookInv
  OBVIOUS
<1>2. <<>> \in Seq(HookType) /\ Len(<<>>) = 0
  OBVIOUS
<1>3. QED
  BY <1>1, <1>2 DEF Init, HooksInit, HookInv, Ordered, Walking

LEMMA HookInvHolds == Spec => []HookInv
BY InitHooks, HookStep, PTL DEF Spec

\* For any number of hooks in any number of lists, a function is called only as
\* long as it is hooked in.
THEOREM CalledIsHookedHolds == Spec => []CalledIsHooked
<1>1. HookInv => CalledIsHooked
  BY DEF HookInv, GoodWalk, CalledIsHooked
<1>2. QED
  BY <1>1, HookInvHolds, PTL

\* What a walk is for passes only after every hook was asked that is in the list
\* then, whatever the functions added and removed.
THEOREM EveryHookAskedHolds == Spec => EveryHookAsked
<1> DEFINE Asked == \A i \in DOMAIN hooks[walk.list] :
                      For(walk.cmd, hooks[walk.list][i]) => hooks[walk.list][i] \in walk.asked
<1>1. HookInv /\ [Next]_vars =>
        [Walking /\ verdict' = "passed" /\ walk.whole /\ ~walk.cut => Asked]_hookVars
  <2>1. SUFFICES ASSUME HookInv, Next, Walking, verdict' = "passed", walk.whole, ~walk.cut
                 PROVE  Asked
    BY DEF vars
  <2>2. verdict = "none" /\ walk \in WalkType
    BY <2>1 DEF HookInv
  <2>3. PICK stop \in BOOLEAN : ReturnHook(stop)
    BY <2>1, <2>2
       DEF Next, HooksNext, AddHook, RemoveHook, Walk, AddPlugin, AddObject, Dispatch, HookKeeps,
           Stopped, Passed, Ask, Returned, Release, Over, Used, hookVars
  <2>4. \A i \in 1..Len(hooks[walk.list]) :
          For(walk.cmd, hooks[walk.list][i]) => hooks[walk.list][i] \in walk.asked
    BY <2>1, <2>3, ReturnKeeps
  <2>5. hooks[walk.list] \in Seq(HookType)
    BY <2>1, <2>2 DEF HookInv, WalkType
  <2>6. DOMAIN hooks[walk.list] = 1..Len(hooks[walk.list])
    BY <2>5, LenProperties
  <2>7. QED
    BY <2>4, <2>6
<1>2. QED
  BY <1>1, HookInvHolds, PTL DEF Spec, EveryHookAsked

-----------------------------------------------------------------------------
(* Plugins and the default plugin *)

ByPriority == {x \in Plugins \X Plugins : Priority[x[1]] <= Priority[x[2]]}

PluginInv ==
  /\ plugins \in Seq(Plugins) /\ Ordered(plugins, ByPriority)
  /\ objects \in [Plugins -> Seq(Objects)]
  /\ default # "none" => Contains(plugins, default) /\ ObjectsOf(default, "modem") # {}

\* tcore_server_add_plugin puts a plugin where its priority says, and keeps the
\* others.
LEMMA AddPluginKeeps ==
  ASSUME PluginInv, NEW p \in Plugins, AddPlugin(p)
  PROVE  PluginInv'
<1> DEFINE B == {q \in Plugins : Priority[q] < Priority[p]}
           A == {q \in Plugins : Priority[q] >= Priority[p]}
           before == Keep(plugins, B)
           after == Keep(plugins, A)
<1>1. /\ plugins \in Seq(Plugins) /\ Ordered(plugins, ByPriority)
      /\ plugins' = before \o <<p>> \o after /\ objects' = objects /\ default' = default
  BY DEF PluginInv, AddPlugin
<1>2. PICK one \in Seq(Plugins) : one = <<p>> /\ Len(one) = 1 /\ one[1] = p
  <2>1. <<p>> \in Seq(Plugins) /\ Len(<<p>>) = 1 /\ <<p>>[1] = p
    OBVIOUS
  <2>2. QED
    BY <2>1, Zenon
<1>3. /\ before \in Seq(Plugins) /\ SubsequenceOf(before, plugins)
      /\ \A j \in 1..Len(before) : before[j] \in B
  BY <1>1, KeepType, KeepSubsequence
<1>4. /\ after \in Seq(Plugins) /\ SubsequenceOf(after, plugins)
      /\ \A j \in 1..Len(after) : after[j] \in A
  BY <1>1, KeepType, KeepSubsequence
<1>5. ASSUME NEW i \in 1..Len(plugins)
      PROVE  \/ \E j \in 1..Len(before) : before[j] = plugins[i]
             \/ \E j \in 1..Len(after) : after[j] = plugins[i]
  <2>1. plugins[i] \in Plugins
    BY <1>1, ElementOfSeq
  <2>2. plugins[i] \in B \/ plugins[i] \in A
    BY <2>1, PriorityAssumption
  <2>3. QED
    BY <1>1, <2>2, KeepHas
<1> HIDE DEF before, after
<1>6. Ordered(before, ByPriority) /\ Ordered(after, ByPriority)
  BY <1>1, <1>3, <1>4, OrderedPart
<1>7. Ordered(one, ByPriority)
  BY <1>2 DEF Ordered
<1>8. /\ \A b \in B : <<b, p>> \in ByPriority
      /\ \A a \in A : <<p, a>> \in ByPriority
      /\ \A b \in B, a \in A : <<b, a>> \in ByPriority
  BY PriorityAssumption DEF ByPriority
<1> HIDE DEF A, B
<1> DEFINE left == before \o one
<1>9. left \in Seq(Plugins) /\ Ordered(left, ByPriority)
  <2>1. \A i \in 1..Len(before), j \in 1..Len(one) : <<before[i], one[j]>> \in ByPriority
    BY <1>2, <1>3, <1>8
  <2>2. QED
    BY <1>2, <1>3, <1>6, <1>7, <2>1, OrderedConcat, ConcatProperties
<1>10. Joined(left, before, one)
  BY <1>2, <1>3, CatJoined DEF Cat
<1> HIDE DEF left
<1>11. \A i \in 1..Len(left) : left[i] = p \/ left[i] \in B
  <2>1. ASSUME NEW i \in 1..Len(left), i \notin 1..Len(before) PROVE left[i] = p
    <3>1. Len(before) \in Nat /\ Len(left) = Len(before) + 1
      BY <1>2, <1>10 DEF Joined
    <3>2. i = Len(before) + 1 /\ 1 \in 1..Len(one)
      BY <1>2, <2>1, <3>1
    <3>3. QED
      BY <1>2, <1>10, <3>2 DEF Joined
  <2>2. QED
    BY <1>3, <1>10, <2>1 DEF Joined
<1> DEFINE all == left \o after
<1>12. all \in Seq(Plugins) /\ Ordered(all, ByPriority)
  <2>1. \A i \in 1..Len(left), j \in 1..Len(after) : <<left[i], after[j]>> \in ByPriority
    BY <1>4, <1>8, <1>11
  <2>2. QED
    BY <1>4, <1>6, <1>9, <2>1, OrderedConcat, ConcatProperties
<1>13. Joined(all, left, after)
  BY <1>4, <1>9, CatJoined DEF Cat
<1>14. plugins' = all
  BY <1>1, <1>2 DEF left
<1> HIDE DEF all
<1>15. ASSUME NEW i \in 1..Len(plugins) PROVE Contains(all, plugins[i])
  <2>1. CASE \E j \in 1..Len(before) : before[j] = plugins[i]
    <3>1. PICK j \in 1..Len(before) : before[j] = plugins[i]
      BY <2>1
    <3>2. /\ Len(before) \in Nat /\ Len(left) = Len(before) + Len(one) /\ Len(one) \in Nat
          /\ Len(after) \in Nat /\ Len(all) = Len(left) + Len(after)
      BY <1>10, <1>13 DEF Joined
    <3>3. j \in 1..Len(left) /\ j \in 1..Len(all)
      BY <3>2
    <3>4. all[j] = plugins[i]
      BY <1>10, <1>13, <3>1, <3>3 DEF Joined
    <3>5. QED
      BY <3>3, <3>4 DEF Contains
  <2>2. CASE \E j \in 1..Len(after) : after[j] = plugins[i]
    <3>1. PICK j \in 1..Len(after) : after[j] = plugins[i]
      BY <2>2
    <3>2. /\ Len(left) \in Nat /\ Len(after) \in Nat /\ Len(all) = Len(left) + Len(after)
      BY <1>13 DEF Joined
    <3>3. Len(left) + j \in 1..Len(all)
      BY <3>2
    <3>4. all[Len(left) + j] = plugins[i]
      BY <1>13, <3>1 DEF Joined
    <3>5. QED
      BY <3>3, <3>4 DEF Contains
  <2>3. QED
    BY <1>5, <2>1, <2>2
<1>16. default # "none" => Contains(all, default)
  <2>1. default # "none" => \E i \in 1..Len(plugins) : plugins[i] = default
    BY DEF PluginInv, Contains
  <2>2. QED
    BY <1>15, <2>1
<1>17. ObjectsOf(default, "modem")' = ObjectsOf(default, "modem")
  BY <1>1 DEF ObjectsOf
<1>18. QED
  BY <1>1, <1>12, <1>14, <1>16, <1>17 DEF PluginInv

\* tcore_plugin_add_core_object
LEMMA AddObjectKeeps ==
  ASSUME PluginInv, NEW p \in Plugins, NEW o \in Objects, AddObject(p, o)
  PROVE  PluginInv'
<1>1. /\ objects' = [objects EXCEPT ![p] = <<o>> \o @] /\ plugins' = plugins
      /\ default' = default
  BY DEF AddObject
<1>2. PICK one \in Seq(Objects) : one = <<o>> /\ Len(one) = 1
  <2>1. <<o>> \in Seq(Objects) /\ Len(<<o>>) = 1
    OBVIOUS
  <2>2. QED
    BY <2>1, Zenon
<1> DEFINE s == objects[p]
           t == one \o s
<1>3. s \in Seq(Objects) /\ objects \in [Plugins -> Seq(Objects)]
  BY DEF PluginInv
<1>4. t \in Seq(Objects) /\ Joined(t, one, s)
  BY <1>2, <1>3, ConcatProperties, CatJoined DEF Cat
<1>5. objects' = [objects EXCEPT ![p] = t]
  BY <1>1, <1>2
<1> HIDE DEF t
<1>6. ASSUME NEW e, Contains(s, e) PROVE Contains(t, e)
  <2>1. PICK j \in 1..Len(s) : s[j] = e
    BY <1>6 DEF Contains
  <2>2. Len(t) = 1 + Len(s) /\ Len(s) \in Nat /\ t[1 + j] = e
    BY <1>2, <1>4, <2>1 DEF Joined
  <2>3. 1 + j \in 1..Len(t)
    BY <2>2
  <2>4. QED
    BY <2>2, <2>3 DEF Contains
<1>7. ASSUME NEW q PROVE ObjectsOf(q, "modem") \subseteq ObjectsOf(q, "modem")'
  <2>1. CASE q = p
    BY <1>3, <1>5, <1>6, <2>1 DEF ObjectsOf
  <2>2. CASE q # p
    <3>1. objects'[q] = objects[q]
      BY <1>3, <1>5, <2>2
    <3>2. QED
      BY <3>1 DEF ObjectsOf
  <2>3. QED
    BY <2>1, <2>2
<1>8. default # "none" => ObjectsOf(default, "modem")' # {}
  <2>1. default # "none" => ObjectsOf(default, "modem") # {}
    BY DEF PluginInv
  <2>2. ObjectsOf(default, "modem") \subseteq ObjectsOf(default, "modem")'
    <3>1. PICK q : q = default
      OBVIOUS
    <3>2. ObjectsOf(q, "modem") \subseteq ObjectsOf(q, "modem")'
      BY <1>7
    <3>3. QED
      BY <1>1, <3>1, <3>2 DEF ObjectsOf
  <2>3. QED
    BY <2>1, <2>2
<1>9. QED
  BY <1>1, <1>3, <1>4, <1>5, <1>8 DEF PluginInv

\* tcore_server_dispatch_request looks for the default plugin.
LEMMA PassedKeeps ==
  ASSUME PluginInv, NEW r \in Requests, Passed(r)
  PROVE  PluginInv'
<1>1. plugins' = plugins /\ objects' = objects
  BY DEF Passed
<1>2. CASE default' = default
  BY <1>1, <1>2 DEF PluginInv, ObjectsOf
<1>3. CASE default' # default
  <2>1. PICK p \in Found(ur[r].name) : default' = IF ur[r].name = Default THEN p ELSE default
    BY <1>3 DEF Passed
  <2>2. default' = p /\ p \in FoundDefault
    BY <1>3, <2>1 DEF Found
  <2>3. p = Head(WithModem) /\ WithModem # <<>>
    BY <1>3, <2>2 DEF FoundDefault
  <2>4. plugins \in Seq(Plugins)
    BY DEF PluginInv
  <2>5. PICK m \in 1..Len(plugins) :
          p = plugins[m] /\ plugins[m] \in {q \in Plugins : ObjectsOf(q, "modem") # {}}
    BY <2>3, <2>4, KeepFirst DEF WithModem
  <2>6. Contains(plugins, p) /\ ObjectsOf(p, "modem") # {}
    BY <2>5 DEF Contains
  <2>7. QED
    BY <1>1, <2>2, <2>6 DEF PluginInv, ObjectsOf
<1>4. QED
  BY <1>2, <1>3

LEMMA PluginStep == PluginInv /\ [Next]_vars => PluginInv'
<1>1. SUFFICES ASSUME PluginInv, [Next]_vars PROVE PluginInv'
  OBVIOUS
<1>2. CASE UNCHANGED <<plugins, default, objects>>
  BY <1>1, <1>2 DEF PluginInv, ObjectsOf
<1>3. CASE ~UNCHANGED <<plugins, default, objects>>
  <2>1. \/ \E p \in Plugins : AddPlugin(p) \/ \E o \in Objects : AddObject(p, o)
        \/ \E r \in Requests : Passed(r)
    BY <1>1, <1>3
       DEF Next, Dispatch, HookKeeps, Stopped, Ask, Returned, Release, Over, serverVars, vars
  <2>2. QED
    BY <1>1, <2>1, AddPluginKeeps, AddObjectKeeps, PassedKeeps
<1>4. QED
  BY <1>2, <1>3

LEMMA InitPlugins == Init => PluginInv
<1>1. SUFFICES ASSUME Init PROVE PluginInv
  OBVIOUS
<1>2. /\ <<>> \in Seq(Plugins) /\ <<>> \in Seq(Objects) /\ Len(<<>>) = 0
  OBVIOUS
<1>3. QED
  BY <1>1, <1>2 DEF Init, PluginInv, Ordered

\* For any plugins, priorities and objects: the plugins are in the order of
\* their priorities, the default plugin is one of them and has a modem.
THEOREM TypeOKHolds == Spec => []TypeOK
<1>1. PluginInv /\ RequestInv /\ HookInv => TypeOK
  <2>1. SUFFICES ASSUME PluginInv, RequestInv, HookInv PROVE TypeOK
    OBVIOUS
  <2>2. \A i, j \in DOMAIN plugins : i < j => Priority[plugins[i]] <= Priority[plugins[j]]
    BY <2>1, LenProperties DEF PluginInv, Ordered, ByPriority
  <2>3. \A r \in Requests : ur[r].state \in {"absent", "hooks", "objects", "out", "freed"}
    BY <2>1 DEF RequestInv, RequestType
  <2>4. \A l \in Lists : \A i \in DOMAIN hooks[l] : hooks[l][i].fn \in Functions
    <3>1. SUFFICES ASSUME NEW l \in Lists, NEW i \in DOMAIN hooks[l]
                   PROVE  hooks[l][i].fn \in Functions
      OBVIOUS
    <3>2. hooks[l] \in Seq(HookType)
      BY <2>1 DEF HookInv
    <3>3. hooks[l][i] \in HookType
      BY <3>2, ElementOfSeq, LenProperties
    <3>4. QED
      BY <3>3 DEF HookType
  <2>5. QED
    BY <2>1, <2>2, <2>3, <2>4 DEF TypeOK, PluginInv
<1>2. QED
  BY <1>1, InitPlugins, PluginStep, InitRequests, RequestStep, HookInvHolds, PTL DEF Spec
=============================================================================
