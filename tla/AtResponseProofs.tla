-------------------------- MODULE AtResponseProofs --------------------------
(***************************************************************************)
(* Proofs about AtResponse: for any requests and any number of lines, the  *)
(* lines of a response and those of events are told apart.                 *)
(***************************************************************************)
EXTENDS AtResponse, SeqLemmas

-----------------------------------------------------------------------------
(* The inductive invariant *)

Lines == ResponseLines \cup EventLines \cup {FinalLine}

RespTypeOK ==
  /\ atReq \in AtRequests \cup {NoReq}
  /\ atLines \in Seq(ResponseLines) /\ intended \in Seq(ResponseLines)
  /\ wire \in Seq(Lines)
  /\ pduLines \in Seq(EventLines)
  /\ events \in Seq(Seq(EventLines)) /\ sent \in Seq(Seq(EventLines))

\* Without a request there is no response, whole or in part.
NothingLeft ==
  atReq = NoReq =>
    /\ atLines = <<>> /\ intended = <<>>
    /\ \A i \in 1..Len(wire) : wire[i] \in EventLines

\* What the modem sends for a request.
Fits(r, i, l) ==
  CASE r.type = "NUMERIC" -> i = 1 /\ l.digit
    [] r.type = "SINGLELINE" -> i = 1 /\ l.prefix = r.prefix
    [] r.type = "MULTILINE" -> l.prefix = r.prefix
    [] r.type = "PDU" -> i = 1 => l.prefix = r.prefix
    [] OTHER -> FALSE

ResponseShape == \A i \in 1..Len(intended) : Fits(atReq, i, intended[i])

\* After the final response come events only.
FinalEnds(w) ==
  \A i, j \in 1..Len(w) : i < j /\ w[i] = FinalLine => w[j] \in EventLines

Before(w, i) == \E j \in 1..i : w[j] \in ResponseLines
Final(w, i) == \E j \in 1..i : w[j] = FinalLine

\* The event lines that come before the final response to r are not like the
\* lines that are expected where they are, after the lines s.
Told(r, digit, begun) ==
  CASE r.type = "NUMERIC" -> digit => begun
    [] r.type = "PDU" -> Marked(r) /\ ~begun
    [] r.type \in {"SINGLELINE", "MULTILINE"} -> Marked(r)
    [] OTHER -> TRUE

EventsTold(w, r, s) ==
  \A i \in 1..Len(w) : w[i] \in EventLines /\ ~Final(w, i) =>
    Told(r, w[i].digit, s # <<>> \/ Before(w, i))

\* The PDU of an event is behind the line that announces it.
Announced(w, s, i) ==
  IF i = 1 THEN s # <<>> ELSE w[i - 1] \in EventLines /\ w[i - 1].prefix = "+P"

\* An event line has one of three prefixes.
EventShape(w, s) ==
  \A i \in 1..Len(w) : w[i] \in EventLines =>
    w[i].prefix \in {"", "+U", "+P"} /\ (w[i].digit => Announced(w, s, i))

SentShape ==
  \A i \in 1..Len(sent) :
    \/ sent[i] = <<Text("+U", FALSE, i)>>
    \/ sent[i] = <<Text("+P", FALSE, i), Text("", TRUE, i)>>

PduShape == pduLines # <<>> => Len(pduLines) = 1 /\ pduLines[1].prefix = "+P"

Unheard == SubSeq(sent, Len(events) + 1, Len(sent))

SortInv ==
  /\ RespTypeOK /\ NothingLeft /\ ResponseShape /\ SentShape /\ PduShape
  /\ FinalEnds(wire) /\ EventsTold(wire, atReq, atLines) /\ EventShape(wire, pduLines)
  /\ atLines \o Keep(wire, ResponseLines) = intended
  /\ Len(events) <= Len(sent)
  /\ EventsSorted

\* What a line looks like.
LEMMA TextFields ==
  \A prefix, digit, of : Text(prefix, digit, of).prefix = prefix /\ Text(prefix, digit, of).digit = digit
  BY DEF Text

\* A line is of one of three kinds.
LEMMA LineKinds ==
  /\ \A l \in ResponseLines : l \notin EventLines /\ l # FinalLine /\ ~l.final
  /\ \A l \in EventLines : l \notin ResponseLines /\ l # FinalLine /\ ~l.final
  /\ FinalLine.final
  /\ \A prefix \in LinePrefixes, digit \in BOOLEAN :
       /\ Text(prefix, digit, 0) \in ResponseLines
       /\ Text(prefix, digit, 0).prefix = prefix /\ Text(prefix, digit, 0).digit = digit
       /\ \A n \in Nat \ {0} : /\ Text(prefix, digit, n) \in EventLines
                               /\ Text(prefix, digit, n).prefix = prefix
                               /\ Text(prefix, digit, n).digit = digit
  /\ ResponseLines \subseteq Lines /\ EventLines \subseteq Lines /\ FinalLine \in Lines
<1>1. \A l \in ResponseLines : l.final = FALSE /\ l.of = 0
  BY DEF ResponseLines
<1>2. \A l \in EventLines : l.final = FALSE /\ l.of # 0
  BY DEF EventLines
<1>3. FinalLine.final = TRUE
  BY DEF FinalLine
<1>4. ASSUME NEW prefix \in LinePrefixes, NEW digit \in BOOLEAN
      PROVE  /\ Text(prefix, digit, 0) \in ResponseLines
             /\ Text(prefix, digit, 0).prefix = prefix /\ Text(prefix, digit, 0).digit = digit
             /\ \A n \in Nat \ {0} : /\ Text(prefix, digit, n) \in EventLines
                                     /\ Text(prefix, digit, n).prefix = prefix
                                     /\ Text(prefix, digit, n).digit = digit
  BY DEF Text, ResponseLines, EventLines
<1>5. QED
  BY <1>1, <1>2, <1>3, <1>4 DEF Lines

\* What a request is.
LEMMA RequestType ==
  ASSUME RespTypeOK
  PROVE  /\ atReq # NoReq => atReq.type \in AtTypes /\ atReq \in AtRequests
         /\ atReq.type = "none" => atReq = NoReq
         /\ atReq.prefix \in LinePrefixes
<1>1. atReq \in AtRequests \/ atReq = NoReq
  BY DEF RespTypeOK
<1>2. \A r \in AtRequests : r.type \in AtTypes /\ r.prefix \in LinePrefixes
  BY AtRequestsAssumption DEF LinePrefixes
<1>3. NoReq.type = "none" /\ NoReq.prefix \in LinePrefixes
  BY DEF NoReq, LinePrefixes
<1>4. "none" \notin AtTypes
  BY DEF AtTypes
<1>5. QED
  BY <1>1, <1>2, <1>3, <1>4

LEMMA InitSort == RespInit => SortInv
<1> SUFFICES ASSUME RespInit PROVE SortInv
  OBVIOUS
<1>1. /\ atReq = NoReq /\ atLines = <<>> /\ pduLines = <<>> /\ events = <<>>
      /\ wire = <<>> /\ intended = <<>> /\ sent = <<>>
  BY DEF RespInit
<1>2. /\ Len(<<>>) = 0 /\ \A S : <<>> \in Seq(S)
  BY EmptySeq
<1>3. RespTypeOK
  BY <1>1, <1>2 DEF RespTypeOK
<1>4. /\ NothingLeft /\ ResponseShape /\ SentShape /\ PduShape
      /\ FinalEnds(wire) /\ EventsTold(wire, atReq, atLines) /\ EventShape(wire, pduLines)
  BY <1>1, <1>2 DEF NothingLeft, ResponseShape, FinalEnds, EventsTold, EventShape,
                    SentShape, PduShape
<1>5. Keep(wire, ResponseLines) = <<>> /\ Keep(wire, EventLines) = <<>>
  BY <1>1, KeepEmpty
<1>6. atLines \o Keep(wire, ResponseLines) = intended
  <2>1. <<>> \o <<>> = <<>>
    BY <1>2, ConcatEmptySeq
  <2>2. QED
    BY <1>1, <1>5, <2>1
<1>7. EventsSorted
  <2>1. SubSeq(sent, 1, Len(events)) = <<>> /\ SubSeq(sent, Len(events) + 1, Len(sent)) = <<>>
    BY <1>1, <1>2, SubSeqEmpty
  <2>2. <<>> \o <<>> = <<>>
    BY <1>2, ConcatEmptySeq
  <2>3. QED
    BY <1>1, <1>5, <2>1, <2>2, FlatEmpty DEF EventsSorted
<1>8. QED
  BY <1>1, <1>2, <1>3, <1>4, <1>6, <1>7 DEF SortInv

-----------------------------------------------------------------------------
(* Reading the first line of a list *)

\* v is w without its first line l.
Rest(w, l, v) ==
  /\ Len(w) \in Nat \ {0} /\ Len(v) = Len(w) - 1
  /\ w[1] = l /\ l \in Lines
  /\ \A i \in 1..Len(v) : v[i] = w[i + 1] /\ i + 1 \in 1..Len(w)

LEMMA ReadRest ==
  ASSUME NEW w \in Seq(Lines), w # <<>>
  PROVE  Rest(w, Head(w), Tail(w)) /\ Tail(w) \in Seq(Lines) /\ Head(w) \in Lines
<1>1. /\ Len(w) \in Nat /\ Len(w) # 0 /\ Head(w) = w[1] /\ Head(w) \in Lines
      /\ Tail(w) \in Seq(Lines) /\ Len(Tail(w)) = Len(w) - 1
  BY EmptySeq, LenProperties, HeadTailProperties
<1>2. \A i \in 1..Len(Tail(w)) : Tail(w)[i] = w[i + 1]
  BY HeadTailProperties
<1>3. \A i \in 1..Len(Tail(w)) : i + 1 \in 1..Len(w)
  BY <1>1
<1>4. QED
  BY <1>1, <1>2, <1>3 DEF Rest

\* What has been said of a list, said of its rest.
LEMMA RestMarks ==
  ASSUME NEW w, NEW l, NEW v, Rest(w, l, v), NEW i \in 1..Len(v)
  PROVE  /\ Before(w, i + 1) <=> l \in ResponseLines \/ Before(v, i)
         /\ Final(w, i + 1) <=> l = FinalLine \/ Final(v, i)
<1>1. /\ Len(v) \in Nat
      /\ \A j \in 1..i : v[j] = w[j + 1] /\ j + 1 \in 1..(i + 1)
      /\ \A j \in 1..(i + 1) : j = 1 \/ (j - 1 \in 1..i /\ v[j - 1] = w[j])
      /\ w[1] = l /\ 1 \in 1..(i + 1)
  BY DEF Rest
<1>2. QED
  BY <1>1 DEF Before, Final

LEMMA RestEnds ==
  ASSUME NEW w, NEW l, NEW v, Rest(w, l, v), FinalEnds(w)
  PROVE  FinalEnds(v) /\ (l = FinalLine => \A i \in 1..Len(v) : v[i] \in EventLines)
<1>1. /\ Len(v) \in Nat /\ Len(w) = Len(v) + 1 /\ w[1] = l
      /\ \A i \in 1..Len(v) : v[i] = w[i + 1] /\ i + 1 \in 1..Len(w)
  BY DEF Rest
<1>2. FinalEnds(v)
  <2> SUFFICES ASSUME NEW i \in 1..Len(v), NEW j \in 1..Len(v), i < j, v[i] = FinalLine
               PROVE  v[j] \in EventLines
    BY DEF FinalEnds
  <2>1. i + 1 < j + 1 /\ i + 1 \in 1..Len(w) /\ j + 1 \in 1..Len(w)
    BY <1>1
  <2>2. QED
    BY <2>1, <1>1 DEF FinalEnds
<1>3. ASSUME l = FinalLine, NEW i \in 1..Len(v) PROVE v[i] \in EventLines
  <2>1. 1 < i + 1 /\ 1 \in 1..Len(w) /\ i + 1 \in 1..Len(w)
    BY <1>1
  <2>2. QED
    BY <2>1, <1>1, <1>3 DEF FinalEnds
<1>4. QED
  BY <1>2, <1>3

LEMMA RestTold ==
  ASSUME NEW w, NEW l, NEW v, Rest(w, l, v), NEW r, NEW s, NEW t, EventsTold(w, r, s),
         l # FinalLine,
         \/ l \in ResponseLines /\ t # <<>>
         \/ l \notin ResponseLines /\ t = s
  PROVE  EventsTold(v, r, t)
<1> SUFFICES ASSUME NEW i \in 1..Len(v), v[i] \in EventLines, ~Final(v, i)
             PROVE  Told(r, v[i].digit, t # <<>> \/ Before(v, i))
  BY DEF EventsTold
<1>1. v[i] = w[i + 1] /\ i + 1 \in 1..Len(w)
  BY DEF Rest
<1>2. ~Final(w, i + 1) /\ (Before(w, i + 1) <=> l \in ResponseLines \/ Before(v, i))
  BY RestMarks
<1>3. Told(r, w[i + 1].digit, s # <<>> \/ Before(w, i + 1))
  BY <1>1, <1>2 DEF EventsTold
<1>4. (s # <<>> \/ Before(w, i + 1)) <=> (t # <<>> \/ Before(v, i))
  BY <1>2
<1>5. QED
  BY <1>1, <1>3, <1>4 DEF Told

LEMMA RestShape ==
  ASSUME NEW w, NEW l, NEW v, Rest(w, l, v), NEW s, NEW t, EventShape(w, s),
         l \in EventLines /\ l.prefix = "+P" => t # <<>>
  PROVE  EventShape(v, t)
<1> SUFFICES ASSUME NEW i \in 1..Len(v), v[i] \in EventLines
             PROVE  v[i].prefix \in {"", "+U", "+P"} /\ (v[i].digit => Announced(v, t, i))
  BY DEF EventShape
<1>1. /\ v[i] = w[i + 1] /\ i + 1 \in 1..Len(w) /\ i + 1 # 1 /\ (i + 1) - 1 = i
      /\ i # 1 => v[i - 1] = w[i]
      /\ w[1] = l
  <2>1. i # 1 => i - 1 \in 1..Len(v) /\ (i - 1) + 1 = i
    BY DEF Rest
  <2>2. QED
    BY <2>1 DEF Rest
<1>2. /\ w[i + 1].prefix \in {"", "+U", "+P"}
      /\ w[i + 1].digit => w[i] \in EventLines /\ w[i].prefix = "+P"
  BY <1>1 DEF EventShape, Announced
<1>3. QED
  BY <1>1, <1>2 DEF Announced

-----------------------------------------------------------------------------
(* Reading a line of the channel *)

\* A line of the response is taken for one.
LEMMA ResponseRead ==
  ASSUME SortInv, wire # <<>>, Head(wire) \in ResponseLines
  PROVE  /\ atReq # NoReq /\ Belongs(Head(wire))
         /\ Append(atLines, Head(wire)) \o Keep(Tail(wire), ResponseLines) = intended
<1> DEFINE l == Head(wire)
           n == Len(atLines) + 1
<1>1. /\ RespTypeOK /\ NothingLeft /\ ResponseShape
      /\ Cat(atLines, Keep(wire, ResponseLines)) = intended
  BY DEF SortInv, Cat
<1>2. /\ Rest(wire, l, Tail(wire)) /\ atLines \in Seq(Lines) /\ wire \in Seq(Lines)
      /\ atLines \in Seq(ResponseLines) /\ intended \in Seq(Lines)
  <2>1. \A s \in Seq(ResponseLines) : s \in Seq(Lines)
    BY LineKinds, SeqMonotonic
  <2>2. QED
    BY <1>1, <2>1, ReadRest DEF RespTypeOK
<1>3. atReq # NoReq
  <2>1. 1 \in 1..Len(wire) /\ wire[1] = l
    BY <1>2 DEF Rest
  <2>2. QED
    BY <1>1, <2>1, LineKinds DEF NothingLeft
<1>4. /\ Cat(Append(atLines, l), Keep(Tail(wire), ResponseLines)) = intended
      /\ n \in 1..Len(intended) /\ intended[n] = l
  BY <1>1, <1>2, TakeFirst
<1>5. atReq.type \in AtTypes
  BY <1>1, <1>3, RequestType
<1>6. n = 1 <=> atLines = <<>>
  BY <1>2, EmptySeq, LenProperties
<1>7. /\ atReq.type = "NUMERIC" => n = 1 /\ l.digit
      /\ atReq.type = "SINGLELINE" => n = 1 /\ l.prefix = atReq.prefix
      /\ atReq.type = "MULTILINE" => l.prefix = atReq.prefix
      /\ atReq.type = "PDU" /\ n = 1 => l.prefix = atReq.prefix
      /\ atReq.type # "NO_RESULT"
  <2> HIDE DEF n, l
  <2>1. Fits(atReq, n, l)
    BY <1>1, <1>4 DEF ResponseShape
  <2>2. QED
    BY <2>1 DEF Fits
<1> HIDE DEF n, l
<1>8. Belongs(l)
  BY <1>5, <1>6, <1>7 DEF Belongs, HasPrefix, AtTypes
<1>9. QED
  BY <1>3, <1>4, <1>8 DEF Cat, l

\* A line of an event is not.
LEMMA EventRead ==
  ASSUME SortInv, wire # <<>>, Head(wire) \in EventLines
  PROVE  /\ ~Belongs(Head(wire)) /\ Head(wire).prefix \in {"", "+U", "+P"}
         /\ Head(wire) # FinalLine /\ ~Head(wire).final
<1> DEFINE l == Head(wire)
<1>1. /\ RespTypeOK /\ NothingLeft /\ EventsTold(wire, atReq, atLines)
      /\ EventShape(wire, pduLines)
  BY DEF SortInv
<1>2. Rest(wire, l, Tail(wire)) /\ atLines \in Seq(ResponseLines)
  BY <1>1, ReadRest DEF RespTypeOK
<1>3. 1 \in 1..Len(wire) /\ wire[1] = l
  BY <1>2 DEF Rest
<1>4. l \notin ResponseLines /\ l # FinalLine /\ ~l.final
  BY LineKinds
<1> HIDE DEF l
<1>5. ~Before(wire, 1) /\ ~Final(wire, 1)
  BY <1>3, <1>4 DEF Before, Final
<1>6. l \in EventLines
  BY DEF l
<1>7. l.prefix \in {"", "+U", "+P"}
  BY <1>1, <1>3, <1>6 DEF EventShape
<1>8. Told(atReq, l.digit, atLines # <<>> \/ Before(wire, 1))
  BY <1>1, <1>3, <1>5, <1>6 DEF EventsTold
<1>9. ~Belongs(l)
  <2>1. CASE atReq.type = "NUMERIC"
    BY <1>5, <1>8, <2>1 DEF Told, Belongs
  <2>2. CASE atReq.type = "PDU"
    BY <1>5, <1>7, <1>8, <2>2 DEF Told, Belongs, HasPrefix, Marked
  <2>3. CASE atReq.type \in {"SINGLELINE", "MULTILINE"}
    BY <1>5, <1>7, <1>8, <2>3 DEF Told, Belongs, HasPrefix, Marked
  <2>4. CASE atReq.type \notin {"NUMERIC", "PDU", "SINGLELINE", "MULTILINE"}
    BY <2>4 DEF Belongs
  <2>5. QED
    BY <2>1, <2>2, <2>3, <2>4
<1>10. QED
  BY <1>4, <1>7, <1>9 DEF l

\* The event that a line belongs to is the first that is not complete.
LEMMA EventNext ==
  ASSUME SortInv, wire # <<>>, Head(wire) \in EventLines
  PROVE  LET l == Head(wire)
             k == Len(events)
             n == Len(sent)
             rest == Keep(Tail(wire), EventLines) IN
         /\ k \in Nat /\ k < n
         /\ l.prefix = "+P" /\ pduLines = <<>> =>
              <<l>> \o rest = FlattenSeq(SubSeq(sent, k + 1, n))
         /\ pduLines # <<>> =>
              /\ Append(events, Append(pduLines, l)) = SubSeq(sent, 1, k + 1)
              /\ <<>> \o rest = FlattenSeq(SubSeq(sent, k + 2, n))
              /\ l.prefix # "+P"
         /\ pduLines = <<>> /\ l.prefix # "+P" =>
              /\ l.prefix = "+U"
              /\ Append(events, <<l>>) = SubSeq(sent, 1, k + 1)
              /\ <<>> \o rest = FlattenSeq(SubSeq(sent, k + 2, n))
<1> DEFINE l == Head(wire)
           k == Len(events)
           n == Len(sent)
           rest == Keep(Tail(wire), EventLines)
<1>1. /\ RespTypeOK /\ SentShape /\ PduShape /\ k <= n
      /\ events = SubSeq(sent, 1, k)
      /\ Cat(pduLines, Keep(wire, EventLines)) = FlattenSeq(Unheard)
  BY DEF SortInv, EventsSorted, Unheard, Cat
<1>2. /\ pduLines \in Seq(Lines) /\ wire \in Seq(Lines)
      /\ sent \in Seq(Seq(Lines))
      /\ k \in Nat /\ n \in Nat
  <2>1. EventLines \subseteq Lines
    BY LineKinds
  <2>2. \A s \in Seq(EventLines) : s \in Seq(Lines)
    BY <2>1, SeqMonotonic
  <2>3. \A s \in Seq(Seq(EventLines)) : s \in Seq(Seq(Lines))
    BY <2>1, SeqMonotonic
  <2>4. QED
    BY <1>1, <2>2, <2>3, LenProperties DEF RespTypeOK
<1>3. k < n
  <2>1. ASSUME k = n PROVE FALSE
    <3>1. k + 1 \in Int /\ n \in Int /\ n < k + 1
      BY <1>2, <2>1
    <3>2. Unheard = <<>>
      BY <3>1, SubSeqEmpty DEF Unheard
    <3>3. Unheard \in Seq(Seq(Lines))
      BY <3>2, EmptySeq
    <3>4. Unheard # <<>>
      BY <1>1, <1>2, <3>3, NextEvent
    <3>5. QED
      BY <3>2, <3>4
  <2>2. QED
    BY <1>1, <1>2, <2>1
<1>4. /\ Append(SubSeq(sent, 1, k), sent[k + 1]) = SubSeq(sent, 1, k + 1)
      /\ Unheard \in Seq(Seq(Lines)) /\ Unheard # <<>>
      /\ Head(Unheard) = sent[k + 1] /\ Tail(Unheard) = SubSeq(sent, k + 2, n)
      /\ k + 1 \in 1..n
  <2>1. \A j \in Nat : j < Len(sent) =>
          /\ Append(SubSeq(sent, 1, j), sent[j + 1]) = SubSeq(sent, 1, j + 1)
          /\ SubSeq(sent, j + 1, Len(sent)) \in Seq(Seq(Lines))
          /\ SubSeq(sent, j + 1, Len(sent)) # <<>>
          /\ Head(SubSeq(sent, j + 1, Len(sent))) = sent[j + 1]
          /\ Tail(SubSeq(sent, j + 1, Len(sent))) = SubSeq(sent, j + 2, Len(sent))
    BY <1>2, Beginning
  <2>2. k + 1 \in 1..n
    BY <1>2, <1>3
  <2>3. QED
    BY <1>2, <1>3, <2>1, <2>2, Zenon DEF Unheard
<1>5. PICK e \in Seq(Lines), f \in Seq(Lines), a \in Seq(Lines), c \in Seq(Lines) :
        /\ e = sent[k + 1] /\ f = FlattenSeq(SubSeq(sent, k + 2, n))
        /\ a = Append(pduLines, l) /\ c = rest
        /\ Cat(a, c) = FlattenSeq(Unheard) /\ FlattenSeq(Unheard) = Cat(e, f)
  <2>1. /\ Append(pduLines, l) \in Seq(Lines) /\ rest \in Seq(Lines)
        /\ Head(Unheard) \in Seq(Lines) /\ FlattenSeq(Tail(Unheard)) \in Seq(Lines)
        /\ Cat(Append(pduLines, l), rest) = FlattenSeq(Unheard)
        /\ FlattenSeq(Unheard) = Cat(Head(Unheard), FlattenSeq(Tail(Unheard)))
    BY <1>1, <1>2, <1>4, NextEvent
  <2> HIDE DEF l, k, n, rest
  <2>2. QED
    BY <1>4, <2>1
<1>6. \/ Len(e) = 1 /\ e[1].prefix = "+U"
      \/ Len(e) = 2 /\ e[1].prefix = "+P" /\ e[2].prefix = ""
  <2>1. e = <<Text("+U", FALSE, k + 1)>> \/ e = <<Text("+P", FALSE, k + 1), Text("", TRUE, k + 1)>>
    BY <1>1, <1>4, <1>5 DEF SentShape
  <2>2. ASSUME e = <<Text("+U", FALSE, k + 1)>>
        PROVE  Len(e) = 1 /\ e[1].prefix = "+U"
    <3> DEFINE x == Text("+U", FALSE, k + 1)
    <3> HIDE DEF x
    <3>1. Len(e) = 1 /\ e[1] = x
      BY <2>2 DEF x
    <3>2. x.prefix = "+U"
      BY TextFields DEF x
    <3>3. QED
      BY <3>1, <3>2, Zenon
  <2>3. ASSUME e = <<Text("+P", FALSE, k + 1), Text("", TRUE, k + 1)>>
        PROVE  Len(e) = 2 /\ e[1].prefix = "+P" /\ e[2].prefix = ""
    <3> DEFINE x == Text("+P", FALSE, k + 1)
               y == Text("", TRUE, k + 1)
    <3> HIDE DEF x, y
    <3>1. Len(e) = 2 /\ e[1] = x /\ e[2] = y
      BY <2>3 DEF x, y
    <3>2. x.prefix = "+P" /\ y.prefix = ""
      BY TextFields DEF x, y
    <3>3. QED
      BY <3>1, <3>2, Zenon
  <2>4. QED
    BY <2>1, <2>2, <2>3
<1>7. /\ Len(a) = Len(pduLines) + 1 /\ a[Len(pduLines) + 1] = l /\ Len(pduLines) \in Nat
      /\ \A i \in 1..Len(pduLines) : a[i] = pduLines[i]
      /\ pduLines = <<>> => Len(pduLines) = 0
      /\ pduLines # <<>> => Len(pduLines) = 1 /\ pduLines[1].prefix = "+P"
      /\ a # <<>> /\ e # <<>>
  <2>1. pduLines # <<>> => Len(pduLines) = 1 /\ pduLines[1].prefix = "+P"
    BY <1>1 DEF PduShape
  <2>2. pduLines = <<>> => Len(pduLines) = 0
    BY EmptySeq
  <2>3. l \in Lines
    BY <1>2, ReadRest
  <2>4. /\ Len(a) = Len(pduLines) + 1 /\ a[Len(pduLines) + 1] = l /\ Len(pduLines) \in Nat
        /\ \A i \in 1..Len(pduLines) : a[i] = pduLines[i]
    BY <1>2, <1>5, <2>3, AppendProperties, LenProperties
  <2>5. Len(a) # 0 /\ Len(e) # 0
    <3>1. \A i \in Nat : i + 1 # 0
      OBVIOUS
    <3>2. Len(a) # 0
      BY <2>4, <3>1, Zenon
    <3>3. Len(e) # 0
      <4>1. Len(e) = 1 \/ Len(e) = 2
        BY <1>6, Zenon
      <4>2. 1 # 0 /\ 2 # 0
        OBVIOUS
      <4>3. QED
        BY <4>1, <4>2, Zenon
    <3>4. QED
      BY <3>2, <3>3
  <2>6. QED
    BY <2>1, <2>2, <2>4, <2>5, EmptySeq
<1>8. a[1] = e[1] /\ (Len(a) = Len(e) => a = e /\ c = f)
  <2>1. Cat(a, c) = Cat(e, f)
    BY <1>5
  <2>2. QED
    BY <2>1, <1>7, SameStart, SameParts
<1>9. Cat(<<>>, f) = f /\ f = FlattenSeq(SubSeq(sent, k + 2, n))
  BY <1>5, CatProperties
<1>10. ASSUME pduLines = <<>>
       PROVE  a = <<l>> /\ e[1] = l
  BY <1>5, <1>7, <1>8, <1>10
<1>11. ASSUME l.prefix = "+P", pduLines = <<>>
       PROVE  <<l>> \o rest = FlattenSeq(SubSeq(sent, k + 1, n))
  BY <1>5, <1>10, <1>11 DEF Cat, Unheard
<1>12. ASSUME pduLines # <<>>
       PROVE  a = e /\ c = f /\ l.prefix # "+P"
  <2>1. a[1] = pduLines[1] /\ a[2] = l /\ Len(a) = 2
    <3>1. Len(pduLines) = 1 /\ 1 \in 1..1
      BY <1>7, <1>12
    <3>2. QED
      BY <1>7, <3>1
  <2>2. Len(e) = 2 /\ e[2].prefix = ""
    BY <2>1, <1>6, <1>7, <1>8, <1>12
  <2>3. QED
    BY <2>1, <2>2, <1>8
<1>13. ASSUME pduLines = <<>>, l.prefix # "+P"
       PROVE  a = e /\ c = f /\ l.prefix = "+U"
  <2>1. Len(a) = 1
    BY <1>7, <1>13
  <2>2. Len(e) = 1 /\ l.prefix = "+U"
    BY <1>6, <1>10, <1>13
  <2>3. QED
    BY <2>1, <2>2, <1>8
<1>14. a = e => Append(events, a) = SubSeq(sent, 1, k + 1)
  BY <1>1, <1>4, <1>5
<1>15. c = f => Cat(<<>>, rest) = FlattenSeq(SubSeq(sent, k + 2, n))
  BY <1>5, <1>9
<1>16. QED
  BY <1>2, <1>3, <1>5, <1>10, <1>11, <1>12, <1>13, <1>14, <1>15 DEF Cat, l, k, n, rest

\* The steps of the loop.
LEMMA ReadFinal ==
  ASSUME SortInv, ReadLine, atReq # NoReq /\ Head(wire).final
  PROVE  SortInv'
<1>1. /\ wire # <<>> /\ wire' = Tail(wire) /\ sent' = sent
      /\ atReq' = NoReq /\ intended' = <<>> /\ atLines' = <<>>
      /\ pduLines' = pduLines /\ events' = events
  BY DEF ReadLine, Finish
<1>2. /\ RespTypeOK /\ SentShape /\ PduShape /\ FinalEnds(wire) /\ EventShape(wire, pduLines)
      /\ Len(events) <= Len(sent) /\ EventsSorted
  BY DEF SortInv
<1>3. /\ Rest(wire, Head(wire), wire') /\ wire' \in Seq(Lines) /\ Head(wire) \in Lines
      /\ wire \in Seq(Lines)
  BY <1>1, <1>2, ReadRest DEF RespTypeOK
<1>4. Head(wire) = FinalLine /\ Head(wire) \notin EventLines
  BY <1>3, LineKinds DEF Lines
<1>5. FinalEnds(wire') /\ \A i \in 1..Len(wire') : wire'[i] \in EventLines
  BY <1>2, <1>3, <1>4, RestEnds
<1>6. EventShape(wire', pduLines)
  BY <1>2, <1>3, <1>4, RestShape
<1>7. Keep(wire', EventLines) = Keep(wire, EventLines)
  BY <1>1, <1>3, <1>4, SkipFirst
<1>8. Keep(wire', ResponseLines) = <<>>
  BY <1>3, <1>5, LineKinds, KeepNone
<1>9. /\ <<>> \in Seq(ResponseLines) /\ Len(<<>>) = 0 /\ <<>> \o <<>> = <<>>
  BY EmptySeq, ConcatEmptySeq
<1>10. RespTypeOK'
  BY <1>1, <1>2, <1>3, <1>9 DEF RespTypeOK
<1>11. NothingLeft' /\ ResponseShape' /\ SentShape' /\ PduShape'
  <2>1. NothingLeft'
    BY <1>1, <1>5 DEF NothingLeft
  <2>2. ResponseShape'
    BY <1>1, <1>9 DEF ResponseShape
  <2>3. SentShape' /\ PduShape'
    BY <1>1, <1>2 DEF SentShape, PduShape
  <2>4. QED
    BY <2>1, <2>2, <2>3
<1>12. EventsTold(wire', NoReq, <<>>)
  BY DEF EventsTold, Told, NoReq
<1>13. EventsSorted'
  BY <1>1, <1>2, <1>7 DEF EventsSorted
<1>14. QED
  BY <1>1, <1>2, <1>5, <1>6, <1>8, <1>9, <1>10, <1>11, <1>12, <1>13 DEF SortInv

LEMMA ReadResponse ==
  ASSUME SortInv, ReadLine, Head(wire) \in ResponseLines
  PROVE  SortInv'
<1>1. /\ wire # <<>> /\ wire' = Tail(wire) /\ sent' = sent
      /\ atReq' = atReq /\ intended' = intended /\ atLines' = Append(atLines, Head(wire))
      /\ pduLines' = pduLines /\ events' = events
  BY ResponseRead, LineKinds DEF ReadLine
<1>2. /\ RespTypeOK /\ ResponseShape /\ SentShape /\ PduShape /\ FinalEnds(wire)
      /\ EventsTold(wire, atReq, atLines) /\ EventShape(wire, pduLines)
      /\ Len(events) <= Len(sent) /\ EventsSorted
  BY DEF SortInv
<1>3. /\ Rest(wire, Head(wire), wire') /\ wire' \in Seq(Lines) /\ Head(wire) \in Lines
      /\ wire \in Seq(Lines)
  BY <1>1, <1>2, ReadRest DEF RespTypeOK
<1>4. Head(wire) # FinalLine /\ Head(wire) \notin EventLines
  BY LineKinds
<1>5. FinalEnds(wire')
  BY <1>2, <1>3, RestEnds
<1>6. EventShape(wire', pduLines)
  BY <1>2, <1>3, <1>4, RestShape
<1>7. Keep(wire', EventLines) = Keep(wire, EventLines)
  BY <1>1, <1>3, <1>4, SkipFirst
<1>8. atReq # NoReq /\ atLines' \o Keep(wire', ResponseLines) = intended
  BY <1>1, ResponseRead
<1>9. atLines' \in Seq(ResponseLines) /\ atLines' # <<>>
  BY <1>1, <1>2, AppendProperties DEF RespTypeOK
<1>10. RespTypeOK'
  BY <1>1, <1>2, <1>3, <1>9 DEF RespTypeOK
<1>11. NothingLeft' /\ ResponseShape' /\ SentShape' /\ PduShape'
  <2>1. NothingLeft'
    BY <1>1, <1>8 DEF NothingLeft
  <2>2. ResponseShape'
    BY <1>1, <1>2 DEF ResponseShape
  <2>3. SentShape' /\ PduShape'
    BY <1>1, <1>2 DEF SentShape, PduShape
  <2>4. QED
    BY <2>1, <2>2, <2>3
<1>12. EventsTold(wire', atReq, atLines')
  BY <1>2, <1>3, <1>4, <1>9, RestTold
<1>13. EventsSorted'
  BY <1>1, <1>2, <1>7 DEF EventsSorted
<1>14. QED
  BY <1>1, <1>2, <1>5, <1>6, <1>8, <1>10, <1>11, <1>12, <1>13 DEF SortInv

LEMMA ReadEvent ==
  ASSUME SortInv, ReadLine, Head(wire) \in EventLines
  PROVE  SortInv'
<1> DEFINE l == Head(wire)
           k == Len(events)
           n == Len(sent)
<1>1. /\ wire # <<>> /\ wire' = Tail(wire) /\ sent' = sent
      /\ atReq' = atReq /\ intended' = intended /\ atLines' = atLines
      /\ EmitUnsolicited(l)
  <2>1. wire # <<>>
    BY DEF ReadLine
  <2>2. ~Belongs(l) /\ ~l.final
    BY <2>1, EventRead
  <2>3. QED
    BY <2>1, <2>2 DEF ReadLine
<1>2. /\ RespTypeOK /\ NothingLeft /\ ResponseShape /\ SentShape /\ PduShape /\ FinalEnds(wire)
      /\ EventsTold(wire, atReq, atLines) /\ EventShape(wire, pduLines)
      /\ atLines \o Keep(wire, ResponseLines) = intended
      /\ events = SubSeq(sent, 1, k)
  BY DEF SortInv, EventsSorted
<1>3. /\ Rest(wire, l, wire') /\ wire' \in Seq(Lines) /\ l \in Lines /\ wire \in Seq(Lines)
  BY <1>1, <1>2, ReadRest DEF RespTypeOK
<1>4. l # FinalLine /\ l \notin ResponseLines /\ l.prefix \in {"", "+U", "+P"}
  BY <1>1, LineKinds, EventRead
<1>5. FinalEnds(wire')
  BY <1>2, <1>3, RestEnds
<1>6. Keep(wire', ResponseLines) = Keep(wire, ResponseLines)
  BY <1>1, <1>3, <1>4, SkipFirst
<1>7. EventsTold(wire', atReq, atLines)
  BY <1>2, <1>3, <1>4, RestTold
<1>8. /\ k \in Nat /\ k < n
      /\ l.prefix = "+P" /\ pduLines = <<>> =>
           <<l>> \o Keep(wire', EventLines) = FlattenSeq(SubSeq(sent, k + 1, n))
      /\ pduLines # <<>> =>
           /\ Append(events, Append(pduLines, l)) = SubSeq(sent, 1, k + 1)
           /\ <<>> \o Keep(wire', EventLines) = FlattenSeq(SubSeq(sent, k + 2, n))
           /\ l.prefix # "+P"
      /\ pduLines = <<>> /\ l.prefix # "+P" =>
           /\ l.prefix = "+U"
           /\ Append(events, <<l>>) = SubSeq(sent, 1, k + 1)
           /\ <<>> \o Keep(wire', EventLines) = FlattenSeq(SubSeq(sent, k + 2, n))
  BY <1>1, EventNext
\* The event that is handed over is the next one.
<1>9. ASSUME NEW e \in Seq(EventLines), Append(events, e) = SubSeq(sent, 1, k + 1),
             events' = Append(events, e)
      PROVE  /\ events' \in Seq(Seq(EventLines)) /\ Len(events') = k + 1 /\ k + 1 <= n
             /\ events' = SubSeq(sent, 1, Len(events'))
             /\ SubSeq(sent, Len(events') + 1, n) = SubSeq(sent, k + 2, n)
  <2>1. events \in Seq(Seq(EventLines)) /\ sent \in Seq(Seq(EventLines))
    BY <1>2 DEF RespTypeOK
  <2>2. Append(events, e) \in Seq(Seq(EventLines)) /\ Len(Append(events, e)) = k + 1
    BY <2>1, AppendProperties
  <2>3. n \in Nat /\ (k + 1) + 1 = k + 2 /\ k + 1 <= n
    BY <1>8, <2>1, LenProperties
  <2> HIDE DEF k, n
  <2>4. QED
    BY <1>9, <2>2, <2>3
<1>10. <<l>> \in Seq(EventLines) /\ (pduLines # <<>> => Append(pduLines, l) \in Seq(EventLines))
  BY <1>2, AppendProperties DEF RespTypeOK
<1>11. /\ pduLines' \in Seq(EventLines) /\ events' \in Seq(Seq(EventLines))
       /\ PduShape' /\ (l.prefix = "+P" => pduLines' # <<>>)
       /\ Len(events') <= n /\ events' = SubSeq(sent, 1, Len(events'))
       /\ pduLines' \o Keep(wire', EventLines) = FlattenSeq(SubSeq(sent, Len(events') + 1, n))
  <2>1. CASE pduLines # <<>>
    <3>1. events' = Append(events, Append(pduLines, l)) /\ pduLines' = <<>>
      BY <1>1, <2>1 DEF EmitUnsolicited
    <3>2. PICK e \in Seq(EventLines) : e = Append(pduLines, l)
      BY <1>10, <2>1
    <3>3. /\ events' \in Seq(Seq(EventLines)) /\ Len(events') = k + 1 /\ k + 1 <= n
          /\ events' = SubSeq(sent, 1, Len(events'))
          /\ SubSeq(sent, Len(events') + 1, n) = SubSeq(sent, k + 2, n)
      BY <1>8, <1>9, <2>1, <3>1, <3>2
    <3>4. <<>> \in Seq(EventLines)
      BY EmptySeq
    <3> HIDE DEF k, n, l
    <3>5. QED
      BY <1>8, <2>1, <3>1, <3>3, <3>4 DEF PduShape
  <2>2. CASE pduLines = <<>> /\ l.prefix = "+P"
    <3>1. events' = events /\ pduLines' = <<l>>
      BY <1>1, <2>2 DEF EmitUnsolicited
    <3>2. Len(<<l>>) = 1 /\ <<l>>[1] = l /\ <<l>> # <<>>
      OBVIOUS
    <3>3. events \in Seq(Seq(EventLines))
      BY <1>2 DEF RespTypeOK
    <3>4. PduShape'
      BY <2>2, <3>1, <3>2 DEF PduShape
    <3>5. n \in Nat
      BY <1>2, LenProperties DEF RespTypeOK
    <3>6. Len(events') = k /\ k <= n
      BY <1>8, <3>1, <3>5
    <3> HIDE DEF k, n, l
    <3>7. QED
      BY <1>2, <1>8, <1>10, <2>2, <3>1, <3>2, <3>3, <3>4, <3>6
  <2>3. CASE pduLines = <<>> /\ l.prefix # "+P"
    <3>1. events' = Append(events, <<l>>) /\ pduLines' = <<>>
      BY <1>1, <1>8, <2>3 DEF EmitUnsolicited
    <3>2. PICK e \in Seq(EventLines) : e = <<l>>
      BY <1>10
    <3>3. /\ events' \in Seq(Seq(EventLines)) /\ Len(events') = k + 1 /\ k + 1 <= n
          /\ events' = SubSeq(sent, 1, Len(events'))
          /\ SubSeq(sent, Len(events') + 1, n) = SubSeq(sent, k + 2, n)
      BY <1>8, <1>9, <2>3, <3>1, <3>2
    <3>4. <<>> \in Seq(EventLines)
      BY EmptySeq
    <3> HIDE DEF k, n, l
    <3>5. QED
      BY <1>8, <2>3, <3>1, <3>3, <3>4 DEF PduShape
  <2>4. QED
    BY <2>1, <2>2, <2>3
<1>12. EventShape(wire', pduLines')
  BY <1>2, <1>3, <1>11, RestShape
<1>13. RespTypeOK'
  BY <1>1, <1>2, <1>3, <1>11 DEF RespTypeOK
<1>14. NothingLeft'
  <2>1. ASSUME atReq = NoReq, NEW i \in 1..Len(wire') PROVE wire'[i] \in EventLines
    BY <1>2, <1>3, <2>1 DEF NothingLeft, Rest
  <2>2. QED
    BY <1>1, <1>2, <2>1 DEF NothingLeft
<1>15. ResponseShape' /\ SentShape'
  BY <1>1, <1>2 DEF ResponseShape, SentShape
<1>16. EventsSorted' /\ Len(events') <= Len(sent')
  BY <1>1, <1>11 DEF EventsSorted
<1>17. QED
  BY <1>1, <1>2, <1>5, <1>6, <1>7, <1>11, <1>12, <1>13, <1>14, <1>15, <1>16 DEF SortInv

LEMMA ReadSort ==
  ASSUME SortInv, ReadLine
  PROVE  SortInv'
<1>1. wire # <<>> /\ RespTypeOK /\ NothingLeft
  BY DEF ReadLine, SortInv
<1>2. Rest(wire, Head(wire), Tail(wire)) /\ Head(wire) \in Lines
  BY <1>1, ReadRest DEF RespTypeOK
<1>3. CASE Head(wire) = FinalLine
  <2>1. atReq # NoReq
    BY <1>1, <1>2, <1>3, LineKinds DEF NothingLeft, Rest
  <2>2. QED
    BY <1>3, <2>1, LineKinds, ReadFinal
<1>4. QED
  BY <1>2, <1>3, ReadResponse, ReadEvent DEF Lines

-----------------------------------------------------------------------------
(* A list that grows at its end: v is w and then x (Joined of SeqLemmas) *)

LEMMA LongerMarks ==
  ASSUME NEW v, NEW w, NEW x, Joined(v, w, x), NEW i \in 1..Len(w)
  PROVE  v[i] = w[i] /\ (Before(v, i) <=> Before(w, i)) /\ (Final(v, i) <=> Final(w, i))
<1>1. \A j \in 1..i : v[j] = w[j]
  BY DEF Joined
<1>2. QED
  BY <1>1 DEF Before, Final, Joined

\* Where the elements of v come from.
LEMMA LongerIndex ==
  ASSUME NEW v, NEW w, NEW x, Joined(v, w, x), NEW i \in 1..Len(v)
  PROVE  \/ i \in 1..Len(w) /\ v[i] = w[i]
         \/ \E j \in 1..Len(x) : i = Len(w) + j /\ v[i] = x[j]
<1>1. CASE i <= Len(w)
  BY <1>1 DEF Joined
<1>2. CASE i > Len(w)
  <2>1. i - Len(w) \in 1..Len(x) /\ i = Len(w) + (i - Len(w))
    BY <1>2 DEF Joined
  <2>2. QED
    BY <2>1 DEF Joined
<1>3. QED
  BY <1>1, <1>2 DEF Joined

LEMMA LongerTold ==
  ASSUME NEW v, NEW w, NEW x, Joined(v, w, x), NEW r, NEW s, EventsTold(w, r, s),
         \A j \in 1..Len(x) : x[j] \in EventLines /\ ~Final(v, Len(w) + j) =>
           Told(r, x[j].digit, s # <<>> \/ Before(v, Len(w) + j))
  PROVE  EventsTold(v, r, s)
<1> SUFFICES ASSUME NEW i \in 1..Len(v), v[i] \in EventLines, ~Final(v, i)
             PROVE  Told(r, v[i].digit, s # <<>> \/ Before(v, i))
  BY DEF EventsTold
<1>1. CASE i \in 1..Len(w)
  <2>1. v[i] = w[i] /\ (Before(v, i) <=> Before(w, i)) /\ (Final(v, i) <=> Final(w, i))
    BY <1>1, LongerMarks
  <2>2. Told(r, w[i].digit, s # <<>> \/ Before(w, i))
    BY <1>1, <2>1 DEF EventsTold
  <2>3. QED
    BY <2>1, <2>2 DEF Told
<1>2. CASE \E j \in 1..Len(x) : i = Len(w) + j /\ v[i] = x[j]
  BY <1>2
<1>3. QED
  BY <1>1, <1>2, LongerIndex

\* The shape of lines that come at the end of a list.
ShapeOfNew(x) ==
  \A j \in 1..Len(x) : x[j] \in EventLines =>
    /\ x[j].prefix \in {"", "+U", "+P"}
    /\ x[j].digit => j = 2 /\ x[1] \in EventLines /\ x[1].prefix = "+P"

LEMMA LongerShape ==
  ASSUME NEW v, NEW w, NEW x, Joined(v, w, x), NEW s, EventShape(w, s), ShapeOfNew(x)
  PROVE  EventShape(v, s)
<1>1. Len(w) \in Nat /\ Len(x) \in Nat
  BY DEF Joined
<1>2. \A i \in 1..Len(w) : i # 1 => i - 1 \in 1..Len(w)
  BY <1>1
<1>3. \A i : 2 \in 1..Len(x) /\ i = Len(w) + 2 => 1 \in 1..Len(x) /\ i # 1 /\ i - 1 = Len(w) + 1
  BY <1>1
<1>4. ASSUME NEW i \in 1..Len(w), v[i] \in EventLines
      PROVE  v[i].prefix \in {"", "+U", "+P"} /\ (v[i].digit => Announced(v, s, i))
  <2>1. v[i] = w[i] /\ (i # 1 => v[i - 1] = w[i - 1])
    BY <1>2 DEF Joined
  <2>2. w[i].prefix \in {"", "+U", "+P"} /\ (w[i].digit => Announced(w, s, i))
    BY <1>4, <2>1 DEF EventShape
  <2>3. QED
    BY <2>1, <2>2 DEF Announced
<1>5. ASSUME NEW i, NEW j \in 1..Len(x), i = Len(w) + j, v[i] = x[j], v[i] \in EventLines
      PROVE  v[i].prefix \in {"", "+U", "+P"} /\ (v[i].digit => Announced(v, s, i))
  <2>1. /\ x[j].prefix \in {"", "+U", "+P"}
        /\ x[j].digit => j = 2 /\ x[1] \in EventLines /\ x[1].prefix = "+P"
    BY <1>5 DEF ShapeOfNew
  <2>2. ASSUME j = 2 PROVE i # 1 /\ v[i - 1] = x[1]
    <3>1. 1 \in 1..Len(x) /\ i # 1 /\ i - 1 = Len(w) + 1
      BY <1>3, <1>5, <2>2
    <3>2. QED
      BY <3>1 DEF Joined
  <2>3. QED
    BY <1>5, <2>1, <2>2 DEF Announced
<1>6. \A i \in 1..Len(v) : \/ i \in 1..Len(w) /\ v[i] = w[i]
                           \/ \E j \in 1..Len(x) : i = Len(w) + j /\ v[i] = x[j]
  BY LongerIndex
<1>7. QED
  BY <1>4, <1>5, <1>6 DEF EventShape

LEMMA LongerEnds ==
  ASSUME NEW v, NEW w, NEW x, Joined(v, w, x), FinalEnds(w),
         \/ /\ \A i \in 1..Len(w) : w[i] # FinalLine
            /\ Len(x) = 1 \/ \A i \in 1..Len(x) : x[i] # FinalLine
         \/ \A i \in 1..Len(x) : x[i] \in EventLines
  PROVE  FinalEnds(v)
<1> SUFFICES ASSUME NEW i \in 1..Len(v), NEW j \in 1..Len(v), i < j, v[i] = FinalLine
             PROVE  v[j] \in EventLines
  BY DEF FinalEnds
<1>0. \A n \in 1..Len(v) : \/ n \in 1..Len(w) /\ v[n] = w[n]
                           \/ \E k \in 1..Len(x) : n = Len(w) + k /\ v[n] = x[k]
  BY LongerIndex
<1>1. \/ i \in 1..Len(w) /\ v[i] = w[i]
      \/ \E k \in 1..Len(x) : i = Len(w) + k /\ v[i] = x[k]
  BY <1>0
<1>2. \/ j \in 1..Len(w) /\ v[j] = w[j]
      \/ \E k \in 1..Len(x) : j = Len(w) + k /\ v[j] = x[k]
  BY <1>0
<1>3. Len(w) \in Nat /\ Len(x) \in Nat
  BY DEF Joined
<1>4. CASE \A k \in 1..Len(x) : x[k] \in EventLines
  <2>1. FinalLine \notin EventLines
    BY LineKinds
  <2>2. i \in 1..Len(w) /\ w[i] = FinalLine
    BY <1>1, <1>4, <2>1
  <2>3. CASE j \in 1..Len(w)
    BY <1>2, <1>3, <2>2, <2>3 DEF FinalEnds, Joined
  <2>4. CASE j \notin 1..Len(w)
    BY <1>2, <1>4, <2>4
  <2>5. QED
    BY <2>3, <2>4
<1>5. CASE /\ \A k \in 1..Len(w) : w[k] # FinalLine
           /\ Len(x) = 1 \/ \A k \in 1..Len(x) : x[k] # FinalLine
  <2>1. PICK k \in 1..Len(x) : i = Len(w) + k /\ v[i] = x[k]
    BY <1>1, <1>5
  <2>2. Len(x) = 1
    BY <1>5, <2>1
  <2>3. i = Len(w) + 1 /\ Len(v) = Len(w) + 1
    BY <1>3, <2>1, <2>2 DEF Joined
  <2>4. QED
    BY <1>3, <2>3
<1>6. QED
  BY <1>4, <1>5

-----------------------------------------------------------------------------
(* The steps of the modem and of the one who submits requests *)

LEMMA SetSort ==
  ASSUME SortInv, SetRequest
  PROVE  SortInv'
<1>1. PICK r \in AtRequests :
        /\ atReq = NoReq /\ atReq' = r /\ (Unread => Separable(r, UnreadPdu, FALSE))
        /\ intended' = <<>> /\ atLines' = atLines /\ pduLines' = pduLines
        /\ events' = events /\ wire' = wire /\ sent' = sent
  BY DEF SetRequest
<1>2. /\ RespTypeOK /\ SentShape /\ PduShape /\ FinalEnds(wire) /\ EventShape(wire, pduLines)
      /\ Len(events) <= Len(sent) /\ EventsSorted
      /\ atLines \o Keep(wire, ResponseLines) = intended
      /\ atLines = <<>> /\ intended = <<>> /\ \A i \in 1..Len(wire) : wire[i] \in EventLines
  BY <1>1 DEF SortInv, NothingLeft
<1>3. r.type \in AtTypes
  BY AtRequestsAssumption
<1>4. ASSUME NEW i \in 1..Len(wire) PROVE Told(r, wire[i].digit, atLines # <<>> \/ Before(wire, i))
  <2>1. wire # <<>>
    BY EmptySeq
  <2>2. Separable(r, UnreadPdu, FALSE)
    BY <1>1, <2>1 DEF Unread
  <2>3. ~Before(wire, i)
    <3>1. \A j \in 1..i : wire[j] \in EventLines
      BY <1>2, LenProperties DEF RespTypeOK
    <3>2. QED
      BY <3>1, LineKinds DEF Before
  <2>4. ASSUME ~UnreadPdu PROVE ~wire[i].digit
    <3>1. wire[i].digit => Announced(wire, pduLines, i)
      BY <1>2 DEF EventShape
    <3>2. DOMAIN wire = 1..Len(wire)
      BY <1>2, LenProperties DEF RespTypeOK
    <3>3. pduLines = <<>> /\ \A j \in 1..Len(wire) : wire[j].prefix # "+P"
      BY <2>4, <3>2 DEF UnreadPdu
    <3>4. i # 1 => i - 1 \in 1..Len(wire)
      <4>1. Len(wire) \in Nat
        BY <1>2, LenProperties DEF RespTypeOK
      <4>2. QED
        BY <4>1
    <3>5. QED
      BY <3>1, <3>3, <3>4 DEF Announced
  <2>5. CASE r.type = "NUMERIC"
    BY <2>2, <2>4, <2>5 DEF Told, Separable
  <2>6. CASE r.type = "PDU"
    BY <1>2, <2>2, <2>3, <2>6 DEF Told, Separable
  <2>7. CASE r.type \in {"SINGLELINE", "MULTILINE"}
    BY <2>2, <2>7 DEF Told, Separable
  <2>8. CASE r.type = "NO_RESULT"
    BY <2>8 DEF Told
  <2>9. QED
    BY <1>3, <2>5, <2>6, <2>7, <2>8 DEF AtTypes
<1>5. EventsTold(wire, r, atLines)
  BY <1>4 DEF EventsTold
<1>6. RespTypeOK'
  BY <1>1, <1>2 DEF RespTypeOK
<1>7. NothingLeft'
  BY <1>1, <1>2 DEF NothingLeft
<1>8. ResponseShape'
  BY <1>1, EmptySeq DEF ResponseShape
<1>9. SentShape' /\ PduShape'
  BY <1>1, <1>2 DEF SentShape, PduShape
<1>10. EventsSorted'
  BY <1>1, <1>2 DEF EventsSorted
<1>11. QED
  BY <1>1, <1>2, <1>5, <1>6, <1>7, <1>8, <1>9, <1>10 DEF SortInv

\* The final response is one line.
LEMMA NotEnded ==
  ASSUME RespTypeOK, ~Ended
  PROVE  \A i \in 1..Len(wire) : wire[i] # FinalLine
<1>1. DOMAIN wire = 1..Len(wire)
  BY LenProperties DEF RespTypeOK
<1>2. QED
  BY <1>1, LineKinds DEF Ended

\* Lines that come for the request that is out.
LEMMA MoreResponse ==
  ASSUME SortInv, atReq # NoReq, ~Ended, UNCHANGED <<atReq, atLines, pduLines, events, sent>>,
         NEW x \in Seq(Lines), NEW y \in Seq(ResponseLines),
         wire' = wire \o x, intended' = intended \o y,
         Len(x) = 1 \/ \A i \in 1..Len(x) : x[i] # FinalLine,
         \A i \in 1..Len(x) : x[i] \notin EventLines,
         Keep(wire \o x, ResponseLines) = Keep(wire, ResponseLines) \o y,
         ResponseShape'
  PROVE  SortInv'
<1>1. /\ RespTypeOK /\ SentShape /\ PduShape /\ FinalEnds(wire)
      /\ EventsTold(wire, atReq, atLines) /\ EventShape(wire, pduLines)
      /\ Len(events) <= Len(sent) /\ EventsSorted
      /\ Cat(atLines, Keep(wire, ResponseLines)) = intended
  BY DEF SortInv, Cat
<1>2. /\ wire \in Seq(Lines) /\ Joined(wire', wire, x) /\ wire' \in Seq(Lines)
      /\ intended' \in Seq(ResponseLines)
      /\ atLines \in Seq(Lines) /\ y \in Seq(Lines)
  <2>1. wire \in Seq(Lines) /\ intended \in Seq(ResponseLines)
    BY <1>1 DEF RespTypeOK
  <2>2. Joined(Cat(wire, x), wire, x) /\ Cat(wire, x) \in Seq(Lines)
    BY <2>1, CatJoined, CatProperties
  <2>3. Cat(intended, y) \in Seq(ResponseLines)
    BY <2>1, CatProperties
  <2>4. \A s \in Seq(ResponseLines) : s \in Seq(Lines)
    BY LineKinds, SeqMonotonic
  <2>5. QED
    BY <1>1, <2>1, <2>2, <2>3, <2>4 DEF Cat, RespTypeOK
<1>3. FinalEnds(wire')
  BY <1>1, <1>2, NotEnded, LongerEnds
<1>4. EventsTold(wire', atReq, atLines)
  BY <1>1, <1>2, LongerTold
<1>5. EventShape(wire', pduLines)
  BY <1>1, <1>2, LongerShape DEF ShapeOfNew
<1>6. Keep(wire', EventLines) = Keep(wire, EventLines)
  BY <1>2, KeepMore
<1>7. atLines \o Keep(wire', ResponseLines) = intended'
  <2>1. PICK k \in Seq(Lines) : k = Keep(wire, ResponseLines)
    BY <1>2, KeepType
  <2>2. Cat(atLines, Cat(k, y)) = Cat(Cat(atLines, k), y)
    BY <1>2, CatAssociative
  <2>3. Cat(atLines, Cat(k, y)) = Cat(intended, y)
    BY <1>1, <2>1, <2>2
  <2>4. QED
    BY <2>1, <2>3 DEF Cat
<1>8. RespTypeOK'
  BY <1>1, <1>2 DEF RespTypeOK
<1>9. NothingLeft' /\ SentShape' /\ PduShape'
  <2>1. NothingLeft'
    BY DEF NothingLeft
  <2>2. SentShape' /\ PduShape'
    BY <1>1 DEF SentShape, PduShape
  <2>3. QED
    BY <2>1, <2>2
<1>10. EventsSorted'
  BY <1>1, <1>6 DEF EventsSorted
<1>11. QED
  BY <1>1, <1>3, <1>4, <1>5, <1>7, <1>8, <1>9, <1>10 DEF SortInv

LEMMA FinalSort ==
  ASSUME SortInv, SendFinal
  PROVE  SortInv'
<1>1. /\ atReq # NoReq /\ ~Ended /\ wire' = Append(wire, FinalLine)
      /\ UNCHANGED <<atReq, atLines, pduLines, events, sent>> /\ intended' = intended
  BY DEF SendFinal
<1>2. RespTypeOK /\ ResponseShape
  BY DEF SortInv
<1>3. PICK x \in Seq(Lines) : x = <<FinalLine>> /\ Len(x) = 1 /\ x[1] = FinalLine
  <2>1. <<FinalLine>> \in Seq(Lines)
    BY LineKinds
  <2>2. QED
    BY <2>1
<1>4. wire \in Seq(Lines) /\ wire' = wire \o x
  BY <1>1, <1>2, <1>3, AppendIsConcat DEF RespTypeOK
<1>5. PICK y \in Seq(ResponseLines) : y = <<>>
  BY EmptySeq
<1>6. intended' = intended \o y
  BY <1>1, <1>2, <1>5, ConcatEmptySeq DEF RespTypeOK
<1>7. \A i \in 1..Len(x) : x[i] \notin EventLines /\ x[i] \notin ResponseLines
  BY <1>3, LineKinds
<1>8. Keep(wire \o x, ResponseLines) = Keep(wire, ResponseLines) \o y
  <2>1. Keep(wire \o x, ResponseLines) = Keep(wire, ResponseLines)
    BY <1>4, <1>7, KeepMore
  <2>2. Keep(wire, ResponseLines) \in Seq(Lines)
    BY <1>4, KeepType
  <2>3. QED
    BY <1>5, <2>1, <2>2, ConcatEmptySeq
<1>9. ResponseShape'
  BY <1>1, <1>2 DEF ResponseShape
<1>10. QED
  BY <1>1, <1>3, <1>4, <1>6, <1>7, <1>8, <1>9, MoreResponse

LEMMA ItemSort ==
  ASSUME SortInv, SendItem
  PROVE  SortInv'
<1>1. RespTypeOK /\ ResponseShape
  BY DEF SortInv
<1>2. /\ atReq # NoReq /\ ~Ended /\ Len(intended) < Room(atReq.type)
      /\ UNCHANGED <<atReq, atLines, pduLines, events, sent>>
  BY DEF SendItem
<1>3. atReq.type \in AtTypes /\ atReq.prefix \in LinePrefixes /\ "" \in LinePrefixes
  BY <1>1, <1>2, RequestType DEF LinePrefixes
<1> DEFINE one == Text(atReq.prefix, FALSE, 0)
           number == Text("", TRUE, 0)
<1>4. /\ one \in ResponseLines /\ number \in ResponseLines
      /\ one.prefix = atReq.prefix /\ number.digit
  BY <1>3, LineKinds
<1> HIDE DEF one, number
<1>5. PICK x \in Seq(ResponseLines) :
        /\ wire' = wire \o x /\ intended' = intended \o x
        /\ atReq.type = "NUMERIC" => Len(x) = 1 /\ x[1].digit
        /\ atReq.type # "NUMERIC" => x[1].prefix = atReq.prefix
        /\ atReq.type \notin {"NUMERIC", "PDU"} => Len(x) = 1
  <2>1. CASE atReq.type = "NUMERIC"
    <3>1. <<number>> \in Seq(ResponseLines) /\ Len(<<number>>) = 1 /\ <<number>>[1] = number
      BY <1>4
    <3>2. wire' = wire \o <<number>> /\ intended' = intended \o <<number>>
      BY <2>1 DEF SendItem, number
    <3>3. PICK x \in Seq(ResponseLines) : x = <<number>>
      BY <3>1, Zenon
    <3>4. QED
      BY <1>4, <2>1, <3>1, <3>2, <3>3, Zenon
  <2>2. CASE atReq.type = "PDU"
    <3>1. <<one, number>> \in Seq(ResponseLines) /\ <<one, number>>[1] = one
      BY <1>4
    <3>2. wire' = wire \o <<one, number>> /\ intended' = intended \o <<one, number>>
      BY <2>2 DEF SendItem, number, one
    <3>3. PICK x \in Seq(ResponseLines) : x = <<one, number>>
      BY <3>1, Zenon
    <3>4. x[1].prefix = atReq.prefix
      BY <1>4, <3>1, <3>3, Zenon
    <3>5. "PDU" # "NUMERIC"
      OBVIOUS
    <3>6. QED
      BY <2>2, <3>2, <3>3, <3>4, <3>5
  <2>3. CASE atReq.type \notin {"NUMERIC", "PDU"}
    <3>1. <<one>> \in Seq(ResponseLines) /\ Len(<<one>>) = 1 /\ <<one>>[1] = one
      BY <1>4
    <3>2. wire' = wire \o <<one>> /\ intended' = intended \o <<one>>
      BY <2>3 DEF SendItem, one
    <3>3. PICK x \in Seq(ResponseLines) : x = <<one>>
      BY <3>1, Zenon
    <3>4. x[1].prefix = atReq.prefix /\ Len(x) = 1
      BY <1>4, <3>1, <3>3, Zenon
    <3>5. atReq.type # "NUMERIC"
      BY <2>3
    <3>6. QED
      BY <2>3, <3>2, <3>3, <3>4, <3>5
  <2>4. QED
    BY <2>1, <2>2, <2>3
<1>6. x \in Seq(Lines) /\ wire \in Seq(Lines) /\ intended \in Seq(ResponseLines)
  BY <1>1, LineKinds, SeqMonotonic DEF RespTypeOK
<1>7. \A i \in 1..Len(x) : x[i] \in ResponseLines
  BY ElementOfSeq
<1>8. \A i \in 1..Len(x) : x[i] \notin EventLines /\ x[i] # FinalLine
  BY <1>7, LineKinds
<1>9. Keep(wire \o x, ResponseLines) = Keep(wire, ResponseLines) \o x
  BY <1>6, <1>7, KeepMore
<1>10. ResponseShape'
  <2>1. Joined(intended', intended, x)
    BY <1>5, <1>6, CatJoined DEF Cat
  <2>2. ASSUME NEW i \in 1..Len(intended')
        PROVE  Fits(atReq, i, intended'[i])
    <3>1. \/ i \in 1..Len(intended) /\ intended'[i] = intended[i]
          \/ \E j \in 1..Len(x) : i = Len(intended) + j /\ intended'[i] = x[j]
      BY <2>1, LongerIndex
    <3>2. CASE i \in 1..Len(intended) /\ intended'[i] = intended[i]
      BY <1>1, <3>2 DEF ResponseShape
    <3>3. ASSUME NEW j \in 1..Len(x), i = Len(intended) + j, intended'[i] = x[j]
          PROVE  Fits(atReq, i, intended'[i])
      <4>1. Len(intended) \in Nat /\ Len(x) \in Nat
        BY <2>1 DEF Joined
      <4>2. atReq.type \in {"NUMERIC", "SINGLELINE"} => Len(intended) = 0 /\ Len(x) = 1
        BY <1>2, <1>5, <4>1 DEF Room
      <4>3. atReq.type # "NO_RESULT"
        BY <1>2, <4>1 DEF Room
      <4>4. i = 1 => j = 1
        BY <3>3, <4>1
      <4>5. Len(x) = 1 => j = 1
        OBVIOUS
      <4>6. Len(intended) = 0 /\ j = 1 => i = 1
        BY <3>3
      <4>7. CASE atReq.type = "NUMERIC"
        BY <1>5, <3>3, <4>2, <4>5, <4>6, <4>7 DEF Fits
      <4>8. CASE atReq.type = "SINGLELINE"
        BY <1>5, <3>3, <4>2, <4>5, <4>6, <4>8 DEF Fits
      <4>9. CASE atReq.type = "MULTILINE"
        BY <1>5, <3>3, <4>5, <4>9 DEF Fits
      <4>10. CASE atReq.type = "PDU"
        BY <1>5, <3>3, <4>4, <4>10 DEF Fits
      <4>11. QED
        BY <1>3, <4>3, <4>7, <4>8, <4>9, <4>10 DEF AtTypes
    <3>4. QED
      BY <3>1, <3>2, <3>3
  <2>3. QED
    BY <1>2, <2>2 DEF ResponseShape
<1>11. QED
  BY <1>2, <1>5, <1>6, <1>8, <1>9, <1>10, MoreResponse

\* The lines of an event are not lines of the response that is out.
LEMMA NewTold ==
  ASSUME SortInv, NEW x \in Seq(EventLines), NEW pdu \in BOOLEAN,
         Joined(wire', wire, x),
         Ended \/ Separable(atReq, pdu, intended # <<>>),
         \A i \in 1..Len(x) : x[i].digit => pdu
  PROVE  EventsTold(wire', atReq, atLines)
<1>1. /\ RespTypeOK /\ EventsTold(wire, atReq, atLines)
      /\ atLines \o Keep(wire, ResponseLines) = intended
  BY DEF SortInv
<1>2. /\ wire \in Seq(Lines) /\ atLines \in Seq(ResponseLines) /\ Len(wire) \in Nat
      /\ Len(x) \in Nat /\ DOMAIN wire = 1..Len(wire)
      /\ \A i \in 1..Len(x) : x[i] \in EventLines
  BY <1>1, LenProperties, ElementOfSeq DEF RespTypeOK
<1>3. ASSUME NEW i \in 1..Len(x)
      PROVE  /\ \A j \in 1..Len(wire) : j \in 1..(Len(wire) + i) /\ wire'[j] = wire[j]
             /\ \A j \in 1..(Len(wire) + i) : \/ j \in 1..Len(wire)
                                              \/ wire'[j] \in EventLines
  <2>1. \A j \in 1..Len(wire) : j \in 1..(Len(wire) + i)
    BY <1>2
  <2>2. \A j \in 1..(Len(wire) + i) : j \in 1..Len(wire) \/ j - Len(wire) \in 1..Len(x)
    BY <1>2
  <2>3. \A j \in 1..(Len(wire) + i) : Len(wire) + (j - Len(wire)) = j
    BY <1>2
  <2>4. QED
    BY <1>2, <2>1, <2>2, <2>3 DEF Joined
\* When a line was sent for the request, it is in the response or it waits.
<1>4. \/ intended = <<>> /\ atLines = <<>> /\ \A j \in 1..Len(wire) : wire[j] \notin ResponseLines
      \/ intended # <<>> /\ (atLines # <<>> \/ \E j \in 1..Len(wire) : wire[j] \in ResponseLines)
  <2>1. PICK k \in Seq(Lines) : k = Keep(wire, ResponseLines)
    BY <1>2, KeepType
  <2>2. k = <<>> <=> \A j \in 1..Len(wire) : wire[j] \notin ResponseLines
    BY <1>2, <2>1, KeepNone, KeepSome
  <2>3. atLines \in Seq(Lines)
    BY <1>2, LineKinds, SeqMonotonic
  <2>4. intended = <<>> <=> atLines = <<>> /\ k = <<>>
    <3>1. /\ Len(intended) = Len(atLines) + Len(k) /\ Len(atLines) \in Nat /\ Len(k) \in Nat
      BY <1>1, <2>1, <2>3, ConcatProperties, LenProperties
    <3>2. Len(intended) = 0 <=> Len(atLines) = 0 /\ Len(k) = 0
      BY <3>1
    <3>3. intended \in Seq(ResponseLines)
      BY <1>1 DEF RespTypeOK
    <3>4. QED
      BY <1>2, <2>1, <3>2, <3>3, EmptySeq
  <2>5. QED
    BY <2>2, <2>4
<1>5. ASSUME NEW i \in 1..Len(x), ~Final(wire', Len(wire) + i)
      PROVE  Told(atReq, x[i].digit, atLines # <<>> \/ Before(wire', Len(wire) + i))
  <2>1. ~Ended
    <3>1. \A j \in 1..Len(wire) : wire[j] # FinalLine
      BY <1>3, <1>5 DEF Final
    <3>2. \A j \in 1..Len(wire) : wire[j] \in Lines
      BY <1>2, ElementOfSeq
    <3>3. QED
      BY <1>2, <3>1, <3>2, LineKinds DEF Ended, Lines
  <2>2. Separable(atReq, pdu, intended # <<>>)
    BY <2>1
  <2>3. intended # <<>> <=> atLines # <<>> \/ Before(wire', Len(wire) + i)
    <3>1. ASSUME Before(wire', Len(wire) + i)
          PROVE  \E j \in 1..Len(wire) : wire[j] \in ResponseLines
      <4>1. PICK j \in 1..(Len(wire) + i) : wire'[j] \in ResponseLines
        BY <3>1, Zenon DEF Before
      <4>2. j \in 1..Len(wire)
        BY <1>3, <4>1, LineKinds, Zenon
      <4>3. QED
        BY <1>3, <4>1, <4>2, Zenon
    <3>2. ASSUME NEW j \in 1..Len(wire), wire[j] \in ResponseLines
          PROVE  Before(wire', Len(wire) + i)
      BY <1>3, <3>2, Zenon DEF Before
    <3>3. QED
      BY <1>4, <3>1, <3>2
  <2>4. x[i].digit => pdu
    OBVIOUS
  <2>5. CASE atReq.type \in {"NUMERIC", "PDU"}
    BY <2>2, <2>3, <2>4, <2>5 DEF Told, Separable
  <2>6. CASE atReq.type \in {"SINGLELINE", "MULTILINE"}
    BY <2>2, <2>6 DEF Told, Separable
  <2>7. CASE atReq.type \notin {"NUMERIC", "PDU", "SINGLELINE", "MULTILINE"}
    BY <2>7 DEF Told
  <2>8. QED
    BY <2>5, <2>6, <2>7
<1>6. QED
  BY <1>1, <1>5, LongerTold

\* The lines of one more event wait.
LEMMA EventSort ==
  ASSUME SortInv, SendEvent
  PROVE  SortInv'
<1> DEFINE n == Len(sent) + 1
           k == Len(events)
<1>1. /\ RespTypeOK /\ NothingLeft /\ ResponseShape /\ SentShape /\ PduShape /\ FinalEnds(wire)
      /\ EventShape(wire, pduLines) /\ k <= Len(sent)
      /\ atLines \o Keep(wire, ResponseLines) = intended
      /\ events = SubSeq(sent, 1, k)
      /\ Cat(pduLines, Keep(wire, EventLines)) = FlattenSeq(SubSeq(sent, k + 1, Len(sent)))
  BY DEF SortInv, EventsSorted, Cat
<1>2. /\ sent \in Seq(Seq(EventLines)) /\ Len(sent) \in Nat /\ n \in Nat \ {0} /\ k \in Nat
      /\ wire \in Seq(Lines) /\ pduLines \in Seq(Lines)
  <2>1. sent \in Seq(Seq(EventLines)) /\ events \in Seq(Seq(EventLines))
    BY <1>1 DEF RespTypeOK
  <2>2. Len(sent) \in Nat /\ k \in Nat
    BY <2>1, LenProperties
  <2>3. Len(sent) + 1 \in Nat \ {0}
    BY <2>2
  <2>4. \A s \in Seq(EventLines) : s \in Seq(Lines)
    BY LineKinds, SeqMonotonic
  <2>5. QED
    BY <1>1, <2>1, <2>2, <2>3, <2>4 DEF RespTypeOK
<1> DEFINE a == Text("+U", FALSE, n)
           b == Text("+P", FALSE, n)
           d == Text("", TRUE, n)
<1>3. /\ a \in EventLines /\ a.prefix = "+U" /\ ~a.digit
      /\ b \in EventLines /\ b.prefix = "+P" /\ ~b.digit
      /\ d \in EventLines /\ d.prefix = "" /\ d.digit
  BY <1>2, LineKinds DEF LinePrefixes
<1> HIDE DEF a, b, d
<1>4. PICK pdu \in BOOLEAN, e \in Seq(EventLines) :
        /\ e = IF pdu THEN <<b, d>> ELSE <<a>>
        /\ Ended \/ Separable(atReq, pdu, intended # <<>>)
        /\ wire' = wire \o e /\ sent' = Append(sent, e)
        /\ UNCHANGED <<atReq, atLines, pduLines, events, intended>>
  <2>1. <<b, d>> \in Seq(EventLines) /\ <<a>> \in Seq(EventLines)
    <3>1. a \in EventLines /\ b \in EventLines /\ d \in EventLines
      BY <1>3
    <3>2. QED
      BY <3>1
  <2>2. PICK pdu \in BOOLEAN :
        /\ Ended \/ Separable(atReq, pdu, intended # <<>>)
        /\ wire' = wire \o (IF pdu THEN <<b, d>> ELSE <<a>>)
        /\ sent' = Append(sent, IF pdu THEN <<b, d>> ELSE <<a>>)
        /\ UNCHANGED <<atReq, atLines, pduLines, events, intended>>
    BY DEF SendEvent, a, b, d
  <2>3. QED
    BY <2>1, <2>2, Zenon
<1>5. /\ pdu => Len(e) = 2 /\ e[1] = b /\ e[2] = d
      /\ ~pdu => Len(e) = 1 /\ e[1] = a
  <2>1. CASE pdu
    BY <1>4, <2>1
  <2>2. CASE ~pdu
    BY <1>4, <2>2
  <2>3. QED
    BY <2>1, <2>2
<1>6. /\ e \in Seq(Lines) /\ Joined(wire', wire, e) /\ wire' \in Seq(Lines)
      /\ \A i \in 1..Len(e) : e[i] \in EventLines /\ e[i] \notin ResponseLines
  <2>1. e \in Seq(Lines)
    BY LineKinds, SeqMonotonic
  <2>2. Joined(Cat(wire, e), wire, e) /\ Cat(wire, e) \in Seq(Lines)
    BY <1>2, <2>1, CatJoined, CatProperties
  <2>3. \A i \in 1..Len(e) : e[i] \in EventLines
    BY ElementOfSeq
  <2>4. QED
    BY <1>4, <2>1, <2>2, <2>3, LineKinds DEF Cat
<1>7. FinalEnds(wire')
  BY <1>1, <1>6, LongerEnds
<1>8. /\ \A i \in 1..Len(e) : e[i].digit => pdu
      /\ ShapeOfNew(e)
  <2>1. CASE pdu
    <3>0. \A i \in 1..2 : i = 1 \/ i = 2
      OBVIOUS
    <3>1. \A i \in 1..Len(e) : i = 1 \/ i = 2
      BY <1>5, <2>1, <3>0, Zenon
    <3>2. QED
      BY <1>3, <1>5, <2>1, <3>1 DEF ShapeOfNew
  <2>2. CASE ~pdu
    <3>0. \A i \in 1..1 : i = 1
      OBVIOUS
    <3>1. \A i \in 1..Len(e) : i = 1
      BY <1>5, <2>2, <3>0, Zenon
    <3>2. QED
      BY <1>3, <1>5, <2>2, <3>1 DEF ShapeOfNew
  <2>3. QED
    BY <2>1, <2>2
<1>9. EventsTold(wire', atReq, atLines)
  BY <1>4, <1>6, <1>8, NewTold
<1>10. EventShape(wire', pduLines)
  BY <1>1, <1>6, <1>8, LongerShape
<1>11. /\ Keep(wire', ResponseLines) = Keep(wire, ResponseLines)
       /\ Keep(wire', EventLines) = Keep(wire, EventLines) \o e
  <2>1. /\ Keep(wire \o e, ResponseLines) = Keep(wire, ResponseLines)
        /\ Keep(wire \o e, EventLines) = Keep(wire, EventLines) \o e
    BY <1>2, <1>6, KeepMore
  <2>2. QED
    BY <1>4, <2>1
<1> DEFINE s == SubSeq(sent, k + 1, Len(sent))
           z == SubSeq(sent', k + 1, Len(sent'))
<1>12. /\ sent' \in Seq(Seq(EventLines)) /\ Len(sent') = n
       /\ s \in Seq(Seq(EventLines))
       /\ SubSeq(sent', 1, k) = SubSeq(sent, 1, k)
       /\ z = Append(s, e)
  <2>1. /\ Append(sent, e) \in Seq(Seq(EventLines)) /\ Len(Append(sent, e)) = Len(sent) + 1
        /\ s \in Seq(Seq(EventLines))
        /\ SubSeq(Append(sent, e), 1, k) = SubSeq(sent, 1, k)
        /\ SubSeq(Append(sent, e), k + 1, Len(sent) + 1) = Append(s, e)
    <3> DEFINE E == Seq(EventLines)
    <3>1. sent \in Seq(E) /\ e \in E /\ k \in Nat /\ k <= Len(sent)
      BY <1>1, <1>2
    <3> HIDE DEF E, k, s, n, z
    <3>2. PICK i, m : i = k + 1 /\ m = Len(sent) + 1
      OBVIOUS
    <3>3. /\ Append(sent, e) \in Seq(E) /\ Len(Append(sent, e)) = m
          /\ SubSeq(sent, i, Len(sent)) \in Seq(E)
          /\ SubSeq(Append(sent, e), 1, k) = SubSeq(sent, 1, k)
          /\ Grown(SubSeq(Append(sent, e), i, m), SubSeq(sent, i, Len(sent)), e)
      BY <3>1, <3>2, Growth
    <3>4. QED
      BY <3>2, <3>3 DEF E, s, Grown
  <2>2. sent' = Append(sent, e)
    BY <1>4
  <2> HIDE DEF s, k
  <2>3. QED
    BY <2>1, <2>2
<1>13. pduLines \o Keep(wire', EventLines) = FlattenSeq(z)
  <2>1. PICK m \in Seq(Lines) : m = Keep(wire, EventLines)
    BY <1>2, KeepType
  <2>2. Cat(pduLines, Cat(m, e)) = Cat(Cat(pduLines, m), e)
    BY <1>2, <1>6, CatAssociative
  <2>3. FlattenSeq(Append(s, e)) = Cat(FlattenSeq(s), e)
    <3> HIDE DEF s
    <3>1. QED
      BY <1>12, FlatAppend DEF Cat
  <2>4. Cat(pduLines, m) = FlattenSeq(s)
    BY <1>1, <2>1
  <2>5. Cat(pduLines, Cat(m, e)) = FlattenSeq(z)
    BY <1>12, <2>2, <2>3, <2>4
  <2> HIDE DEF z
  <2>6. QED
    BY <1>11, <2>1, <2>5 DEF Cat
<1>14. EventsSorted' /\ Len(events') <= Len(sent')
  <2>1. k <= Len(sent')
    BY <1>1, <1>2, <1>12
  <2>2. QED
    BY <1>1, <1>4, <1>12, <1>13, <2>1 DEF EventsSorted
<1>15. RespTypeOK'
  BY <1>1, <1>4, <1>6, <1>12 DEF RespTypeOK
<1>16. NothingLeft'
  <2>1. ASSUME atReq = NoReq, NEW i \in 1..Len(wire') PROVE wire'[i] \in EventLines
    <3>1. \A j \in 1..Len(wire) : wire[j] \in EventLines
      BY <1>1, <2>1 DEF NothingLeft
    <3>2. \/ i \in 1..Len(wire) /\ wire'[i] = wire[i]
          \/ \E j \in 1..Len(e) : i = Len(wire) + j /\ wire'[i] = e[j]
      BY <1>6, LongerIndex
    <3>3. QED
      BY <1>6, <3>1, <3>2
  <2>2. QED
    BY <1>1, <1>4, <2>1 DEF NothingLeft
<1>17. ResponseShape' /\ PduShape'
  <2>1. ResponseShape'
    BY <1>1, <1>4 DEF ResponseShape
  <2>2. PduShape'
    BY <1>1, <1>4 DEF PduShape
  <2>3. QED
    BY <2>1, <2>2
<1>18. SentShape'
  <2>1. e = <<Text("+U", FALSE, n)>> \/ e = <<Text("+P", FALSE, n), Text("", TRUE, n)>>
    BY <1>4 DEF a, b, d
  <2>2. /\ sent'[n] = e /\ \A i \in 1..Len(sent) : sent'[i] = sent[i]
    BY <1>2, <1>4, AppendProperties
  <2>3. \A i \in 1..Len(sent') : i \in 1..Len(sent) \/ i = n
    BY <1>2, <1>12
  <2> HIDE DEF n
  <2>4. QED
    BY <1>1, <2>1, <2>2, <2>3 DEF SentShape
<1>19. QED
  BY <1>1, <1>4, <1>7, <1>9, <1>10, <1>11, <1>14, <1>15, <1>16, <1>17, <1>18 DEF SortInv

-----------------------------------------------------------------------------
(* The theorems *)

LEMMA StepSort ==
  ASSUME SortInv, [RespNext]_respVars
  PROVE  SortInv'
<1>1. CASE UNCHANGED respVars
  BY <1>1 DEF respVars, SortInv, RespTypeOK, NothingLeft, ResponseShape, SentShape, PduShape,
              EventsSorted
<1>2. QED
  BY <1>1, ReadSort, SetSort, ItemSort, FinalSort, EventSort DEF RespNext

\* Everything that the proofs know of the sorting of lines stays true.
THEOREM SortInvHolds == RespSpec => []SortInv
  BY InitSort, StepSort, PTL DEF RespSpec

\* Whatever the requests and however many lines come: a response is the lines
\* that the modem sent for it, no more, in their order (tcore_at_process).
THEOREM ResponseSortedHolds == RespSpec => []ResponseSorted
<1>1. SortInv => ResponseSorted
  BY DEF SortInv, ResponseSorted
<1>2. QED
  BY <1>1, SortInvHolds, PTL

\* And the events that were handed over are those that the modem sent, in
\* their order, whole: none is lost in a response, none is taken apart.
THEOREM EventsSortedHolds == RespSpec => []EventsSorted
<1>1. SortInv => EventsSorted
  BY DEF SortInv
<1>2. QED
  BY <1>1, SortInvHolds, PTL

=============================================================================
