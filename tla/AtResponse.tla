----------------------------- MODULE AtResponse -----------------------------
(***************************************************************************)
(* The sorting of the lines that an AT channel reads (src/at.c,            *)
(* tcore_at_process): a line belongs to the response of the request that   *)
(* is out, or is unsolicited.  The code decides by the type of the         *)
(* request, its prefix and the lines it has; a notification whose second   *)
(* line is a PDU takes the next line that is not part of a response.       *)
(*                                                                         *)
(* A line is what these decisions look at: its prefix ("" for none),       *)
(* whether it begins with a digit, whether it is a final response; and     *)
(* what the modem meant by it, which no decision looks at.                 *)
(* Names are prefixed because a run puts this module beside another.       *)
(***************************************************************************)
EXTENDS Naturals, Sequences, SequencesExt, Filters

CONSTANTS
  AtRequests,  \* the requests, as records [type, prefix]
  MaxLines,    \* bound: lines, or pairs of lines, of one response
  MaxEvents    \* bound: unsolicited events

AtTypes == {"NO_RESULT", "NUMERIC", "SINGLELINE", "MULTILINE", "PDU"}

ASSUME AtRequestsAssumption ==
  /\ \A r \in AtRequests : r.type \in AtTypes
  /\ MaxLines \in Nat /\ MaxEvents \in Nat

VARIABLES
  atReq,     \* at->req, or NoReq
  atLines,   \* at->resp->lines (<<>> when there is no response)
  pduLines,  \* at->pdu_lines: the first line of a PDU event, or <<>>
  events,    \* history: the events that were handed to their callbacks
  wire,      \* external: lines of the modem that were not read yet
  intended,  \* external: the lines that the modem sent for the request so far
  sent       \* external: the events that the modem has sent

respVars == <<atReq, atLines, pduLines, events, wire, intended, sent>>

NoReq == [type |-> "none", prefix |-> ""]

\* A line; of is the number of the event that it belongs to, or 0.
Text(prefix, digit, of) == [prefix |-> prefix, digit |-> digit, final |-> FALSE, of |-> of]
FinalLine == [prefix |-> "", digit |-> FALSE, final |-> TRUE, of |-> 0]

LinePrefixes == {"", "+U", "+P"} \cup {r.prefix : r \in AtRequests}
ResponseLines == [prefix : LinePrefixes, digit : BOOLEAN, final : {FALSE}, of : {0}]
EventLines == [prefix : LinePrefixes, digit : BOOLEAN, final : {FALSE}, of : Nat \ {0}]

RespInit ==
  /\ atReq = NoReq /\ atLines = <<>> /\ pduLines = <<>>
  /\ events = <<>>
  /\ wire = <<>> /\ intended = <<>> /\ sent = <<>>

-----------------------------------------------------------------------------
(* The code *)

HasPrefix(l) == atReq.prefix = "" \/ l.prefix = atReq.prefix

\* Mutant: a PDU response takes only lines with the prefix.
BelongsByPrefix(l) ==
  IF atReq.type = "NUMERIC" THEN atLines = <<>> /\ l.digit
  ELSE atReq.type \in {"SINGLELINE", "MULTILINE", "PDU"} /\ HasPrefix(l)

\* The switch of tcore_at_process: is the line part of the response?
Belongs(l) ==
  CASE atReq.type = "NUMERIC"    -> atLines = <<>> /\ l.digit
    [] atReq.type = "SINGLELINE" -> atLines = <<>> /\ HasPrefix(l)
    [] atReq.type = "MULTILINE"  -> HasPrefix(l)
    [] atReq.type = "PDU"        -> HasPrefix(l) \/ atLines # <<>>
    [] OTHER                     -> FALSE

\* Mutant: an ordinary event is recognised between the lines of a PDU event.
EmitByPrefix(l) ==
  CASE l.prefix = "+P" -> pduLines' = <<l>> /\ UNCHANGED events
    [] l.prefix = "+U" -> events' = Append(events, <<l>>) /\ UNCHANGED pduLines
    [] OTHER -> UNCHANGED <<events, pduLines>>

\* _emit_unsolicited_message: "+U" is registered as a line, "+P" as a PDU.
EmitUnsolicited(l) ==
  IF pduLines # <<>>
  THEN events' = Append(events, Append(pduLines, l)) /\ pduLines' = <<>>
  ELSE CASE l.prefix = "+P" -> pduLines' = <<l>> /\ UNCHANGED events
         [] l.prefix = "+U" -> events' = Append(events, <<l>>) /\ UNCHANGED pduLines
         [] OTHER -> UNCHANGED <<events, pduLines>>

\* _emit_pending_response: the response is handed over and freed.
Finish ==
  /\ atReq' = NoReq /\ intended' = <<>>
  /\ atLines' = <<>>

\* One turn of the loop of tcore_at_process.
ReadLine ==
  LET l == Head(wire) IN
  /\ wire # <<>>
  /\ wire' = Tail(wire)
  /\ IF atReq # NoReq /\ l.final
     THEN Finish /\ UNCHANGED <<pduLines, events>>
     ELSE /\ IF Belongs(l)
             THEN atLines' = Append(atLines, l) /\ UNCHANGED <<pduLines, events>>
             ELSE EmitUnsolicited(l) /\ UNCHANGED atLines
          /\ UNCHANGED <<atReq, intended>>
  /\ UNCHANGED sent

-----------------------------------------------------------------------------
(* The modem, and the one who submits requests (one at a time, see           *)
(* HalRequest).  The lines of one event, and those of one item of a response *)
(* with PDUs, are sent without others in between.                            *)

\* Where the switch can tell an event from the lines of a response r: not when
\* no prefix marks them, or that of an event does, nor, for a number, the PDU of
\* an event, nor what comes between the items of a response with PDUs.
Marked(r) == r.prefix \notin {"", "+U", "+P"}
Separable(r, pdu, begun) ==
  CASE r.type \in {"none", "NO_RESULT"} -> TRUE
    [] r.type = "NUMERIC" -> ~pdu \/ begun
    [] r.type = "PDU" -> Marked(r) /\ ~begun
    [] OTHER -> Marked(r)

UnreadPdu == pduLines # <<>> \/ \E i \in DOMAIN wire : wire[i].prefix = "+P"
Unread == pduLines # <<>> \/ wire # <<>>

SetRequest ==
  /\ atReq = NoReq
  /\ \E r \in AtRequests :
       /\ Unread => Separable(r, UnreadPdu, FALSE)
       /\ atReq' = r
  /\ intended' = <<>>
  /\ UNCHANGED <<atLines, pduLines, events, wire, sent>>

Ended == \E i \in DOMAIN wire : wire[i].final

\* The number of items that a response of the type may have.
Room(type) ==
  CASE type = "NO_RESULT" -> 0 [] type \in {"NUMERIC", "SINGLELINE"} -> 1
    [] type = "PDU" -> 2 * MaxLines [] OTHER -> MaxLines

SendItem ==
  LET item == IF atReq.type = "NUMERIC" THEN <<Text("", TRUE, 0)>>
              ELSE IF atReq.type = "PDU"
              THEN <<Text(atReq.prefix, FALSE, 0), Text("", TRUE, 0)>>
              ELSE <<Text(atReq.prefix, FALSE, 0)>> IN
  /\ atReq # NoReq /\ ~Ended
  /\ Len(intended) < Room(atReq.type)
  /\ wire' = wire \o item
  /\ intended' = intended \o item
  /\ UNCHANGED <<atReq, atLines, pduLines, events, sent>>

SendFinal ==
  /\ atReq # NoReq /\ ~Ended
  /\ wire' = Append(wire, FinalLine)
  /\ UNCHANGED <<atReq, atLines, pduLines, events, intended, sent>>

SendEvent ==
  LET n == Len(sent) + 1 IN
  /\ n <= MaxEvents
  /\ \E pdu \in BOOLEAN :
       LET e == IF pdu THEN <<Text("+P", FALSE, n), Text("", TRUE, n)>>
                ELSE <<Text("+U", FALSE, n)>> IN
       /\ Ended \/ Separable(atReq, pdu, intended # <<>>)
       /\ wire' = wire \o e
       /\ sent' = Append(sent, e)
  /\ UNCHANGED <<atReq, atLines, pduLines, events, intended>>

RespNext == ReadLine \/ SetRequest \/ SendItem \/ SendFinal \/ SendEvent

RespSpec == RespInit /\ [][RespNext]_respVars

-----------------------------------------------------------------------------
(* Properties *)

\* A response is exactly the lines that the modem sent for it, in their order,
\* whatever comes in between (the switch of tcore_at_process), and none of the
\* response before it (_emit_pending_response frees that one,
\* tcore_at_set_request does not).
ResponseSorted ==
  atReq # NoReq => atLines \o Keep(wire, ResponseLines) = intended

\* The events reach their callbacks in order, each once and each PDU with the
\* line that announced it, whatever request is out meanwhile (pdu_status of
\* _emit_unsolicited_message): those that have not yet are all there, in the
\* lines that wait.
EventsSorted ==
  /\ events = SubSeq(sent, 1, Len(events))
  /\ pduLines \o Keep(wire, EventLines) = FlattenSeq(SubSeq(sent, Len(events) + 1, Len(sent)))
=============================================================================
