-------------------------------- MODULE Sat --------------------------------
(***************************************************************************)
(* A card and the codec of src/co_sat.c: the card sends a proactive        *)
(* command, the codec decodes it, the application answers with a result,   *)
(* the codec encodes the answer; envelopes come from the application.      *)
(*                                                                         *)
(* The card follows the grammar below.  Its commands are well formed, or   *)
(* are cut short on the way.  What is left out of the grammar is what the  *)
(* codec does not decode as it is sent (see the README).                   *)
(***************************************************************************)
EXTENDS SatResponse

CONSTANTS
  Samples,     \* for each object the card sends: a sequence of [each, value]
  Qualifiers,  \* for each command: the qualifiers the card uses
  Numbers,     \* command numbers
  Beyond,      \* bytes that may lie behind a message, or in a buffer before
  Replies,     \* what the application may put into the objects of a response
  Envelopes    \* what it may put into an envelope

VARIABLES
  phase,    \* "idle", "sent", "decoded", "taken", "answered", "enveloped"
  sent,     \* the command of the card
  message,  \* its bytes, as they arrive
  decoded,  \* what the codec made of it
  answer,   \* history: what the application answers with
  reply,    \* the bytes that go to the card
  flagged   \* static b_comprehensive

vars == <<phase, sent, message, decoded, answer, reply, flagged>>

-----------------------------------------------------------------------------
(* The card *)

Part(tlv, field, need) == [tlv |-> tlv, field |-> field, need |-> need]
M(tlv) == Part(tlv, tlv, "always")
O(tlv) == Part(tlv, tlv, "optional")
\* An optional object that comes with another one only.
W(tlv, field, with) == Part(tlv, field, with)

Rest == <<O("other_address"), W("text", "login", "optional"), W("text", "password", "login"),
          O("interface"), W("other_address", "destination", "interface")>>

\* The objects of each command, in order.
Grammar ==
  {<<"display_text", <<M("text"), O("icon"), O("immediate"), O("duration")>> >>,
   <<"get_inkey", <<M("text"), O("icon"), O("duration")>> >>,
   <<"get_input", <<M("text"), M("response_length")>> >>,
   <<"more_time", <<>> >>, <<"refresh", <<>> >>, <<"provide_local_info", <<>> >>,
   <<"get_channel_status", <<>> >>,
   <<"play_tone", <<O("alpha"), O("tone"), O("duration"), O("icon")>> >>,
   <<"setup_menu", <<M("alpha"), M("items"), O("next_action"), O("icon"), O("icon_list")>> >>,
   <<"select_item", <<O("alpha"), M("items"), O("next_action"), O("item_identifier"), O("icon"),
                      O("icon_list")>> >>,
   <<"send_sms", <<O("alpha"), O("address"), M("tpdu")>> >>,
   <<"send_ss", <<O("alpha"), M("ss")>> >>,
   <<"send_ussd", <<O("alpha"), M("ussd")>> >>,
   <<"setup_call", <<O("alpha"), M("address"), O("ccp"), O("subaddress"), O("duration"), O("icon"),
                     W("alpha", "setup_alpha", "optional"), W("icon", "setup_icon", "setup_alpha")>> >>,
   <<"setup_event_list", <<M("event_list")>> >>,
   <<"setup_idle_mode_text", <<M("text"), O("icon")>> >>,
   <<"send_dtmf", <<O("alpha"), M("dtmf")>> >>,
   <<"language_notification", <<M("language")>> >>, <<"language_notification", <<>> >>,
   <<"launch_browser", <<O("browser_id"), M("url"), O("bearers"), O("files"), O("text"), O("alpha"),
                         O("icon")>> >>,
   <<"open_channel", <<O("alpha"), O("icon"), M("address"), O("subaddress"), O("duration"),
                       W("duration", "duration2", "duration"), W("csd", "bearer", "always"),
                       M("buffer_size")>> \o Rest>>,
   <<"open_channel", <<O("alpha"), O("icon"), W("gprs", "bearer", "always"), M("buffer_size"),
                       O("network_name")>> \o Rest>>,
   <<"open_channel", <<O("alpha"), O("icon"), W("default", "bearer", "always"), M("buffer_size")>>
                     \o Rest>>,
   <<"close_channel", <<O("alpha"), O("icon")>> >>,
   <<"receive_data", <<O("alpha"), O("icon"), M("channel_data_length")>> >>,
   <<"send_data", <<O("alpha"), O("icon"), M("channel_data")>> >>}

CardTag ==
  TagOf @@ "response_length" :> 17 @@ "items" :> 15 @@ "files" :> 51 @@ "tpdu" :> 11 @@ "ss" :> 9 @@
  "ussd" :> 10 @@ "event_list" :> 25 @@ "csd" :> 53 @@ "gprs" :> 53 @@ "default" :> 53 @@
  "buffer_size" :> 57 @@ "channel_data" :> 54 @@ "channel_data_length" :> 55 @@ "immediate" :> 43

\* The card writes the lengths of SS and USSD strings in two bytes, whatever they
\* are: other strings are not understood.
LengthOf(tlv, s) ==
  IF Len(s) >= 128 \/ tlv \in {"ss", "ussd"} THEN <<129, Len(s)>> ELSE <<Len(s)>>

ObjectOf(tlv, flag, s) == <<FlagOf(flag, CardTag[tlv])>> \o LengthOf(tlv, s) \o s

Sample(tlv, k) == Samples[tlv][IF k > Len(Samples[tlv]) THEN 1 ELSE k]

Chosen(parts, fields) == SelectSeq(parts, LAMBDA p : p.field \in fields)
Fields(parts) == {parts[i].field : i \in 1..Len(parts)}
Always(parts) == Fields(SelectSeq(parts, LAMBDA p : p.need = "always"))

\* Which of the objects there are: those that must, and of the others any that
\* have what they come with.
Complete(parts) ==
  {fields \in {Always(parts) \cup some : some \in SUBSET (Fields(parts) \ Always(parts))} :
     \A i \in 1..Len(parts) :
       parts[i].field \in fields => parts[i].need \in {"always", "optional"} \cup fields}

Combinations == [g \in Grammar |-> Complete(g[2])]

ObjectBytes(c) ==
  FlattenSeq([i \in 1..Len(c.parts) |->
    LET each == Sample(c.parts[i].tlv, c.variant).each
    IN FlattenSeq([j \in 1..Len(each) |-> ObjectOf(c.parts[i].tlv, c.flag, each[j])])])

CommandBytes(c) ==
  LET body == <<FlagOf(c.flag, 1), 3, c.number, CodeOf(c.command), c.qualifier,
                FlagOf(c.flag, 2), 2>> \o c.devices \o ObjectBytes(c)
  IN <<208>> \o (IF Len(body) >= 128 THEN <<129, Len(body)>> ELSE <<Len(body)>>) \o body

\* What arrives of it.
Arrived(c) == [bytes |-> AtMost(CommandBytes(c), c.cut), beyond |-> c.beyond]

\* What the command says, for who knows the grammar.
Said(c) ==
  LET PartOf(f) == CHOOSE i \in 1..Len(c.parts) : c.parts[i].field = f
      fields == [f \in Fields(c.parts) |->
                   Sample(c.parts[PartOf(f)].tlv, c.variant).value]
  IN fields @@ ("devices" :> c.devices) @@ Preset(c.command, c.qualifier)

-----------------------------------------------------------------------------
(* Sending *)

Whole == 1000
NoCommand == [command |-> "none"]
NoMessage == [bytes |-> <<>>, beyond |-> 255]
NoAnswer == [command |-> "none"]

Command(g, fields, q, k, number, flag) ==
  [command |-> g[1], parts |-> Chosen(g[2], fields), qualifier |-> q, variant |-> k,
   number |-> number, flag |-> flag, devices |-> <<129, IF k = 1 THEN 130 ELSE 131>>,
   cut |-> Whole, beyond |-> 255]

\* A language notification has a language if its qualifier says so.
Suits(g, q) == g[1] = "language_notification" => (q = 1) = (g[2] # <<>>)

FirstQualifier(g) == CHOOSE q \in Qualifiers[g[1]] : Suits(g, q)

Send(c) ==
  /\ phase' = "sent"
  /\ sent' = c
  /\ message' = Arrived(c)
  /\ UNCHANGED <<decoded, answer, reply, flagged>>

\* Bound: qualifiers vary where the optional objects do not.
SendWhole ==
  /\ phase = "idle"
  /\ \E g \in Grammar : \E fields \in Combinations[g], q \in Qualifiers[g[1]], k \in 1..3,
     number \in Numbers, flag \in BOOLEAN :
       /\ Suits(g, q)
       /\ fields = Always(g[2]) \/ q = FirstQualifier(g)
       /\ Send(Command(g, fields, q, k, number, flag))

\* Bound: of each command, the one with all objects is cut.
SendCut ==
  /\ phase = "idle"
  /\ \E g \in Grammar, beyond \in Beyond, flag \in BOOLEAN :
       LET c == Command(g, Fields(g[2]), FirstQualifier(g), 1, 1, flag)
       IN \E cut \in 0..(Len(CommandBytes(c)) - 1) : Send([c EXCEPT !.cut = cut, !.beyond = beyond])

-----------------------------------------------------------------------------
(* Decoding and answering *)

Decoding ==
  /\ phase = "sent"
  /\ phase' = "decoded"
  /\ decoded' = Decode(message)
  /\ flagged' = Comprehensive(flagged, message)
  /\ UNCHANGED <<sent, message, answer, reply>>

\* The application keeps what it needs for the answer.
TakeUp ==
  /\ phase = "decoded"
  /\ phase' = IF decoded.command = "none" THEN "idle" ELSE "taken"
  /\ decoded' = IF decoded.command = "none" THEN NoCommand ELSE [decoded EXCEPT !.got = <<>>]
  /\ sent' = IF decoded.command = "none" THEN NoCommand
             ELSE [command |-> sent.command, number |-> sent.number, qualifier |-> sent.qualifier,
                   flag |-> sent.flag, devices |-> sent.devices]
  /\ message' = NoMessage
  /\ UNCHANGED <<answer, reply, flagged>>

\* A result that no command is answered with.
Unknown == 15

Answer ==
  /\ phase = "taken"
  /\ phase' = "answered"
  /\ \E result \in 0..60, objects \in Replies :
       LET r == objects @@ [number |-> decoded.number, command |-> decoded.command,
                            qualifier |-> decoded.qualifier, devices |-> sent.devices,
                            result |-> result]
       IN /\ Encodable(r.command, result) \/ result = Unknown
          /\ answer' = r
          /\ reply' = EncodeResponse(r, flagged)
  /\ UNCHANGED <<sent, message, decoded, flagged>>

Envelope ==
  /\ phase = "idle"
  /\ phase' = "enveloped"
  /\ \E e \in Envelopes :
       reply' = IF e.menu THEN EncodeMenuSelection(e, flagged) ELSE EncodeDownload(e, flagged)
  /\ UNCHANGED <<sent, message, decoded, answer, flagged>>

Delivered ==
  /\ phase \in {"answered", "enveloped"}
  /\ phase' = "idle"
  /\ sent' = NoCommand /\ decoded' = NoCommand /\ answer' = NoAnswer /\ reply' = <<>>
  /\ UNCHANGED <<message, flagged>>

Init ==
  /\ phase = "idle" /\ sent = NoCommand /\ message = NoMessage /\ decoded = NoCommand
  /\ answer = NoAnswer /\ reply = <<>> /\ flagged = FALSE

Next == SendWhole \/ SendCut \/ Decoding \/ TakeUp \/ Answer \/ Envelope \/ Delivered

Spec == Init /\ [][Next]_vars

-----------------------------------------------------------------------------
(* Properties *)

\* The qualifier as it is kept: the last two ways to show items are one bit each;
\* what is reserved, or not known here, is 255.
AsKept(c) ==
  CASE c.command = "select_item" /\ c.qualifier % 4 = 3 -> c.qualifier - 1
    [] c.command = "provide_local_info" /\ c.qualifier \notin {3, 4} -> 255
    [] c.command = "launch_browser" /\ c.qualifier > 4 -> 255
    [] OTHER -> c.qualifier

\* What a card says in whole is what the codec understands: the command, its
\* number and qualifier, and every object with its value, in any combination of
\* the optional ones (tcore_sat_decode_proactive_command and all it calls).
Understood ==
  phase = "decoded" /\ sent.cut = Whole =>
    /\ decoded.rv = Success
    /\ <<decoded.number, decoded.command>> = <<sent.number, sent.command>>
    /\ decoded.qualifier = AsKept(sent)
    /\ decoded.got = Said(sent)

\* Objects whose decoders do not see where the message ends.
Unchecked ==
  {"text", "login", "password", "tpdu", "url", "files", "duration", "duration2", "bearer",
   "item_identifier", "response_length", "browser_id", "channel_data_length", "icon_list",
   "ss", "ussd"}

\* Commands that see to the end of their text themselves.
ShowsText == {"display_text", "get_inkey", "setup_idle_mode_text"}

Checked(c) == (IF c.command \in ShowsText THEN {"text"} ELSE {})
              \cup (DOMAIN decoded.got \ Unchecked)

\* Of a command that is cut short, no object gets another value than the card gave
\* it, or the one that it has if the card gives none, as far as its decoder looks at
\* the end of the message; and a command that counts as understood has all objects
\* it cannot do without.  (The result of the decoder of event lists is dropped, and
\* open_channel is content without a bearer, see the hazards at co_sat.c:3794, 2041.)
CutIsNoticed ==
  phase = "decoded" /\ sent.cut # Whole =>
    /\ \A f \in DOMAIN decoded.got \cap Checked(sent) :
         \/ decoded.got[f] = Said(sent)[f]
         \/ f = "items" /\ IsPrefix(decoded.got[f], Said(sent)[f])
         \/ LET preset == Preset(sent.command, sent.qualifier)
            IN f \in DOMAIN preset /\ decoded.got[f] = preset[f]
    /\ decoded.rv = Success =>
         \/ sent.command \in {"setup_event_list", "open_channel"}
         \/ Always(sent.parts) \subseteq DOMAIN decoded.got

\* A response says what it answers: the number and the kind of the command, and,
\* for the kinds that build it again, its qualifier; and if the card flagged its
\* objects the response flags its own (_sat_encode_command_details).
Echoed ==
  phase = "answered" /\ reply # <<>> =>
    /\ SubSeq(reply, 3, 4) = <<sent.number, CodeOf(sent.command)>>
    /\ sent.command \in QualifierEncoded => reply[5] = AsKept(sent)
    /\ sent.flag => reply[1] = 129 /\ reply[6] = 130 /\ reply[10] = 131

\* Objects, one after the other, that fill the string.
RECURSIVE Parses(_)
Parses(s) ==
  \/ s = <<>>
  \/ /\ Len(s) >= 2
     /\ LET ll == LengthSize(s[2])
            end == 1 + ll + s[1 + ll]
        IN ll > 0 /\ Len(s) >= end /\ Parses(SubSeq(s, end + 1, Len(s)))

TypeOK ==
  /\ phase \in {"idle", "sent", "decoded", "taken", "answered", "enveloped"}
  /\ \A i \in 1..Len(reply) : reply[i] \in 0..255
  /\ flagged \in BOOLEAN

\* Where the code is wrong.  A text of 127 bytes that is sent back makes 128 with its
\* coding scheme, which is written in one byte (co_sat.c:5288); one of more than 254
\* makes a second byte modulo 256.
Overlong(a) ==
  /\ a.command \in {"get_inkey", "get_input"} /\ a.result \in PerformedNoIcon
  /\ Len(a.text.text) = 127 \/ Len(a.text.text) > 254

\* And local information that "is not handled" (co_sat.c:6242) takes in four bytes of
\* the buffer that were not written (6245): every type but date and time, and language.
NotHandled(a) ==
  /\ a.command = "provide_local_info" /\ a.result \in Performed \cup {6}
  /\ a.qualifier \notin {3, 4}

\* What is sent to the card is a sequence of bytes, of objects whose lengths are
\* right, and a response among them says what it answers; except that the lengths are
\* not right in the two kinds of response above.
ResponseFits ==
  /\ TypeOK
  /\ phase = "enveloped" => Parses(reply)
  /\ phase = "answered" /\ ~Overlong(answer) /\ ~NotHandled(answer) => Parses(reply)
  /\ Echoed

\* What the application answers to a command that was not decoded.
RefusalOf(rv) ==
  CASE rv = NotUnderstood -> 50 [] rv = ValueMissing -> 54 [] rv = BeyondMe -> 48

\* Commands that no response can refuse, or not for a missing value.
CannotRefuse == {<<"send_ss", r>> : r \in {48, 50, 54}} \cup {<<"send_ussd", r>> : r \in {48, 50, 54}}
                \cup {<<"send_sms", 54>>, <<"launch_browser", 54>>}

\* A command that was decoded to a failure can be refused with this failure: the
\* response is not empty (tcore_sat_encode_terminal_response).
RefusalAnswered ==
  phase \in {"decoded", "taken"} /\ decoded.rv \notin {Success, Fatal} /\ decoded.command # "none" =>
    \/ Encodable(decoded.command, RefusalOf(decoded.rv))
    \/ <<decoded.command, RefusalOf(decoded.rv)>> \in CannotRefuse
=============================================================================
