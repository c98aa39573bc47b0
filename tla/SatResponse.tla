---------------------------- MODULE SatResponse ----------------------------
(***************************************************************************)
(* What goes back to the card, from src/co_sat.c (5071-6838): terminal     *)
(* responses and envelopes.  Responses of all kinds have the same head and *)
(* differ in the results they may carry and in the objects that follow;    *)
(* a result that a kind does not know gives a response of no bytes.        *)
(*                                                                         *)
(* A response r is a record: what it answers (number, command, qualifier,  *)
(* devices), its result, the problem that goes with each class of result,  *)
(* and the objects it may carry.  r.buffer is what the buffer of the       *)
(* caller holds before.                                                    *)
(***************************************************************************)
EXTENDS SatCommand

\* The byte of each kind of command.
CodeOf(command) == CHOOSE c \in DOMAIN Commands : Commands[c] = command

FlagOf(flagged, tag) == IF flagged THEN tag + 128 ELSE tag

-----------------------------------------------------------------------------
(* Objects *)

\* Classes are numbered from 1 in the enumeration: class 3 is a bit of the alphabet.
EncodeDcs(t) ==
  LET class == IF t.class = {} THEN 0 ELSE 1 + CHOOSE c \in t.class : TRUE
  IN (IF t.compressed THEN 32 ELSE 0) + (IF class = 0 THEN 0 ELSE 16)
     + (IF t.format = "ucs2" THEN 8 ELSE 0)
     + (IF t.format = "8bit" \/ (class = 4 /\ t.format # "sms") THEN 4 ELSE 0)
     + (class % 4)

\* Mutant: the coding scheme is not counted.
EncodeTextShort(t) ==
  LET n == Len(t.text)
  IN (IF n <= 127 THEN <<13, n>> ELSE <<13, 129, n>>) \o <<EncodeDcs(t)>> \o t.text

EncodeText(t) ==
  LET n == Len(t.text)
  IN (IF n <= 127 THEN <<13, n + 1>> ELSE <<13, 129, (n + 1) % 256>>) \o <<EncodeDcs(t)>> \o t.text

EncodeChannelData(s) ==
  (IF Len(s) <= 127 THEN <<54, Len(s)>> ELSE <<54, 129, Len(s)>>) \o s

EncodeItemIdentifier(id) == <<16, 1, id>>
EncodeDuration(d) == <<4, 2>> \o d
EncodeDate(d) == <<38, 7>> \o d
EncodeEvent(e) == <<25, 1, e>>
EncodeTermination(cause) == <<52, 1, cause>>
EncodeBufferSize(size) == <<57, 2>> \o size
EncodeChannelDataLength(n) == <<55, 1, n>>

EncodeBearer(b) == <<53, Len(b)>> \o b

\* The first byte of the status is added to what the buffer holds.
EncodeChannelStatus(s, before) ==
  <<56, 2, (before + (IF s.active THEN 128 ELSE 0) + s.channel) % 256, s.info>>

\* The code of three languages is not the one that they are decoded from.
EncodeLanguage(l) ==
  <<45, 2>> \o
  CASE l = "norwegian" -> <<110, 98>>
    [] l = "turkish" -> <<116, 107>>
    [] l = "polish" -> <<112, 108>>
    [] l \notin {"norwegian", "turkish", "polish"} ->
         CHOOSE pair \in DOMAIN LanguageOf : LanguageOf[pair] = l

\* Commands whose qualifier is built again; the others are answered with 0.
QualifierEncoded ==
  {"display_text", "get_inkey", "get_input", "play_tone", "refresh", "setup_menu",
   "select_item", "send_sms", "setup_call", "open_channel", "send_data"}

EncodeDetails(r, flagged) ==
  <<FlagOf(flagged, 1), 3, r.number, CodeOf(r.command),
    IF r.command \in QualifierEncoded THEN r.qualifier ELSE 0>>

EncodeDevices(devices, flagged) == <<FlagOf(flagged, 2), 2>> \o devices

-----------------------------------------------------------------------------
(* The results that each kind of response knows *)

Performed == 0..2
PerformedNoIcon == 0..2 \cup {4}
\* Mutant: a missing value is forgotten.
RefusedForm == 48..51
Refused == 48..51 \cup {54}
ByUser == {16, 17, 18}
Help == 19

\* plain: results of one byte; me: those of two bytes that say what the problem
\* of the ME was; other: those with a problem of their own.
Results(plain, me, other) == [plain |-> plain, me |-> me, other |-> other]
None == <<>>

DisplayTextResults == Results(PerformedNoIcon \cup ByUser \cup Refused, {32, 60}, None)
GetInkeyResults == Results(PerformedNoIcon \cup ByUser \cup {Help} \cup Refused, {32, 60}, None)
GetInputResults == Results(PerformedNoIcon \cup ByUser \cup {Help} \cup Refused, {32, 60}, None)
MoreTimeResults == Results(Performed \cup Refused, {32}, None)
PlayToneResults == Results(PerformedNoIcon \cup {9, 16} \cup Refused, {32, 60}, None)
RefreshResults == Results(Performed \cup {3, 8} \cup Refused, {32}, None)
SetupMenuResults == Results(PerformedNoIcon \cup Refused, {32}, None)
SelectItemResults == Results(PerformedNoIcon \cup ByUser \cup {Help} \cup Refused, {32, 60}, None)
SendSmsResults == Results(PerformedNoIcon, {32, 33, 48, 49, 50, 53, 57}, None)
SendSsResults == Results(PerformedNoIcon \cup {5, 20}, {32, 33}, 57 :> "cc" @@ 52 :> "ss")
SendUssdResults == Results(PerformedNoIcon \cup {5, 20}, {32, 33}, 57 :> "cc" @@ 55 :> "ussd")
SetupCallResults ==
  Results(PerformedNoIcon \cup {5, 16, 52} \cup Refused, {32, 34, 35, 60},
          57 :> "cc" @@ 33 :> "network")
ProvideLocalInfoResults == Results(Performed \cup {6} \cup Refused, {32}, None)
SetupEventListResults == Results(Performed \cup Refused, {32}, None)
SetupIdleModeTextResults == Results(Performed \cup Refused, {32, 60}, None)
SendDtmfResults == Results(PerformedNoIcon \cup {16} \cup Refused, {32}, None)
LanguageNotificationResults == Results(Performed \cup Refused, {32, 60}, None)
LaunchBrowserResults == Results(Performed \cup (Refused \ {54}), {32, 33, 60}, 38 :> "browser")
OpenChannelResults ==
  Results(PerformedNoIcon \cup {7, 8, 16, 34, 37} \cup Refused, {32, 33, 60}, 58 :> "bip")
CloseChannelResults == Results(PerformedNoIcon \cup {16} \cup Refused, {32, 60}, 58 :> "bip")
ReceiveDataResults == Results(PerformedNoIcon \cup {16} \cup Refused, {32, 60}, 58 :> "bip")
SendDataResults == Results(PerformedNoIcon \cup {16} \cup Refused, {32, 33, 60}, 58 :> "bip")
GetChannelStatusResults == Results(PerformedNoIcon \cup {16} \cup Refused, {32, 33}, 58 :> "bip")

ResultsOf(c) ==
  CASE c = "display_text" -> DisplayTextResults [] c = "get_inkey" -> GetInkeyResults
    [] c = "get_input" -> GetInputResults [] c = "more_time" -> MoreTimeResults
    [] c = "play_tone" -> PlayToneResults [] c = "refresh" -> RefreshResults
    [] c = "setup_menu" -> SetupMenuResults [] c = "select_item" -> SelectItemResults
    [] c = "send_sms" -> SendSmsResults [] c = "send_ss" -> SendSsResults
    [] c = "send_ussd" -> SendUssdResults [] c = "setup_call" -> SetupCallResults
    [] c = "provide_local_info" -> ProvideLocalInfoResults
    [] c = "setup_event_list" -> SetupEventListResults
    [] c = "setup_idle_mode_text" -> SetupIdleModeTextResults
    [] c = "send_dtmf" -> SendDtmfResults
    [] c = "language_notification" -> LanguageNotificationResults
    [] c = "launch_browser" -> LaunchBrowserResults [] c = "open_channel" -> OpenChannelResults
    [] c = "close_channel" -> CloseChannelResults [] c = "receive_data" -> ReceiveDataResults
    [] c = "send_data" -> SendDataResults [] c = "get_channel_status" -> GetChannelStatusResults

Plain(c) == ResultsOf(c).plain

ProblemOf(c, result) ==
  LET known == ResultsOf(c)
  IN CASE result \in known.me -> "me"
       [] result \in DOMAIN known.other -> known.other[result]
       [] OTHER -> "none"

Encodable(c, result) == result \in Plain(c) \/ ProblemOf(c, result) # "none"

-----------------------------------------------------------------------------
(* What follows the result *)

LocalInfo(r) ==
  CASE r.qualifier = 3 -> EncodeDate(r.date)
    [] r.qualifier = 4 -> EncodeLanguage(r.language)
    \* Nothing is written, and the length of the object before is added again.
    [] r.qualifier \notin {3, 4} -> <<r.buffer, r.buffer, r.buffer, r.buffer>>

Extra(r) ==
  CASE r.command \in {"get_inkey", "get_input"} /\ r.result \in PerformedNoIcon -> EncodeText(r.text)
    [] r.command = "get_inkey" /\ r.result = 18 -> EncodeDuration(r.duration)
    [] r.command = "select_item" /\ r.result \in PerformedNoIcon -> EncodeItemIdentifier(r.item)
    [] r.command = "provide_local_info" /\ r.result \in Performed \cup {6} -> LocalInfo(r)
    [] r.command = "open_channel" /\ r.result \in PerformedNoIcon \cup {7} ->
         EncodeChannelStatus(r.status, r.buffer)
    [] r.command = "get_channel_status" /\ r.result \in PerformedNoIcon ->
         EncodeChannelStatus(r.status, r.buffer)
    [] r.command = "send_data" /\ r.result \in Plain("send_data") ->
         EncodeChannelDataLength(r.length)
    [] r.command = "receive_data" /\ r.result \in Plain("receive_data") ->
         EncodeChannelData(r.data) \o EncodeChannelDataLength(r.length)
    [] OTHER -> <<>>

\* Every response to open_channel ends with the bearer and the buffer size.
Trailer(r) ==
  IF r.command = "open_channel" THEN EncodeBearer(r.bearer) \o EncodeBufferSize(r.size) ELSE <<>>

EncodeResult(r, flagged) ==
  <<FlagOf(flagged, 3)>> \o
  (IF r.result \in Plain(r.command) THEN <<1, r.result>>
   ELSE <<2, r.result, r.problem[ProblemOf(r.command, r.result)]>>)

EncodeResponse(r, flagged) ==
  IF ~Encodable(r.command, r.result) THEN <<>>
  ELSE EncodeDetails(r, flagged) \o EncodeDevices(r.devices, flagged) \o EncodeResult(r, flagged)
       \o Extra(r) \o Trailer(r)

-----------------------------------------------------------------------------
(* Envelopes *)

Enveloped(tag, body) == <<tag, Len(body)>> \o body

EncodeMenuSelection(e, flagged) ==
  Enveloped(211, EncodeDevices(e.devices, flagged) \o EncodeItemIdentifier(e.item)
                 \o (IF e.help THEN <<21, 0>> ELSE <<>>))

EncodeDownload(e, flagged) ==
  Enveloped(214, EncodeEvent(e.event) \o EncodeDevices(e.devices, flagged) \o
    CASE e.event = 7 -> EncodeLanguage(e.language)
      [] e.event = 8 -> EncodeTermination(e.cause)
      [] e.event = 9 -> EncodeChannelStatus(e.status, e.buffer) \o EncodeChannelDataLength(e.length)
      [] e.event = 10 -> EncodeChannelStatus(e.status, e.buffer)
      [] OTHER -> <<>>)
=============================================================================
