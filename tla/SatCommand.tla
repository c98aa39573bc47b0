----------------------------- MODULE SatCommand -----------------------------
(***************************************************************************)
(* tcore_sat_decode_proactive_command of src/co_sat.c (2456-5069).  The    *)
(* decoder of each kind of command is a list of steps, one per object that *)
(* it looks for, in the order of the code; one interpreter runs them all.  *)
(*                                                                         *)
(* A step either demands its object, whatever comes, or looks at the next  *)
(* tag first and goes on if it is another.  A step that Ends leaves with   *)
(* SUCCESS where the message ends.  What is decoded is a function from the *)
(* names of the fields that were set to their values.                      *)
(***************************************************************************)
EXTENDS SatTlv, FiniteSetsExt, TLC

Commands ==
  1 :> "refresh" @@ 2 :> "more_time" @@ 5 :> "setup_event_list" @@ 16 :> "setup_call" @@
  17 :> "send_ss" @@ 18 :> "send_ussd" @@ 19 :> "send_sms" @@ 20 :> "send_dtmf" @@
  21 :> "launch_browser" @@ 32 :> "play_tone" @@ 33 :> "display_text" @@ 34 :> "get_inkey" @@
  35 :> "get_input" @@ 36 :> "select_item" @@ 37 :> "setup_menu" @@
  38 :> "provide_local_info" @@ 40 :> "setup_idle_mode_text" @@
  53 :> "language_notification" @@ 64 :> "open_channel" @@ 65 :> "close_channel" @@
  66 :> "receive_data" @@ 67 :> "send_data" @@ 68 :> "get_channel_status"

Tlv(name, m, at) ==
  CASE name = "text" -> Text(m, at) [] name = "alpha" -> Alpha(m, at)
    [] name = "address" -> Address(m, at) [] name = "subaddress" -> Subaddress(m, at)
    [] name = "ccp" -> Ccp(m, at) [] name = "ss" -> SsString(m, at)
    [] name = "ussd" -> UssdString(m, at) [] name = "dtmf" -> Dtmf(m, at)
    [] name = "tpdu" -> SmsTpdu(m, at) [] name = "item" -> Item(m, at)
    [] name = "item_identifier" -> ItemIdentifier(m, at)
    [] name = "response_length" -> ResponseLength(m, at)
    [] name = "next_action" -> NextAction(m, at) [] name = "icon" -> Icon(m, at)
    [] name = "icon_list" -> IconList(m, at) [] name = "tone" -> Tone(m, at)
    [] name = "duration" -> Duration(m, at) [] name = "file_list" -> FileList(m, at)
    [] name = "event_list" -> EventList(m, at) [] name = "language" -> Language(m, at)
    [] name = "browser_id" -> BrowserId(m, at) [] name = "url" -> Url(m, at)
    [] name = "bearers" -> Bearers(m, at) [] name = "provisioning" -> ProvisioningFile(m, at)
    [] name = "channel_data" -> ChannelData(m, at)
    [] name = "channel_data_length" -> ChannelDataLength(m, at)
    [] name = "buffer_size" -> BufferSize(m, at) [] name = "interface" -> UiccInterface(m, at)
    [] name = "other_address" -> OtherAddress(m, at)
    [] name = "network_name" -> NetworkName(m, at) [] name = "bearer" -> BearerDescription(m, at)
    \* Default texts have a tag of their own, which the decoder of texts refuses.
    [] name = "default_text" -> Text(m, at)

TagOf ==
  "text" :> 13 @@ "default_text" :> 23 @@ "alpha" :> 5 @@ "address" :> 6 @@ "subaddress" :> 8 @@
  "ccp" :> 7 @@ "dtmf" :> 44 @@ "item" :> 15 @@ "item_identifier" :> 16 @@ "next_action" :> 24 @@
  "icon" :> 30 @@ "icon_list" :> 31 @@ "tone" :> 14 @@ "duration" :> 4 @@ "language" :> 45 @@
  "browser_id" :> 48 @@ "url" :> 49 @@ "bearers" :> 50 @@ "provisioning" :> 51 @@
  "interface" :> 60 @@ "other_address" :> 62 @@ "network_name" :> 71

-----------------------------------------------------------------------------
(* The steps *)

Step(do, tlv, field) ==
  [do |-> do, tlv |-> tlv, field |-> field, end |-> FALSE, absent |-> Success, max |-> 1]
Must(tlv, field) == Step("must", tlv, field)
May(tlv) == Step("may", tlv, tlv)
As(s, field) == [s EXCEPT !.field = field]
Ends(s) == [s EXCEPT !.end = TRUE]
\* Where the next tag is another, the command fails or a field gets a default.
Requires(tlv, absent) == [Step("requires", tlv, tlv) EXCEPT !.absent = absent]

Shown == Step("shown", "text", "text")
Immediate == Step("immediate", "none", "immediate")
AtEnd == Step("at_end", "none", "none")
Items == [Step("items", "item", "items") EXCEPT !.max = 40]
ProvisioningFiles == [Step("files", "provisioning", "files") EXCEPT !.max = 10]
Tried(tlv) == Step("tried", tlv, tlv)
SkipBearer == Step("skip", "none", "none")

\* An icon that is put into the structure of another command of the union: it
\* is lost, and in get_input it is written over the response length.
LostIcon == As(Ends(May("icon")), "lost")
IconOverResponseLength == As(Ends(May("icon")), "response_length")

\* From the buffer size on.
ChannelTail(name) ==
  <<SkipBearer, Ends(Must("buffer_size", "buffer_size"))>> \o name \o
  <<Ends(May("other_address")), As(Ends(May("text")), "login"), As(Ends(May("text")), "password"),
    Ends(May("interface")), As(Ends(May("other_address")), "destination")>>

\* What follows the bearer description, which is found first.
CsdChannel ==
  <<Must("address", "address"), May("subaddress"), May("duration"),
    As(May("duration"), "duration2")>> \o ChannelTail(<<>>)
GprsChannel == ChannelTail(<<Ends(May("network_name"))>>)
DefaultChannel == ChannelTail(<<>>)

ChannelSteps(bearer) ==
  CASE bearer = 1 -> CsdChannel [] bearer = 2 -> GprsChannel [] bearer = 3 -> DefaultChannel

AlphaIcon == <<May("alpha"), May("icon")>>

-----------------------------------------------------------------------------
(* The kinds of command: what becomes of the qualifier q, and the steps *)

Bits(q, which) == SumSet({b \in which : (q \div b) % 2 = 1})

Kind(qualifier, steps) == [supported |-> TRUE, qualifier |-> qualifier, steps |-> steps]

DisplayText(q) ==
  Kind(Bits(q, {1, 128}), <<Shown, Ends(May("icon")), Immediate, AtEnd, May("duration")>>)

GetInkey(q) == Kind(Bits(q, {1, 2, 4, 8, 128}), <<Shown, Ends(May("icon")), May("duration")>>)

GetInput(q) ==
  Kind(Bits(q, {1, 2, 4, 8, 128}),
       <<Must("text", "text"), Ends(Must("response_length", "response_length")),
         May("default_text"), IconOverResponseLength>>)

MoreTime(q) == Kind(0, <<>>)

PlayTone(q) ==
  Kind(Bits(q, {1}), <<Ends(May("alpha")), May("tone"), Ends(May("duration")), Ends(May("icon"))>>)

Refresh(q) ==
  [Kind(q, IF q \in {1, 2} THEN <<Must("file_list", "file_list")>> ELSE <<>>)
     EXCEPT !.supported = q <= 4]

SetupMenu(q) ==
  Kind(Bits(q, {1, 128}),
       <<Must("alpha", "alpha"), Items, Ends(May("next_action")), Ends(May("icon")),
         Ends(May("icon_list"))>>)

\* Bits 1 and 2 together tell how the items are to be shown.
Presentation(q) == IF q % 2 = 0 THEN 0 ELSE IF q % 4 = 3 THEN 2 ELSE 1

SelectItem(q) ==
  Kind(Presentation(q) + Bits(q, {4, 128}),
       <<May("alpha"), Items, Ends(May("next_action")), Ends(May("item_identifier")),
         Ends(May("icon")), Ends(May("icon_list"))>>)

SendSms(q) ==
  Kind(Bits(q, {1}), <<May("alpha"), May("address"), Ends(Must("tpdu", "tpdu")), LostIcon>>)

SendSs(q) == Kind(0, <<May("alpha"), Must("ss", "ss"), May("icon")>>)

SendUssd(q) == Kind(0, <<May("alpha"), Must("ussd", "ussd"), May("icon")>>)

SetupCall(q) ==
  [Kind(q, <<May("alpha"), Ends(Must("address", "address")), Ends(May("ccp")),
             Ends(May("subaddress")), Ends(May("duration")), Ends(May("icon")),
             As(Ends(May("alpha")), "setup_alpha"), As(Ends(May("icon")), "setup_icon")>>)
     EXCEPT !.supported = q <= 5]

ProvideLocalInfo(q) == Kind(IF q \in {3, 4} THEN q ELSE 255, <<>>)

SetupEventList(q) == Kind(0, <<Tried("event_list")>>)

SetupIdleModeText(q) == Kind(0, <<Shown, Ends(May("icon"))>>)

SendDtmf(q) == Kind(0, <<May("alpha"), Ends(Requires("dtmf", ValueMissing)), LostIcon>>)

LanguageNotification(q) ==
  Kind(Bits(q, {1}), IF q % 2 = 1 THEN <<Requires("language", NotUnderstood)>> ELSE <<>>)

LaunchBrowser(q) ==
  Kind(IF q <= 4 THEN q ELSE 255,
       <<May("browser_id"), Ends(Requires("url", ValueMissing)), Ends(May("bearers")),
         ProvisioningFiles, Ends(May("text")), Ends(May("alpha")), Ends(May("icon"))>>)

OpenChannel(q) == Kind(Bits(q, {1, 2, 4}), AlphaIcon \o <<Step("bearer", "bearer", "bearer")>>)

CloseChannel(q) == Kind(0, AlphaIcon)

ReceiveData(q) ==
  Kind(0, AlphaIcon \o <<Must("channel_data_length", "channel_data_length")>>)

SendData(q) == Kind(Bits(q, {1}), AlphaIcon \o <<Must("channel_data", "channel_data")>>)

GetChannelStatus(q) == Kind(0, <<>>)

KindOf(command, q) ==
  CASE command = "display_text" -> DisplayText(q) [] command = "get_inkey" -> GetInkey(q)
    [] command = "get_input" -> GetInput(q) [] command = "more_time" -> MoreTime(q)
    [] command = "play_tone" -> PlayTone(q) [] command = "refresh" -> Refresh(q)
    [] command = "setup_menu" -> SetupMenu(q) [] command = "select_item" -> SelectItem(q)
    [] command = "send_sms" -> SendSms(q) [] command = "send_ss" -> SendSs(q)
    [] command = "send_ussd" -> SendUssd(q) [] command = "setup_call" -> SetupCall(q)
    [] command = "provide_local_info" -> ProvideLocalInfo(q)
    [] command = "setup_event_list" -> SetupEventList(q)
    [] command = "setup_idle_mode_text" -> SetupIdleModeText(q)
    [] command = "send_dtmf" -> SendDtmf(q)
    [] command = "language_notification" -> LanguageNotification(q)
    [] command = "launch_browser" -> LaunchBrowser(q)
    [] command = "open_channel" -> OpenChannel(q) [] command = "close_channel" -> CloseChannel(q)
    [] command = "receive_data" -> ReceiveData(q) [] command = "send_data" -> SendData(q)
    [] command = "get_channel_status" -> GetChannelStatus(q)

-----------------------------------------------------------------------------
(* The interpreter: st is [at, rv, over, got, skip, todo]; r is what the        *)
(* decoder makes of the object of a step                                   *)

Set(got, field, v) == (field :> v) @@ got
End(st) == [st EXCEPT !.over = TRUE]
Fail(st, rv) == [st EXCEPT !.over = TRUE, !.rv = rv]
EndIf(cond, st) == IF cond THEN End(st) ELSE st

Keep(st, field, r) ==
  [st EXCEPT !.at = @ + r.used, !.got = IF r.has THEN Set(@, field, r.value) ELSE @]

Take(m, st, s, r) ==
  IF r.rv # Success THEN Fail(st, r.rv)
  ELSE EndIf(s.end /\ st.at + r.used >= Size(m), Keep(st, s.field, r))

\* A text that is shown is not empty and does not reach behind the message.
TakeShown(m, st, r) ==
  IF r.rv # Success THEN Fail(st, r.rv)
  ELSE IF r.value.text = <<>> THEN Fail(st, NotUnderstood)
  ELSE IF st.at + r.used > Size(m) THEN Fail(st, BeyondMe)
  ELSE EndIf(st.at + r.used = Size(m), Keep(st, "text", r))

\* One of a list of objects: the step is to be done again, if more are allowed.
TakeOneOf(m, st, s, r) ==
  IF r.rv # Success THEN Fail(st, r.rv)
  ELSE EndIf(st.at + r.used >= Size(m),
             [st EXCEPT !.at = @ + r.used,
                        !.got = Set(@, s.field,
                          (IF s.field \in DOMAIN @ THEN @[s.field] ELSE <<>>) \o <<r.value>>),
                        !.todo = <<[s EXCEPT !.max = @ - 1]>> \o @])

\* There is no menu without items, and there are no files behind the tenth.
TakeList(m, st, s, r, next) ==
  CASE next /\ s.max > 0 -> TakeOneOf(m, st, s, r)
    [] s.do = "items" /\ ~next /\ s.field \notin DOMAIN st.got -> Fail(st, ValueMissing)
    [] s.do = "files" /\ next /\ s.max = 0 -> Fail(st, NotUnderstood)
    [] OTHER -> st

\* The bearer description is found, and not passed: the code skips it later, by
\* its length, from wherever it is then.
TakeBearer(st, r) ==
  IF r.rv # Success THEN Fail(st, r.rv)
  ELSE IF ~r.has THEN End(st)
  ELSE [st EXCEPT !.got = Set(@, "bearer", r.value), !.skip = r.used,
                  !.todo = ChannelSteps(r.value[1])]

Tries(st, s, r) ==
  End(IF r.has THEN [st EXCEPT !.got = Set(@, s.field, r.value)] ELSE st)

Do(m, st, s, r, next) ==
  CASE s.do = "must" \/ (s.do \in {"may", "requires"} /\ next) -> Take(m, st, s, r)
    [] s.do = "may" /\ ~next -> st
    [] s.do = "requires" /\ ~next -> Fail(st, s.absent)
    [] s.do = "shown" -> TakeShown(m, st, r)
    [] s.do = "immediate" ->
         IF Tag(m, st.at) = 43 THEN [st EXCEPT !.at = @ + 2, !.got = Set(@, "immediate", TRUE)]
         ELSE st
    [] s.do = "at_end" -> EndIf(st.at >= Size(m), st)
    [] s.do \in {"items", "files"} -> TakeList(m, st, s, r, next)
    [] s.do = "tried" -> Tries(st, s, r)
    [] s.do = "skip" -> [st EXCEPT !.at = @ + st.skip]
    [] s.do = "bearer" -> TakeBearer(st, r)

RECURSIVE Run(_, _)
Run(m, st) ==
  IF st.over \/ st.todo = <<>> THEN st
  ELSE LET s == Head(st.todo)
       IN Run(m, Do(m, [st EXCEPT !.todo = Tail(@)], s, Tlv(s.tlv, m, st.at),
                    Tag(m, st.at) = TagOf[s.tlv]))

\* A tone is a general beep and takes two seconds, unless the card says more; a
\* notification that does not come with a language is about none in particular.
Preset(command, q) ==
  CASE command = "play_tone" -> "tone" :> 16 @@ "duration" :> <<1, 2>>
    [] command = "language_notification" /\ q % 2 = 0 -> "language" :> "unspecified"
    [] OTHER -> <<>>

Start(command, q, at, steps) ==
  [at |-> at, rv |-> Success, over |-> FALSE, got |-> Preset(command, q), skip |-> 0,
   todo |-> steps]

-----------------------------------------------------------------------------
(* The whole command *)

Result(rv, number, command, qualifier, got) ==
  [rv |-> rv, number |-> number, command |-> command, qualifier |-> qualifier, got |-> got]

\* The details of the command are at this offset.
Details(m) == 1 + LengthSize(B(m, 1))

WellFramed(m) ==
  /\ Size(m) > 2
  /\ B(m, 0) = 208
  /\ LengthSize(B(m, 1)) > 0
  /\ Size(m) >= Details(m) + 9

\* What a command becomes of which the decoder of its kind ends with st.
Outcome(number, command, kind, devices, st) ==
  IF ~kind.supported THEN Result(BeyondMe, number, command, kind.qualifier, <<>>)
  ELSE IF devices.rv # Success
  THEN Result(devices.rv, number, command, kind.qualifier, <<>>)
  ELSE Result(st.rv, number, command, kind.qualifier, Set(st.got, "devices", devices.value))

DecodeAs(m, at, number, command, q, kind) ==
  Outcome(number, command, kind, DeviceIdentities(m, at + 5),
          Run(m, Start(command, q, at + 9, kind.steps)))

DecodeAt(m, at, number, code, q) ==
  IF ~WellFramed(m) \/ Tag(m, at) # 1 \/ B(m, at + 1) # 3 THEN Result(Fatal, 0, "none", 0, <<>>)
  ELSE IF code \notin DOMAIN Commands THEN Result(BeyondMe, number, "none", 0, <<>>)
  ELSE DecodeAs(m, at, number, Commands[code], q, KindOf(Commands[code], q))

\* The bytes from the details on are tag, length, number, kind and qualifier.
Decode(m) ==
  LET at == Details(m)
  IN DecodeAt(m, at, B(m, at + 2), B(m, at + 3), B(m, at + 4))

\* The static b_comprehensive: once a card has flagged the details of a command
\* as required, all that is encoded later is flagged too.
Comprehensive(before, m) == before \/ (WellFramed(m) /\ Required(m, Details(m)))
=============================================================================
