------------------------------- MODULE MCSat -------------------------------
(* The codec of the card with some objects of each kind and what they mean; *)
(* and, while no command is on its way, texts.                             *)
EXTENDS Sat, Texts

One(s, v) == [each |-> <<s>>, value |-> v]
Same(s) == One(s, s)
Many(n, b) == [i \in 1..n |-> b]

Chars(t) == [format |-> "8bit", class |-> {}, compressed |-> FALSE, text |-> t]
Letters == <<104, 101, 108, 108, 111, 32, 121, 111>>
Wide == <<4, 31, 4, 64, 4, 56>>

MCSamples == [
  text |-> <<One(<<4, 72, 105>>, Chars(<<72, 105>>)),
             One(<<0>> \o PackGsm7(Letters), Chars(Letters)),
             One(<<25>> \o Wide, [Chars(Wide) EXCEPT !.format = "ucs2", !.class = {1}])>>,
  alpha |-> <<One(<<72, 111>>, [format |-> "8bit", text |-> <<72, 111>>]),
              One(<<128>> \o Wide, [format |-> "ucs2", text |-> <<128>> \o Wide]),
              One(<<>>, [format |-> "unset", text |-> <<>>])>>,
  address |-> <<One(<<145, 33, 67>>, [plan |-> <<1, 1>>, number |-> <<1, 2, 3, 4>>]),
                One(<<129, 33, 243>>, [plan |-> <<0, 1>>, number |-> <<1, 2, 3>>]),
                One(<<161, 186>>, [plan |-> <<2, 1>>, number |-> <<10, 11>>])>>,
  subaddress |-> <<Same(<<128, 80>>), Same(Many(30, 1))>>,
  ccp |-> <<Same(<<2, 3>>)>>,
  duration |-> <<Same(<<1, 5>>), Same(<<0, 1>>), Same(<<2, 10>>)>>,
  icon |-> <<Same(<<0, 3>>), Same(<<1, 7>>)>>,
  immediate |-> <<One(<<>>, TRUE)>>,
  tone |-> <<One(<<1>>, 1), One(<<16>>, 16), One(<<71>>, 71)>>,
  response_length |-> <<Same(<<1, 8>>), Same(<<0, 255>>), Same(<<4, 4>>)>>,
  items |-> <<[each |-> <<<<1, 97>>, <<2, 98, 99>>>>,
               value |-> <<[id |-> 1, text |-> <<97>>], [id |-> 2, text |-> <<98, 99>>]>>],
              [each |-> <<<<7, 97>>>>, value |-> <<[id |-> 7, text |-> <<97>>]>>]>>,
  item_identifier |-> <<One(<<2>>, 2)>>,
  next_action |-> <<Same(<<19, 16>>)>>,
  icon_list |-> <<One(<<0, 1, 2>>, [qualifier |-> 0, ids |-> <<1, 2>>]),
                  One(<<1, 9>>, [qualifier |-> 1, ids |-> <<9>>])>>,
  tpdu |-> <<Same(<<1, 0, 2, 145>>), Same(Many(140, 85))>>,
  ss |-> <<One(<<255, 33, 67, 101, 135>>,
               [plan |-> <<0, 15>>, number |-> [digits |-> <<1, 2, 3, 4, 5, 6, 7, 8>>, length |-> 8]])>>,
  ussd |-> <<One(<<15, 170, 24>>, [format |-> "sms", text |-> <<170, 24>>]),
             One(<<8>> \o Wide, [format |-> "ucs2", text |-> Wide])>>,
  event_list |-> <<One(<<5, 7>>, [list |-> <<5, 7>>, count |-> 2]),
                   One(<<0, 1, 2, 3, 4, 8, 9, 10, 11>>,
                       [list |-> <<0, 1, 2, 3, 4, 8, 9, 10, 11>>, count |-> 9]),
                   One(<<>>, [list |-> <<>>, count |-> 0])>>,
  dtmf |-> <<One(<<33, 67, 101, 135>>, [digits |-> <<1, 2, 3, 4, 5, 6, 7, 8>>, length |-> 8])>>,
  language |-> <<One(<<101, 110>>, "english"), One(<<102, 114>>, "french"), One(<<105, 116>>, "italian")>>,
  browser_id |-> <<One(<<0>>, 0), One(<<3>>, 3)>>,
  url |-> <<Same(<<104, 116>>), Same(Many(129, 97)), Same(<<>>)>>,
  bearers |-> <<One(<<3, 1>>, [count |-> 2, list |-> <<3, 1>>])>>,
  files |-> <<[each |-> <<<<63, 0>>>>, value |-> <<<<63, 0>>>>],
              [each |-> <<<<1>>, <<2>>>>, value |-> <<<<1>>, <<2>>>>]>>,
  csd |-> <<Same(<<1, 7, 0, 1>>)>>,
  gprs |-> <<Same(<<2, 3, 4, 3, 4, 31, 2>>)>>,
  default |-> <<Same(<<3>>)>>,
  buffer_size |-> <<Same(<<5, 220>>)>>,
  other_address |-> <<One(<<33, 10, 0, 0, 1>>, [type |-> "IPv4", text |-> <<10, 0, 0, 1>>])>>,
  interface |-> <<One(<<2, 31, 144>>, [protocol |-> 2, port |-> 8080])>>,
  network_name |-> <<One(<<3, 119, 101, 98>>, [length |-> 4, name |-> <<119, 101, 98>>])>>,
  channel_data |-> <<Same(<<1, 2>>), Same(Many(140, 7)), Same(<<>>)>>,
  channel_data_length |-> <<One(<<200>>, 200)>>]

MCQualifiers == [
  display_text |-> {0, 1, 128, 129}, get_inkey |-> {0, 1, 2, 4, 8, 128}, get_input |-> {0, 1, 2, 4, 8, 143},
  more_time |-> {0}, play_tone |-> {0, 1}, refresh |-> {0, 3, 4}, setup_menu |-> {0, 1, 128},
  select_item |-> {0, 1, 3, 4, 128}, send_sms |-> {0, 1}, send_ss |-> {0}, send_ussd |-> {0},
  setup_call |-> 0..5, provide_local_info |-> {0, 1, 3, 4, 8}, setup_event_list |-> {0},
  setup_idle_mode_text |-> {0}, send_dtmf |-> {0}, language_notification |-> {0, 1},
  launch_browser |-> {0, 2, 3, 5}, open_channel |-> {0, 1, 3, 7}, close_channel |-> {0},
  receive_data |-> {0}, send_data |-> {0, 1}, get_channel_status |-> {0}]

Problems == [me |-> 1, cc |-> 1, ss |-> 8, ussd |-> 71, network |-> 129, browser |-> 2, bip |-> 3]

Brief == [text |-> Chars(<<72, 105>>), duration |-> <<1, 5>>, item |-> 3,
          date |-> <<18, 1, 33, 67, 32, 16, 64>>, language |-> "english",
          status |-> [active |-> TRUE, channel |-> 1, info |-> 0], length |-> 20, data |-> <<1, 2, 3>>,
          bearer |-> <<3>>, size |-> <<5, 220>>, buffer |-> 0, problem |-> Problems]

Long == [Brief EXCEPT !.text = [Chars(Many(130, 97)) EXCEPT !.format = "ucs2", !.class = {3}],
                      !.data = Many(130, 1), !.language = "polish", !.buffer = 200, !.bearer = <<1, 7, 0, 1>>]

\* The texts at which the length field gets longer, or too long.
Sized(n) == [Brief EXCEPT !.text = Chars(Many(n, 97)), !.data = Many(n, 7)]

MCReplies == {Brief, Long} \cup {Sized(n) : n \in {126, 127, 128, 254, 255}}

MCEnvelopes ==
  {[menu |-> TRUE, devices |-> <<1, 129>>, item |-> 5, help |-> h] : h \in BOOLEAN}
  \cup {[menu |-> FALSE, devices |-> <<2, 129>>, event |-> e, language |-> "german", cause |-> 0,
         status |-> Brief.status, length |-> 9, buffer |-> 0] : e \in {4, 5, 7, 8, 9, 10}}

\* Words, numbers, strings and lists, with each other's marks inside.
MCWords == {<<>>, <<"a">>, <<"-", "1">>, <<"a", " ", "(">>, <<"b", ")">>, <<Quote, Quote>>,
            <<Quote, "a", ",", " ", "(", Quote>>, <<Quote, ")", ":", Quote>>,
            <<"(", "1", ",", "2", ")">>, <<"(", ")">>}

AllInit == Init /\ TextInit

AllNext ==
  \/ textVars = <<<<>>, <<>>>> /\ Next /\ UNCHANGED textVars
  \/ phase = "idle" /\ ~flagged /\ TextNext /\ UNCHANGED vars

AllSpec == AllInit /\ [][AllNext]_<<vars, textVars>>
=============================================================================
