--------------------------------- MODULE Mux ---------------------------------
(***************************************************************************)
(* The multiplexer (src/mux.c): the physical HAL carries one channel per   *)
(* group of core objects; while it is open every object uses the logical   *)
(* HAL of its channel, and the physical HAL hands what it reads to the     *)
(* decoder (src/hal.c, mode TRANSPARENT).                                  *)
(*                                                                         *)
(* The state of the process is the record `h`, because one read may hold   *)
(* several frames, each of which may close everything: Receive takes them  *)
(* one after the other.  The modem is external: it answers the frames of   *)
(* this side in order, and now and then sends one of its own.              *)
(* Bounds: MaxSessions calls of tcore_cmux_init; MaxEvents of the things   *)
(* that may happen at any time: a frame that the modem is not asked for or *)
(* a refusal, a call of a plugin, a read that does not take all there is,  *)
(* one bit wrong on the line (once).                                       *)
(***************************************************************************)
EXTENDS MuxFrame, Filters, FiniteSets

CONSTANTS
  ObjectNames,  \* cmux_channel_core_object: channel -> names; channel 0 has none
  Owner,        \* a callback's core object
  Early,        \* the callbacks that are there from the start
  Plugs,        \* the sets of core objects that a plugin may have
  Payloads,     \* what a channel carries: a frame fits into mux_buffer
  Flips,        \* the bits of a byte that the line may flip
  Reads,        \* sizes of a read that leaves bytes behind
  MaxSessions, MaxEvents

Channels == DOMAIN ObjectNames
Objects == UNION {ToSet(ObjectNames[c]) : c \in Channels}
Cbs == DOMAIN Owner
ChannelOf(o) == CHOOSE c \in Channels : o \in ToSet(ObjectNames[c])

ASSUME MuxAssumption ==
  /\ Channels = 0..(Cardinality(Channels) - 1) /\ Cardinality(Channels) \in 1..8
  /\ ObjectNames[0] = <<>>
  /\ \A c \in Channels : ObjectNames[c] \in Seq(Objects)
  /\ "modem" \in Objects /\ \A P \in Plugs : P \subseteq Objects
  /\ Early \subseteq Cbs /\ \A k \in Cbs : Owner[k] \in Objects
  /\ Payloads \subseteq Seq(0..255) /\ \A d \in Payloads : Len(d) + 7 <= 16 * 256
  /\ Flips \subseteq {1, 2, 4, 8, 16, 32, 64, 128} /\ Reads \subseteq Nat \ {0}
  /\ MaxSessions \in Nat /\ MaxEvents \in Nat

VARIABLES
  present,  \* the core objects of the plugin
  h,        \* this process, see HostInit
  session,  \* calls of tcore_cmux_init
  up,       \* the frames that this side has sent, for the modem
  line,     \* the bytes that the modem has sent, for a read
  on,       \* the modem's view: the channels that are established
  agreed,   \* history: the channels that it acknowledged in this session
  sent,     \* history: what the modem sent in each channel
  said,     \* history: the kinds of frames that it sent
  odd,      \* history: what was not plain sailing
  budget    \* events that may still happen

vars == <<present, h, session, up, line, on, agreed, sent,
          said, odd, budget>>

Phy == <<0, 0>>
Logical(s, c) == <<s, c>>
HalMode(s, hal) == IF hal = Phy THEN s.mode ELSE "AT"

(* open: g_mux_obj_ptr; chan: the states; objects, modem: channel_info[].co *)
(* and modem_co; count, dec: the static variables of the functions; mode:  *)
(* the physical HAL's; hals: those allocated; hal: co->hal; cbs: the       *)
(* callbacks of the objects; reg: those registered with the AT channel of  *)
(* a HAL; out: frames sent in this step; the rest is history.              *)
HostInit ==
  LET known == {k \in Early : Owner[k] \in present}
  IN [open |-> FALSE, chan |-> [c \in Channels |-> "CLOSED"],
      count |-> 0, dec |-> Hunting, mode |-> "AT",
      hals |-> {Phy}, hal |-> [o \in Objects |-> Phy],
      cbs |-> known, reg |-> {Phy} \X known, out |-> <<>>, up |-> FALSE,
      got |-> [c \in Channels |-> <<>>], acted |-> {}, whole |-> TRUE,
      meddled |-> {}, fault |-> {}]

Init ==
  /\ present \in Plugs
  /\ h = HostInit
  /\ session = 0 /\ up = <<>> /\ line = <<>> /\ on = {} /\ agreed = {}
  /\ sent = [c \in Channels |-> <<>>] /\ said = {} /\ odd = {}
  /\ budget = MaxEvents

Fault(s, f) == [s EXCEPT !.fault = @ \cup {f}]
Out(s, c, type, pf) == [s EXCEPT !.out = Append(@, Encode(c, type, pf, <<>>))]
CbsOf(s, os) == {k \in s.cbs : Owner[k] \in os}

(* tcore_object_set_hal for the objects that `to` maps to their next HAL:  *)
(* the callbacks move only between HALs that are in AT mode.               *)
SetHal(s, to) ==
  LET os == DOMAIN to
      left == {<<s.hal[Owner[k]], k>> : k \in {j \in CbsOf(s, os) :
                                               HalMode(s, s.hal[Owner[j]]) = "AT"}}
      joined == {<<to[Owner[k]], k>> : k \in {j \in CbsOf(s, os) :
                                              HalMode(s, to[Owner[j]]) = "AT"}}
      moved == [s EXCEPT !.hal = [o \in Objects |-> IF o \in os THEN to[o] ELSE @[o]],
                         !.reg = (@ \ left) \cup joined]
  IN IF \A o \in os : s.hal[o] \in s.hals THEN moved ELSE Fault(moved, "freed")

-----------------------------------------------------------------------------
(* Opening: the mode changes first, then every channel is initialised,     *)
(* asked for, and linked to a new HAL with the objects that there are.     *)
Opened(s, n) ==
  [s EXCEPT !.open = TRUE, !.mode = "TRANSPARENT", !.up = FALSE,
            !.chan = [c \in Channels |-> "SABM_SEND_WAITING_FOR_UA"],
            !.hals = @ \cup {Logical(n, c) : c \in Channels},
            !.out = [i \in 1..Cardinality(Channels) |-> Encode(i - 1, SABM, Poll, <<>>)]]

Linked(s, n) == SetHal(s, [o \in present |-> Logical(n, ChannelOf(o))])

StartLate(s, n) == Opened(Linked(s, n), n)

Start(s, n) == Linked(Opened(s, n), n)

-----------------------------------------------------------------------------
(* Closing: the channels that are not closed are told, the objects go back *)
(* to the physical HAL - in each channel up to the first that is missing - *)
(* and everything is freed, with no wait for the modem's answers.          *)
Told(s) ==
  LET open == Keep([i \in 1..Cardinality(Channels) |-> i - 1],
                   {c \in Channels : s.chan[c] # "CLOSED"})
  IN [s EXCEPT !.out = @ \o [i \in DOMAIN open |-> Encode(open[i], DISC, Poll, <<>>)]]

RevertedHeads ==
  present \cap {Head(ObjectNames[c]) : c \in Channels \ {0}}

Reverted ==
  UNION {{ObjectNames[c][i] : i \in {j \in DOMAIN ObjectNames[c] :
            \A k \in 1..j : ObjectNames[c][k] \in present}} : c \in Channels}

Close(s) ==
  LET back == SetHal(Told(s), [o \in Reverted |-> Phy])
  IN [back EXCEPT !.open = FALSE, !.chan = [c \in Channels |-> "CLOSED"],
                  !.mode = "AT", !.hals = {Phy},
                  !.reg = {r \in @ : r[1] = Phy}]

-----------------------------------------------------------------------------
(* The handlers of a frame, by its kind.                                   *)
OnData(s, c, data) ==
  IF c # 0 THEN [s EXCEPT !.got[c] = Append(@, data)]
  ELSE IF data # <<>> /\ data[1] = CLD THEN Close(s) ELSE s

(* The eighth acknowledgement counted announces that the mux is up.        *)
OnUA(s, c) ==
  IF s.chan[c] # "SABM_SEND_WAITING_FOR_UA" THEN s
  ELSE LET all == s.count + 1 = Cardinality(Channels)
           there == "modem" \in present
       IN [s EXCEPT !.chan[c] = "ESTABLISHED",
                    !.count = IF all /\ there THEN 0 ELSE @ + 1,
                    !.up = @ \/ (all /\ there)]

OnDMCounts(s, c) == [OnUA(s, c) EXCEPT !.chan[c] = "CLOSED"]

OnDM(s, c) == [s EXCEPT !.chan[c] = "CLOSED"]

OnDISC(s, c, pf) ==
  IF pf = 0 THEN s
  ELSE LET answered == Out(s, c, IF s.chan[c] = "CLOSED" THEN DM ELSE UA, Poll)
       IN IF c = 0 THEN Close(answered) ELSE answered

OnSABM(s, c, pf) ==
  IF pf = 0 THEN s ELSE [Out(s, c, UA, Poll) EXCEPT !.chan[c] = "ESTABLISHED"]

ProcessChannelData(s, f) ==
  LET c == f.channel
      t == [s EXCEPT !.acted = @ \cup {<<c, f.type, f.pf>>}]
  IN CASE f.type \in {UI, UIH} -> OnData(t, c, f.data)
       [] f.type = UA          -> OnUA(t, c)
       [] f.type = DM          -> OnDM(t, c)
       [] f.type = DISC        -> OnDISC(t, c, f.pf)
       [] f.type = SABM        -> OnSABM(t, c, f.pf)
       [] OTHER                -> t

ProcessFrame(s, frame) ==
  LET f == Parse(frame)
  IN IF ~s.open THEN Fault(s, "null")
     ELSE IF f.channel \in Channels /\ f.good THEN ProcessChannelData(s, f) ELSE s

(* A step of the decoder, and the frame it may complete.                   *)
Take(x) ==
  LET d == Hunt(x.s.dec, x.rest)
      t == [x.s EXCEPT !.dec = d.dec]
  IN IF x.rest = <<>> \/ x.s.fault # {} THEN x
     ELSE [s |-> IF d.frame = <<>> THEN t ELSE ProcessFrame(t, d.frame), rest |-> d.rest]

(* Two steps take at least one byte.                                       *)
Receive(s, bs) ==
  LET turn[n \in 0..(2 * Len(bs))] ==
        IF n = 0 THEN [s |-> s, rest |-> bs] ELSE Take(turn[n - 1])
  IN turn[2 * Len(bs)].s

-----------------------------------------------------------------------------
(* What this process does: `s` is its next state, and what it sends goes   *)
(* to the modem.  A fault ends it.                                         *)
Do(s) == /\ h.fault = {}
         /\ h' = [s EXCEPT !.out = <<>>]
         /\ up' = up \o s.out

(* What a session may inherit from the last one: frames on their way, a    *)
(* count of acknowledgements, a frame that is half decoded or the rest of  *)
(* one that was read in AT mode.                                           *)
Inherited ==
  {w \in {"stale", "count", "undecoded"} :
     \/ w = "stale" /\ (line # <<>> \/ up # <<>>)
     \/ w = "count" /\ h.count # 0
     \/ w = "undecoded" /\ \/ h.dec.at \notin {"FLAG", "ADDR"}
                           \/ line # <<>> /\ ~h.whole}

(* A plugin opens the mux, when it is not open.                            *)
CmuxInit ==
  /\ ~h.open /\ session < MaxSessions
  /\ session' = session + 1
  /\ Do(Start(h, session'))
  /\ agreed' = {} /\ odd' = odd \cup Inherited
  /\ UNCHANGED <<present, line, on, sent, said, budget>>

CmuxClose ==
  /\ h.open /\ budget > 0
  /\ budget' = budget - 1
  /\ Do(Close(h))
  /\ UNCHANGED <<present, session, line, on, agreed, sent, said, odd>>

(* A read of the physical HAL: in AT mode the bytes are for its AT channel.*)
Read(n) ==
  /\ line' = After(line, n)
  /\ Do(IF h.mode = "TRANSPARENT" THEN Receive(h, SubSeq(line, 1, n))
        ELSE [h EXCEPT !.whole = FALSE])
  /\ UNCHANGED <<present, session, on, agreed, sent, said, odd>>

ReadAll == line # <<>> /\ Read(Len(line)) /\ UNCHANGED budget

ReadPart ==
  /\ budget > 0 /\ budget' = budget - 1
  /\ \E n \in {m \in Reads : m < Len(line)} : Read(n)

(* An object sends in its channel: tcore_cmux_hal_send of its HAL.         *)
HalSend(o) ==
  /\ budget > 0 /\ h.hal[o] # Phy
  /\ budget' = budget - 1
  /\ Do(IF h.hal[o] \in h.hals
        THEN [h EXCEPT !.out = <<Encode(h.hal[o][2], UIH, 0, <<65>>)>>]
        ELSE Fault(h, "freed"))
  /\ UNCHANGED <<present, session, line, on, agreed, sent, said, odd>>

(* tcore_object_add_callback and _del_callback: with the AT channel of the *)
(* object's HAL, when that is in AT mode.                                  *)
Meddle(k, s) ==
  /\ budget > 0 /\ Owner[k] \in present /\ h.hal[Owner[k]] \in h.hals
  /\ budget' = budget - 1
  /\ Do([s EXCEPT !.meddled = IF h.open THEN @ \cup {k} ELSE @])
  /\ UNCHANGED <<present, session, line, on, agreed, sent, said, odd>>

Mirrored(k) == IF HalMode(h, h.hal[Owner[k]]) = "AT" THEN {<<h.hal[Owner[k]], k>>} ELSE {}

AddCallback(k) ==
  k \notin h.cbs /\ k \notin Early
  /\ Meddle(k, [h EXCEPT !.cbs = @ \cup {k}, !.reg = @ \cup Mirrored(k)])

DelCallback(k) ==
  k \in h.cbs /\ Meddle(k, [h EXCEPT !.cbs = @ \ {k}, !.reg = @ \ Mirrored(k)])

-----------------------------------------------------------------------------
(* The modem.  It serves no channel before channel 0 is established, and   *)
(* leaves the mux when that is disconnected.                               *)
Damage(i) == IF i = 4 THEN {"garbled", "resized"} ELSE {"garbled"}

(* A frame leaves whole, or with one bit of its header or FCS wrong: what  *)
(* is damaged counts as not said.                                          *)
Say(c, type, pf, data, why, cost) ==
  LET frame == Encode(c, type, pf, data)
  IN \/ /\ budget >= cost /\ budget' = budget - cost
        /\ line' = line \o frame /\ odd' = odd \cup why
        /\ said' = said \cup {<<c, type, pf>>}
        /\ sent' = IF type = UIH /\ c # 0 THEN [sent EXCEPT ![c] = Append(@, data)] ELSE sent
     \/ /\ budget > cost /\ budget' = budget - cost - 1
        /\ "garbled" \notin odd /\ UNCHANGED <<said, sent>>
        /\ \E i \in {2, 3, 4, Len(frame) - 1}, b \in Flips :
             /\ line' = line \o [frame EXCEPT ![i] = ByteXor(@, b)]
             /\ odd' = odd \cup why \cup Damage(i)

Left(c) == IF c = 0 THEN {} ELSE on \ {c}

ModemAnswer ==
  /\ up # <<>>
  /\ up' = Tail(up)
  /\ LET f == Parse(Head(up))
         c == f.channel
         serves == c = 0 \/ 0 \in on
     IN \/ /\ f.type = SABM /\ serves
           /\ Say(c, UA, Poll, <<>>, {}, 0)
           /\ on' = on \cup {c} /\ agreed' = agreed \cup {c}
        \/ /\ f.type = SABM /\ serves
           /\ Say(c, DM, Poll, <<>>, {"refused"}, 1)
           /\ on' = Left(c) /\ UNCHANGED agreed
        \/ /\ f.type = DISC /\ serves
           /\ Say(c, IF c \in on THEN UA ELSE DM, Poll, <<>>, {}, 0)
           /\ on' = Left(c) /\ UNCHANGED agreed
        \/ /\ f.type \notin {SABM, DISC} \/ ~serves
           /\ UNCHANGED <<line, on, agreed, sent, said, odd, budget>>
  /\ UNCHANGED <<present, h, session>>

(* What it sends on its own: data, a status, the end of a channel or of    *)
(* all of them, a request to establish a channel; and, after the end, data *)
(* that comes too late.                                                    *)
ModemSend ==
  /\ budget > 0
  /\ \/ \E c \in on \ {0}, d \in Payloads :
          Say(c, UIH, 0, d, {}, 1) /\ on' = on
     \/ 0 \in on /\ Say(0, UIH, 0, <<MSC, 1>>, {}, 1) /\ on' = on
     \/ 0 \in on /\ Say(0, UIH, 0, <<CLD, 1>>, {"closed"}, 1) /\ on' = {}
     \/ \E c \in on, pf \in {0, Poll} :
          /\ Say(c, DISC, pf, <<>>, IF pf = Poll /\ c = 0 THEN {"closed"} ELSE {}, 1)
          /\ on' = IF pf = Poll THEN Left(c) ELSE on
     \/ \E c \in Channels \ {0}, pf \in {0, Poll} :
          /\ 0 \in on /\ Say(c, SABM, pf, <<>>, IF pf = Poll THEN {"asked"} ELSE {}, 1)
          /\ on' = IF pf = Poll THEN on \cup {c} ELSE on
     \/ /\ 0 \notin on /\ "closed" \in odd
        /\ \E c \in Channels \ {0} : Say(c, UIH, 0, <<65>>, {"late"}, 1)
        /\ on' = on
  /\ UNCHANGED <<present, h, session, up, agreed>>

Next ==
  \/ CmuxInit \/ CmuxClose \/ ReadAll \/ ReadPart \/ ModemAnswer \/ ModemSend
  \/ \E o \in Objects : HalSend(o)
  \/ \E k \in Cbs : AddCallback(k) \/ DelCallback(k)

(* The main loop reads all there is in the end, and the modem answers.     *)
(* Drained is enabled when ReadAll is, Answered when ModemAnswer is, and   *)
(* no other action takes a step of them.                                   *)
Drained == line # <<>> /\ h.fault = {} /\ line' = <<>>
Answered == up # <<>> /\ up' = Tail(up)

Fairness == WF_line(Drained) /\ WF_up(Answered)

Spec == Init /\ [][Next]_vars /\ Fairness

-----------------------------------------------------------------------------
ChannelStates == {"CLOSED", "SABM_SEND_WAITING_FOR_UA", "ESTABLISHED"}

TypeOK ==
  /\ h.open \in BOOLEAN /\ h.up \in BOOLEAN /\ h.whole \in BOOLEAN
  /\ h.chan \in [Channels -> ChannelStates] /\ h.count \in Nat
  /\ h.mode = IF h.open THEN "TRANSPARENT" ELSE "AT"
  /\ h.hals = {Phy} \cup IF h.open THEN {Logical(session, c) : c \in Channels} ELSE {}
  /\ h.reg \subseteq h.hals \X Cbs
  /\ h.cbs \subseteq Cbs /\ h.out = <<>> /\ h.fault \subseteq {"freed", "null"}
  /\ DOMAIN h.hal = Objects

(* The decoder knows where frames begin: no length was damaged on the way, *)
(* and no session began in the middle of a frame.  After either it takes   *)
(* for a frame what may be a payload.                                      *)
InStep == odd \cap {"resized", "undecoded"} = {}

(* However the reads cut the stream, what the modem sends in a channel     *)
(* reaches the channel's logical HAL, all of it and in order: the decoder  *)
(* loses no frame and joins no two, a payload with a flag in it and one of *)
(* more than 127 bytes included, and a damaged frame costs only itself.    *)
(* (mux.c:893-1012)                                                        *)
Delivered ==
  h.whole /\ h.fault = {} /\ InStep =>
    \A c \in Channels \ {0} :
      /\ IsPrefix(h.got[c], sent[c])
      /\ line = <<>> => h.got[c] = sent[c]

(* A frame whose address, control or FCS was changed on the way is not     *)
(* acted upon: no channel opens or closes by it, nor by what a payload     *)
(* holds.  (mux.c:864-876)                                                 *)
OnlyWhatWasSaid == InStep => h.acted \subseteq said

(* CMUX-UP says that the modem has acknowledged every channel in this      *)
(* session, if the session inherits no count and no answer of the last.    *)
(* (mux.c:683-706)                                                         *)
UpMeansAnswered ==
  h.up /\ InStep /\ odd \cap {"stale", "count"} = {} => agreed = Channels

(* The objects of a channel that the plugin has come before those it lacks. *)
Gapless ==
  \A c \in Channels : \A i \in DOMAIN ObjectNames[c] :
    ObjectNames[c][i] \in present => \A j \in 1..i : ObjectNames[c][j] \in present

(* After the mux is closed - by the plugin, or by the modem in the middle  *)
(* of a read - nothing of it is used any more: no core object keeps a      *)
(* logical HAL that is freed, unless a channel's objects have one that the *)
(* plugin lacks (mux.c:1193-1235), and the decoder, which goes on with the *)
(* rest of the read, meets no frame there, unless the modem talks after    *)
(* its own end or its end crosses a new session (mux.c:829, 1006).         *)
NothingFreedInUse ==
  /\ Gapless => "freed" \notin h.fault /\ \A o \in present : h.hal[o] \in h.hals
  /\ "null" \in h.fault /\ InStep => odd \cap {"late", "stale"} # {}

(* The events of an object are heard on the HAL it uses, before, during    *)
(* and after a session, and no AT channel keeps a callback that is gone -  *)
(* except those that a plugin adds or deletes while the mux is open, since *)
(* the physical HAL's table does not follow.  (mux.c:1139, 1221, 1238 with *)
(* core_object.c:304-338)                                                  *)
CallbacksFollow ==
  /\ TypeOK
  /\ \A k \in h.cbs \ h.meddled :
       LET hal == h.hal[Owner[k]]
       IN hal \in h.hals /\ HalMode(h, hal) = "AT" => <<hal, k>> \in h.reg
  /\ \A r \in h.reg : r[2] \in h.cbs \/ (r[1] = Phy /\ r[2] \in h.meddled)

(* A session comes up, if the modem accepts every channel and asks for     *)
(* none itself, and nothing is inherited.  (mux.c:683-706)                 *)
ComesUp ==
  h.open ~>
    \/ h.up \/ ~h.open \/ "modem" \notin present
    \/ odd \ {"closed", "late"} # {}
=============================================================================
