# TLA+ specifications of libtcore

libtcore is the core library of the Tizen telephony daemon.  It owns no thread:
everything runs in one GLib main loop, in callbacks of idle sources, timers and
I/O of the plugins.  Plugins (modem drivers, D-Bus front ends, storage) call the
library, and the library calls them back, often from the middle of its own
functions.  What is hard in it is therefore not the memory model but the order
of events (answers, timers, idle sources), re-entrant calls, and lists that
change under the function that walks them.

All paths below are relative to the repository.  C sources are in `src/`, public
headers in `include/`.

## 1. Inventory

| Part | Source | State | Operations | Talks to |
|---|---|---|---|---|
| Request queue | `queue.c` | `TcoreQueue` (GQueue of pendings, `next_id`), `TcorePending` (id, priority, callbacks, `flag_sent`, timer) | push, pop, pop by id / pending, next pending, search, cancel by command, timeout | HAL (dispatch), plugins (on_send, on_response, on_timeout) |
| HAL | `hal.c` | queue, mode (AT, CUSTOM, TRANSPARENT), receive callbacks, send hooks, power state | send request, force, send data, dispatch response, add/remove callbacks and hooks | queue, AT, mux, the modem plugin's `send`/`power` |
| AT channel | `at.c` | receive buffer, current request, response being built, table of unsolicited notifications, two-line PDU state | write buffer, process lines, set request, add/remove notification, tokenizer | HAL, queue, core objects |
| Mux | `mux.c` | eight channels with state and logical HAL, frame decoder | init, encode, receive, channel state machine, close | physical HAL, logical HALs, core objects |
| Core object | `core_object.c` | callbacks by event, HAL, dispatcher, free and clone hooks | new, clone, free, set HAL, add/del/emit callback, dispatch | AT notifications, plugin, `co_*.c` |
| PS and contexts | `co_ps.c`, `co_context.c` | service state, table of context ids, list of contexts; per context state, id, APN, role | add/remove, assign/clear id, activate, deactivate | core object, server notifications |
| Call | `co_call.c` | list of call objects (id, status, direction), operations | new, free, find, dispatch, informations | core object |
| Network | `co_network.c` | registration data, operator table of 1000 entries | setters, operator add/find, dispatch | core object |
| Other objects | `co_modem.c co_sms.c co_gps.c co_sim.c co_sat.c co_ss.c co_sap.c co_phonebook.c` | object state and operation tables | dispatch by command; SIM and SAT decode TLV data | core object |
| Server | `server.c` | plugins by priority, communicators, HALs, storages, hooks for requests and notifications | add/find, dispatch request, send notification, hooks | everything |
| User request | `user_request.c` | reference count, command, data, response and free hook | new, ref, unref, free, send response | communicator |
| Plugin, communicator, udev | `plugin.c communicator.c udev.c` | property tables, operation tables, callback lists | forwarding | server, core objects |
| Storage | `storage.c` | key callbacks in a hash of lists | set/remove key callback, dispatch of changes | storage plugin |
| Codecs | `util.c` | none | hex, packed 7-bit, BCD, UCS2 conversions | SMS, SIM, SAT |

### What makes each part correct

* Queue and HAL: requests go out in the promised order; each is answered at most
  once and with its own answer; nothing freed is touched; nothing queued is
  forgotten; each request ends.
* AT channel: a line is either part of the response of the request that is out or
  an unsolicited message, never both nor neither; a final response ends exactly
  one request; callbacks may remove notifications while they are delivered.
* Mux: a channel carries data only when established; closing releases everything
  once; frames split over several reads are put together as sent.
* Core object: callbacks registered before a HAL is set are registered with it, and
  leave the old HAL when it is replaced; a deleted callback is not called.
* PS: a context id belongs to at most one PDN connection, contexts that share an
  APN share it, and an id is free again when its contexts are gone.
* Server and user request: a request reaches one handler; hooks run in order and may
  stop it; a user request is freed once.
* SAT: a command is decoded as the card meant it, a damaged one is refused with a reason,
  and what is answered can be read by the card.
* Call: ids in use are distinct.  Storage: a key's callbacks are each called once per
  change.  Codecs: decoding inverts encoding.

The hazards, each at its line with the properties aimed at it, are in
`PROJECT.json`.

## 2. Modules

| Module | Models | Kind |
|---|---|---|
| `RequestQueue` | ordering rules of `queue.c` | predicates on sequences |
| `HalRequest` | life of the requests of one HAL (`queue.c`, `hal.c`, the response path of `at.c`) | state machine |
| `SerialChannel` | what an AT HAL promises for plain requests | abstract specification |
| `AtBuffer` | the receive buffer of an AT channel and the loop that cuts it into lines (`at.c`) | state machine |
| `ByteStream` | what that buffer promises | abstract specification |
| `AtResponse` | which lines belong to a response and which are events (`at.c`) | state machine |
| `CoreEvents` | core objects, their callbacks, and the notification tables of the AT channels (`core_object.c`, `at.c`) | state machine |
| `Mux`, over `MuxFrame` | sessions, channels and frames of the multiplexer (`mux.c`, with what it does to `hal.c` and `core_object.c`) | state machine, over operators |
| `Server`, over `HookLists` and `Dispatchers` | plugins, hooks, and the way of a user request (`server.c`, `plugin.c`, `communicator.c`, `user_request.c`, the `_dispatcher` of each `co_*.c`) | state machine, composed of a state machine and tables |
| `PsContext` | context ids and shared connections of the packet service (`co_ps.c`, `co_context.c`) | state machine |
| `Sat`, over `SatResponse`, `SatCommand`, `SatTlv`, `Codings` | a card and the codec of its commands (`co_sat.c`, `util.c`) | state machine, over operators |
| `Texts`, over `Codings`, `AtTokens` | texts through the stateless conversions (`util.c`, the tokenizer of `at.c`) | state machine, over operators |
| `Filters` | a list without some of its elements | operator |
| `SeqLemmas` | what filters, concatenations and orders on sequences do | proofs |
| `HalRequestProofs` | queue and HAL: orders, answers, memory, wakeups | proofs |
| `TextProofs` | receive buffer, and texts through the conversions | proofs |
| `AtResponseProofs`, `CoreEventsProofs` | sorting of lines, core objects | proofs |
| `ServerProofs`, `PsContextProofs`, `MuxProofs` | server and hooks, packet service, multiplexer | proofs |
| `MC...` | values of the constants, symmetry, and what is run side by side | for TLC |

### RequestQueue and HalRequest

`queue` is the `GQueue`; a pending is a model value whose fields are functions and
sets (`id`, `sent`, `listening` for a non-NULL `on_response`, `timer`, and `req`
for what the setters stored).  A queue rule is a predicate on a position, so a
step picks the position with `\E`: `PushIndex` (`_tcore_queue_push_head` and the
tail push), `NextIndex` (`tcore_queue_ref_next_pending`), `FirstIndex` (the
searches).

The library calls plugins from inside its functions.  `stack` holds the library
functions that are waiting for such a callback to return; while it is not empty
the main loop does not run, but the plugin may call the library again.  So
`_hal_idle_send` is two steps, `HalIdleSend` up to `on_send` and one of the
`ReturnSend...` actions after it, and so are `_on_pending_timeout`
(`Timeout`, `ReturnTimeout`), `tcore_hal_dispatch_response_data` (`Deliver` inside
`RespondCustom`, `RespondAt`, `ReturnTimeout` and `CancelStep`, then
`ReturnResponse`) and each turn of the cancel loop.  `CallFrom` says in which
callbacks the plugins call back.

The environment is external: the modem's answers (`wire`, `Receive`,
`LoseAnswer`) may be delayed, reordered (CUSTOM mode names the request by id),
repeated and lost.  In AT mode the answers come in the order of the requests, as
the interface carries no id.

Idealised: one HAL; a pending is used for one request and takes its id from the
queue's counter; the counter does not wrap; user requests are not followed; a
response is one final line (the lines of a response are the AT channel's).  When a
library function comes back to a freed pending the model stops, and
`NoUseAfterFree` says whether that can be reached.

### AtBuffer and ByteStream

The buffer is a sequence of bytes and the two positions are offsets into it, as in
`at.c`; `Write` shifts and doubles by the code's arithmetic, and one turn of the loop of
`tcore_at_process` is `ScanLine` or `ScanEnd`.  A byte is a member of a small alphabet:
text, the start of a final response, the prompt (two characters in the code, one here),
CR, LF and NUL.  What is done with a line (response or unsolicited message) is left out;
that a final response or the prompt of a request with a body ends the loop early, and
leaves bytes behind for the next read, is not.  `ByteStream` has no positions: bytes
arrive, and the first complete line is taken.  The refinement mapping is the unread
part of the buffer.

### PsContext

`cid` and `used` are the table `po->cid`, `state`, `id` and `apn` the fields of the
contexts that decisions depend on.  The searches are predicates: `Twin(c, s)` says
that `s` is the context `_ps_is_duplicated_apn` finds.  A call that is one transaction
on the table is one action; `tcore_ps_deactivate_contexts` is a walk, entry by entry and
context by context, because it reads list nodes that its own steps may have freed (what
it then finds next is either of the two things a build can produce).  `pdp` is the
modem's side, and `Established` and `Released` what a plugin does when the modem
reports, both external; the modem may end a connection at any time.  Assumed of plugins:
they set the APN of a context, and clear its id, only while it is deactivated; they
assign an id that is in use only to share it with a context of the same APN before it is
connected.  `ClearsShared` adds that they clear the id a context keeps after leaving a
shared connection; the run without it shows why they have to.

### AtResponse and CoreEvents

A line is only what the decisions of `tcore_at_process` look at: its prefix, whether
it begins with a digit, whether it ends a response; and, for the properties, what the
modem meant by it.  `ReadLine` is the switch on the type of the request with
`_emit_unsolicited_message` and its two-line state behind it.  The modem is external:
it sends the items and the end of a response, and events between them wherever the
interface can tell them apart (`Separable`): not while the request has no prefix to know
its lines by, nor, for an event with a PDU, before the number that a NUMERIC request asks
for, nor between the lines of a response with PDUs.

`CoreEvents` keeps the callback lists of the objects and the tables of the AT channels,
and what makes them agree: `AddCallback`, `DelCallback`, `SetHal`, `Clone`,
`FreeObject` with the calls they make into `at.c`.  A walk over a list is a variable,
so that a callback can call back in the middle of it; where the code goes on from a
link that was freed meanwhile, the step takes any of the outcomes a build can produce.
The functions of the callbacks are not kept: `DelCallback`, which deletes those of an event
that were registered with one function, deletes any that are there, one or several, from any
place of the list, also while it is walked.
`Careful` is a discipline that the code needs and does not check: a plugin does not
delete or move the callbacks of PDU events of an attached object (they stay in the old
channel, a hazard), frees an object only after its HAL was taken from it, and drops no
callback of an attached object in an emission of the object itself.

What a loop of the code does to a list or to a table is written in closed form, so that it
can be reasoned about: `Taken` and `Refused` are the callbacks that a channel accepts and
rejects when several are registered one after the other (the first one on a free name
decides whether it is that of a PDU), `AddNotifications` and `RemoveNotifications` the
table afterwards.  `Clone` copies the callbacks into fresh ones, and registers the copies.

### HookLists, Dispatchers and Server

Request hooks, notification hooks, send hooks and receive callbacks are lists with the
same code, and `HookLists` models the list, its walk and the loop that removes.
`Server` composes it with the rest of a request's way: `Dispatch` starts the walk of
the request hooks, `Stopped` and `Passed` are how it ends, `Ask` is one turn of the
loop over the objects of a plugin, which consults the tables of `Dispatchers`,
`Returned` is what the communicator does with the outcome.  The loop that removes, which
goes on behind the link that took the place of a removed one, is `Remainder`.  `ur[r].ref` is the count in
the code; `ur[r].holders` is a history of who holds the request.

### Mux and MuxFrame

`MuxFrame` is the encoder, the FCS and the decoder with its static state; frames are
real bytes, since what is modelled is how they are cut and damaged.  The process is one
record, `h`, because one read may hold several frames, each of which may close the mux:
`ReadAll` and `ReadPart` hand bytes to the decoder, which takes a step of its state machine
(`Take`) until nothing is left, with the frame that the step completes.  The
modem is external (`ModemAnswer`, `ModemSend`): it answers in order, may refuse, close,
ask for a channel itself and talk too late, and the line may flip a bit.  What it said is
history (`sent`, `said`); a damaged frame counts as not said.

The check sequence covers the header, the length with it, but the decoder uses the length
before it can check it (950-999).  When the length itself is damaged, or a session begins
in the middle of what the modem sends, the decoder takes what follows for a frame wherever
a flag stands in it, and a payload that holds a good frame is then acted upon.  `InStep`
says that neither has happened; the properties of what is decoded claim nothing without it.
The buffer of the decoder (895) holds 4096 bytes and is not checked: payloads fit into it
(`MuxAssumption`), and a damaged length that runs over its end is not modelled.

### Codings, Texts and Sat

`SatTlv` has one operator per object decoder, `SatCommand` describes the decoder of each
command as a list of steps for one interpreter, `SatResponse` is the encoders.  `Sat` is
the dialogue: the card sends a command by its grammar, possibly cut short, the codec
decodes it, the application answers, the codec encodes the answer.  The grammar leaves
out what the codec does not decode as it is sent (lines of `co_sat.c`):

* file lists: the length is read from the tag and the number of files from the length
  (1356), and files of applications are looked for among those of the master file (213);
* SS and USSD strings whose length is one byte (1091), and strings and DTMF digits that
  are not eight bytes, the size of a pointer (1115, 1764);
* default texts (2773), local links (2089), IPv6 addresses (2270), network names of
  several labels (2425), more than five bearers (1955);
* the icons of `get_input` (2791), `send_sms` (3423) and `send_dtmf` (3933), which are
  written over other fields, and icons of a wrong length (1623);
* a byte with the tag of the bearer description inside another object (2048);
* kinds of refresh above 4 and of calls above 5, which are refused (2982, 3593) before
  their qualifier and devices are kept.

What it does decode, otherwise than it is sent, it is sent: local information of another
type than the two known ones becomes RESERVED with success (3747), and a browser launched
in a reserved way (4047) likewise.  `answer` remembers what the application answered with.
Its texts have the lengths at which the length field grows (126 to 128 bytes, 254 and 255),
and two kinds of response are not what they should be.  `ResponseFits` names them and holds
for all others:

* `Overlong`: a text of 127 bytes makes 128 with its coding scheme, and this is written in
  one byte (5288), where 128 is not the length of anything (240); a text of 255 bytes or
  more is written with a second byte modulo 256;
* `NotHandled`: to the response about local information of another type, for which nothing
  is encoded, the length of the object before it is added again (6245): the card gets four
  bytes behind the result that nobody has written.

`CutIsNoticed` claims for a command that is cut short that no object has a value the card
did not give it, where the decoder of the object, or the command, looks at the end of the
message at all (`Checked`; the decoders of the objects in `Unchecked` do not).

On the way back three languages are encoded otherwise than they are decoded (5399), class
3 becomes class 0 of the 8-bit alphabet (5098), and the channel status is added to what
the buffer held (5531): the operators do as the code does, and no property relates them.

`Texts` builds texts and lines item by item, and its properties compare what comes back
with what went in.  An item (`IsItem`) is nothing, a word or a number, or what a
pair of quotes or parentheses encloses; the quote or parenthesis that ends it does not occur
earlier in it, as the tokenizer knows neither escapes nor lists in lists.

## 3. Checks

| Run | What runs | Shows |
|---|---|---|
| `HalCustomFlow` | CUSTOM; every priority, timers, automatic release, hooks, repeated answers, calls from every callback | `CoreInv` (with types, the shape of the queue and the order of sends), `AnswerMatches`, `AnswerOnce`, `NoUseAfterFree` |
| `HalCustomTrouble` | CUSTOM; two commands cancelled from the loop and from `on_response`, lost answers, failing sends | order and memory survive (`OrdinaryInOrder`, `NoUseAfterFree`, `NoLeak`) |
| `HalCustomProgress` | CUSTOM, fair | `NoStall`, `Completes` |
| `HalAtSerial` | AT, plain requests, fair, a modem that answers | one request at a time, right answers, refinement of `SerialChannel`, `Completes` |
| `AtBufferFlow` | reads that cut and join lines, prompts | refinement of `ByteStream`, NUL-terminated data |
| `CoreEventsFlow` | two objects, two AT channels and a CUSTOM HAL, three callbacks; beside it the lines of responses and events | no stale callback in a table, none missing, all called; every line sorted where it belongs |
| `ServerFlow` | two plugins with two objects, one request, two hooks, fair | counted holders, walks that survive changes, a default plugin that stays, requests that end |
| `MuxFlow` | two sessions, three channels, reads of many sizes, a flipped bit, fair | data delivered, damage not acted upon, no freed HAL in use, callbacks that follow, a session that comes up |
| `PsShared` | four contexts, three APNs | `ContextInv` (a consistent table, every connection reachable), sharing by APN, one connection per id, no revival |
| `Codecs` | every command, response and envelope; texts and lines | decoded as sent, a cut is noticed, the answer parses, texts and tokens survive |
| `HalAtTimeout`, `PsStaleId` | | two disagreements, see `findings` in `PROJECT.json` |

HAL runs: three pendings (two in `HalAtTimeout`).  The rules compare a pending with the
ones before and behind it, so three give an urgent one, an ordinary one that is out and
an ordinary one that waits, in every order; the proofs below remove the bound for the
safety properties.  Each pending is submitted once, so nothing else needs a bound.
Type invariants are conjuncts of the first safety invariant of each run (`CoreInv`,
`AtInv`, `Terminated`, `ContextInv`, `Attached`, `ResponseFits`, `CallbacksFollow`);
`TypeOK` of `Server` is checked by itself, as it has the order of the plugins.

`HalCustomProgress` has no failing send and no `IMMEDIATELY` pending with automatic
release.  With either, `NoStall` fails in four steps: a plugin that submits a request
from inside `on_send` finds the queue not empty and adds no idle source; then the
pending ahead of it is freed, and nothing starts the new one, because the value that
renews the idle source is dropped (a synchronous send) or not set (a failed one).  Both
are listed as hazards.  `HalCustomTrouble`, where sends fail, does not call back or
cancel from inside `on_send`, where the code goes on with a freed pending.

`AtBufferFlow`: the buffer starts with 4 bytes (255 in the code), so that it is shifted,
and doubled more than once; at most `MaxUnread` bytes of an unfinished line wait in it;
the modem prompts only when a body waits, and does not end a line that is the prompt
alone (`Prompting`, in force as `StrayPrompts = FALSE`): a stray prompt sends the last
body again, and behind a prompt that CR ends the loop would stop at the NUL it wrote
there for good (the hazard at `at.c:586`).

`CoreEventsFlow`: three callbacks, so that one is walked while one before and one after
it change; one call from inside each callback, one emission at a time.  A response has
two items or two pairs at most, and there are two events: an event before, inside and
after a response.

`ServerFlow`: two plugins make the order by priority and the default plugin matter; one
request is dispatched at a time, as the dispatch does not return to the main loop; a walk
sees one change.  The request ends because callbacks return and each holder lets it go
(`Fairness`), which is what `HalRequest` shows of pendings with a timer or automatic
release.  No property says that a function is hooked nowhere after it was removed: the
loop that removes steps over the hook which takes the place of a removed head
(`server.c:525`), so a function hooked twice there stays once.

`MuxFlow`: three of the eight channels, one with one object and one with two (the loop
over the objects of a channel ends early when one is missing); payloads with a flag byte
in them and with more than 127 bytes, so that the length takes two; reads that stop at
each of the first bytes of a frame or shortly before its end; two sessions, so that one
meets what the last left behind; and two of the things that may happen at any time.  One
payload holds a whole frame, which must not be acted upon.
`odd` names those after which a property makes no claim: `resized` and `late` (the
line's or the modem's doing), `stale`, `count` and `undecoded` (a session that inherits
the answers, the count of acknowledgements or half a frame of the last one: listed as
hazards).  A plugin may never open the mux again, so the run does not check deadlock;
the line is drained and the modem answers (`Drained`, `Answered`), nothing else is fair.

`PsShared`: four contexts on three APNs give a shared connection, one beside it and one
that waits; the three connections never use the last id, at which the search for a free
one ends too early (a hazard of `co_ps.c`).

`Codecs`: three samples per object at most, all combinations of optional objects; the
qualifier varies only where the optional objects do not, and only the command with all
of its objects is cut.  `Beyond` is what lies behind a message in memory: other bytes
there must not change what is decoded.  A text that is sent back has 2, 126, 127, 128, 130,
254 or 255 bytes, which passes the boundaries of its length field.  Texts of up to 9 characters pass the boundary of
8 characters in 7 bytes.  Lines have up to 4 items of 10 words: empty ones, strings with
commas, lists.

Fairness of the HAL: GLib dispatches an attached idle source (`G_PRIORITY_HIGH`) and an
expired timer, and a callback returns: `Fairness` is weak fairness of `IdleSend`, each
`Timeout`, the returns, and the turns of the cancel loop.  The modem owes nothing; only
`AnsweredSpec` adds that it answers, because in AT mode no timer helps
(`HalAtTimeout`).  That an answer is lost is, for safety, an answer that has not come
yet.

## 4. Proofs

**HAL** (`HalRequestProofs`), for any set of pendings, any mode and any
plugin behaviour that the constants allow:

* `TypeCorrect` - the type invariant.
* `CoreCorrect`, `QueueShapeHolds`, `OrdinaryOrder` - the invariant is `CoreInv`.
  `OrdinaryInOrder` alone is not inductive: that a pending about to be sent has no
  ordinary one before it needs the bands of the queue (`QueueShape`), which need the ids
  to grow (`Bookkeeping`: ids of submitted pendings are unique and below `nextId`, and
  nothing refers to a pending that is still new).  The data part (what an insertion or
  a removal does to a sequence with these properties) is in `SeqLemmas`.
* `AnsweredOnce` - with `AnswerInv`, which adds that a queued pending was not answered.
  A delivery removes its pending from the queue, and `QueueShape` says that it was
  there once.
* `CustomAnswers` - in CUSTOM mode; the id on the answer is that of one submitted
  pending only.

**Memory of the HAL** (`HalRequestProofs`), in either mode, assuming one of two disciplines of
the plugins: sends do not fail and nothing is cancelled by command, wherever they call from
(`Reentrant`, as in `HalCustomFlow`), or they call from no `on_send` and no `on_timeout`
(`Shallow`, as in `HalCustomTrouble`).  Without either the code does go on with a freed pending
(cancelling by command from inside `on_send`, `queue.c:300`, is one of the listed hazards).
`MemorySafe` and `NothingLeaks` rest on `MemoryInv`: the stack of waiting calls has no pending twice; `on_response` runs for one that has left the queue, the
others wait with one that is in it and was sent (`FrameOk`), so that neither the head of the
queue, which a failed send releases, nor what a cancellation pops is in use below
(`Nesting`); what is armed is alive, and what is alive is queued or being answered (`Kept`).

**Wakeups of the HAL** (`HalRequestProofs`), in either mode, wherever plugins call from and
whatever they cancel, assuming `Wakeful`: sends do not fail, and no `IMMEDIATELY` pending has
automatic release (with either, `NoStall` fails: the two hazards described above).
`NothingStalls` rests on `WakeInv`, which says what keeps a queue going while calls wait, too
(`Stirring`): an idle source, an `on_response` that will add one, or a queued pending that is
out and whose release adds one - which is any but one that a call on the stack will release
without taking the return value (`Drops`), as `tcore_hal_send_force` does.

**HAL in AT mode** (`HalRequestProofs`), assuming `AtDiscipline`, the load of `HalAtSerial`
(plain requests, no repeated answers, sends that do not fail): `SerialAnswers`,
`SerialMatches`, and the refinement of the abstract channel, `SerialRefinement`.  The
answer carries no id, so that it is the right one rests on there being one request out
and on that one being the head of the queue (`SingleFlight`), also while a callback of
the request before it has not returned (`Delivered`, by the form of `stack`).  The
refinement then is a case per action: it submits, starts or finishes a request of
`SerialChannel`, or changes none.

**Receive buffer** (`TextProofs`), for reads of any length and content, any first size of
the buffer and any number of waiting bytes, assuming `~StrayPrompts`: `BufferTerminated` and
the refinement of the byte stream, `BufferStreams`.  The invariant is `BufferInv`: no NUL
among the bytes that wait and only NULs behind them (`Sound`), so that a line is found
within them; no prompt alone that CR ends (`Open`); a prompt at their end is that of a body
(`Prompted`).  The lemmas on writing say once, for the plain, the shifted and the doubled
case, what the buffer then holds (`Appended`); `LineFound` says that what the scan of the
buffer finds is a line of the waiting bytes, and `LineOfStream`, `RestOfStream` and
`PromptOfStream` that the stream has the same line and the same rest.

**Texts** (`TextProofs`), for characters of seven bits (`TextAssumption`: the code packs the
lower bits of what it is given) and texts of any length: `SeptetsSurviveHolds`.  A packed
byte holds the end of one character and the start of the next, and gives both back
(`Halves`, `LastHalf`, a case for each of the shifts 0 to 6); which bytes a character
is in is a case for each place in a group of eight characters and seven bytes (`Restored`),
and what is behind the last one a case for each remainder of the length (`Padding`).

`TokensSurviveHolds` is about lines with any number of items, of any words that are nothing, a
word without commas, a string or a list (`WordAssumption`).  The state of the tokenizer is a
function of the characters so far (`Reads`), of which reading one text behind another
composes (`ReadsCat`).  Behind an item of each kind the item is the last token, if the line
ends there or goes on with a comma (`Ended`, `ItemRead`); a separator then leaves the tokens
as they are (`SeparatorRead`), and by induction on the items the tokens are the items
(`ListingRead`).  A list of items without a closing parenthesis is an item itself
(`ListIsItem`), so that the line with the list in it is a case of the same lemma.

**Packet service** (`PsContextProofs`), assuming `Premises`: plugins clear the ids that
shared connections leave (`ClearsShared`; `PsStaleId` shows that they must), and there are
fewer APNs than ids.  `ContextCorrect` proves `ContextInv`, from which `EntriesCorrect`,
`ContextsReachable`, `ConnectionsShared`, `ConnectionsApart` and `ReportsRevive` follow: an APN has one entry (`OneApn`), contexts of an entry are
in one state (`Alike`), a connection belongs to an id in use (`Held`) and to the APN of its
contexts (`Connected`), and the last id, at which the searches stop short, is never given
out (`Spare`, by counting: ids in use have different APNs, which are fewer than the ids).

**Sorting of lines** (`AtResponseProofs`), for any number of requests, lines and events:
`ResponseSortedHolds` and `EventsSortedHolds`, by `SortInv`.  It follows the lines that are
still on their way: those of a response, after the ones that were read, are what the modem
meant (`Keep(wire, ResponseLines)`), a final line ends them (`FinalEnds`), the events among
them are ones that can be told apart now (`EventsTold`), and the first line of an event with a
PDU is followed by the second, on the wire or from the state kept in between (`EventShape`).

**Core objects** (`CoreEventsProofs`), for any objects, HALs, callbacks and events, assuming
`Careful`: `AttachedHolds`, `RegisteredHolds`, `DeliveredHolds`, by `EventsInv`.  An object's
list holds its own callbacks, each once (`Listed`); a table holds callbacks of objects that
have this HAL only, under their event (`Entered`), and all of them, in the order of the object's
list, without the dropped ones (`Mirrored`); an entry of a PDU is never empty, so that the line
after its first finds whom to call (`Waits`); a walk has called what is before it in the list,
whatever was added and removed meanwhile, and goes on from a link that is in it (`Walks`).

**Server** (`ServerProofs`), for any plugins, objects, hooks and requests:

* `HoldersAreCounted` by `RequestInv`, which adds to the count that the communicator holds a
  request exactly as long as nobody has accepted it and that an object still to be asked does
  not hold it;
* `TypeOKHolds`, with the order of the plugins by priority and the default plugin among them
  (`PluginInv`), and `DefaultPluginStays`, which is proved only;
* `CalledIsHookedHolds` and `EveryHookAskedHolds` by `HookInv`: no hook is twice in a list (plugins add none twice), and
  a walk stands on one that is hooked and has asked those before it (`GoodWalk`), unless its
  own link was removed, after which the code can be anywhere and the property claims less.

Assumed of servers: objects are not named like the other holders, priorities are integers, and there are
lists of request and notification hooks.

**Mux** (`MuxProofs`), for any channels, up to the eight of the code, any objects, callbacks
and payloads, whatever the modem sends and however the reads cut it, in three parts.

*Frames.*  `Encoded`: what one side encodes the other reads.  `Damaged`: with one bit of
the address, control or check byte wrong it is refused, since the table of the check
sequence is a bijection of the bytes (`TableInjective`: each of the eight shifts loses
nothing), so that headers that differ in one byte have different check sequences
(`FcsDiffers`).  `HuntOn`: the decoder is as far in the stream of frames as the bytes it has
taken (`Aligned`), and each of its steps takes it on or completes the first of the frames,
wherever the read ends and whatever the frames hold; one lemma for each of its states.

*The host.*  `CallbacksFollowHolds`, `NoneFreedHolds` (what `NothingFreedInUse`
says of HALs) and `HeardOnItsOwnHolds`, which is proved only.  `CallbacksFollow` is not
inductive: closing leaves the table of the physical HAL as it is, so a callback must have
stayed in it while its object used another HAL, and what is registered with a logical HAL must
belong to an object that uses it (`Heard`).  That no HAL is used after it was freed needs the
objects a plugin lacks to stay with the physical HAL, and those it has to be ones that closing
reverts (`Placed`, `RevertedPresent`).  Each handler of a frame preserves `HostInv`
(`FrameKeeps`), so each step of the decoder does (`TakeKeeps`) and, by induction on the
turns of the loop, the whole read (`ReceiveKeeps`).  This holds whatever is read, in step
or not.

*The flow of a session.*  `DeliveredHolds`, `OnlyWhatWasSaidHolds`, `UpMeansAnsweredHolds`
and `NothingFreedInUseHolds` rest on `FlowInv`: as long as the decoder is in step, the bytes
on the line are those of frames `q`, the first of them in part (`Aligned`), and of `q`, of
the requests `U` on their way to the modem and of what the modem knows holds `Flow`:

* a good frame on its way was said (`Said`), and what a channel got with what is on its way
  to it is what was sent in it (`Data`);
* while the mux is open no request to disconnect is on its way, and an acknowledgement on its
  way is of a channel that was agreed on in this session (`Answers`);
* the counter is the number of channels that were agreed on and do not wait any more
  (`Counted`), so that none is counted twice and eight are all;
* the modem's end is the last frame on its way, and when this side has closed, the modem
  has left or will on the next request to disconnect (`Ending`).

Each part holds as long as nothing spoils it (`Plain`), and `Kept` is what survives a fault.
What a handler does to the process is a `Deed`: which answers go out, what is stored, counted
and closed.  A deed takes the first frame from the stream and keeps the flow
(`DeedFlow`), so each step of the decoder does (`TakeTurn`) and the whole read (`ReadSound`);
a frame of the modem, whole or damaged, adds one at the end (`Uttered`, `FlowMore`); a new
session takes over what the last one left, and the notes in `odd` that say so (`StartSound`).

Assumed throughout: the named ASSUMEs of the modules (the priorities and options exist,
the markers for nothing are not values).

Only model-checked: the codec of the card (`Sat`), whose definitions are recursive over data, for which
there is no induction; and every liveness property, as fairness is outside the prover.

## 5. Not modelled

* The list of call objects and the table of network operators: entries that one plugin at
  a time adds, searches and removes, with nothing called back.
* The key callbacks of `storage.c`: the list of a key is looked up in a way that leaves it
  undefined from the second callback on (the hazard at `storage.c:261`).
* The decoders of the files of the SIM in `co_sim.c`: tables of fields without state.
* The accessors and values that are only stored and read back, in every object.
* The hexadecimal and string helpers of `util.c`, the coding scheme of cell broadcasts,
  the cache of network names.
* The ends of server, HAL and AT channel (`tcore_server_free`, `tcore_hal_free`,
  `tcore_at_free`): the daemon calls them when it exits.
* `udev.c`, module loading, logging: input and output only.
