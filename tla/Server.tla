------------------------------- MODULE Server -------------------------------
(***************************************************************************)
(* The server of src/server.c with its plugins (src/plugin.c), its         *)
(* communicators (src/communicator.c) and the user requests that pass      *)
(* through it (src/user_request.c): from the communicator through the      *)
(* request hooks to the core objects of a plugin, and from there, held by  *)
(* what works on it, to the answer and its end.                            *)
(*                                                                         *)
(* Outside: communicators, which free a request that was not accepted;     *)
(* plugins, which provide every operation that is called unseen            *)
(* (Unguarded), take a reference when a request is held already and let it *)
(* go once; hooks, which hold what they stop.  Communicators send only     *)
(* commands that a dispatcher knows: the others are accepted by nobody.    *)
(* Bounds: one request is dispatched at a time; objects are added between. *)
(***************************************************************************)
EXTENDS Integers, HookLists, Dispatchers

CONSTANTS
  Plugins,   \* names of plugins
  Priority,  \* of each plugin; small ones come first
  Objects,   \* core objects
  Category,  \* type of each object
  Provided,  \* operations of each object
  Requests   \* user requests

VARIABLES
  plugins,  \* the plugins of the server, in their order
  default,  \* the default plugin, once it was looked for and found, or "none"
  objects,  \* the objects of each plugin, the newest first
  ur        \* user requests

serverVars == <<plugins, default, objects, ur>>
vars == <<hookVars, serverVars>>

\* Who holds a request is an object, or something that is none.
ASSUME HoldersAssumption == {"communicator", "hook", "stopper"} \cap Objects = {}
ASSUME ListsAssumption == {"request", "notification"} \subseteq Lists
ASSUME PriorityAssumption == \A p \in Plugins : Priority[p] \in Int

Default == "default"  \* TCORE_PLUGIN_DEFAULT
Comm == "communicator"
Hook == "hook"

Absent == [state |-> "absent", name |-> "none", cmd |-> "none", left |-> {}, ok |-> FALSE,
           ref |-> 0, holders |-> {}]

Init ==
  /\ HooksInit
  /\ plugins = <<>>
  /\ default = "none"
  /\ objects = [p \in Plugins |-> <<>>]
  /\ ur = [r \in Requests |-> Absent]

Dispatching(r) == ur[r].state \in {"hooks", "objects"}
Idle == \A r \in Requests : ~Dispatching(r)

ObjectsOf(p, category) ==
  {o \in Objects : Category[o] = category /\ Contains(objects[p], o)}

CategoryOf(cmd) ==
  CHOOSE category \in Categories : cmd \in DOMAIN OpsOf(category)

-----------------------------------------------------------------------------
(* Plugins and objects *)

\* Mutant: a plugin goes in front, whatever its priority.
AddPluginInFront(p) ==
  /\ ~Contains(plugins, p)
  /\ plugins' = <<p>> \o plugins
  /\ Walk("notification", "added")
  /\ UNCHANGED <<default, objects, ur>>

\* tcore_server_add_plugin; with equal priority the later one comes first.
AddPlugin(p) ==
  LET before == Keep(plugins, {q \in Plugins : Priority[q] < Priority[p]})
      after == Keep(plugins, {q \in Plugins : Priority[q] >= Priority[p]})
  IN /\ ~Contains(plugins, p)
     /\ plugins' = before \o <<p>> \o after
     /\ Walk("notification", "added")
     /\ UNCHANGED <<default, objects, ur>>

Owned == UNION {ToSet(objects[p]) : p \in Plugins}

\* tcore_plugin_add_core_object
AddObject(p, o) ==
  /\ ~Walking /\ Idle
  /\ Contains(plugins, p)
  /\ o \notin Owned
  /\ objects' = [objects EXCEPT ![p] = <<o>> \o @]
  /\ UNCHANGED <<hookVars, plugins, default, ur>>

WithModem == Keep(plugins, {p \in Plugins : ObjectsOf(p, "modem") # {}})

\* tcore_server_find_plugin: the plugins that a name leads to (one or none).
FoundDefault ==
  IF default # "none" THEN {default}
  ELSE IF WithModem = <<>> THEN {} ELSE {Head(WithModem)}
Found(name) == IF name = Default THEN FoundDefault ELSE {name} \cap ToSet(plugins)

-----------------------------------------------------------------------------
(* Holding a request *)

\* Mutant: the last of several holders is taken for the only one too soon.
LetGoEarly(u, h) ==
  LET rest == [u EXCEPT !.holders = @ \ {h}]
  IN IF u.ref > 1 THEN [rest EXCEPT !.ref = @ - 1, !.state = "out"]
     ELSE [rest EXCEPT !.state = "freed"]

\* Mutant: a request whose count has come down to 0 is not freed either.
LetGoNever(u, h) ==
  [u EXCEPT !.holders = @ \ {h}, !.ref = IF @ > 0 THEN @ - 1 ELSE 0, !.state = "out"]

\* tcore_user_request_free and tcore_user_request_unref, which do the same.
LetGo(u, h) ==
  LET rest == [u EXCEPT !.holders = @ \ {h}]
  IN IF u.ref > 0 THEN [rest EXCEPT !.ref = @ - 1, !.state = "out"]
     ELSE [rest EXCEPT !.state = "freed"]

\* The request passes from its communicator to the first that accepts it, and
\* any other takes a reference (tcore_user_request_ref).
Accept(u, h) ==
  IF Comm \in u.holders
  THEN [u EXCEPT !.holders = (@ \ {Comm}) \cup {h}, !.ok = TRUE]
  ELSE [u EXCEPT !.holders = @ \cup {h}, !.ok = TRUE, !.ref = @ + 1]

\* A request hook that lets the request pass keeps it as well.
HookKeeps(r) ==
  /\ ur[r].state = "hooks" /\ Walking
  /\ Hook \notin ur[r].holders
  /\ ur' = [ur EXCEPT ![r].ref = @ + 1, ![r].holders = @ \cup {Hook}]
  /\ UNCHANGED <<hookVars, plugins, default, objects>>

\* What works on a request has answered and lets it go: the end of its pending.
Release(r, h) ==
  /\ ur[r].state = "out" /\ h \in ur[r].holders
  /\ ur' = [ur EXCEPT ![r] = LetGo(@, h)]
  /\ UNCHANGED <<hookVars, plugins, default, objects>>
-----------------------------------------------------------------------------
(* Dispatching a request *)

\* A communicator makes a request and has it dispatched: the request hooks.
Dispatch(r, name, cmd) ==
  /\ Idle
  /\ ur[r].state \in {"absent", "freed"}
  /\ ur' = [ur EXCEPT ![r] = [state |-> "hooks", name |-> name, cmd |-> cmd, left |-> {},
                              ok |-> FALSE, ref |-> 0, holders |-> {Comm}]]
  /\ Walk("request", cmd)
  /\ UNCHANGED <<plugins, default, objects>>

\* A hook stopped the request, and has it now.
Stopped(r) ==
  /\ ur[r].state = "hooks" /\ verdict = "stopped"
  /\ ur' = [ur EXCEPT ![r] = [Accept(@, IF Hook \in @.holders THEN "stopper" ELSE Hook)
                                EXCEPT !.state = "out"]]
  /\ verdict' = "none"
  /\ UNCHANGED <<hooks, walk, plugins, default, objects>>

\* The rest of tcore_server_dispatch_request up to its loop over the objects.
Passed(r) ==
  /\ ur[r].state = "hooks" /\ verdict = "passed"
  /\ verdict' = "none"
  /\ IF Found(ur[r].name) = {}
     THEN ur' = [ur EXCEPT ![r] = LetGo(@, Comm)] /\ UNCHANGED default
     ELSE \E p \in Found(ur[r].name) :
            /\ default' = IF ur[r].name = Default THEN p ELSE default
            /\ ur' = [ur EXCEPT ![r].state = "objects",
                                ![r].left = ObjectsOf(p, CategoryOf(ur[r].cmd))]
  /\ UNCHANGED <<hooks, walk, plugins, objects>>

\* The first of some objects in the list of its plugin.
Foremost(o, left) ==
  \A p \in Plugins : \A i, j \in DOMAIN objects[p] :
    objects[p][i] \in left /\ objects[p][j] = o => j <= i

\* The loop over the objects asks the next one (tcore_object_dispatch_request).
Ask(r) ==
  /\ ur[r].state = "objects"
  /\ \E o \in ur[r].left, ready \in BOOLEAN :
       LET rest == [ur[r] EXCEPT !.left = @ \ {o}]
           does == Dispatched(Category[o], ur[r].cmd, Provided[o], ready)
       IN /\ Foremost(o, ur[r].left)
          /\ \/ does = "call" /\ ur' = [ur EXCEPT ![r] = Accept(rest, o)]
             \/ does # "crash" /\ ur' = [ur EXCEPT ![r] = rest]
  /\ UNCHANGED <<hookVars, plugins, default, objects>>

\* The dispatch returns, and a communicator frees what nobody has accepted.
Returned(r) ==
  /\ ur[r].state = "objects" /\ ur[r].left = {}
  /\ ur' = [ur EXCEPT ![r] = IF @.ok THEN [@ EXCEPT !.state = "out"] ELSE LetGo(@, Comm)]
  /\ UNCHANGED <<hookVars, plugins, default, objects>>

\* A walk that belongs to no request has come to its end.
Over == Idle /\ Used /\ UNCHANGED serverVars

Next ==
  \/ \E p \in Plugins : AddPlugin(p) \/ \E o \in Objects : AddObject(p, o)
  \/ \E r \in Requests, name \in Plugins \cup {Default} :
       \E cmd \in Commands["request"] : Dispatch(r, name, cmd)
  \/ \E r \in Requests :
       \/ HookKeeps(r) \/ Stopped(r) \/ Passed(r) \/ Ask(r) \/ Returned(r)
       \/ \E h \in ur[r].holders : Release(r, h)
  \/ HooksNext /\ UNCHANGED serverVars
  \/ \E l \in Lists \ {"request", "notification"} :
       Idle /\ Walk(l, ForAll) /\ UNCHANGED serverVars
  \/ Over

\* Functions return, and what holds a request gives it up in the end: both
\* answers and expiry end a pending (HalRequest).
Fairness ==
  /\ WF_vars(\E stop \in BOOLEAN : ReturnHook(stop) /\ UNCHANGED serverVars)
  /\ \A r \in Requests :
       WF_vars(Stopped(r) \/ Passed(r) \/ Ask(r) \/ Returned(r)
               \/ \E h \in ur[r].holders : Release(r, h))

Spec == Init /\ [][Next]_vars /\ Fairness

-----------------------------------------------------------------------------
(* Properties *)

\* The plugins of the server are ordered by priority, each request is in a
\* state that src/user_request.c knows, and the default plugin is a plugin
\* with a modem (tcore_server_add_plugin, _find_default_plugin).
TypeOK ==
  /\ \A i, j \in DOMAIN plugins : i < j => Priority[plugins[i]] <= Priority[plugins[j]]
  /\ default # "none" => Contains(plugins, default) /\ ObjectsOf(default, "modem") # {}
  /\ \A r \in Requests : ur[r].state \in {"absent", "hooks", "objects", "out", "freed"}
  /\ \A l \in Lists : \A i \in DOMAIN hooks[l] : hooks[l][i].fn \in Functions

\* The count of a request is that of what holds it: it is freed when the last
\* lets it go, not before and not later, although the count of a new request
\* is 0 and the first to accept it takes it over without tcore_user_request_ref.
HoldersCounted ==
  \A r \in Requests :
    /\ ur[r].state \in {"absent", "freed"} => ur[r].holders = {}
    /\ ur[r].state \in {"hooks", "objects", "out"} => Cardinality(ur[r].holders) = ur[r].ref + 1

\* Requests to the default plugin go to the same one as long as the server
\* runs, even when a plugin with a modem and a lower priority value comes later
\* (s->default_plugin).
DefaultStays == [][default # "none" => default' = default]_vars

\* Every request that is dispatched ends, whoever gets it.
EveryRequestEnds ==
  \A r \in Requests : ur[r].state = "hooks" ~> ur[r].state = "freed"
=============================================================================
