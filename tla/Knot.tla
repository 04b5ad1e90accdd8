-------------------------------- MODULE Knot --------------------------------
(***************************************************************************)
(* The table of the other miners on the network, and the mDNS service it   *)
(* listens to: components/knot/src/knot.c, knot_table.c, the two settings  *)
(* "mdns_en" and "knot_en" of PATCH /api/settings in                       *)
(* components/webui/src/routes.c, and their part of the boot in main.c.    *)
(*                                                                         *)
(* Two tasks: the mDNS task with its callbacks, and the HTTP task (before  *)
(* it the main task, at boot), whose remaining steps are `todo'.  What     *)
(* runs under g_mutex is one action, except the walk over the table, which *)
(* sends each row over the network while it holds the mutex.               *)
(* The table is the set of its occupied slots: no operation leaves two of  *)
(* one instance.                                                           *)
(***************************************************************************)
EXTENDS Integers, Sequences, FiniteSets

CONSTANTS
  Own,        \* this board: the host name is the instance name too
  Peers,      \* instance names of other boards
  Hosts,      \* host names of other boards; one may be Own
  NoHost,      \* an empty host name
  Cap,        \* KNOT_PEER_COUNT
  MaxFailures   \* bound: failed saves and failed starts of the browse

ASSUME KnotAssumption ==
  /\ Own \notin Peers /\ NoHost \notin Hosts
  /\ Cap \in Nat \ {0} /\ MaxFailures \in Nat

VARIABLES
  table,      \* g_peer_table
  selfSet,    \* g_self_set
  running,    \* g_initialized
  browsing,   \* the browse delivers callbacks
  call,       \* the callback the mDNS task is in
  mdns,       \* the mDNS service is up
  saved,      \* the two persistent settings
  todo,       \* what the HTTP task (the main task at boot) still has to do
  off,        \* the user was last told that knot_en is off
  failures

peersVars == <<table, selfSet, running, browsing, call, mdns, saved, todo, off, failures>>
radio == <<running, browsing, mdns>>

Rows == [inst : Peers \cup {Own}, host : Hosts \cup {Own, NoHost}]
OwnRow == [inst |-> Own, host |-> Own]
NoCall == [kind |-> "none"]
Calls == {NoCall} \cup [kind : {"found"}, row : Rows \ [inst : {Own}, host : Hosts \cup {Own, NoHost}]]
           \cup [kind : {"gone"}, inst : Peers \cup {Own}]

\* What the HTTP task or the main task can have to do.
Steps == {"mdns_at_boot", "knot_at_boot", "init", "self", "stop", "clear", "mdns_up", "mdns_down",
          "mdns_on", "mdns_off", "knot_on", "knot_off", "tell_off", "walk"}

PeersTypeOK ==
  /\ table \subseteq Rows /\ Cardinality(table) <= Cap
  /\ {selfSet, running, browsing, mdns, off} \subseteq BOOLEAN
  /\ call \in Calls
  /\ saved \in [mdns : BOOLEAN, knot : BOOLEAN]
  /\ todo \in Seq(Steps)
  /\ failures \in 0..MaxFailures

BootSteps == <<"mdns_at_boot", "knot_at_boot">>

PeersInit ==
  /\ table = {} /\ selfSet = FALSE
  /\ running = FALSE /\ browsing = FALSE /\ mdns = FALSE
  /\ call = NoCall
  /\ saved \in [mdns : BOOLEAN, knot : BOOLEAN]
  /\ todo = BootSteps
  /\ off = ~saved.knot
  /\ failures = 0

-----------------------------------------------------------------------------
(* The table *)

\* knot_table_upsert(): a row with the host name of another instance is the
\* same board before its update, and goes; a full table takes no new row.
Upsert(t, row) ==
  LET kept == {r \in t : r.inst # row.inst /\ (row.host = NoHost \/ r.host # row.host)}
  IN IF Cardinality(kept) < Cap THEN kept \cup {row} ELSE kept

\* knot_table_remove()
Remove(t, inst) == {r \in t : r.inst # inst}

-----------------------------------------------------------------------------
(* The mDNS task *)

\* The browse reports a board or its withdrawal.  It does not report the
\* board itself, but it does report a withdrawal of its own record.
Browse ==
  /\ browsing /\ call = NoCall
  /\ call' \in Calls \ {NoCall}
  /\ UNCHANGED <<table, selfSet, radio, saved, todo, off, failures>>

Walking == todo = <<"walk">>

\* Mutant of OnPeerDiscovered: the own row is not put back.
OnPeerDiscoveredOnce ==
  /\ call.kind = "found" /\ ~Walking
  /\ table' = Upsert(table, call.row)
  /\ call' = NoCall
  /\ UNCHANGED <<selfSet, radio, saved, todo, off, failures>>

\* on_peer_discovered(): a board with the own host name evicts the own row,
\* which is put back and evicts it in turn.
OnPeerDiscovered ==
  /\ call.kind = "found" /\ ~Walking
  /\ LET t == Upsert(table, call.row) IN
       table' = IF selfSet /\ call.row.host = Own THEN Upsert(t, OwnRow) ELSE t
  /\ call' = NoCall
  /\ UNCHANGED <<selfSet, radio, saved, todo, off, failures>>

\* on_peer_removed()
OnPeerRemoved ==
  /\ call.kind = "gone" /\ ~Walking
  /\ table' = IF selfSet /\ call.inst = Own THEN table ELSE Remove(table, call.inst)
  /\ call' = NoCall
  /\ UNCHANGED <<selfSet, radio, saved, todo, off, failures>>

\* A walk that holds the mutex for more than a second: the callback is lost.
MissCall ==
  /\ call # NoCall /\ Walking
  /\ call' = NoCall
  /\ UNCHANGED <<table, selfSet, radio, saved, todo, off, failures>>

-----------------------------------------------------------------------------
(* The steps of the HTTP task *)

Step(s) == todo # <<>> /\ Head(todo) = s
Done == todo' = Tail(todo)
Failure == failures < MaxFailures /\ failures' = failures + 1

Rebooted ==
  /\ table' = {} /\ selfSet' = FALSE
  /\ running' = FALSE /\ browsing' = FALSE /\ mdns' = FALSE
  /\ call' = NoCall
  /\ todo' = BootSteps

\* Boot: both settings are read; knot depends on mDNS.
MdnsAtBoot ==
  /\ Step("mdns_at_boot")
  /\ mdns' = saved.mdns
  /\ Done
  /\ UNCHANGED <<table, selfSet, running, browsing, call, saved, off, failures>>

KnotAtBoot ==
  /\ Step("knot_at_boot")
  /\ todo' = IF saved.knot /\ saved.mdns THEN <<"init", "self">> ELSE <<>>
  /\ UNCHANGED <<table, selfSet, radio, call, saved, off, failures>>

\* knot_init(); callbacks may come before knot_set_self().
KnotInit ==
  /\ Step("init")
  /\ running' = TRUE /\ browsing' = TRUE
  /\ Done
  /\ UNCHANGED <<table, selfSet, call, mdns, saved, off, failures>>

\* The browse does not start: at boot BB_ERROR_CHECK aborts, in a request
\* knot_set_self() takes a mutex that is NULL.
KnotInitFails ==
  /\ Step("init") /\ ~running
  /\ Failure
  /\ Rebooted
  /\ UNCHANGED <<saved, off>>

KnotSetSelf ==
  /\ Step("self")
  /\ table' = Upsert(table, OwnRow)
  /\ selfSet' = TRUE
  /\ Done
  /\ UNCHANGED <<radio, call, saved, off, failures>>

\* knot_deinit(): no callback begins after bb_mdns_browse_stop(), and 50 ms
\* are enough for one that has begun.  So nobody holds the mutex that it then
\* takes: a walk is a request too, and requests come one after the other.
BrowseStop ==
  /\ Step("stop")
  /\ browsing' = FALSE
  /\ todo' = IF running THEN Tail(todo) ELSE Tail(Tail(todo))
  /\ UNCHANGED <<table, selfSet, running, call, mdns, saved, off, failures>>

Clear ==
  /\ Step("clear") /\ call = NoCall
  /\ table' = {} /\ selfSet' = FALSE /\ running' = FALSE
  /\ Done
  /\ UNCHANGED <<browsing, call, mdns, saved, off, failures>>

MdnsUp ==
  /\ Step("mdns_up")
  /\ mdns' = TRUE
  /\ Done
  /\ UNCHANGED <<table, selfSet, running, browsing, call, saved, off, failures>>

MdnsDown ==
  /\ Step("mdns_down")
  /\ mdns' = FALSE
  /\ Done
  /\ UNCHANGED <<table, selfSet, running, browsing, call, saved, off, failures>>

\* A setting is saved; if that fails the request ends with a 500.
Save(name, key, value) ==
  /\ Step(name)
  /\ \/ saved' = [saved EXCEPT ![key] = value] /\ Done /\ UNCHANGED failures
     \/ Failure /\ todo' = <<>> /\ UNCHANGED saved
  /\ UNCHANGED <<table, selfSet, radio, call, off>>

SaveMdns == Save("mdns_on", "mdns", TRUE) \/ Save("mdns_off", "mdns", FALSE)
SaveKnot == Save("knot_on", "knot", TRUE) \/ Save("knot_off", "knot", FALSE)

Tell ==
  /\ Step("tell_off")
  /\ off' = TRUE
  /\ Done
  /\ UNCHANGED <<table, selfSet, radio, call, saved, failures>>

-----------------------------------------------------------------------------
(* The requests *)

KnotDeinit == <<"stop", "clear">>
KnotRearm == <<"init", "self">>

\* The request's mdns_en, if it names one and that is a change.
MdnsSteps(m) ==
  CASE m = "off" /\ saved.mdns  -> KnotDeinit \o <<"mdns_down", "mdns_off">>
    [] m = "on" /\ ~saved.mdns  -> <<"mdns_on", "mdns_up">>
    [] OTHER                    -> <<>>

\* Mutant of KnotAlone: a knot that is down already is not saved as off.
KnotAloneRunning(k) ==
  CASE k = "off" /\ running                  -> KnotDeinit \o <<"knot_off">>
    [] k = "on" /\ ~running /\ saved.mdns    -> <<"knot_on">> \o KnotRearm
    [] OTHER                                 -> <<>>

\* knot_en alone: the state it is compared with is the running one, since an
\* earlier mdns_en may have ended it.
KnotAlone(k) ==
  CASE k = "off" /\ running                  -> KnotDeinit \o <<"knot_off">>
    [] k = "off" /\ ~running                 -> <<"knot_off">>
    [] k = "on" /\ ~running /\ saved.mdns    -> <<"knot_on">> \o KnotRearm
    [] OTHER                                 -> <<>>

\* Both in one request: after mdns_en, saved in any case.
KnotBoth(m, k) ==
  LET up == running /\ ~(m = "off" /\ saved.mdns)
  IN CASE k = "on"           -> <<"knot_on">> \o (IF up THEN <<>> ELSE KnotRearm)
       [] k = "off" /\ up    -> <<"knot_off">> \o KnotDeinit
       [] k = "off" /\ ~up   -> <<"knot_off">>

\* PATCH /api/settings with one or both of the settings; knot without mDNS is
\* refused.
Patch(m, k) ==
  /\ todo = <<>>
  /\ <<m, k>> # <<"absent", "absent">>
  /\ k = "on" => m = "on" \/ (m = "absent" /\ saved.mdns)
  /\ todo' = MdnsSteps(m)
             \o (IF k = "absent" THEN <<>> ELSE IF m = "absent" THEN KnotAlone(k) ELSE KnotBoth(m, k))
             \o (IF k = "off" THEN <<"tell_off">> ELSE <<>>)
  /\ off' = (off /\ k # "on")
  /\ UNCHANGED <<table, selfSet, radio, call, saved, failures>>

\* GET /api/knot: knot_walk() holds the mutex until the last row is sent.
Walk ==
  /\ todo = <<>> /\ running
  /\ todo' = <<"walk">>
  /\ UNCHANGED <<table, selfSet, radio, call, saved, off, failures>>

WalkEnd ==
  /\ Walking
  /\ Done
  /\ UNCHANGED <<table, selfSet, radio, call, saved, off, failures>>

\* A restart, wanted or not.
Restart == Rebooted /\ UNCHANGED <<saved, off, failures>>

MdnsTask == Browse \/ OnPeerDiscovered \/ OnPeerRemoved \/ MissCall
HttpTask == \/ MdnsAtBoot \/ KnotAtBoot \/ KnotInit \/ KnotInitFails \/ KnotSetSelf
            \/ BrowseStop \/ Clear \/ MdnsUp \/ MdnsDown \/ SaveMdns \/ SaveKnot \/ Tell
            \/ Walk \/ WalkEnd
            \/ \E m, k \in {"absent", "on", "off"} : Patch(m, k)

PeersNext == MdnsTask \/ HttpTask \/ Restart

PeersSpec == PeersInit /\ [][PeersNext]_peersVars

-----------------------------------------------------------------------------
\* The comment at knot.c:18-23: the own row, once shown, stays in the table
\* while knot runs, whatever host names other boards announce and whichever
\* record the network withdraws.
SelfStays == [][running' /\ OwnRow \in table => OwnRow \in table']_peersVars

\* The comment in routes.c, "so boot-time gating reflects the user's intent":
\* a knot the user was told is off does not run, not after mDNS is turned on
\* again and not after a restart.
StaysOff == off => ~running

-----------------------------------------------------------------------------
(* The inductive invariants behind them *)

Items(s) == {s[i] : i \in 1..Len(s)}

\* knot_deinit() is called as a whole.
Whole(s) == \A i \in 1..Len(s) : s[i] = "stop" => i < Len(s) /\ s[i + 1] = "clear"

\* The answer is the last step.
TellsLast(s) == \A i \in 1..Len(s) : s[i] = "tell_off" => i = Len(s)

\* A request that will tell that knot is off still has to stop it and to save
\* that, or has done so; and nothing starts it then.
OffInv ==
  /\ todo \in Seq(Steps) /\ Whole(todo) /\ TellsLast(todo)
  /\ off => ~running /\ ~saved.knot
  /\ off \/ "tell_off" \in Items(todo) => {"init", "knot_on"} \cap Items(todo) = {}
  /\ "tell_off" \in Items(todo) => /\ running => "clear" \in Items(todo)
                                   /\ saved.knot => "knot_off" \in Items(todo)

\* The own row is known to be the own one, and there is a slot for it.
OwnInv ==
  /\ IsFiniteSet(table) /\ Cardinality(table) <= Cap
  /\ call \in Calls
  /\ OwnRow \in table => selfSet
=============================================================================
