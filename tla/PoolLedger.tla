----------------------------- MODULE PoolLedger -----------------------------
(***************************************************************************)
(* The per-pool statistics of components/mining/src/mining_pool_stats.c    *)
(* and what a restart finds of them.                                       *)
(*                                                                         *)
(* Four tasks work on one table of slots.  The stratum task looks up the   *)
(* slot of the pool it connects to and counts accepted shares, the miner   *)
(* task counts blocks through a pointer it read earlier, the nvs_save task *)
(* saves everything every ten minutes and the HTTP task may clear it all.  *)
(* mining_stats.mutex brackets the snapshot of a save and the clearing,    *)
(* nothing else.  A save is a sequence of writes, one NVS key each: the    *)
(* recorders write from the live slot, the save writes from its snapshot.  *)
(* NVS may refuse a write, which no saver notices.  A restart may come     *)
(* between any two steps.                                                  *)
(*                                                                         *)
(* A row is what the keys of one slot hold.  Every key holds a number; a   *)
(* host is the number of its lower-case name and 0 the empty string.       *)
(* Hashes, best difficulty and wall-clock stamps are left out.             *)
(***************************************************************************)
EXTENDS Integers, FiniteSets, Sequences

CONSTANTS
  Pools,      \* the endpoints the device connects to, [host, port]
  NSlots,     \* MINING_POOL_STATS_MAX
  Grain,      \* bound: the keys of a slot in the order of s_save_slot(), those
              \* in one set written with nothing of another task in between
  MaxEvents,  \* bound: connections, shares, blocks, resets, restarts and
              \* refused writes
  MaxBusy     \* bound: tasks in the middle of something at the same time

\* What NVS keeps of a slot.
Keys == {"host", "port", "shares", "blocks", "seen"}

ASSUME PoolsAssumption == Pools \subseteq [host : Nat \ {0}, port : Nat]
ASSUME SlotsAssumption == NSlots \in Nat \ {0, 1}
ASSUME GrainAssumption == /\ Grain \in Seq(SUBSET Keys)
                          /\ \A k \in Keys : \E i \in 1..Len(Grain) : k \in Grain[i]
ASSUME BoundAssumption == MaxEvents \in Nat /\ MaxBusy \in Nat \ {0}

Slots == 1..NSlots
Tasks == {"stratum", "miner", "saver", "http"}

Rows == [Keys -> Nat]
EmptyRow == [k \in Keys |-> 0]
EmptyTable == [s \in Slots |-> EmptyRow]

\* One number kept in NVS: a key of a slot, or the device's block count.
LifeCell == <<0, "life">>
Cells == (Slots \X Keys) \cup {LifeCell}

VARIABLES
  table,    \* the slots in RAM
  life,     \* lifetime_blocks_total in RAM
  nv,       \* the slots in NVS
  nvLife,   \* ps_life_blocks in NVS
  clock,    \* microseconds since boot, as far as lookups tell them apart
  active,   \* s_active_slot, 0 for NULL
  job,      \* what each task is in the middle of
  events,   \* how many of the bounded events have happened
  recent,   \* history: the slot of the latest lookup since boot or reset, or 0
  loaded,   \* history: the slots last looked up before the restart
  behind    \* history: the cells NVS has reason to disagree on (see SavedAtRest)

ram == <<table, life>>
nvs == <<nv, nvLife>>
history == <<recent, loaded, behind>>
vars == <<table, life, nv, nvLife, clock, active, job, events, history>>

\* A task is idle, holds a slot whose counter it is about to increment
\* ("add"), has cleared the table ("cleared"), or is writing the keys of slots
\* slot..last, from at on, and then the block count ("save"): from the live
\* slot, or from what is left of its snapshot in rows.
Jobs == [pc : {"idle", "add", "cleared", "save"}, slot : 1..(NSlots + 1),
         last : Slots, at : 1..Len(Grain), old : Nat, life : Nat,
         live : BOOLEAN, rows : [Slots -> Rows]]

Waiting(pc, s, old, count) ==
  [pc |-> pc, slot |-> s, last |-> 1, at |-> 1, old |-> old, life |-> count,
   live |-> FALSE, rows |-> EmptyTable]
Saving(s, last, at, count, live, rows) ==
  [pc |-> "save", slot |-> s, last |-> last, at |-> at, old |-> 0, life |-> count,
   live |-> live, rows |-> rows]
Idle == Waiting("idle", 1, 0, 0)

TypeOK ==
  /\ table \in [Slots -> Rows] /\ nv \in [Slots -> Rows]
  /\ life \in Nat /\ nvLife \in Nat /\ clock \in Nat
  /\ active \in Slots \cup {0} /\ recent \in Slots \cup {0}
  /\ job \in [Tasks -> Jobs]
  /\ \A t \in Tasks : job[t].pc = "add" => job[t].slot \in Slots
  /\ events \in 0..MaxEvents
  /\ loaded \subseteq Slots /\ behind \subseteq Cells

\* A task starts something.
Starts(t) == /\ job[t].pc = "idle"
             /\ Cardinality({u \in Tasks : job[u].pc # "idle"}) < MaxBusy

Event == events < MaxEvents /\ events' = events + 1

Init ==
  /\ table = EmptyTable /\ nv = EmptyTable
  /\ life = 0 /\ nvLife = 0 /\ clock = 0
  /\ active = 0 /\ recent = 0
  /\ job = [t \in Tasks |-> Idle]
  /\ events = 0
  /\ loaded = {} /\ behind = {}

--------------------------------------------------------------------------------
\* The stratum task: mining_pool_stats_find_or_alloc() on connecting.

InUse(s) == table[s]["seen"] # 0
\* Mutant of RowsOf: the scan starts one slot late.
RowsOfFromSecond(p) ==
  {s \in Slots \ {1} : InUse(s) /\ table[s]["host"] = p.host /\ table[s]["port"] = p.port}

RowsOf(p) == {s \in Slots : InUse(s) /\ table[s]["host"] = p.host /\ table[s]["port"] = p.port}
Free == {s \in Slots : ~InUse(s)}

\* The slot of a scan from slot 1 up: the first one of a set, the first of
\* those seen longest ago.
IsFirst(s, S) == s \in S /\ \A u \in S : s <= u
IsOldest(s) == /\ \A u \in Slots : table[s]["seen"] <= table[u]["seen"]
               /\ \A u \in Slots : table[u]["seen"] = table[s]["seen"] => s <= u

NewRow(p) == [EmptyRow EXCEPT !["host"] = p.host, !["port"] = p.port, !["seen"] = clock + 1]

\* The slot s is taken for this session; row is what it holds from now on.
Hold(s, row) ==
  /\ table' = [table EXCEPT ![s] = row]
  /\ active' = s /\ recent' = s
  /\ loaded' = loaded \ {s}
  /\ behind' = (behind \ ({s} \X Keys)) \cup {c \in {s} \X Keys : row[c[2]] # nv[s][c[2]]}

Connecting ==
  /\ active = 0 /\ job["stratum"].pc = "idle" /\ Event
  /\ clock' = clock + 1
  /\ UNCHANGED <<life, nvs, job>>

\* Mutant of Find: the slot is found but its time is not refreshed.
FindOnly(p) ==
  /\ Connecting
  /\ \E s \in Slots : IsFirst(s, RowsOf(p)) /\ Hold(s, table[s])

\* A slot of the pool is refreshed.
Find(p) ==
  /\ Connecting
  /\ \E s \in Slots : /\ IsFirst(s, RowsOf(p))
                      /\ Hold(s, [table[s] EXCEPT !["seen"] = clock + 1])

\* Or the first free slot is zero-filled and named.
Alloc(p) ==
  /\ Connecting /\ RowsOf(p) = {}
  /\ \E s \in Slots : IsFirst(s, Free) /\ Hold(s, NewRow(p))

\* Or the slot seen longest ago is evicted.
Evict(p) ==
  /\ Connecting /\ RowsOf(p) = {} /\ Free = {}
  /\ \E s \in Slots : IsOldest(s) /\ Hold(s, NewRow(p))

\* The session ends: s_active_slot = NULL.
Disconnect ==
  /\ active # 0 /\ job["stratum"].pc = "idle"
  /\ active' = 0
  /\ UNCHANGED <<ram, nvs, clock, job, events, history>>

--------------------------------------------------------------------------------
\* mining_pool_stats_record_share() and _record_block().  An increment is a
\* read and a write, and no lock covers them.

SaveSlot(s, count) == Saving(s, s, 1, count, TRUE, EmptyTable)

FetchShares ==
  /\ active # 0 /\ Starts("stratum") /\ Event
  /\ job' = [job EXCEPT !["stratum"] = Waiting("add", active, table[active]["shares"], 0)]
  /\ UNCHANGED <<ram, nvs, clock, active, history>>

\* Mutant of StoreShares: shares are left to the periodic save, as hashes are.
StoreSharesOnly ==
  LET j == job["stratum"] IN
  /\ j.pc = "add"
  /\ table' = [table EXCEPT ![j.slot]["shares"] = j.old + 1]
  /\ job' = [job EXCEPT !["stratum"] = Idle]
  /\ UNCHANGED <<life, nvs, clock, active, events, history>>

\* The lifetime count is passed by value: the save will write this one.
StoreShares ==
  LET j == job["stratum"] IN
  /\ j.pc = "add"
  /\ table' = [table EXCEPT ![j.slot]["shares"] = j.old + 1]
  /\ job' = [job EXCEPT !["stratum"] = SaveSlot(j.slot, life)]
  /\ UNCHANGED <<life, nvs, clock, active, events, history>>

\* The miner reads the pointer before it calls the recorder, and its store
\* builds on the counters of then or of now.
TakeSlot ==
  /\ active # 0 /\ Starts("miner") /\ Event
  /\ job' = [job EXCEPT !["miner"] = Waiting("add", active, table[active]["blocks"], life)]
  /\ UNCHANGED <<ram, nvs, clock, active, history>>

StoreBlocks ==
  LET j == job["miner"] IN
  /\ j.pc = "add"
  /\ \E n \in {j.old, table[j.slot]["blocks"]} :
       table' = [table EXCEPT ![j.slot]["blocks"] = n + 1]
  /\ \E n \in {j.life, life} : life' = n + 1
  /\ job' = [job EXCEPT !["miner"] = SaveSlot(j.slot, life')]
  /\ UNCHANGED <<nvs, clock, active, events, history>>

--------------------------------------------------------------------------------
\* Saving everything: by the nvs_save task on its timer, and after a reset.
\* When the mutex cannot be had in 100 ms nothing is saved.

\* Mutant of SaveTable: the loop over the slots ends one early.
SaveTableButLast == Saving(1, NSlots - 1, 1, life, FALSE, table)

SaveTable == Saving(1, NSlots, 1, life, FALSE, table)

TimerSave ==
  /\ Starts("saver")
  /\ job' = [job EXCEPT !["saver"] = SaveTable]
  /\ UNCHANGED <<ram, nvs, clock, active, events, history>>

\* mining_pool_stats_reset() clears the table under the mutex...
Reset ==
  /\ Starts("http") /\ Event
  /\ table' = EmptyTable /\ life' = 0
  /\ job' = [job EXCEPT !["http"] = Waiting("cleared", 1, 0, 0)]
  /\ recent' = 0 /\ loaded' = {}
  /\ behind' = {c \in Slots \X Keys : nv[c[1]][c[2]] # 0}
               \cup (IF nvLife = 0 THEN {} ELSE {LifeCell})
  /\ UNCHANGED <<nvs, clock, active>>

\* ... and takes it again for the save, or fails to.
ResetSave ==
  /\ job["http"].pc = "cleared"
  /\ \E j \in {SaveTable, Idle} : job' = [job EXCEPT !["http"] = j]
  /\ UNCHANGED <<ram, nvs, clock, active, events, history>>

--------------------------------------------------------------------------------
\* The writes of a save.

\* The written cells, and those of them that were given an older value.
Noted(written, stale) == (behind \ written) \cup stale

\* On to the next keys, or to the next slot; what is written of a snapshot
\* is not needed any more.
Advance(j) ==
  IF j.at < Len(Grain)
  THEN Saving(j.slot, j.last, j.at + 1, j.life, j.live, j.rows)
  ELSE Saving(j.slot + 1, j.last, 1, j.life, j.live, [j.rows EXCEPT ![j.slot] = EmptyRow])

\* The next keys of s_save_slot().
WriteKeys(t) ==
  LET j == job[t]
      row == IF j.live THEN table[j.slot] ELSE j.rows[j.slot]
  IN /\ j.pc = "save" /\ j.slot <= j.last
     /\ nv' = [nv EXCEPT ![j.slot] = [k \in Keys |-> IF k \in Grain[j.at] THEN row[k] ELSE nv[j.slot][k]]]
     /\ behind' = Noted({<<j.slot, k>> : k \in Grain[j.at]},
                        {<<j.slot, k>> : k \in {l \in Grain[j.at] : row[l] # table[j.slot][l]}})
     /\ job' = [job EXCEPT ![t] = Advance(j)]
     /\ UNCHANGED <<ram, nvLife, clock, active, events, recent, loaded>>

WriteLife(t) ==
  LET j == job[t] IN
  /\ j.pc = "save" /\ j.slot > j.last
  /\ nvLife' = j.life
  /\ behind' = Noted({LifeCell}, IF j.life = life THEN {} ELSE {LifeCell})
  /\ job' = [job EXCEPT ![t] = Idle]
  /\ UNCHANGED <<ram, nv, clock, active, events, recent, loaded>>

\* NVS refuses the write of the next keys, or of the block count.  No saver
\* looks at what bb_nv_set_*() returns: the save goes on, and the cell keeps its
\* older value until something else writes it.
RefuseKeys(t) ==
  LET j == job[t] IN
  /\ j.pc = "save" /\ j.slot <= j.last /\ Event
  /\ behind' = behind \cup
       {<<j.slot, k>> : k \in {l \in Grain[j.at] : nv[j.slot][l] # table[j.slot][l]}}
  /\ job' = [job EXCEPT ![t] = Advance(j)]
  /\ UNCHANGED <<ram, nvs, clock, active, recent, loaded>>

RefuseLife(t) ==
  /\ job[t].pc = "save" /\ job[t].slot > job[t].last /\ Event
  /\ behind' = behind \cup (IF nvLife = life THEN {} ELSE {LifeCell})
  /\ job' = [job EXCEPT ![t] = Idle]
  /\ UNCHANGED <<ram, nvs, clock, active, recent, loaded>>

--------------------------------------------------------------------------------
\* A restart at any moment, and mining_pool_stats_init(): a slot with neither
\* a host nor a time of last use is not loaded.

LoadSlot(s) == IF nv[s]["host"] # 0 \/ nv[s]["seen"] # 0 THEN nv[s] ELSE EmptyRow

Restart ==
  /\ Event
  /\ table' = [s \in Slots |-> LoadSlot(s)] /\ life' = nvLife
  /\ clock' = 0 /\ active' = 0 /\ recent' = 0
  /\ job' = [t \in Tasks |-> Idle]
  /\ loaded' = {s \in Slots : LoadSlot(s)["seen"] # 0}
  /\ behind' = {c \in Slots \X Keys : nv[c[1]][c[2]] # LoadSlot(c[1])[c[2]]}
  /\ UNCHANGED nvs

Connect == \E p \in Pools : Find(p) \/ Alloc(p) \/ Evict(p)
Record == FetchShares \/ StoreShares \/ TakeSlot \/ StoreBlocks
Write(t) == WriteKeys(t) \/ WriteLife(t)
Refuse(t) == RefuseKeys(t) \/ RefuseLife(t)

Next ==
  \/ Connect \/ Disconnect
  \/ Record
  \/ TimerSave \/ Reset \/ ResetSave
  \/ \E t \in Tasks : Write(t) \/ Refuse(t)
  \/ Restart

Spec == Init /\ [][Next]_vars

\* As long as some task can go on with what it does, or the save timer can
\* fire, one of them does.  (Tasks are scheduled independently, so more than
\* this is true; no more is needed.)
Continue == \/ \E t \in Tasks : Write(t)
            \/ StoreShares \/ StoreBlocks
            \/ TimerSave \/ ResetSave

FairSpec == Spec /\ WF_vars(Continue)

--------------------------------------------------------------------------------
\* Properties.

\* "Persists immediately", as far as the code keeps it: when no task is in
\* the middle of anything, NVS holds what RAM holds, but for cells with one
\* of four reasons to differ - the slot was looked up and nothing has been
\* recorded since, the table was reset and the save after it failed or was
\* overtaken, an older image was written over the recorders' newer one, or NVS
\* refused the write.
AtRest == \A t \in Tasks : job[t].pc = "idle"
Saved(c) == IF c = LifeCell THEN nvLife = life ELSE nv[c[1]][c[2]] = table[c[1]][c[2]]
SavedAtRest == AtRest => \A c \in Cells \ behind : Saved(c)

\* Two slots in use never come to name the same pool while the device runs.
\* (A restart may load such a pair: a slot is persisted by its first share
\* only, so NVS may still hold a row the table evicted.)
Named(s) == <<table[s]["host"], table[s]["port"]>>
Twins == \E s, u \in Slots : s # u /\ InUse(s) /\ InUse(u) /\ Named(s) = Named(u)
NoNewTwins == [][Twins' => Twins \/ Restart]_vars

\* Failing over to another pool never evicts the pool just left, as long as
\* no slot still carries a time of an earlier boot: those may all be later
\* than any time of this one.
Renamed == \E s \in Slots : s = recent /\ Named(s)' # Named(s)
JustLeftKept ==
  [][recent # 0 /\ recent' # 0 /\ Renamed => loaded # {}]_vars

\* No accepted share and no block is lost in RAM, although an increment is a read
\* and a write without a lock: every recorder raises its counter, also when the
\* slot was evicted or the table cleared since the read, and nothing but a reset
\* or a restart lowers a counter of a slot in use that keeps its pool.
CountsGrow ==
  /\ life' >= life
  /\ \A s \in Slots : InUse(s) /\ Named(s)' = Named(s) =>
       table'[s]["shares"] >= table[s]["shares"] /\ table'[s]["blocks"] >= table[s]["blocks"]
CountsKept ==
  [][/\ CountsGrow \/ Reset \/ Restart
     /\ StoreShares => LET s == job["stratum"].slot IN table'[s]["shares"] > table[s]["shares"]
     /\ StoreBlocks => LET s == job["miner"].slot IN
                         table'[s]["blocks"] > table[s]["blocks"] /\ life' > life]_vars

\* The periodic save heals all of it: when connections, shares, blocks,
\* resets, restarts and refusals have stopped, NVS comes to hold the table and stays so.
Converges == <>[](nv = table /\ nvLife = life)
=============================================================================
