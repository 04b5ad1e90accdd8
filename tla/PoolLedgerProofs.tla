-------------------------- MODULE PoolLedgerProofs --------------------------
(***************************************************************************)
(* Proofs about PoolLedger, for every set of pools, number of slots, grain *)
(* of the writes and bound on events and tasks.                            *)
(***************************************************************************)
EXTENDS PoolLedger, TLAPS

USE PoolsAssumption, SlotsAssumption, BoundAssumption

\* A save has at least one set of keys to write, and each is a set of keys.
LEMMA GrainTyped ==
  /\ Len(Grain) \in Nat \ {0}
  /\ \A i \in 1..Len(Grain) : Grain[i] \subseteq Keys
  /\ \A k \in Keys : \E i \in 1..Len(Grain) : k \in Grain[i]
<1>1. Len(Grain) \in Nat /\ \A i \in 1..Len(Grain) : Grain[i] \in SUBSET Keys
  BY GrainAssumption
<1>2. \E i \in 1..Len(Grain) : TRUE
  BY GrainAssumption DEF Keys
<1>. QED
  BY <1>1, <1>2, GrainAssumption

\* The rows the actions build are rows.
LEMMA RowsTyped ==
  /\ EmptyRow \in Rows /\ EmptyTable \in [Slots -> Rows]
  /\ \A r \in Rows, k \in Keys, n \in Nat : [r EXCEPT ![k] = n] \in Rows
  /\ \A p \in Pools : clock \in Nat => NewRow(p) \in Rows
BY DEF EmptyRow, EmptyTable, Rows, Keys, NewRow

\* What a task is set to do is a job.
LEMMA WaitingTyped ==
  ASSUME NEW pc \in {"idle", "add", "cleared"}, NEW s \in Slots, NEW m \in Nat, NEW n \in Nat
  PROVE  Waiting(pc, s, m, n) \in Jobs
BY GrainTyped, RowsTyped DEF Waiting, Jobs, Slots

LEMMA IdleTyped == Idle \in Jobs /\ Idle.pc = "idle"
BY WaitingTyped DEF Idle, Slots, Waiting

LEMMA SaveSlotTyped ==
  ASSUME NEW s \in Slots, NEW n \in Nat
  PROVE  SaveSlot(s, n) \in Jobs /\ SaveSlot(s, n).pc = "save"
<1>1. SaveSlot(s, n) \in Jobs
  BY RowsTyped, GrainTyped DEF SaveSlot, Saving, Jobs, Slots
<1>. QED
  BY <1>1 DEF SaveSlot, Saving

LEMMA SaveTableTyped ==
  ASSUME TypeOK
  PROVE  SaveTable \in Jobs /\ SaveTable.pc = "save"
<1>1. SaveTable \in Jobs
  BY GrainTyped DEF SaveTable, Saving, Jobs, Slots, TypeOK
<1>. QED
  BY <1>1 DEF SaveTable, Saving

\* A task that turns to a job keeps the jobs typed.
LEMMA TurnTyped ==
  ASSUME TypeOK, NEW t \in Tasks, NEW x \in Jobs, x.pc = "add" => x.slot \in Slots,
         job' = [job EXCEPT ![t] = x]
  PROVE  /\ job' \in [Tasks -> Jobs]
         /\ \A u \in Tasks : job'[u].pc = "add" => job'[u].slot \in Slots
BY DEF TypeOK

\* Naming a slot keeps the types.
LEMMA HoldTyped ==
  ASSUME TypeOK, NEW s \in Slots, NEW row \in Rows, Connecting, Hold(s, row)
  PROVE  TypeOK'
<1>1. table' \in [Slots -> Rows] /\ active' \in Slots /\ recent' \in Slots
  BY DEF Hold, TypeOK
<1>2. loaded' \subseteq Slots /\ behind' \subseteq Cells
  BY DEF Hold, TypeOK, Cells
<1>. QED
  BY <1>1, <1>2 DEF Connecting, Event, TypeOK, nvs

\* A save that goes on is a job.
LEMMA AdvanceTyped ==
  ASSUME NEW j \in Jobs, j.slot <= j.last
  PROVE  /\ j.slot \in Slots /\ j.at \in 1..Len(Grain)
         /\ Advance(j) \in Jobs /\ Advance(j).pc = "save"
<1>1. j.slot \in Slots /\ j.at \in 1..Len(Grain)
  BY GrainTyped DEF Jobs, Slots
<1>2. CASE j.at < Len(Grain)
  <2>1. Saving(j.slot, j.last, j.at + 1, j.life, j.live, j.rows) \in Jobs
    BY <1>1, <1>2, GrainTyped DEF Saving, Jobs
  <2>. QED
    BY <1>1, <1>2, <2>1 DEF Advance, Saving
<1>3. CASE ~(j.at < Len(Grain))
  <2>1. [j.rows EXCEPT ![j.slot] = EmptyRow] \in [Slots -> Rows]
    BY <1>1, RowsTyped DEF Jobs
  <2>2. Saving(j.slot + 1, j.last, 1, j.life, j.live, [j.rows EXCEPT ![j.slot] = EmptyRow]) \in Jobs
    BY <1>1, <2>1, GrainTyped DEF Saving, Jobs, Slots
  <2>. QED
    BY <1>1, <1>3, <2>2 DEF Advance, Saving
<1>. QED
  BY <1>2, <1>3

\* The next keys of a save are written.
LEMMA WriteKeysTyped ==
  ASSUME TypeOK, NEW t \in Tasks, WriteKeys(t)
  PROVE  TypeOK'
<1>. DEFINE j == job[t]
            row == IF j.live THEN table[j.slot] ELSE j.rows[j.slot]
<1>1. j \in Jobs /\ j.slot \in Slots /\ j.at \in 1..Len(Grain)
  BY GrainTyped DEF WriteKeys, TypeOK, Jobs, Slots
<1>2. row \in Rows
  BY <1>1 DEF TypeOK, Jobs
<1>3. nv' \in [Slots -> Rows]
  <2>1. [k \in Keys |-> IF k \in Grain[j.at] THEN row[k] ELSE nv[j.slot][k]] \in Rows
    BY <1>1, <1>2 DEF TypeOK, Rows
  <2>. QED
    BY <1>1, <2>1 DEF WriteKeys, TypeOK
<1>4. behind' \subseteq Cells
  BY <1>1, GrainTyped DEF WriteKeys, Noted, TypeOK, Cells
<1>5. Advance(j) \in Jobs /\ Advance(j).pc = "save"
  BY AdvanceTyped DEF WriteKeys, TypeOK
<1>. QED
  BY <1>3, <1>4, <1>5 DEF WriteKeys, TypeOK, ram

LEMMA WriteLifeTyped ==
  ASSUME TypeOK, NEW t \in Tasks, WriteLife(t)
  PROVE  TypeOK'
<1>1. nvLife' \in Nat /\ behind' \subseteq Cells
  BY DEF WriteLife, Noted, TypeOK, Jobs, Cells
<1>. QED
  BY <1>1, IdleTyped DEF WriteLife, TypeOK, ram

\* A refused write changes no number.
LEMMA RefuseTyped ==
  ASSUME TypeOK, NEW t \in Tasks, Refuse(t)
  PROVE  TypeOK'
<1>1. CASE RefuseKeys(t)
  <2>. DEFINE j == job[t]
  <2>1. j \in Jobs /\ j.slot <= j.last
    BY <1>1 DEF RefuseKeys, TypeOK
  <2>2. j.slot \in Slots /\ j.at \in 1..Len(Grain) /\ Advance(j) \in Jobs /\ Advance(j).pc # "add"
    BY <2>1, AdvanceTyped
  <2>3. behind' \subseteq Cells
    BY <1>1, <2>2, GrainTyped DEF RefuseKeys, TypeOK, Cells
  <2>4. job' = [job EXCEPT ![t] = Advance(j)]
    BY <1>1 DEF RefuseKeys
  <2>. HIDE DEF j
  <2>. QED
    BY <1>1, <2>2, <2>3, <2>4, TurnTyped DEF RefuseKeys, Event, TypeOK, ram, nvs
<1>2. CASE RefuseLife(t)
  <2>1. behind' \subseteq Cells
    BY <1>2 DEF RefuseLife, TypeOK, Cells
  <2>. QED
    BY <1>2, <2>1, IdleTyped, TurnTyped DEF RefuseLife, Event, TypeOK, ram, nvs
<1>. QED
  BY <1>1, <1>2 DEF Refuse

\* The tables of counters, clocks and jobs keep their types whatever the
\* tasks do in whatever order.
LEMMA TypeStep == TypeOK /\ [Next]_vars => TypeOK'
<1>. SUFFICES ASSUME TypeOK, [Next]_vars PROVE TypeOK'
  OBVIOUS
<1>1. CASE Connect
  <2>1. PICK p \in Pools : Find(p) \/ Alloc(p) \/ Evict(p)
    BY <1>1 DEF Connect
  <2>2. CASE Find(p)
    <3>1. PICK s \in Slots : Hold(s, [table[s] EXCEPT !["seen"] = clock + 1])
      BY <2>2 DEF Find
    <3>2. [table[s] EXCEPT !["seen"] = clock + 1] \in Rows
      BY RowsTyped DEF TypeOK, Keys
    <3>. QED
      BY <2>2, <3>1, <3>2, HoldTyped DEF Find
  <2>3. CASE Alloc(p) \/ Evict(p)
    <3>1. PICK s \in Slots : Hold(s, NewRow(p))
      BY <2>3 DEF Alloc, Evict
    <3>2. NewRow(p) \in Rows
      BY RowsTyped DEF TypeOK
    <3>. QED
      BY <2>3, <3>1, <3>2, HoldTyped DEF Alloc, Evict
  <2>. QED
    BY <2>1, <2>2, <2>3
<1>2. CASE Disconnect
  BY <1>2 DEF Disconnect, TypeOK, ram, nvs, history
<1>3. CASE FetchShares
  <2>. DEFINE x == Waiting("add", active, table[active]["shares"], 0)
  <2>1. active \in Slots /\ table[active]["shares"] \in Nat
    BY <1>3 DEF FetchShares, TypeOK, Rows, Keys
  <2>2. x \in Jobs /\ x.slot = active
    BY <2>1, WaitingTyped DEF Waiting
  <2>3. job' = [job EXCEPT !["stratum"] = x]
    BY <1>3 DEF FetchShares
  <2>. HIDE DEF x
  <2>. QED
    BY <1>3, <2>1, <2>2, <2>3, TurnTyped DEF FetchShares, Event, TypeOK, Tasks, ram, nvs, history
<1>4. CASE StoreShares
  <2>. DEFINE j == job["stratum"]
  <2>1. j \in Jobs /\ j.slot \in Slots
    BY <1>4 DEF StoreShares, TypeOK, Tasks
  <2>2. j.old + 1 \in Nat
    BY <2>1 DEF Jobs
  <2>3. [table[j.slot] EXCEPT !["shares"] = j.old + 1] \in Rows
    BY <2>1, <2>2, RowsTyped DEF TypeOK, Keys
  <2>4. table' \in [Slots -> Rows]
    BY <1>4, <2>1, <2>3 DEF StoreShares, TypeOK
  <2>5. SaveSlot(j.slot, life) \in Jobs /\ SaveSlot(j.slot, life).pc # "add"
    BY <2>1, SaveSlotTyped DEF TypeOK
  <2>6. job' = [job EXCEPT !["stratum"] = SaveSlot(j.slot, life)]
    BY <1>4 DEF StoreShares
  <2>. HIDE DEF j
  <2>. QED
    BY <1>4, <2>4, <2>5, <2>6, TurnTyped DEF StoreShares, TypeOK, Tasks, nvs, history
<1>5. CASE TakeSlot
  <2>. DEFINE x == Waiting("add", active, table[active]["blocks"], life)
  <2>1. active \in Slots /\ table[active]["blocks"] \in Nat
    BY <1>5 DEF TakeSlot, TypeOK, Rows, Keys
  <2>2. x \in Jobs /\ x.slot = active
    BY <2>1, WaitingTyped DEF Waiting, TypeOK
  <2>3. job' = [job EXCEPT !["miner"] = x]
    BY <1>5 DEF TakeSlot
  <2>. HIDE DEF x
  <2>. QED
    BY <1>5, <2>1, <2>2, <2>3, TurnTyped DEF TakeSlot, Event, TypeOK, Tasks, ram, nvs, history
<1>6. CASE StoreBlocks
  <2>. DEFINE j == job["miner"]
  <2>1. j \in Jobs /\ j.slot \in Slots
    BY <1>6 DEF StoreBlocks, TypeOK, Tasks
  <2>2. j.old \in Nat /\ j.life \in Nat /\ table[j.slot]["blocks"] \in Nat
    <3>1. j.old \in Nat /\ j.life \in Nat
      BY <2>1 DEF Jobs
    <3>2. table[j.slot] \in Rows
      BY <2>1 DEF TypeOK
    <3>. QED
      BY <3>1, <3>2 DEF Rows, Keys
  <2>3. PICK n \in Nat : table' = [table EXCEPT ![j.slot]["blocks"] = n + 1]
    BY <1>6, <2>2 DEF StoreBlocks
  <2>4. [table[j.slot] EXCEPT !["blocks"] = n + 1] \in Rows
    BY <2>1, RowsTyped DEF TypeOK, Keys
  <2>5. table' \in [Slots -> Rows]
    BY <2>1, <2>3, <2>4 DEF TypeOK
  <2>6. life' \in Nat
    BY <1>6, <2>2 DEF StoreBlocks, TypeOK
  <2>7. SaveSlot(j.slot, life') \in Jobs /\ SaveSlot(j.slot, life').pc # "add"
    BY <2>1, <2>6, SaveSlotTyped
  <2>8. job' = [job EXCEPT !["miner"] = SaveSlot(j.slot, life')]
    BY <1>6 DEF StoreBlocks
  <2>. HIDE DEF j
  <2>. QED
    BY <1>6, <2>5, <2>6, <2>7, <2>8, TurnTyped DEF StoreBlocks, TypeOK, Tasks, nvs, history
<1>7. CASE TimerSave
  BY <1>7, SaveTableTyped DEF TimerSave, TypeOK, ram, nvs, history
<1>8. CASE Reset
  <2>. DEFINE x == Waiting("cleared", 1, 0, 0)
  <2>1. x \in Jobs /\ x.pc = "cleared"
    BY WaitingTyped DEF Slots, Waiting
  <2>2. behind' \subseteq Cells
    BY <1>8 DEF Reset, Cells
  <2>3. job' = [job EXCEPT !["http"] = x]
    BY <1>8 DEF Reset
  <2>. HIDE DEF x
  <2>. QED
    BY <1>8, <2>1, <2>2, <2>3, RowsTyped, TurnTyped DEF Reset, Event, TypeOK, Tasks, nvs
<1>9. CASE ResetSave
  BY <1>9, SaveTableTyped, IdleTyped DEF ResetSave, TypeOK, ram, nvs, history
<1>10. CASE \E t \in Tasks : Write(t) \/ Refuse(t)
  BY <1>10, WriteKeysTyped, WriteLifeTyped, RefuseTyped DEF Write
<1>11. CASE Restart
  <2>1. \A s \in Slots : LoadSlot(s) \in Rows
    BY RowsTyped DEF LoadSlot, TypeOK
  <2>2. behind' \subseteq Cells /\ loaded' \subseteq Slots
    BY <1>11 DEF Restart, Cells
  <2>3. table' \in [Slots -> Rows]
    BY <1>11, <2>1 DEF Restart
  <2>4. job' \in [Tasks -> Jobs] /\ \A t \in Tasks : job'[t].pc = "idle"
    BY <1>11, IdleTyped DEF Restart
  <2>. QED
    BY <1>11, <2>2, <2>3, <2>4 DEF Restart, Event, TypeOK, nvs
<1>12. CASE UNCHANGED vars
  BY <1>12 DEF vars, history, TypeOK
<1>. QED
  BY <1>1, <1>2, <1>3, <1>4, <1>5, <1>6, <1>7, <1>8, <1>9, <1>10, <1>11, <1>12
  DEF Next, Record

THEOREM TypesKept == Spec => []TypeOK
<1>1. Init => TypeOK
  BY RowsTyped, IdleTyped DEF Init, TypeOK
<1>. QED
  BY <1>1, TypeStep, PTL DEF Spec

--------------------------------------------------------------------------------
\* SavedAtRest.  A cell that NVS does not hold and has no reason not to is
\* one that a recorder has still to write, from the live slot or with the
\* block count of now.

PendingKey(s, k) ==
  \E t \in Tasks : /\ job[t].pc = "save" /\ job[t].live
                   /\ job[t].slot = s /\ job[t].slot <= job[t].last
                   /\ \E i \in 1..Len(Grain) : job[t].at <= i /\ k \in Grain[i]
PendingLife == \E t \in Tasks : job[t].pc = "save" /\ job[t].live /\ job[t].life = life

BookInv ==
  /\ \A s \in Slots, k \in Keys :
       <<s, k>> \notin behind => nv[s][k] = table[s][k] \/ PendingKey(s, k)
  /\ LifeCell \notin behind => nvLife = life \/ PendingLife

\* The block count is no key of a slot.
LEMMA LifeApart == \A s \in Slots, k \in Keys : <<s, k>> # LifeCell
BY DEF Slots, LifeCell

\* What is pending stays so while the savers keep their jobs.
LEMMA PendingKept ==
  ASSUME TypeOK, NEW t \in Tasks, job[t].pc # "save", job' = [job EXCEPT ![t] = job'[t]]
  PROVE  /\ \A s \in Slots, k \in Keys : PendingKey(s, k) => PendingKey(s, k)'
         /\ life' = life => (PendingLife => PendingLife')
BY DEF TypeOK, PendingKey, PendingLife

\* A connection notes in behind where NVS differs from the slot's new row.
LEMMA HoldBooked ==
  ASSUME TypeOK, BookInv, NEW s \in Slots, NEW row \in Rows, Connecting, Hold(s, row)
  PROVE  BookInv'
<1>1. job' = job /\ nv' = nv /\ nvLife' = nvLife /\ life' = life
  BY DEF Connecting, nvs
<1>2. ASSUME NEW u \in Slots, NEW k \in Keys, <<u, k>> \notin behind'
      PROVE  nv'[u][k] = table'[u][k] \/ PendingKey(u, k)'
  <2>1. CASE u = s
    BY <1>1, <1>2, <2>1 DEF Hold, TypeOK
  <2>2. CASE u # s
    <3>1. <<u, k>> \notin behind /\ table'[u] = table[u]
      BY <1>2, <2>2 DEF Hold, TypeOK
    <3>. QED
      BY <1>1, <3>1 DEF BookInv, PendingKey
  <2>. QED
    BY <2>1, <2>2
<1>3. LifeCell \notin behind' => nvLife' = life' \/ PendingLife'
  BY <1>1, LifeApart DEF Hold, BookInv, PendingLife
<1>. QED
  BY <1>2, <1>3 DEF BookInv

\* A recorder's store is followed by a save of the slot it changed, with the
\* block count of that moment.
LEMMA StoreBooked ==
  ASSUME TypeOK, BookInv, NEW t \in Tasks, job[t].pc = "add",
         NEW k0 \in Keys, NEW n \in Nat, NEW s \in Slots,
         table' = [table EXCEPT ![s][k0] = n],
         job' = [job EXCEPT ![t] = SaveSlot(s, life')],
         UNCHANGED <<nv, nvLife, behind>>
  PROVE  BookInv'
<1>1. /\ job'[t].pc = "save" /\ job'[t].live /\ job'[t].life = life'
      /\ job'[t].slot = s /\ job'[t].last = s /\ job'[t].at = 1
  BY DEF TypeOK, SaveSlot, Saving
<1>2. PendingLife'
  BY <1>1 DEF PendingLife
<1>3. \A k \in Keys : PendingKey(s, k)'
  BY <1>1, GrainTyped DEF PendingKey, Slots
<1>4. ASSUME NEW u \in Slots, NEW k \in Keys, u # s, <<u, k>> \notin behind'
      PROVE  nv'[u][k] = table'[u][k] \/ PendingKey(u, k)'
  <2>1. table'[u] = table[u]
    BY <1>4 DEF TypeOK
  <2>2. PendingKey(u, k) => PendingKey(u, k)'
    BY PendingKept DEF TypeOK
  <2>. QED
    BY <1>4, <2>1, <2>2 DEF BookInv
<1>. QED
  BY <1>2, <1>3, <1>4 DEF BookInv

\* A save that goes on leaves pending what it was not at.
LEMMA AdvancePending ==
  ASSUME TypeOK, NEW t \in Tasks, job[t].pc = "save", job[t].slot <= job[t].last,
         job' = [job EXCEPT ![t] = Advance(job[t])],
         NEW s \in Slots, NEW k \in Keys, ~(s = job[t].slot /\ k \in Grain[job[t].at]),
         PendingKey(s, k)
  PROVE  PendingKey(s, k)'
<1>. DEFINE j == job[t]
<1>1. j \in Jobs /\ j.slot \in Slots /\ j.at \in 1..Len(Grain)
  BY AdvanceTyped DEF TypeOK
<1>2. PICK u \in Tasks : /\ job[u].pc = "save" /\ job[u].live
                         /\ job[u].slot = s /\ job[u].slot <= job[u].last
                         /\ \E i \in 1..Len(Grain) : job[u].at <= i /\ k \in Grain[i]
  BY DEF PendingKey
<1>3. PICK i \in 1..Len(Grain) : job[u].at <= i /\ k \in Grain[i]
  BY <1>2
<1>4. CASE u # t
  <2>1. job'[u] = job[u]
    BY <1>4 DEF TypeOK
  <2>. QED
    BY <1>2, <2>1 DEF PendingKey
<1>5. CASE u = t
  <2>1. i # j.at /\ j.at < Len(Grain) /\ j.at + 1 <= i
    BY <1>1, <1>2, <1>3, <1>5, GrainTyped
  <2>2. Advance(j) = Saving(j.slot, j.last, j.at + 1, j.life, j.live, j.rows)
    BY <2>1 DEF Advance
  <2>3. job'[t] = Advance(j)
    BY DEF TypeOK
  <2>4. /\ job'[t].pc = "save" /\ job'[t].live /\ job'[t].slot = s
        /\ job'[t].slot <= job'[t].last /\ job'[t].at = j.at + 1
    BY <1>2, <1>5, <2>2, <2>3 DEF Saving
  <2>. QED
    BY <1>3, <2>1, <2>4 DEF PendingKey
<1>. QED
  BY <1>4, <1>5

\* A save at its last write has no key left to write.
LEMMA IdlePending ==
  ASSUME TypeOK, NEW t \in Tasks, job[t].slot > job[t].last,
         \A u \in Tasks : u # t => job'[u] = job[u],
         NEW s \in Slots, NEW k \in Keys, PendingKey(s, k)
  PROVE  PendingKey(s, k)'
<1>1. PICK u \in Tasks : /\ job[u].pc = "save" /\ job[u].live
                         /\ job[u].slot = s /\ job[u].slot <= job[u].last
                         /\ \E i \in 1..Len(Grain) : job[u].at <= i /\ k \in Grain[i]
  BY DEF PendingKey
<1>2. u # t
  <2>1. job[t] \in Jobs
    BY DEF TypeOK
  <2>2. ~(job[t].slot <= job[t].last)
    BY <2>1 DEF Jobs, Slots
  <2>. QED
    BY <1>1, <2>2
<1>. QED
  BY <1>1, <1>2 DEF PendingKey

\* Keys that are written are in NVS as RAM has them, or are noted; the others
\* a recorder had still to write are those after.
LEMMA WriteKeysBooked ==
  ASSUME TypeOK, BookInv, NEW t \in Tasks, WriteKeys(t)
  PROVE  BookInv'
<1>. DEFINE j == job[t]
            row == IF j.live THEN table[j.slot] ELSE j.rows[j.slot]
<1>1. j \in Jobs /\ j.slot \in Slots /\ j.at \in 1..Len(Grain)
  BY GrainTyped DEF WriteKeys, TypeOK, Jobs, Slots
<1>2. table' = table /\ life' = life /\ nvLife' = nvLife
  BY DEF WriteKeys, ram
<1>3. job' = [job EXCEPT ![t] = Advance(j)]
  BY DEF WriteKeys
<1>4. Advance(j).pc = "save" /\ Advance(j).live = j.live /\ Advance(j).life = j.life
  BY DEF Advance, Saving
<1>5. PendingLife => PendingLife'
  BY <1>2, <1>3, <1>4 DEF PendingLife, TypeOK, WriteKeys
<1>6. nv' = [nv EXCEPT ![j.slot] = [k \in Keys |-> IF k \in Grain[j.at] THEN row[k] ELSE nv[j.slot][k]]]
  BY DEF WriteKeys
<1>7. \A c : c \notin behind' =>
        /\ c \notin {<<j.slot, k>> : k \in {l \in Grain[j.at] : row[l] # table[j.slot][l]}}
        /\ c \notin {<<j.slot, k>> : k \in Grain[j.at]} => c \notin behind
  BY DEF WriteKeys, Noted
<1>8. ASSUME NEW s \in Slots, NEW k \in Keys, <<s, k>> \notin behind'
      PROVE  nv'[s][k] = table'[s][k] \/ PendingKey(s, k)'
  <2>1. CASE s = j.slot /\ k \in Grain[j.at]
    <3>1. row[k] = table[s][k]
      BY <1>7, <1>8, <2>1
    <3>2. nv'[s][k] = row[k]
      BY <1>6, <2>1 DEF TypeOK
    <3>. QED
      BY <1>2, <3>1, <3>2
  <2>2. CASE ~(s = j.slot /\ k \in Grain[j.at])
    <3>1. <<s, k>> \notin behind
      BY <1>7, <1>8, <2>2
    <3>2. nv'[s][k] = nv[s][k]
      BY <1>6, <2>2 DEF TypeOK
    <3>3. PendingKey(s, k) => PendingKey(s, k)'
      BY <1>3, <2>2, AdvancePending DEF WriteKeys
    <3>. QED
      BY <1>2, <3>1, <3>2, <3>3 DEF BookInv
  <2>. QED
    BY <2>1, <2>2
<1>9. LifeCell \notin behind' => nvLife' = life' \/ PendingLife'
  <2>1. LifeCell \notin {<<j.slot, k>> : k \in Grain[j.at]}
    BY <1>1, GrainTyped, LifeApart
  <2>. QED
    BY <1>2, <1>5, <1>7, <2>1 DEF BookInv
<1>. QED
  BY <1>8, <1>9 DEF BookInv

\* The block count written is the one of now, or it is noted.
LEMMA WriteLifeBooked ==
  ASSUME TypeOK, BookInv, NEW t \in Tasks, WriteLife(t)
  PROVE  BookInv'
<1>1. table' = table /\ life' = life /\ nv' = nv /\ nvLife' = job[t].life
  BY DEF WriteLife, ram
<1>2. \A u \in Tasks : u # t => job'[u] = job[u]
  BY DEF WriteLife, TypeOK
<1>3. ASSUME NEW s \in Slots, NEW k \in Keys, PendingKey(s, k)
      PROVE  PendingKey(s, k)'
  BY <1>2, <1>3, IdlePending DEF WriteLife
<1>4. \A s \in Slots, k \in Keys : <<s, k>> \notin behind' => <<s, k>> \notin behind
  BY LifeApart DEF WriteLife, Noted
<1>5. LifeCell \notin behind' => nvLife' = life'
  BY <1>1 DEF WriteLife, Noted
<1>. QED
  BY <1>1, <1>3, <1>4, <1>5 DEF BookInv

\* A refused write is noted where NVS differs, and what a recorder has still
\* to write is what it had beside it.
LEMMA RefuseBooked ==
  ASSUME TypeOK, BookInv, NEW t \in Tasks, Refuse(t)
  PROVE  BookInv'
<1>. DEFINE j == job[t]
<1>1. table' = table /\ life' = life /\ nv' = nv /\ nvLife' = nvLife
  BY DEF Refuse, RefuseKeys, RefuseLife, ram, nvs
<1>2. CASE RefuseKeys(t)
  <2>1. j.pc = "save" /\ j.slot <= j.last /\ job' = [job EXCEPT ![t] = Advance(j)]
    BY <1>2 DEF RefuseKeys
  <2>2. Advance(j).pc = "save" /\ Advance(j).live = j.live /\ Advance(j).life = j.life
    BY DEF Advance, Saving
  <2>3. PendingLife => PendingLife'
    BY <1>1, <2>1, <2>2 DEF PendingLife, TypeOK
  <2>4. \A c : c \notin behind' =>
          /\ c \notin behind
          /\ c \notin {<<j.slot, k>> : k \in {l \in Grain[j.at] : nv[j.slot][l] # table[j.slot][l]}}
    BY <1>2 DEF RefuseKeys
  <2>5. ASSUME NEW s \in Slots, NEW k \in Keys, <<s, k>> \notin behind'
        PROVE  nv'[s][k] = table'[s][k] \/ PendingKey(s, k)'
    <3>1. CASE s = j.slot /\ k \in Grain[j.at]
      BY <1>1, <2>4, <2>5, <3>1
    <3>2. CASE ~(s = j.slot /\ k \in Grain[j.at])
      BY <1>1, <2>1, <2>4, <2>5, <3>2, AdvancePending DEF BookInv
    <3>. QED
      BY <3>1, <3>2
  <2>. QED
    BY <1>1, <2>3, <2>4, <2>5 DEF BookInv
<1>3. CASE RefuseLife(t)
  <2>1. j.slot > j.last /\ \A u \in Tasks : u # t => job'[u] = job[u]
    BY <1>3 DEF RefuseLife, TypeOK
  <2>2. /\ behind \subseteq behind'
        /\ LifeCell \notin behind' => nvLife = life
    BY <1>3 DEF RefuseLife
  <2>. QED
    BY <1>1, <2>1, <2>2, IdlePending DEF BookInv
<1>. QED
  BY <1>2, <1>3 DEF Refuse

\* A task that is not writing turns to something that leaves the numbers alone.
LEMMA TurnBooked ==
  ASSUME TypeOK, BookInv, NEW t \in Tasks, job[t].pc # "save", NEW x,
         job' = [job EXCEPT ![t] = x], UNCHANGED <<ram, nvs, behind>>
  PROVE  BookInv'
<1>1. job' = [job EXCEPT ![t] = job'[t]]
  BY DEF TypeOK
<1>. QED
  BY <1>1, PendingKept DEF BookInv, ram, nvs

LEMMA BookStep == TypeOK /\ BookInv /\ [Next]_vars => BookInv'
<1>. SUFFICES ASSUME TypeOK, BookInv, [Next]_vars PROVE BookInv'
  OBVIOUS
<1>1. CASE Connect
  <2>1. PICK p \in Pools : Find(p) \/ Alloc(p) \/ Evict(p)
    BY <1>1 DEF Connect
  <2>2. PICK s \in Slots : \/ Hold(s, [table[s] EXCEPT !["seen"] = clock + 1])
                           \/ Hold(s, NewRow(p))
    BY <2>1 DEF Find, Alloc, Evict
  <2>3. NewRow(p) \in Rows /\ [table[s] EXCEPT !["seen"] = clock + 1] \in Rows
    BY RowsTyped DEF TypeOK, Keys
  <2>. QED
    BY <2>1, <2>2, <2>3, HoldBooked DEF Find, Alloc, Evict
<1>2. CASE Disconnect
  BY <1>2 DEF Disconnect, BookInv, PendingKey, PendingLife, ram, nvs, history
<1>3. CASE FetchShares \/ TakeSlot \/ TimerSave \/ ResetSave
  BY <1>3, TurnBooked DEF FetchShares, TakeSlot, TimerSave, ResetSave, Starts, Tasks, history
<1>4. CASE StoreShares
  <2>1. /\ job["stratum"].pc = "add" /\ job["stratum"].slot \in Slots
        /\ job["stratum"] \in Jobs
    BY <1>4 DEF StoreShares, TypeOK, Tasks
  <2>2. job["stratum"].old + 1 \in Nat
    BY <2>1 DEF Jobs
  <2>. QED
    BY <1>4, <2>1, <2>2, StoreBooked DEF StoreShares, Tasks, Keys, nvs, history
<1>5. CASE StoreBlocks
  <2>. DEFINE j == job["miner"]
  <2>1. j.pc = "add" /\ j \in Jobs /\ j.slot \in Slots
    BY <1>5 DEF StoreBlocks, TypeOK, Tasks
  <2>2. j.old \in Nat
    BY <2>1 DEF Jobs
  <2>3. table[j.slot] \in Rows
    BY <2>1 DEF TypeOK
  <2>4. table[j.slot]["blocks"] \in Nat
    BY <2>3 DEF Rows, Keys
  <2>5. PICK n \in Nat : table' = [table EXCEPT ![j.slot]["blocks"] = n + 1]
    BY <1>5, <2>2, <2>4 DEF StoreBlocks
  <2>6. job' = [job EXCEPT !["miner"] = SaveSlot(j.slot, life')] /\ UNCHANGED <<nv, nvLife, behind>>
    BY <1>5 DEF StoreBlocks, nvs, history
  <2>7. "miner" \in Tasks /\ "blocks" \in Keys /\ n + 1 \in Nat
    BY DEF Tasks, Keys
  <2>. QED
    BY <2>1, <2>5, <2>6, <2>7, StoreBooked
<1>6. CASE Reset
  <2>1. \A s \in Slots, k \in Keys : table'[s][k] = 0
    BY <1>6 DEF Reset, EmptyTable, EmptyRow
  <2>. QED
    BY <1>6, <2>1 DEF Reset, BookInv, nvs
<1>7. CASE \E t \in Tasks : Write(t) \/ Refuse(t)
  BY <1>7, WriteKeysBooked, WriteLifeBooked, RefuseBooked DEF Write
<1>8. CASE Restart
  <2>1. \A s \in Slots, k \in Keys : table'[s][k] = LoadSlot(s)[k]
    BY <1>8 DEF Restart
  <2>. QED
    BY <1>8, <2>1 DEF Restart, BookInv, nvs
<1>9. CASE UNCHANGED vars
  BY <1>9 DEF vars, history, BookInv, PendingKey, PendingLife
<1>. QED
  BY <1>1, <1>2, <1>3, <1>4, <1>5, <1>6, <1>7, <1>8, <1>9 DEF Next, Record

\* "Persists immediately": when no task is in the middle of anything, NVS
\* holds every number of RAM that it has none of the named reasons to miss.
THEOREM PersistsAtRest == Spec => []SavedAtRest
<1>1. Init => BookInv
  BY DEF Init, BookInv, EmptyTable
<1>2. BookInv => SavedAtRest
  <2>. SUFFICES ASSUME BookInv, AtRest, NEW c \in Cells \ behind PROVE Saved(c)
    BY DEF SavedAtRest
  <2>1. ~PendingLife /\ \A s \in Slots, k \in Keys : ~PendingKey(s, k)
    BY DEF AtRest, PendingLife, PendingKey
  <2>2. CASE c = LifeCell
    BY <2>1, <2>2 DEF BookInv, Saved
  <2>3. CASE c \in Slots \X Keys
    <3>1. PICK s \in Slots, k \in Keys : c = <<s, k>>
      BY <2>3
    <3>2. nv[s][k] = table[s][k]
      BY <2>1, <3>1 DEF BookInv
    <3>. QED
      BY <3>1, <3>2, LifeApart DEF Saved
  <2>. QED
    BY <2>2, <2>3 DEF Cells
<1>. QED
  BY <1>1, <1>2, TypesKept, BookStep, PTL DEF Spec

--------------------------------------------------------------------------------
\* NoNewTwins and JustLeftKept, from what connecting does to the names.

\* Apart from a connection, a reset and a restart no step touches the name
\* or the time of a slot.
NamesSame == \A s \in Slots : /\ Named(s)' = Named(s)
                              /\ table'[s]["seen"] = table[s]["seen"]

LEMMA NamesMove ==
  ASSUME TypeOK, Next
  PROVE  \/ Connect \/ Reset \/ Restart
         \/ NamesSame /\ UNCHANGED <<clock, recent, loaded>>
<1>1. CASE Disconnect \/ FetchShares \/ TakeSlot \/ TimerSave \/ ResetSave
  BY <1>1 DEF Disconnect, FetchShares, TakeSlot, TimerSave, ResetSave, NamesSame, Named, ram, history
<1>2. CASE StoreShares
  BY <1>2 DEF StoreShares, NamesSame, Named, TypeOK, Rows, Keys, history
<1>3. CASE StoreBlocks
  <2>1. PICK n : table' = [table EXCEPT ![job["miner"].slot]["blocks"] = n]
    BY <1>3 DEF StoreBlocks
  <2>. QED
    BY <1>3, <2>1 DEF StoreBlocks, NamesSame, Named, TypeOK, Rows, Keys, history
<1>4. CASE \E t \in Tasks : Write(t) \/ Refuse(t)
  BY <1>4 DEF Write, WriteKeys, WriteLife, Refuse, RefuseKeys, RefuseLife, NamesSame, Named, ram
<1>5. CASE Connect \/ Reset \/ Restart
  BY <1>5
<1>. QED
  BY <1>1, <1>2, <1>3, <1>4, <1>5, Zenon DEF Next, Record

\* What a connection puts into the slot it takes: the pool's name and the time.
LEMMA ConnectNames ==
  ASSUME TypeOK, NEW p \in Pools, Find(p) \/ Alloc(p) \/ Evict(p)
  PROVE  \E s \in Slots :
           /\ Named(s)' = <<p.host, p.port>> /\ table'[s]["seen"] = clock + 1
           /\ \A u \in Slots \ {s} : table'[u] = table[u]
           /\ recent' = s /\ loaded' = loaded \ {s} /\ clock' = clock + 1
           /\ \/ Named(s)' = Named(s) /\ InUse(s)
              \/ RowsOf(p) = {} /\ ~InUse(s)
              \/ RowsOf(p) = {} /\ IsOldest(s)
<1>1. clock' = clock + 1
  BY DEF Find, Alloc, Evict, Connecting
<1>2. CASE Find(p)
  <2>1. PICK s \in Slots : s \in RowsOf(p) /\ Hold(s, [table[s] EXCEPT !["seen"] = clock + 1])
    BY <1>2 DEF Find, IsFirst
  <2>2. /\ table' = [table EXCEPT ![s] = [table[s] EXCEPT !["seen"] = clock + 1]]
        /\ recent' = s /\ loaded' = loaded \ {s}
    BY <2>1 DEF Hold
  <2>3. /\ table'[s] = [table[s] EXCEPT !["seen"] = clock + 1]
        /\ \A u \in Slots \ {s} : table'[u] = table[u]
    BY <2>2 DEF TypeOK
  <2>4. /\ table'[s]["seen"] = clock + 1 /\ table'[s]["host"] = table[s]["host"]
        /\ table'[s]["port"] = table[s]["port"]
    BY <2>3 DEF TypeOK, Rows, Keys
  <2>. QED
    BY <1>1, <2>1, <2>2, <2>3, <2>4 DEF RowsOf, Named
<1>3. CASE Alloc(p) \/ Evict(p)
  <2>1. PICK s \in Slots : (~InUse(s) \/ IsOldest(s)) /\ Hold(s, NewRow(p))
    BY <1>3 DEF Alloc, Evict, IsFirst, Free
  <2>2. /\ table' = [table EXCEPT ![s] = NewRow(p)]
        /\ recent' = s /\ loaded' = loaded \ {s}
    BY <2>1 DEF Hold
  <2>3. table'[s] = NewRow(p) /\ \A u \in Slots \ {s} : table'[u] = table[u]
    BY <2>2 DEF TypeOK
  <2>4. /\ NewRow(p)["seen"] = clock + 1 /\ NewRow(p)["host"] = p.host
        /\ NewRow(p)["port"] = p.port
    BY DEF NewRow, EmptyRow, Keys
  <2>5. RowsOf(p) = {}
    BY <1>3 DEF Alloc, Evict
  <2>. QED
    BY <1>1, <2>1, <2>2, <2>3, <2>4, <2>5 DEF Named
<1>. QED
  BY <1>2, <1>3

\* Two slots in use never come to name the same pool but by a restart.
THEOREM NoTwinsMade == Spec => NoNewTwins
<1>1. TypeOK /\ Next => (Twins' => Twins \/ Restart)
  <2>. SUFFICES ASSUME TypeOK, Next, Twins', ~Restart PROVE Twins
    OBVIOUS
  <2>1. PICK s, u \in Slots : s # u /\ InUse(s)' /\ InUse(u)' /\ Named(s)' = Named(u)'
    BY DEF Twins
  <2>2. CASE NamesSame
    BY <2>1, <2>2 DEF NamesSame, Twins, InUse
  <2>3. CASE Reset
    BY <2>1, <2>3 DEF Reset, InUse, EmptyTable, EmptyRow, Keys
  <2>4. CASE Connect
    <3>1. PICK p \in Pools : Find(p) \/ Alloc(p) \/ Evict(p)
      BY <2>4 DEF Connect
    <3>2. PICK v \in Slots :
            /\ Named(v)' = <<p.host, p.port>>
            /\ \A w \in Slots \ {v} : table'[w] = table[w]
            /\ (Named(v)' = Named(v) /\ InUse(v)) \/ RowsOf(p) = {}
      BY <3>1, ConnectNames
    <3>3. \A w \in Slots \ {v} : Named(w)' = Named(w) /\ InUse(w)' = InUse(w)
      BY <3>2 DEF Named, InUse
    <3>4. CASE Named(v)' = Named(v) /\ InUse(v)
      BY <2>1, <3>3, <3>4 DEF Twins
    <3>5. CASE RowsOf(p) = {}
      <4>1. \A w \in Slots \ {v} : InUse(w) => Named(w) # <<p.host, p.port>>
        BY <3>5 DEF RowsOf, Named
      <4>. QED
        BY <2>1, <3>2, <3>3, <4>1 DEF Twins
    <3>. QED
      BY <3>2, <3>4, <3>5
  <2>. QED
    BY <2>2, <2>3, <2>4, NamesMove
<1>2. TypeOK /\ [Next]_vars => [Twins' => Twins \/ Restart]_vars
  BY <1>1
<1>. QED
  BY <1>2, TypesKept, PTL DEF Spec, NoNewTwins

\* The slot looked up last is the one seen last, among those looked up since
\* the restart.
RecentInv ==
  /\ \A s \in Slots \ loaded : table[s]["seen"] <= clock
  /\ recent # 0 => /\ recent \notin loaded /\ clock # 0
                   /\ table[recent]["seen"] = clock
                   /\ \A s \in Slots \ loaded : s # recent => table[s]["seen"] < clock

LEMMA RecentStep == TypeOK /\ RecentInv /\ [Next]_vars => RecentInv'
<1>. SUFFICES ASSUME TypeOK, RecentInv, [Next]_vars PROVE RecentInv'
  OBVIOUS
<1>0. \A s \in Slots : table[s]["seen"] \in Nat
  BY DEF TypeOK, Rows, Keys
<1>1. CASE NamesSame /\ UNCHANGED <<clock, recent, loaded>>
  BY <1>1 DEF NamesSame, RecentInv, TypeOK
<1>2. CASE Connect
  <2>1. PICK p \in Pools : Find(p) \/ Alloc(p) \/ Evict(p)
    BY <1>2 DEF Connect
  <2>2. PICK s \in Slots :
          /\ table'[s]["seen"] = clock + 1
          /\ \A u \in Slots \ {s} : table'[u] = table[u]
          /\ recent' = s /\ loaded' = loaded \ {s} /\ clock' = clock + 1
    BY <2>1, ConnectNames
  <2>3. clock \in Nat
    BY DEF TypeOK
  <2>4. \A u \in Slots \ loaded' : u # s => table'[u]["seen"] <= clock
    BY <2>2 DEF RecentInv
  <2>5. \A u \in Slots \ {s} : table'[u]["seen"] \in Nat
    BY <1>0, <2>2
  <2>. QED
    BY <2>2, <2>3, <2>4, <2>5 DEF RecentInv
<1>3. CASE Reset
  BY <1>3 DEF Reset, RecentInv, EmptyTable, EmptyRow, Keys, TypeOK
<1>4. CASE Restart
  BY <1>4 DEF Restart, RecentInv
<1>5. CASE UNCHANGED vars
  BY <1>5 DEF vars, history, RecentInv
<1>. QED
  BY <1>1, <1>2, <1>3, <1>4, <1>5, NamesMove

\* As long as no slot carries the time of an earlier boot, a connection never
\* evicts the pool connected to before it.
THEOREM JustLeftIsKept == Spec => JustLeftKept
<1>1. Init => RecentInv
  BY DEF Init, RecentInv, EmptyTable, EmptyRow, Keys
<1>2. TypeOK /\ RecentInv /\ [Next]_vars =>
        [recent # 0 /\ recent' # 0 /\ Renamed => loaded # {}]_vars
  <2>. SUFFICES ASSUME TypeOK, RecentInv, Next, recent # 0, recent' # 0, Renamed, loaded = {}
                PROVE  FALSE
    OBVIOUS
  <2>1. PICK r \in Slots : r = recent /\ Named(r)' # Named(r)
    BY DEF Renamed
  <2>2. CASE Connect
    <3>1. PICK p \in Pools : Find(p) \/ Alloc(p) \/ Evict(p)
      BY <2>2 DEF Connect
    <3>2. PICK s \in Slots :
            /\ \A u \in Slots \ {s} : table'[u] = table[u]
            /\ Named(s)' = Named(s) \/ ~InUse(s) \/ IsOldest(s)
      BY <3>1, ConnectNames
    <3>3. s = r
      BY <2>1, <3>2 DEF Named
    <3>4. InUse(r)
      BY <2>1 DEF RecentInv, InUse
    <3>5. IsOldest(r)
      BY <2>1, <3>2, <3>3, <3>4
    <3>6. PICK u \in Slots : u # r
      BY <2>1 DEF Slots
    <3>7. table[u]["seen"] < table[r]["seen"] /\ table[r]["seen"] <= table[u]["seen"]
      BY <2>1, <3>5, <3>6 DEF RecentInv, IsOldest
    <3>8. table[u]["seen"] \in Nat /\ table[r]["seen"] \in Nat
      BY DEF TypeOK, Rows, Keys
    <3>. QED
      BY <3>7, <3>8
  <2>3. CASE NamesSame
    BY <2>1, <2>3 DEF NamesSame
  <2>4. CASE Reset \/ Restart
    BY <2>4 DEF Reset, Restart
  <2>. QED
    BY <2>2, <2>3, <2>4, NamesMove
<1>. QED
  BY <1>1, <1>2, RecentStep, TypesKept, PTL DEF Spec, JustLeftKept
--------------------------------------------------------------------------------
\* CountsKept: an increment in progress never builds on less than its counter.

CountInv ==
  /\ LET j == job["stratum"] IN j.pc = "add" => table[j.slot]["shares"] <= j.old
  /\ LET j == job["miner"] IN
       j.pc = "add" => table[j.slot]["blocks"] <= j.old /\ life <= j.life

Counts(s) == <<table[s]["shares"], table[s]["blocks"]>>

LEMMA CountsTyped ==
  ASSUME TypeOK
  PROVE  /\ \A s \in Slots : table[s]["shares"] \in Nat /\ table[s]["blocks"] \in Nat
         /\ life \in Nat /\ {"stratum", "miner", "saver", "http"} = Tasks
         /\ \A t \in Tasks : job[t].old \in Nat /\ job[t].life \in Nat
         /\ \A t \in Tasks : job[t].pc = "add" => job[t].slot \in Slots
<1>1. \A s \in Slots : table[s]["shares"] \in Nat /\ table[s]["blocks"] \in Nat
  BY DEF TypeOK, Rows, Keys
<1>2. \A t \in Tasks : job[t] \in Jobs
  BY DEF TypeOK
<1>3. \A t \in Tasks : job[t].old \in Nat /\ job[t].life \in Nat
  BY <1>2 DEF Jobs
<1>. QED
  BY <1>1, <1>3 DEF TypeOK, Tasks

\* A connection keeps the counters of every slot but one that it empties, and
\* the slot it empties was not in use or gets another name.
LEMMA ConnectCounts ==
  ASSUME TypeOK, Connect
  PROVE  /\ UNCHANGED <<life, job>> /\ job["stratum"].pc = "idle"
         /\ \A s \in Slots : \/ Counts(s)' = Counts(s)
                             \/ /\ Counts(s)' = <<0, 0>>
                                /\ ~InUse(s) \/ Named(s)' # Named(s)
<1>1. PICK p \in Pools : Find(p) \/ Alloc(p) \/ Evict(p)
  BY DEF Connect
<1>2. UNCHANGED <<life, job>> /\ job["stratum"].pc = "idle"
  BY <1>1 DEF Find, Alloc, Evict, Connecting
<1>3. CASE Find(p)
  <2>1. PICK s \in Slots : table' = [table EXCEPT ![s] = [table[s] EXCEPT !["seen"] = clock + 1]]
    BY <1>3 DEF Find, Hold
  <2>2. \A u \in Slots : Counts(u)' = Counts(u)
    BY <2>1 DEF TypeOK, Rows, Keys, Counts
  <2>. QED
    BY <1>2, <2>2
<1>4. CASE Alloc(p) \/ Evict(p)
  <2>1. PICK s \in Slots : table' = [table EXCEPT ![s] = NewRow(p)]
    BY <1>4 DEF Alloc, Evict, Hold
  <2>2. table'[s] = NewRow(p) /\ \A u \in Slots \ {s} : table'[u] = table[u]
    BY <2>1 DEF TypeOK
  <2>3. /\ NewRow(p)["shares"] = 0 /\ NewRow(p)["blocks"] = 0
        /\ NewRow(p)["host"] = p.host /\ NewRow(p)["port"] = p.port
    BY DEF NewRow, EmptyRow, Keys
  <2>4. RowsOf(p) = {}
    BY <1>4 DEF Alloc, Evict
  <2>5. ~InUse(s) \/ Named(s)' # Named(s)
    BY <2>2, <2>3, <2>4 DEF RowsOf, Named
  <2>6. Counts(s)' = <<0, 0>> /\ \A u \in Slots \ {s} : Counts(u)' = Counts(u)
    BY <2>2, <2>3 DEF Counts
  <2>. QED
    BY <1>2, <2>5, <2>6
<1>. QED
  BY <1>1, <1>3, <1>4

\* What a recorder stores is more than what is there; nobody else's counter moves.
LEMMA StoreSharesCounts ==
  ASSUME TypeOK, CountInv, StoreShares
  PROVE  /\ CountInv' /\ CountsGrow
         /\ table'[job["stratum"].slot]["shares"] > table[job["stratum"].slot]["shares"]
<1>. DEFINE j == job["stratum"]
<1>1. /\ j.pc = "add" /\ table' = [table EXCEPT ![j.slot]["shares"] = j.old + 1]
      /\ job' = [job EXCEPT !["stratum"] = SaveSlot(j.slot, life)] /\ life' = life
  BY DEF StoreShares
<1>2. j.slot \in Slots /\ j.old \in Nat /\ table[j.slot]["shares"] <= j.old
  BY <1>1, CountsTyped DEF CountInv
<1>3. /\ table'[j.slot]["shares"] = j.old + 1
      /\ \A s \in Slots : table'[s]["blocks"] = table[s]["blocks"]
      /\ \A s \in Slots \ {j.slot} : table'[s]["shares"] = table[s]["shares"]
  BY <1>1, <1>2 DEF TypeOK, Rows, Keys
<1>4. job'["stratum"].pc = "save" /\ job'["miner"] = job["miner"]
  BY <1>1, <1>2, CountsTyped, SaveSlotTyped DEF TypeOK
<1>5. CountInv'
  BY <1>1, <1>3, <1>4, CountsTyped DEF CountInv
<1>6. \A s \in Slots : /\ table'[s]["shares"] >= table[s]["shares"]
                       /\ table'[s]["blocks"] >= table[s]["blocks"]
  BY <1>2, <1>3, CountsTyped
<1>7. CountsGrow
  BY <1>1, <1>6, CountsTyped DEF CountsGrow
<1>. QED
  BY <1>2, <1>3, <1>5, <1>7, CountsTyped

LEMMA StoreBlocksCounts ==
  ASSUME TypeOK, CountInv, StoreBlocks
  PROVE  /\ CountInv' /\ CountsGrow /\ life' > life
         /\ table'[job["miner"].slot]["blocks"] > table[job["miner"].slot]["blocks"]
<1>. DEFINE j == job["miner"]
<1>1. /\ j.pc = "add"
      /\ job' = [job EXCEPT !["miner"] = SaveSlot(j.slot, life')]
  BY DEF StoreBlocks
<1>2. /\ j.slot \in Slots /\ j.old \in Nat /\ j.life \in Nat
      /\ table[j.slot]["blocks"] <= j.old /\ life <= j.life
  BY <1>1, CountsTyped DEF CountInv
<1>3. PICK n \in {j.old, table[j.slot]["blocks"]} :
        table' = [table EXCEPT ![j.slot]["blocks"] = n + 1]
  BY DEF StoreBlocks
<1>4. PICK m \in {j.life, life} : life' = m + 1
  BY DEF StoreBlocks
<1>5. n \in Nat /\ n >= table[j.slot]["blocks"] /\ m \in Nat /\ m >= life
  BY <1>2, <1>3, <1>4, CountsTyped
<1>6. /\ table'[j.slot]["blocks"] = n + 1
      /\ \A s \in Slots : table'[s]["shares"] = table[s]["shares"]
      /\ \A s \in Slots \ {j.slot} : table'[s]["blocks"] = table[s]["blocks"]
  BY <1>2, <1>3 DEF TypeOK, Rows, Keys
<1>7. job'["miner"].pc = "save" /\ job'["stratum"] = job["stratum"]
  BY <1>1, <1>2, <1>4, <1>5, CountsTyped, SaveSlotTyped DEF TypeOK
<1>8. CountInv'
  BY <1>6, <1>7, CountsTyped DEF CountInv
<1>9. \A s \in Slots : /\ table'[s]["shares"] >= table[s]["shares"]
                       /\ table'[s]["blocks"] >= table[s]["blocks"]
  BY <1>2, <1>5, <1>6, CountsTyped
<1>10. CountsGrow /\ life' > life
  BY <1>4, <1>5, <1>9, CountsTyped DEF CountsGrow
<1>. QED
  BY <1>2, <1>5, <1>6, <1>8, <1>10, CountsTyped

\* A task that turns to anything but "add", or to an increment of what is there,
\* keeps the invariant while the counters stand still.
LEMMA TurnCounts ==
  ASSUME TypeOK, CountInv, UNCHANGED ram, NEW t \in Tasks, NEW x, job' = [job EXCEPT ![t] = x],
         \/ x.pc # "add"
         \/ t = "stratum" /\ x.old = table[x.slot]["shares"]
         \/ t = "miner" /\ x.old = table[x.slot]["blocks"] /\ x.life = life
         , x.pc = "add" => x.slot \in Slots
  PROVE  CountInv' /\ CountsGrow
<1>1. table' = table /\ life' = life
  BY DEF ram
<1>2. job'[t] = x /\ \A u \in Tasks \ {t} : job'[u] = job[u]
  BY DEF TypeOK
<1>3. CountsGrow
  BY <1>1, CountsTyped DEF CountsGrow
<1>4. LET j == job'["stratum"] IN j.pc = "add" => table[j.slot]["shares"] <= j.old
  BY <1>2, CountsTyped DEF CountInv
<1>5. LET j == job'["miner"] IN
        j.pc = "add" => table[j.slot]["blocks"] <= j.old /\ life <= j.life
  BY <1>2, CountsTyped DEF CountInv
<1>. QED
  BY <1>1, <1>3, <1>4, <1>5 DEF CountInv
LEMMA CountStep ==
  ASSUME TypeOK, CountInv, [Next]_vars
  PROVE  CountInv' /\ (CountsGrow \/ Reset \/ Restart)
<1>1. CASE Connect
  <2>1. CountInv'
    <3>1. \A s \in Slots : Counts(s)' = Counts(s) \/ Counts(s)' = <<0, 0>>
      BY <1>1, ConnectCounts
    <3>2. \A s \in Slots : table'[s]["blocks"] = table[s]["blocks"] \/ table'[s]["blocks"] = 0
      BY <3>1 DEF Counts
    <3>. QED
      BY <1>1, <3>2, ConnectCounts, CountsTyped DEF CountInv
  <2>2. CountsGrow
    <3>1. \A s \in Slots : InUse(s) /\ Named(s)' = Named(s) => Counts(s)' = Counts(s)
      BY <1>1, ConnectCounts
    <3>. QED
      BY <1>1, <3>1, ConnectCounts, CountsTyped DEF CountsGrow, Counts
  <2>. QED
    BY <2>1, <2>2
<1>2. CASE Disconnect \/ UNCHANGED vars
  <2>1. UNCHANGED <<table, life, job>>
    BY <1>2 DEF Disconnect, vars, ram
  <2>. QED
    BY <2>1, CountsTyped DEF CountInv, CountsGrow
<1>3. CASE FetchShares
  <2>. DEFINE x == Waiting("add", active, table[active]["shares"], 0)
  <2>1. active \in Slots /\ job' = [job EXCEPT !["stratum"] = x] /\ UNCHANGED ram
    BY <1>3 DEF FetchShares, TypeOK
  <2>2. x.slot = active /\ x.old = table[active]["shares"]
    BY DEF Waiting
  <2>. HIDE DEF x
  <2>. QED
    BY <2>1, <2>2, TurnCounts, CountsTyped
<1>4. CASE StoreShares
  BY <1>4, StoreSharesCounts
<1>5. CASE TakeSlot
  <2>. DEFINE x == Waiting("add", active, table[active]["blocks"], life)
  <2>1. active \in Slots /\ job' = [job EXCEPT !["miner"] = x] /\ UNCHANGED ram
    BY <1>5 DEF TakeSlot, TypeOK
  <2>2. x.slot = active /\ x.old = table[active]["blocks"] /\ x.life = life
    BY DEF Waiting
  <2>. HIDE DEF x
  <2>. QED
    BY <2>1, <2>2, TurnCounts, CountsTyped
<1>6. CASE StoreBlocks
  BY <1>6, StoreBlocksCounts
<1>7. CASE TimerSave
  BY <1>7, TurnCounts, SaveTableTyped, CountsTyped DEF TimerSave
<1>8. CASE ResetSave
  <2>1. PICK x \in {SaveTable, Idle} : job' = [job EXCEPT !["http"] = x]
    BY <1>8 DEF ResetSave
  <2>2. x.pc # "add" /\ UNCHANGED ram
    BY <1>8, <2>1, SaveTableTyped, IdleTyped DEF ResetSave
  <2>. QED
    BY <2>1, <2>2, TurnCounts, CountsTyped
<1>9. CASE \E t \in Tasks : Write(t) \/ Refuse(t)
  <2>1. PICK t \in Tasks : Write(t) \/ Refuse(t)
    BY <1>9
  <2>2. CASE WriteKeys(t)
    <3>1. Advance(job[t]).pc # "add"
      BY DEF Advance, Saving
    <3>. QED
      BY <2>2, <3>1, TurnCounts DEF WriteKeys
  <2>3. CASE WriteLife(t)
    BY <2>3, TurnCounts, IdleTyped DEF WriteLife
  <2>4. CASE RefuseKeys(t)
    <3>1. Advance(job[t]).pc # "add"
      BY DEF Advance, Saving
    <3>. QED
      BY <2>4, <3>1, TurnCounts DEF RefuseKeys
  <2>5. CASE RefuseLife(t)
    BY <2>5, TurnCounts, IdleTyped DEF RefuseLife
  <2>. QED
    BY <2>1, <2>2, <2>3, <2>4, <2>5 DEF Write, Refuse
<1>10. CASE Reset
  <2>1. /\ \A s \in Slots : table'[s]["shares"] = 0 /\ table'[s]["blocks"] = 0
        /\ life' = 0
    BY <1>10 DEF Reset, EmptyTable, EmptyRow, Keys
  <2>2. job'["stratum"] = job["stratum"] /\ job'["miner"] = job["miner"]
    BY <1>10, CountsTyped DEF Reset, TypeOK
  <2>. QED
    BY <1>10, <2>1, <2>2, CountsTyped DEF CountInv
<1>11. CASE Restart
  <2>1. job'["stratum"].pc # "add" /\ job'["miner"].pc # "add"
    BY <1>11, CountsTyped, IdleTyped DEF Restart
  <2>. QED
    BY <1>11, <2>1 DEF CountInv
<1>. QED
  BY <1>1, <1>2, <1>3, <1>4, <1>5, <1>6, <1>7, <1>8, <1>9, <1>10, <1>11, Zenon DEF Next, Record

\* Recorders, the lookup and the savers share the table without a lock for the
\* counters, and yet no share and no block is lost in RAM: each counter has one
\* task that raises it, and nothing else but a reset or a restart lowers it.
THEOREM NoCountLost == Spec => CountsKept
<1>1. Init => CountInv
  BY IdleTyped DEF Init, CountInv, Tasks
<1>2. TypeOK /\ CountInv /\ [Next]_vars => CountInv'
  BY CountStep
<1>. DEFINE Raised ==
       /\ CountsGrow \/ Reset \/ Restart
       /\ StoreShares => LET s == job["stratum"].slot IN table'[s]["shares"] > table[s]["shares"]
       /\ StoreBlocks => LET s == job["miner"].slot IN
                           table'[s]["blocks"] > table[s]["blocks"] /\ life' > life
<1>3. TypeOK /\ CountInv /\ [Next]_vars => [Raised]_vars
  BY CountStep, StoreSharesCounts, StoreBlocksCounts
<1>4. CountsKept <=> [][Raised]_vars
  BY DEF CountsKept
<1>. HIDE DEF Raised
<1>. QED
  BY <1>1, <1>2, <1>3, <1>4, TypesKept, PTL DEF Spec
=============================================================================
