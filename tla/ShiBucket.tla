------------------------------- MODULE ShiBucket -------------------------------
(***************************************************************************)
(* The operations of EphemeralSaltState on one bucket (salt/src/state/     *)
(* state.rs): shi_upsert, shi_delete, shi_rehash, set_nonce, canonicalize. *)
(* One action is one iteration of the loop the source runs; `pc` says      *)
(* which loop, so a started operation always runs to its end.  `table` is  *)
(* the bucket as EphemeralSaltState::value reads it (cache over store).    *)
(***************************************************************************)
EXTENDS ShiTable

CONSTANTS
  Nonces,          \* bucket nonces (u32)
  HashFns,         \* the keyed hashes considered: hash[nonce][key], a u64
  InitCapacity,    \* MIN_BUCKET_SIZE
  LoadFactorPct,   \* BUCKET_RESIZE_LOAD_FACTOR_PCT
  Capacities       \* capacities that callers pass to shi_rehash

ASSUME HashAssumption == HashFns \subseteq [Nonces -> [PlainKeys -> Nat]]
ASSUME MetaAssumption ==
  /\ InitCapacity \in 1 .. MaxCapacity
  /\ Capacities \subseteq Nat \ {0}
(* With a threshold of 100 or more shi_upsert would not leave a full bucket. *)
ASSUME LoadFactorAssumption == LoadFactorPct \in 1 .. 99

Multiplier == 2    \* BUCKET_RESIZE_MULTIPLIER
NoSlot == -1

Meta == [nonce : Nonces, capacity : Nat \ {0}]

VARIABLES
  hash,      \* the hash function; any of HashFns, and never changed
  table,     \* the slots of the bucket
  meta,      \* nonce and capacity of the bucket
  used,      \* usage_count: used slots of the store plus usage_count_delta
  base,      \* the metadata in the underlying store
  rehashed,  \* is the bucket in rehashed_buckets
  pc,        \* the loop that is running
  hand,      \* upsert: the entry to be placed (new_salt_val)
  start,     \* upsert: hashed_key of the key the call began with
  step,      \* upsert: loop counter
  gap,       \* delete: del_slot
  load,      \* compute_resize_capacity: used
  target,    \* the nonce and capacity of the running rehash
  pending,   \* rehash: the entries still to be reinserted
  fresh,     \* rehash: new_bucket
  pool,      \* canonicalize: kv_pairs still to be replayed, at their old slots
  replaying  \* canonicalize is running

upsertVars == <<hand, start, step>>
rehashVars == <<load, target, pending, fresh>>
canonVars == <<pool, replaying>>
vars == <<hash, table, meta, used, base, rehashed, pc, upsertVars, gap, rehashVars, canonVars>>

H == hash[meta.nonce]

Init ==
  /\ hash \in HashFns
  /\ table = EmptyTable
  /\ meta \in [nonce : Nonces, capacity : {InitCapacity}]
  /\ used = 0
  /\ base = meta
  /\ rehashed = FALSE
  /\ pc = "idle"
  /\ hand = Empty /\ start = 0 /\ step = 0
  /\ gap = NoSlot
  /\ load = 0 /\ target = meta /\ pending = {} /\ fresh = EmptyTable
  /\ pool = EmptyTable /\ replaying = FALSE

-------------------------------------------------------------------------------
(* shi_upsert *)

(* The caller's loop goes on when shi_upsert or shi_rehash returns. *)
Return == pc' = IF replaying THEN "replay" ELSE "idle"

StartUpsert(e, m) ==
  /\ hand' = e
  /\ start' = hash[m.nonce][e.key]
  /\ step' = 0
  /\ pc' = "probe"

EndUpsert == hand' = Empty /\ start' = 0 /\ step' = 0

Upsert(k, v) ==
  /\ pc = "idle"
  /\ StartUpsert([key |-> k, val |-> v], meta)
  /\ UNCHANGED <<hash, table, meta, used, base, rehashed, gap, rehashVars, canonVars>>

(* direct_find: the store's lookup table gave the slot and the key matches. *)
UpsertDirect(k, v) ==
  /\ pc = "idle"
  /\ \E s \in SlotId : /\ table[s] # Empty
                       /\ table[s].key = k
                       /\ table' = [table EXCEPT ![s] = [key |-> k, val |-> v]]
  /\ UNCHANGED <<hash, meta, used, base, rehashed, pc, upsertVars, gap, rehashVars, canonVars>>

slot == probe(start, step, meta.capacity)

(* Variant of Advance: the forced expansion computes no larger capacity. *)
AdvanceWithoutGrowth ==
  IF step + 1 < meta.capacity
  THEN step' = step + 1 /\ UNCHANGED <<start, pc, load, target>>
  ELSE start' = 0 /\ step' = 0 /\ pc' = "grow" /\ load' = 0 /\ target' = meta

(* When no slot is left the bucket is expanded by force. *)
Advance ==
  IF step + 1 < meta.capacity
  THEN step' = step + 1 /\ UNCHANGED <<start, pc, load, target>>
  ELSE start' = 0 /\ step' = 0 /\ pc' = "grow" /\ load' = meta.capacity /\ target' = meta

ProbeEqual ==
  /\ pc = "probe"
  /\ table[slot] # Empty
  /\ table[slot].key = hand.key
  /\ table' = [table EXCEPT ![slot] = hand]
  /\ EndUpsert
  /\ Return
  /\ UNCHANGED <<hash, meta, used, base, rehashed, gap, rehashVars, canonVars>>

ProbeDisplace ==
  /\ pc = "probe"
  /\ table[slot] # Empty
  /\ table[slot].key < hand.key
  /\ table' = [table EXCEPT ![slot] = hand]
  /\ hand' = table[slot]
  /\ Advance
  /\ UNCHANGED <<hash, meta, used, base, rehashed, gap, pending, fresh, canonVars>>

ProbePass ==
  /\ pc = "probe"
  /\ table[slot] # Empty
  /\ table[slot].key > hand.key
  /\ Advance
  /\ UNCHANGED <<hash, table, meta, used, base, rehashed, hand, gap, pending, fresh, canonVars>>

(* A witness may not supply the usage count; the resize is then put off. *)
ProbePlace(usageKnown) ==
  /\ pc = "probe"
  /\ table[slot] = Empty
  /\ table' = [table EXCEPT ![slot] = hand]
  /\ used' = used + 1
  /\ EndUpsert
  /\ IF usageKnown /\ used + 1 > (meta.capacity * LoadFactorPct) \div 100
     THEN pc' = "grow" /\ load' = used + 1 /\ target' = meta
     ELSE Return /\ UNCHANGED <<load, target>>
  /\ UNCHANGED <<hash, meta, base, rehashed, gap, pending, fresh, canonVars>>

-------------------------------------------------------------------------------
(* compute_resize_capacity and shi_rehash *)

Grow ==
  /\ pc = "grow"
  /\ IF load * 100 > target.capacity * LoadFactorPct
     THEN target' = [target EXCEPT !.capacity = @ * Multiplier] /\ UNCHANGED pc
     ELSE pc' = "rehash" /\ UNCHANGED target
  /\ UNCHANGED <<hash, table, meta, used, base, rehashed, upsertVars, gap,
                 load, pending, fresh, canonVars>>

Rehash(n, c) ==
  /\ pc = "idle"
  /\ target' = [nonce |-> n, capacity |-> c]
  /\ pc' = "rehash"
  /\ UNCHANGED <<hash, table, meta, used, base, rehashed, upsertVars, gap,
                 load, pending, fresh, canonVars>>

SetNonce(n) == Rehash(n, meta.capacity)

(* Variant of EndRehash: the entry in hand is forgotten. *)
EndRehashNoRetry(m) ==
  /\ load' = 0 /\ target' = m /\ pending' = {} /\ fresh' = EmptyTable
  /\ EndUpsert
  /\ Return

(* After a forced expansion the entry in hand is upserted again. *)
EndRehash(m) ==
  /\ load' = 0 /\ target' = m /\ pending' = {} /\ fresh' = EmptyTable
  /\ IF hand = Empty THEN Return /\ UNCHANGED upsertVars ELSE StartUpsert(hand, m)

(* Variant of RehashPanics: one slot too many is accepted. *)
RehashPanicsLate == pc = "rehash" /\ target.capacity > MaxCapacity + 1

RehashPanics == pc = "rehash" /\ target.capacity > MaxCapacity

RehashAssert ==
  /\ RehashPanics
  /\ pc' = "panic"
  /\ UNCHANGED <<hash, table, meta, used, base, rehashed, upsertVars, gap, rehashVars, canonVars>>

RehashCollect ==
  /\ pc = "rehash"
  /\ ~ RehashPanics
  /\ IF target.capacity < Cardinality(Occupied(table))
     THEN EndRehash(meta)
     ELSE /\ pc' = "reinsert"
          /\ pending' = Contents(table)
          /\ UNCHANGED <<load, target, fresh, upsertVars>>
  /\ UNCHANGED <<hash, table, meta, used, base, rehashed, gap, canonVars>>

(* Were no slot vacant, the entry would be lost without a trace. *)
RehashReinsert ==
  /\ pc = "reinsert"
  /\ \E e \in pending :
       /\ IsLargest(e, pending)
       /\ pending' = pending \ {e}
       /\ LET vacant == FirstVacant(fresh, hash[target.nonce][e.key], target.capacity)
          IN  fresh' = [s \in SlotId |-> IF s \in vacant THEN e ELSE fresh[s]]
  /\ UNCHANGED <<hash, table, meta, used, base, rehashed, pc, upsertVars, gap,
                 load, target, canonVars>>

(* Variant of RehashCommit: only the slots of the new capacity are written. *)
RehashCommitPartial ==
  /\ pc = "reinsert"
  /\ pending = {}
  /\ table' = [s \in SlotId |-> IF s < target.capacity THEN fresh[s] ELSE table[s]]
  /\ meta' = target
  /\ rehashed' = TRUE
  /\ EndRehash(target)
  /\ UNCHANGED <<hash, used, base, gap, canonVars>>

RehashCommit ==
  /\ pc = "reinsert"
  /\ pending = {}
  /\ table' = fresh
  /\ meta' = target
  /\ rehashed' = TRUE
  /\ EndRehash(target)
  /\ UNCHANGED <<hash, used, base, gap, canonVars>>

-------------------------------------------------------------------------------
(* shi_delete *)

Delete(k) ==
  /\ pc = "idle"
  /\ \E s \in ShiSearch(table, H, meta.capacity, k) : gap' = s
  /\ pc' = "compact"
  /\ UNCHANGED <<hash, table, meta, used, base, rehashed, upsertVars, rehashVars, canonVars>>

Compact ==
  /\ pc = "compact"
  /\ \E s \in ShiNext(table, H, meta.capacity, gap) :
       /\ table' = [table EXCEPT ![gap] = table[s]]
       /\ gap' = s
  /\ UNCHANGED <<hash, meta, used, base, rehashed, pc, upsertVars, rehashVars, canonVars>>

CompactEnd ==
  /\ pc = "compact"
  /\ ShiNext(table, H, meta.capacity, gap) = {}
  /\ table' = [table EXCEPT ![gap] = Empty]
  /\ used' = used - 1
  /\ gap' = NoSlot
  /\ pc' = "idle"
  /\ UNCHANGED <<hash, meta, base, rehashed, upsertVars, rehashVars, canonVars>>

-------------------------------------------------------------------------------
(* canonicalize, and the start of the next session *)

(* Variant of Canonicalize: the usage delta keeps the cleared slots. *)
CanonicalizeKeepsUsage ==
  /\ pc = "idle"
  /\ rehashed
  /\ pool' = table
  /\ table' = EmptyTable
  /\ meta' = base
  /\ target' = base
  /\ rehashed' = FALSE
  /\ replaying' = TRUE
  /\ pc' = "replay"
  /\ UNCHANGED <<hash, used, base, upsertVars, gap, load, pending, fresh>>

Canonicalize ==
  /\ pc = "idle"
  /\ rehashed
  /\ pool' = table
  /\ table' = EmptyTable
  /\ meta' = base
  /\ target' = base
  /\ used' = used - Cardinality(Occupied(table))
  /\ rehashed' = FALSE
  /\ replaying' = TRUE
  /\ pc' = "replay"
  /\ UNCHANGED <<hash, base, upsertVars, gap, load, pending, fresh>>

Replay ==
  /\ pc = "replay"
  /\ \E s \in Occupied(pool) :
       /\ \A t \in Occupied(pool) : s <= t
       /\ StartUpsert(pool[s], meta)
       /\ pool' = [pool EXCEPT ![s] = Empty]
  /\ UNCHANGED <<hash, table, meta, used, base, rehashed, gap, rehashVars, replaying>>

ReplayEnd ==
  /\ pc = "replay"
  /\ Occupied(pool) = {}
  /\ pc' = "idle"
  /\ replaying' = FALSE
  /\ rehashed' = FALSE
  /\ UNCHANGED <<hash, table, meta, used, base, upsertVars, gap, rehashVars, pool>>

(* The updates are written to the store and a new EphemeralSaltState begins. *)
Commit ==
  /\ pc = "idle"
  /\ base' = meta
  /\ rehashed' = FALSE
  /\ UNCHANGED <<hash, table, meta, used, pc, upsertVars, gap, rehashVars, canonVars>>

-------------------------------------------------------------------------------
Call ==
  \/ \E k \in PlainKeys : Delete(k) \/ \E v \in Values : Upsert(k, v) \/ UpsertDirect(k, v)
  \/ \E n \in Nonces : SetNonce(n) \/ \E c \in Capacities : Rehash(n, c)
  \/ Canonicalize
  \/ Commit

UpsertStep == ProbeEqual \/ ProbeDisplace \/ ProbePass \/ \E known \in BOOLEAN : ProbePlace(known)
RehashStep == Grow \/ RehashAssert \/ RehashCollect \/ RehashReinsert \/ RehashCommit
DeleteStep == Compact \/ CompactEnd
ReplayStep == Replay \/ ReplayEnd

Step == UpsertStep \/ RehashStep \/ DeleteStep \/ ReplayStep

Next == Call \/ Step

Spec == Init /\ [][Next]_vars

(* A call runs on the thread of its caller: its loops are never suspended. *)
FairSpec == Spec /\ WF_vars(Step)

-------------------------------------------------------------------------------
(* Type invariant. *)
TypeOK ==
  /\ hash \in HashFns
  /\ table \in Tables
  /\ meta \in Meta /\ meta.capacity <= MaxCapacity
  /\ used \in Int
  /\ base \in Meta /\ base.capacity <= MaxCapacity
  /\ rehashed \in BOOLEAN
  /\ pc \in {"idle", "probe", "grow", "rehash", "reinsert", "compact", "replay", "panic"}
  /\ hand \in Entry \cup {Empty}
  /\ start \in Nat
  /\ step \in Nat /\ step < meta.capacity
  /\ gap \in SlotId \cup {NoSlot}
  /\ load \in Int
  /\ target \in Meta
  /\ pending \in SUBSET Entry
  /\ fresh \in Tables
  /\ pool \in Tables
  /\ replaying \in BOOLEAN

(* Between two calls, every slot that an entry probed past holds a larger  *)
(* key: displacement (shi_upsert), compaction (shi_delete) and descending  *)
(* reinsertion (shi_rehash) all restore the order of the other two.        *)
OrderedWhenIdle == pc = "idle" => ShiOrdered(table, H, meta.capacity)

(* History independence: between two calls the layout is the only ordered  *)
(* one for the entries, nonce and capacity, whatever calls led there.      *)
HistoryIndependent ==
  pc = "idle" =>
    \A T \in Tables :
      /\ Contents(T) = Contents(table)
      /\ Within(T, meta.capacity)
      /\ ShiOrdered(T, H, meta.capacity)
      => T = table

(* shi_search stops early, at an empty slot or a smaller key, and still    *)
(* finds every key that is stored, wherever displacement has moved it.     *)
FindComplete ==
  pc = "idle" =>
    \A s \in Occupied(table) : ShiSearch(table, H, meta.capacity, table[s].key) = {s}

(* The usage count kept as a delta never drifts from the occupied slots,   *)
(* also in the middle of a displacement chain, a forced expansion or a     *)
(* canonicalization.                                                       *)
UsageExact == used = Cardinality(Occupied(table))

(* A bucket that shrank leaves nothing in the slots it gave up, where a    *)
(* later expansion would bring it back.                                    *)
NothingBeyondCapacity == Within(table, meta.capacity)

(* shi_rehash drops no entry: what is in the new layout or waits for it is *)
(* what the old layout holds.                                              *)
RehashLosesNothing == pc = "reinsert" => Contents(fresh) \cup pending = Contents(table)

(* No step of shi_upsert or shi_delete touches an entry that is larger     *)
(* than the one it is about, and what it moves on to is smaller still: an  *)
(* insertion or deletion of a key leaves all larger keys in their slots    *)
(* unless it rehashes.  A witness, whose lookup table says where the       *)
(* larger keys of a block are, is replayed in ascending order.             *)
LargerStay ==
  /\ pc = "probe" =>
       /\ \A s \in SlotId : Larger(table, s, hand.key) => table'[s] = table[s]
       /\ hand' # Empty => hand'.key <= hand.key
  /\ pc = "compact" =>
       /\ \A s \in SlotId : Larger(table, s, table[gap].key) => table'[s] = table[s]
       /\ pc' = "compact" => table'[gap'].key <= table[gap].key

(* The map a client sees: the gap of a running deletion is not in it, the  *)
(* entry in hand and the entries waiting for replay are.                   *)
Live ==
  (IF hand = Empty THEN {} ELSE {hand})
    \cup {e \in {table[s] : s \in Occupied(table) \ {gap}} : hand = Empty \/ e.key # hand.key}
    \cup Contents(pool)

kvs == [k \in PlainKeys |->
          IF \E e \in Live : e.key = k THEN (CHOOSE e \in Live : e.key = k).val ELSE Empty]

Kv == INSTANCE KvMap WITH map <- kvs, open <- pc # "idle"

(* The bucket implements a plain map that changes only when a call starts: *)
(* no displacement, compaction, forced expansion, rehash or                *)
(* canonicalization adds, changes or loses an entry on the way.            *)
ImplementsKvMap == Kv!Spec

(* Every call returns, unless shi_rehash's assertion on the capacity stops *)
(* it: the retry after a forced expansion finds a slot.                    *)
CallsReturn == pc # "idle" ~> pc \in {"idle", "panic"}


-------------------------------------------------------------------------------
(* The inductive invariant behind the properties above *)

(* Loop variables outside their loops. *)
Control ==
  /\ pc # "probe" => step = 0
  /\ pc = "probe" => hand # Empty
  /\ pc \in {"idle", "compact", "replay"} => hand = Empty
  /\ pc # "compact" => gap = NoSlot
  /\ pc # "reinsert" => fresh = EmptyTable
  /\ pc = "reinsert" => target.capacity <= MaxCapacity
  /\ pc \in {"idle", "compact"} => ~ replaying
  /\ ~ replaying => pool = EmptyTable

(* The order holds except at the gap of a running deletion.  All slots     *)
(* that shi_upsert visited hold larger keys than the one in hand, and so   *)
(* do those the key in hand would have visited on its own.                 *)
Layout ==
  /\ Within(table, meta.capacity)
  /\ pc # "compact" => ShiOrdered(table, H, meta.capacity)
  /\ pc = "compact" => /\ gap \in 0 .. meta.capacity - 1
                       /\ table[gap] # Empty
                       /\ ShiOrderedExcept(table, H, meta.capacity, gap)
  /\ pc = "probe" => /\ Passed(table, H[hand.key], meta.capacity, hand.key, slot)
                     /\ Passed(table, start, meta.capacity, hand.key, slot)

(* The new layout is ordered, and takes the keys in descending order. *)
NewLayout ==
  pc = "reinsert" =>
    /\ Cardinality(Occupied(table)) <= target.capacity
    /\ Within(fresh, target.capacity)
    /\ ShiOrdered(fresh, hash[target.nonce], target.capacity)
    /\ Contents(fresh) \cup pending = Contents(table)
    /\ \A e \in Contents(fresh), f \in pending : e.key > f.key

(* No key is in two of: the table, the hand (once its walk has ended) and  *)
(* the entries that wait for their replay.                                 *)
OneHome ==
  /\ \A s, t \in Occupied(pool) : pool[s].key = pool[t].key => s = t
  /\ \A s \in Occupied(pool) :
       /\ hand # Empty => hand.key # pool[s].key
       /\ \A t \in Occupied(table) : table[t].key # pool[s].key
  /\ hand # Empty /\ pc # "probe" => \A t \in Occupied(table) : table[t].key # hand.key

Inductive ==
  TypeOK /\ Control /\ Layout /\ NewLayout /\ OneHome /\ UsageExact

(* Entries that may fill the gap are smaller than the one it had. *)
GapLargest ==
  pc = "compact" =>
    \A s \in 0 .. meta.capacity - 1 :
      s # gap /\ table[s] # Empty /\ Suitable(table, H, meta.capacity, gap, s) => table[s].key < table[gap].key
===============================================================================
