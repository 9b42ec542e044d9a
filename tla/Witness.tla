-------------------------------- MODULE Witness --------------------------------
(***************************************************************************)
(* Stateless validation (salt/src/proof/witness.rs, salt_witness.rs): a    *)
(* node with the full state runs the changes of a block on a session that  *)
(* records its reads and puts the slots it read into a witness; a          *)
(* validator runs the same block on a session over the witness alone,      *)
(* where a read of a slot that was left out fails.                         *)
(*                                                                         *)
(* One data bucket under one nonce.  A session is a record that the        *)
(* operations of EphemeralSaltState (salt/src/state/state.rs) map to       *)
(* records: what ShiBucket does step by step is here one operator per      *)
(* call, with the reads that it makes and with the errors of `?`.          *)
(***************************************************************************)
EXTENDS ShiTable

CONSTANTS
  Meta,            \* bucket_metadata_key of the bucket
  Unknown,         \* what is not in the witness
  HashFns,         \* the hashes considered: hash[key], under the nonce
  InitCapacities,  \* the capacities of the bucket before the block
  InitValue,       \* the value of every key that is stored before the block
  NewValues,       \* the values that the block writes
  LoadFactorPct,   \* BUCKET_RESIZE_LOAD_FACTOR_PCT
  MaxReads         \* bound on the keys and metadata that a block reads

ASSUME WitnessAssumption ==
  /\ HashFns \subseteq [PlainKeys -> Nat]
  /\ InitCapacities \subseteq 1 .. MaxCapacity
  /\ InitValue \in Values /\ NewValues \subseteq Values
  /\ LoadFactorPct \in 1 .. 99
  /\ Unknown \notin Entry \cup {Empty} \cup 1 .. MaxCapacity
  /\ Meta \notin SlotId
  /\ MaxReads \in Nat

Multiplier == 2   \* BUCKET_RESIZE_MULTIPLIER
NoSlot == -1

VARIABLES
  hash,      \* the hash function; never changed
  base,      \* the full state before the block, as a reader
  lookups,   \* the plain keys that the block reads
  updates,   \* the plain keys that it writes, with Empty for a deletion
  pc,        \* what is running
  todo,      \* the keys of `update` still to be done
  direct,    \* direct_lookup_tbl
  chosen,    \* witnessed_keys, without those that the recorder adds
  recorder,  \* create: the session that caches its reads
  witness,   \* the witness as a reader
  replica,   \* the validator's session over the witness
  full       \* the same calls over the full state, for comparison

vars == <<hash, base, lookups, updates, pc, todo, direct, chosen, recorder, witness, replica, full>>

-------------------------------------------------------------------------------
(* Readers and sessions *)

(* A store or a witness: its slots, its metadata, its plain_value_fast. *)
Reader(slots, capacity, fast) == [slots |-> slots, capacity |-> capacity, fast |-> fast]

NoFast == [k \in {} |-> NoSlot]
NoUpdates == [k \in {} |-> Empty]

(* EphemeralSaltState::new: slots and capacity are what value and metadata *)
(* would return, cached are the keys that were read or written.            *)
NewState(store) ==
  [slots |-> store.slots, capacity |-> store.capacity, cached |-> {}, delta |-> 0,
   rehashed |-> FALSE, hand |-> Empty, gap |-> NoSlot, failed |-> FALSE]

IsEntry(v) == v # Unknown /\ v # Empty

(* bucket_used_slots of a witness fails unless it has all the slots. *)
UsageKnown(store) ==
  /\ store.capacity # Unknown
  /\ \A s \in 0 .. store.capacity - 1 : store.slots[s] # Unknown

usage_count(store, S) ==
  Cardinality({s \in 0 .. store.capacity - 1 : IsEntry(store.slots[s])}) + S.delta

ReadMeta(S) == [S EXCEPT !.cached = @ \cup {Meta}, !.failed = S.capacity = Unknown]

ReadSlots(S, slots) ==
  [S EXCEPT !.cached = @ \cup slots, !.failed = \E s \in slots : S.slots[s] = Unknown]

(* update_value *)
Put(S, s, e) ==
  [S EXCEPT !.slots[s] = e,
            !.cached = IF S.slots[s] = e THEN @ ELSE @ \cup {s},
            !.delta = @ + (IF IsEntry(e) THEN 1 ELSE 0) - (IF IsEntry(S.slots[s]) THEN 1 ELSE 0)]

(* The slots that a loop over the probe sequence reads when it returns at  *)
(* the first slot of `stops`.                                              *)
Visited(hashed, c, stops) == {s \in 0 .. c - 1 : Before(hashed, s, c) \cap stops = {}}

(* shi_search, to be called with the metadata read. *)
SearchStops(S, k) ==
  {s \in 0 .. S.capacity - 1 : IsEntry(S.slots[s]) => S.slots[s].key <= k}

SearchPath(S, k) == Visited(hash[k], S.capacity, SearchStops(S, k))

Found(S, k) == {s \in SearchPath(S, k) : IsEntry(S.slots[s]) /\ S.slots[s].key = k}

(* direct_find: the lookup table names a slot that holds the key. *)
DirectFind(store, S, k) ==
  {s \in {store.fast[j] : j \in DOMAIN store.fast \cap {k}} : IsEntry(S.slots[s]) /\ S.slots[s].key = k}

(* find, on a new session: the entry, Empty if there is none, or Unknown   *)
(* for an error.                                                           *)
Find(store, k) ==
  LET S == NewState(store)
      there == DirectFind(store, S, k)
  IN  IF there # {} THEN S.slots[CHOOSE s \in there : TRUE]
      ELSE IF ReadMeta(S).failed \/ ReadSlots(S, SearchPath(S, k)).failed THEN Unknown
      ELSE IF Found(S, k) = {} THEN Empty
      ELSE S.slots[CHOOSE s \in Found(S, k) : TRUE]

-------------------------------------------------------------------------------
(* shi_rehash and compute_resize_capacity *)

MaxKey == CHOOSE m \in PlainKeys \cup {0} : \A k \in PlainKeys : k <= m

(* The entry of E with the key k, if any, goes to the first vacant slot. *)
ReinsertStep(T, E, k, c) ==
  LET vacant == IF \E e \in E : e.key = k THEN FirstVacant(T, hash[k], c) ELSE {}
  IN  [s \in SlotId |-> IF s \in vacant THEN CHOOSE e \in E : e.key = k ELSE T[s]]

(* The reinsertion of the entries E in descending order of their keys. *)
Layout(E, c) ==
  LET table[i \in 0 .. MaxKey + 1] ==
        IF i = 0 THEN EmptyTable ELSE ReinsertStep(table[i - 1], E, MaxKey + 1 - i, c)
  IN  table[MaxKey + 1]

GrowStep(c, used) == IF used * 100 > c * LoadFactorPct THEN c * Multiplier ELSE c

(* The loop is not followed beyond the largest capacity. *)
compute_resize_capacity(capacity, used) ==
  LET grown[i \in 0 .. MaxCapacity] == IF i = 0 THEN capacity ELSE GrowStep(grown[i - 1], used)
  IN  grown[MaxCapacity]

(* Called to grow only, so not for a capacity that is too small; beyond    *)
(* the largest one it panics.                                              *)
Rehash(store, S, c) ==
  LET R == ReadSlots(S, 0 .. S.capacity - 1)
      new == Layout({S.slots[s] : s \in 0 .. S.capacity - 1} \ {Empty}, c)
      changed == {s \in 0 .. c - 1 : s >= S.capacity \/ new[s] # S.slots[s]}
  IN  IF c > MaxCapacity \/ ~ UsageKnown(store) \/ R.failed THEN [S EXCEPT !.failed = TRUE]
      ELSE [R EXCEPT !.slots = [s \in SlotId |-> IF s \in changed THEN new[s] ELSE S.slots[s]],
                     !.capacity = c,
                     !.cached = @ \cup changed \cup {Meta},
                     !.rehashed = TRUE]

-------------------------------------------------------------------------------
(* shi_upsert *)

(* One iteration; the loop has returned when the hand is empty. *)
ProbeStep(S, s) ==
  LET R == ReadSlots(S, {s})
      old == S.slots[s]
  IN  IF S.failed \/ S.hand = Empty THEN S
      ELSE IF R.failed THEN R
      ELSE IF old = Empty THEN [Put(R, s, S.hand) EXCEPT !.hand = Empty]
      ELSE IF old.key = S.hand.key THEN [Put(R, s, S.hand) EXCEPT !.hand = Empty]
      ELSE IF old.key < S.hand.key THEN [Put(R, s, S.hand) EXCEPT !.hand = old]
      ELSE R

(* The loop over the probe sequence of k *)
Probed(S, k) ==
  LET after[i \in 0 .. S.capacity] ==
        IF i = 0 THEN S ELSE ProbeStep(after[i - 1], probe(hash[k], i - 1, S.capacity))
  IN  after[S.capacity]

(* The resize after an insertion, put off when the count is unknown. *)
Resizes(store, before, after) ==
  /\ after.delta > before.delta
  /\ UsageKnown(store)
  /\ usage_count(store, after) > (after.capacity * LoadFactorPct) \div 100

UpsertOnce(store, S, e) ==
  LET there == DirectFind(store, S, e.key)
      M == ReadMeta([S EXCEPT !.hand = e])
      W == Probed(M, e.key)
  IN  IF there # {} THEN [Put(S, CHOOSE s \in there : TRUE, e) EXCEPT !.hand = Empty]
      ELSE IF M.failed THEN M
      ELSE IF W.failed THEN W
      ELSE IF W.hand # Empty THEN Rehash(store, W, compute_resize_capacity(W.capacity, W.capacity))
      ELSE IF Resizes(store, S, W)
           THEN Rehash(store, W, compute_resize_capacity(W.capacity, usage_count(store, W)))
      ELSE W

(* With an entry left in hand the bucket was expanded by force; the call   *)
(* for that entry then finds room.                                         *)
ShiUpsert(store, S, e) ==
  LET U == UpsertOnce(store, S, e)
  IN  IF U.failed \/ U.hand = Empty THEN U ELSE UpsertOnce(store, U, U.hand)

-------------------------------------------------------------------------------
(* shi_delete *)

NextStops(S) ==
  {s \in (0 .. S.capacity - 1) \ {S.gap} :
     IsEntry(S.slots[s]) => Suitable(S.slots, hash, S.capacity, S.gap, s)}

(* shi_next, then the gap is filled, or left empty and the loop returns. *)
CompactStep(S) ==
  LET stops == NextStops(S)
      path == Visited(S.gap, S.capacity, stops) \ {S.gap}
      R == ReadSlots(S, path)
      next == {s \in path \cap stops : S.slots[s] # Empty}
      from == CHOOSE s \in next : TRUE
  IN  IF S.failed \/ S.gap = NoSlot THEN S
      ELSE IF R.failed THEN R
      ELSE IF next = {} THEN [Put(R, S.gap, Empty) EXCEPT !.gap = NoSlot]
      ELSE [Put(R, S.gap, S.slots[from]) EXCEPT !.gap = from]

(* An iteration moves a smaller key than the last one, which bounds them. *)
Compacted(S) ==
  LET after[i \in 0 .. S.capacity] == IF i = 0 THEN S ELSE CompactStep(after[i - 1])
  IN  after[S.capacity]

ShiDelete(S, k) ==
  LET M == ReadMeta(S)
      R == ReadSlots(M, SearchPath(M, k))
      found == Found(M, k)
  IN  IF M.failed THEN M
      ELSE IF R.failed \/ found = {} THEN R
      ELSE Compacted([R EXCEPT !.gap = CHOOSE s \in found : TRUE])

-------------------------------------------------------------------------------
(* update, for one key, and canonicalize *)

UpdateOne(store, S, k, v) ==
  IF v = Empty THEN ShiDelete(S, k) ELSE ShiUpsert(store, S, [key |-> k, val |-> v])

Occupants(S) == {s \in 0 .. S.capacity - 1 : IsEntry(S.slots[s])}

(* The entries are taken out of the bucket, which gets the size that it    *)
(* has in the store,                                                       *)
Cleared(store, S) ==
  LET R == ReadSlots(ReadMeta(S), 0 .. S.capacity - 1)
  IN  [R EXCEPT !.slots = [s \in SlotId |-> IF s \in Occupants(S) THEN Empty ELSE S.slots[s]],
                !.capacity = store.capacity,
                !.delta = @ - Cardinality(Occupants(S)),
                !.failed = R.failed \/ store.capacity = Unknown]

(* and the one of slot s of S is inserted again. *)
Reinsert(store, S, T, s) ==
  IF T.failed \/ s \notin Occupants(S) THEN T ELSE ShiUpsert(store, T, S.slots[s])

(* In the order of the slots *)
Canonicalize(store, S) ==
  LET after[i \in 0 .. S.capacity] ==
        IF i = 0 THEN Cleared(store, S) ELSE Reinsert(store, S, after[i - 1], i - 1)
  IN  IF S.rehashed THEN [after[S.capacity] EXCEPT !.rehashed = FALSE] ELSE S

-------------------------------------------------------------------------------
(* The keys K at the slots that `at` gives them *)
Placed(K, at) ==
  [s \in SlotId |-> IF \E k \in K : at[k] = s THEN [key |-> CHOOSE k \in K : at[k] = s, val |-> InitValue] ELSE Empty]

(* Before a block the bucket has any entries that fit, in the order that   *)
(* the operations leave behind (OrderedWhenIdle of ShiBucket).             *)
Init ==
  /\ hash \in HashFns
  /\ \E K \in SUBSET PlainKeys, c \in InitCapacities : \E at \in [K -> 0 .. c - 1] :
       /\ \A j, k \in K : at[j] = at[k] => j = k
       /\ ShiOrdered(Placed(K, at), hash, c)
       /\ base = Reader(Placed(K, at), c, NoFast)
  /\ pc = "idle"
  /\ lookups = {} /\ updates = NoUpdates /\ todo = {}
  /\ direct = NoFast /\ chosen = {}
  /\ recorder = NewState(base) /\ witness = base /\ replica = NewState(base) /\ full = NewState(base)

(* BTreeMap::iter *)
IsFirst(k, K) == k \in K /\ \A j \in K : k <= j

Stored(k) == Found(NewState(base), k)

(* Variant of Absence: nothing is recorded for a key that is not found. *)
AbsenceIgnored(S, K) == S

(* recorder.plain_value for the keys K that are not stored. *)
Absence(S, K) ==
  IF K = {} THEN S ELSE ReadSlots(ReadMeta(S), UNION {SearchPath(S, k) : k \in K})

(* The updates of stored keys, which are not run on the recorder. *)
InPlace(u) == {k \in DOMAIN u : Stored(k) # {} /\ u[k] # Empty}

(* The slots of the found keys are witnessed. *)
Pushed(fast) == {fast[k] : k \in DOMAIN fast}

(* Witness::create up to recorder.update: bucket_ids names the bucket or   *)
(* not, the block looks up the keys l and makes the updates u.             *)
Create(bucketIds, l, u) ==
  /\ pc = "idle"
  /\ lookups' = l /\ updates' = u
  /\ LET there == {k \in l : Stored(k) # {}} \cup InPlace(u)
     IN  /\ direct' = [k \in there |-> CHOOSE s \in Stored(k) : TRUE]
         /\ chosen' = Pushed(direct') \cup bucketIds
  /\ recorder' = Absence(recorder, {k \in l : Stored(k) = {}})
  /\ todo' = DOMAIN u \ InPlace(u)
  /\ pc' = "record"
  /\ UNCHANGED <<hash, base, witness, replica, full>>

(* An error, or a panic, ends create. *)
Record(k) ==
  /\ pc = "record"
  /\ IsFirst(k, todo)
  /\ ~ recorder.failed
  /\ recorder' = UpdateOne(base, recorder, k, updates[k])
  /\ todo' = todo \ {k}
  /\ UNCHANGED <<hash, base, lookups, updates, pc, direct, chosen, witness, replica, full>>

(* Variant of Kept: without the filter. *)
KeptAll == recorder.cached

(* When the recorder's updates change the capacity, what it cached beyond  *)
(* the old one is dropped.                                                 *)
Kept == {key \in recorder.cached : recorder.capacity # base.capacity /\ key # Meta => key < base.capacity}

(* Variant of WitnessValue: what is not witnessed reads as absent. *)
WitnessValueOrNone(keys, s) == IF s \in keys THEN base.slots[s] ELSE Empty

(* SaltWitness::value and what SaltWitness::create put there. *)
WitnessValue(keys, s) == IF s \in keys THEN base.slots[s] ELSE Unknown

SaltWitness(keys, fast) ==
  Reader([s \in SlotId |-> WitnessValue(keys, s)],
         IF Meta \in keys THEN base.capacity ELSE Unknown, fast)

Assemble ==
  /\ pc = "record"
  /\ todo = {}
  /\ ~ recorder.failed
  /\ witness' = SaltWitness(chosen \cup Kept, direct)
  /\ pc' = "send"
  /\ UNCHANGED <<hash, base, lookups, updates, todo, direct, chosen, recorder, replica, full>>

(* Witness::from: the lookup table that the witnessed entries imply. *)
Rebuilt(slots) ==
  LET entries == {s \in SlotId : IsEntry(slots[s])}
  IN  [k \in {slots[s].key : s \in entries} |-> CHOOSE s \in entries : slots[s].key = k]

(* Variant of ReplayNext: largest key first. *)
Descending(k, K) == k \in K /\ \A j \in K : k >= j

ReplayNext(k, K) == IsFirst(k, K)

(* The validator has the witness as created, or only its SaltWitness. *)
Receive(fast) ==
  /\ pc = "send"
  /\ witness' = [witness EXCEPT !.fast = fast]
  /\ replica' = NewState(witness')
  /\ todo' = DOMAIN updates
  /\ pc' = "replay"
  /\ UNCHANGED <<hash, base, lookups, updates, direct, chosen, recorder, full>>

Replay(k) ==
  /\ pc = "replay"
  /\ ReplayNext(k, todo)
  /\ ~ replica.failed
  /\ replica' = UpdateOne(witness, replica, k, updates[k])
  /\ full' = UpdateOne(base, full, k, updates[k])
  /\ todo' = todo \ {k}
  /\ UNCHANGED <<hash, base, lookups, updates, pc, direct, chosen, recorder, witness>>

(* update_fin ends with canonicalize. *)
Finish ==
  /\ pc = "replay"
  /\ todo = {}
  /\ ~ replica.failed
  /\ replica' = Canonicalize(witness, replica)
  /\ full' = Canonicalize(base, full)
  /\ pc' = "done"
  /\ UNCHANGED <<hash, base, lookups, updates, todo, direct, chosen, recorder, witness>>

Batches == UNION {[K -> NewValues \cup {Empty}] : K \in SUBSET PlainKeys}

Next ==
  \/ \E b \in SUBSET {Meta}, l \in SUBSET PlainKeys, u \in Batches :
       Cardinality(b) + Cardinality(l) <= MaxReads /\ Create(b, l, u)
  \/ \E k \in PlainKeys : Record(k)
  \/ Assemble
  \/ \E fast \in {witness.fast, Rebuilt(witness.slots)} : Receive(fast)
  \/ \E k \in PlainKeys : Replay(k)
  \/ Finish

Spec == Init /\ [][Next]_vars

-------------------------------------------------------------------------------
Witnessed == pc \in {"send", "replay", "done"}

(* Running the block on the witness alone never reads a slot or metadata   *)
(* that is missing, although Witness::create ran the insertions and        *)
(* deletions only: an update in place, which it did not run, never has to  *)
(* search, because the keys before it in the order move smaller keys only. *)
ReplayNeverFails == ~ replica.failed

(* The session over the witness and the one over the full state stay the   *)
(* same after every key and after canonicalize, bucket expansions          *)
(* included: what the witness does not tell has not changed.               *)
ReplayAgrees ==
  pc \in {"replay", "done"} =>
    /\ \A s \in SlotId :
         full.slots[s] = IF replica.slots[s] = Unknown THEN base.slots[s] ELSE replica.slots[s]
    /\ full.capacity = IF replica.capacity = Unknown THEN base.capacity ELSE replica.capacity
    /\ full.delta = replica.delta

(* The validator finds what the block looks up, and finds that it is not   *)
(* there.  For any other key a witness gives the answer of the full state  *)
(* or an error: what was left out never reads as absent.                   *)
LookupsRight ==
  Witnessed => \A k \in PlainKeys :
    Find(witness, k) \in {Find(base, k)} \cup (IF k \in lookups THEN {} ELSE {Unknown})

(* The validator accepts the witness before it replays: no slot that the   *)
(* bucket does not have is in it, which SaltProof::create would refuse,    *)
(* although the recorder may have expanded the bucket, and Witness::verify *)
(* finds each key of the lookup table, as created and as rebuilt, at the   *)
(* slot that the table names.                                              *)
WitnessAccepted ==
  Witnessed =>
    /\ \A s \in SlotId : witness.slots[s] # Unknown => s < base.capacity
    /\ \A k \in DOMAIN witness.fast : DirectFind(witness, NewState(witness), k) = {witness.fast[k]}
===============================================================================
