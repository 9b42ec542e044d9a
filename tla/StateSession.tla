------------------------------ MODULE StateSession ------------------------------
(***************************************************************************)
(* The journey of a change from an EphemeralSaltState to the store: the    *)
(* overlay that a session keeps over a MemStore (salt/src/state/state.rs), *)
(* the StateUpdates that its calls return and that the caller merges,      *)
(* applies or inverts (salt/src/state/updates.rs), and the entries and     *)
(* usage count of the MemStore (salt/src/mem_store.rs).                    *)
(*                                                                         *)
(* One data bucket: its slots, and the key Meta of its metadata.  Which    *)
(* slots a call writes is up to the SHI table (ShiBucket); here a call     *)
(* writes any of them.                                                     *)
(***************************************************************************)
EXTENDS Integers, Sequences, FiniteSets, Functions

CONSTANTS
  Slots,         \* the slots of the bucket
  Meta,          \* bucket_metadata_key of the bucket
  Entries,       \* what a slot can hold
  Metas,         \* the encoded metadata
  DefaultMeta,   \* BucketMeta::default(), encoded
  None,
  MaxWrites,     \* bound on the writes of one call
  MaxCommits,    \* bound on the commits that can be rolled back
  AllowReuse     \* may a session be used after its changes were committed?

Keys == Slots \cup {Meta}

ASSUME SessionAssumption ==
  /\ IsFiniteSet(Slots) /\ Meta \notin Slots
  /\ DefaultMeta \in Metas
  /\ None \notin Entries \cup Metas
  /\ AllowReuse \in BOOLEAN

VARIABLES
  kvs,       \* the entries in the store
  used,      \* used_slots of the bucket in the store
  cache,     \* self.cache: a function on the cached keys
  cacheRead, \* self.cache_read
  delta,     \* usage_count_delta of the bucket
  rehashed,  \* is the bucket in rehashed_buckets?
  out,       \* the StateUpdates of the running call: key -> [old, new]
  writes,    \* how often the running call wrote (bounds the model only)
  pending,   \* the StateUpdates of the session's earlier calls, merged
  stale,     \* have changes been committed since the session began?
  log,       \* the committed StateUpdates that can still be rolled back
  past,      \* the entries before each of them (history only)
  totals     \* the committed StateUpdates up to each of them, accumulated

store == <<kvs, used, log, past, totals>>
session == <<cache, cacheRead, delta, rehashed, stale>>
vars == <<store, session, out, writes, pending>>

Empty == [k \in {} |-> None]

Init ==
  /\ kvs = [k \in Keys |-> None] /\ used = 0
  /\ cache = Empty /\ cacheRead \in BOOLEAN /\ delta = 0 /\ rehashed = FALSE /\ stale = FALSE
  /\ out = Empty /\ writes = 0 /\ pending = Empty
  /\ log = << >> /\ past = << >> /\ totals = << >>

-------------------------------------------------------------------------------
(* StateUpdates, and the HashMaps of the session *)

(* The entries of f, and those of g that have no other in f. *)
Over(f, g) == [k \in DOMAIN f \cup DOMAIN g |-> IF k \in DOMAIN f THEN f[k] ELSE g[k]]

Change(k, old, new) == [j \in {k} |-> [old |-> old, new |-> new]]

(* Variant of AddAll: a change that is undone stays. *)
AddAllKeepsNoOps(su, changes) ==
  [k \in DOMAIN su \cup DOMAIN changes |->
     [old |-> IF k \in DOMAIN su THEN su[k].old ELSE changes[k].old,
      new |-> IF k \in DOMAIN changes THEN changes[k].new ELSE su[k].new]]

(* try_add for each of the given changes, of which each has a key of its   *)
(* own and chains: the change of a key goes from its first old value to    *)
(* its last new one, and is dropped when these are the same.               *)
AddAll(su, changes) ==
  LET Joined(k) == [old |-> IF k \in DOMAIN su THEN su[k].old ELSE changes[k].old,
                    new |-> IF k \in DOMAIN changes THEN changes[k].new ELSE su[k].new]
      undone == {k \in DOMAIN changes : Joined(k).old = Joined(k).new}
  IN  [k \in (DOMAIN su \cup DOMAIN changes) \ undone |-> Joined(k)]

Add(su, k, old, new) == AddAll(su, Change(k, old, new))

(* What try_add asks of a change. *)
Chains(su, k, old) == k \in DOMAIN su => su[k].new = old

(* Variant of Merge: the later transition of a key replaces the earlier. *)
MergeReplaces(su, other) == Over(other, su)

(* merge: add each entry of other. *)
Merge(su, other) == AddAll(su, other)

(* Variant of inverse: only what was there before is restored. *)
inverseOfDeletions(su) ==
  [k \in {j \in DOMAIN su : su[j].old # None} |-> [old |-> su[k].new, new |-> su[k].old]]

inverse(su) == [k \in DOMAIN su |-> [old |-> su[k].new, new |-> su[k].old]]

-------------------------------------------------------------------------------
(* What the session reads *)

value(k) == IF k \in DOMAIN cache THEN cache[k] ELSE kvs[k]

(* The metadata that an entry, or its absence, stands for. *)
AsMeta(v) == IF v = None THEN DefaultMeta ELSE v

(* A read of default metadata enters the cache as absent. *)
AsCached(m) == IF m = DefaultMeta THEN None ELSE m

(* metadata: nonce and capacity. *)
metadata == AsMeta(value(Meta))

usage_count == used + delta

Occupied(entries) == {s \in Slots : entries[s] # None}

View == [k \in Keys |-> value(k)]

-------------------------------------------------------------------------------
(* The calls on the session *)

CanCall == AllowReuse \/ ~ stale

(* With cache_read, a read enters the cache. *)
Read(k) ==
  /\ CanCall
  /\ cacheRead
  /\ k \notin DOMAIN cache
  /\ cache' = Over([j \in {k} |-> IF k = Meta THEN AsCached(metadata) ELSE kvs[k]], cache)
  /\ UNCHANGED <<store, cacheRead, delta, rehashed, stale, out, writes, pending>>

(* Variant of UpdateValue: replacing an entry counts as inserting one. *)
UpdateValueCounts(k, old, new) ==
  /\ old # new
  /\ delta' = delta + (IF new # None THEN 1 ELSE -1)
  /\ out' = Add(out, k, old, new)
  /\ cache' = Over([j \in {k} |-> new], cache)

(* update_value *)
UpdateValue(k, old, new) ==
  /\ old # new
  /\ delta' = delta + (IF new # None THEN 1 ELSE 0) - (IF old # None THEN 1 ELSE 0)
  /\ out' = Add(out, k, old, new)
  /\ cache' = Over([j \in {k} |-> new], cache)

(* shi_upsert and shi_delete change slots. *)
Write(s, v) ==
  /\ CanCall
  /\ writes < MaxWrites
  /\ UpdateValue(s, value(s), v)
  /\ writes' = writes + 1
  /\ UNCHANGED <<store, cacheRead, rehashed, stale, pending>>

(* All the slots and the metadata have been read. *)
Fetched == IF cacheRead THEN [k \in Keys |-> IF k = Meta THEN AsCached(metadata) ELSE value(k)] ELSE cache

(* shi_rehash puts the same entries into other slots (slot s gets that of  *)
(* move[s]), which it records slot by slot and without a change of the     *)
(* count, and then the metadata.                                           *)
Rehash(move, m) ==
  /\ CanCall
  /\ writes < MaxWrites
  /\ LET changed == {s \in Slots : value(move[s]) # value(s)}
         moved == [s \in changed |-> [old |-> value(s), new |-> value(move[s])]]
         written == IF metadata = m THEN Empty ELSE [k \in {Meta} |-> m]
     IN  /\ out' = Add(AddAll(out, moved), Meta, metadata, m)
         /\ cache' = Over(written, Over([s \in changed |-> value(move[s])], Fetched))
  /\ rehashed' = TRUE
  /\ writes' = writes + 1
  /\ UNCHANGED <<store, cacheRead, delta, stale, pending>>

(* canonicalize empties the bucket and goes back to the stored metadata;   *)
(* the writes that reinsert the entries follow.                            *)
Canonicalize ==
  /\ CanCall
  /\ rehashed
  /\ rehashed' = FALSE
  /\ LET full == Occupied(View)
         cleared == [s \in full |-> [old |-> value(s), new |-> None]]
         others == [k \in DOMAIN Fetched \ {Meta} |-> Fetched[k]]
         stored == IF cacheRead THEN [k \in {Meta} |-> AsCached(AsMeta(kvs[Meta]))] ELSE Empty
     IN  /\ out' = Add(AddAll(out, cleared), Meta, metadata, AsMeta(kvs[Meta]))
         /\ delta' = delta - Cardinality(full)
         /\ cache' = Over([s \in full |-> None], Over(others, stored))
  /\ UNCHANGED <<store, cacheRead, stale, writes, pending>>

(* The call returns its StateUpdates, and the caller merges them. *)
EndCall ==
  /\ out # Empty
  /\ pending' = Merge(pending, out)
  /\ out' = Empty
  /\ writes' = 0
  /\ UNCHANGED <<store, session>>

NewSession ==
  /\ cache' = Empty /\ cacheRead' \in BOOLEAN /\ delta' = 0 /\ rehashed' = FALSE /\ stale' = FALSE
  /\ out' = Empty /\ writes' = 0 /\ pending' = Empty
  /\ UNCHANGED store

-------------------------------------------------------------------------------
(* update_state of the store *)

Inserted(su) == {s \in DOMAIN su \cap Slots : su[s].old = None /\ su[s].new # None}
Deleted(su) == {s \in DOMAIN su \cap Slots : su[s].old # None /\ su[s].new = None}

(* The count goes up for insertions and down for deletions of data         *)
(* entries.  Were there more deletions than used slots, the saturating_sub *)
(* would stop some of them at zero, and the order of the keys would decide *)
(* how many.                                                               *)
UsedAfter(su) ==
  IF Cardinality(Deleted(su)) <= used
  THEN {used + Cardinality(Inserted(su)) - Cardinality(Deleted(su))}
  ELSE 0 .. used + Cardinality(Inserted(su))

UpdateState(su) ==
  /\ kvs' = [k \in Keys |-> IF k \in DOMAIN su THEN su[k].new ELSE kvs[k]]
  /\ used' \in UsedAfter(su)

(* The first n commits, accumulated. *)
Total(n) == IF n = 0 THEN Empty ELSE totals[n]

Commit ==
  /\ out = Empty /\ pending # Empty
  /\ Len(log) < MaxCommits
  /\ UpdateState(pending)
  /\ log' = Append(log, pending)
  /\ past' = Append(past, kvs)
  /\ totals' = Append(totals, Merge(Total(Len(log)), pending))
  /\ pending' = Empty
  /\ stale' = TRUE
  /\ UNCHANGED <<cache, cacheRead, delta, rehashed, out, writes>>

AllButLast(seq) == [i \in 1 .. Len(seq) - 1 |-> seq[i]]

(* The inverse of the last commit, when no session is open on the store. *)
Rollback ==
  /\ log # << >>
  /\ out = Empty /\ pending = Empty
  /\ UpdateState(inverse(log[Len(log)]))
  /\ log' = AllButLast(log)
  /\ past' = AllButLast(past)
  /\ totals' = AllButLast(totals)
  /\ cache' = Empty /\ delta' = 0 /\ rehashed' = FALSE /\ stale' = FALSE
  /\ UNCHANGED <<cacheRead, out, writes, pending>>

Next ==
  \/ \E k \in Keys : Read(k)
  \/ \E s \in Slots, v \in Entries \cup {None} : Write(s, v)
  \/ \E move \in Bijection(Slots, Slots), m \in Metas : Rehash(move, m)
  \/ Canonicalize
  \/ EndCall
  \/ NewSession
  \/ Commit
  \/ Rollback

Spec == Init /\ [][Next]_vars

-------------------------------------------------------------------------------
(* Up to the way that default metadata is stored. *)
Normal(entries) == [k \in Keys |-> IF k = Meta THEN AsMeta(entries[k]) ELSE entries[k]]

(* su leads from the entries a to the entries b. *)
Leads(su, a, b) ==
  /\ DOMAIN su \subseteq Keys
  /\ \A k \in DOMAIN su : su[k].old = a[k] /\ su[k].new = b[k]
  /\ \A k \in Keys \ DOMAIN su : a[k] = b[k]

(* And it says nothing else. *)
IsDifference(su, a, b) == Leads(su, a, b) /\ \A k \in DOMAIN su : su[k].old # su[k].new

(* The StateUpdates of a session say exactly what the session changed:     *)
(* from what the store has to what the session reads, and nothing else,    *)
(* also when the session goes on after a commit, on its old cache.         *)
UpdatesExact == IsDifference(Merge(pending, out), Normal(kvs), Normal(View))

(* The panic of merge cannot happen for the calls of a session, nor the    *)
(* error of try_merge for blocks that follow each other: the updates of    *)
(* all commits, sessions and calls chain, and accumulated they are the     *)
(* difference between the state before the first of them and the state     *)
(* after the last, whatever was rolled back in between.                    *)
AccumulationExact ==
  LET total == Total(Len(log))
  IN  /\ \A i \in DOMAIN log : \A k \in DOMAIN log[i] : Chains(Total(i - 1), k, log[i][k].old)
      /\ \A k \in DOMAIN pending : Chains(total, k, pending[k].old)
      /\ \A k \in DOMAIN out : Chains(Merge(total, pending), k, out[k].old)
      /\ IsDifference(total, Normal(IF log = << >> THEN kvs ELSE past[1]), Normal(kvs))

(* used_slots stays the number of occupied slots under every sequence of   *)
(* commits and rollbacks: it never drifts and never saturates.  And        *)
(* usage_count is the number of slots that the session reads as occupied,  *)
(* so its expect never fails and resizes are decided on the real load;     *)
(* only a session that goes on after a commit counts its insertions twice. *)
CountsExact ==
  /\ used = Cardinality(Occupied(kvs))
  /\ ~ stale => usage_count = Cardinality(Occupied(View))

(* Rolling back restores the entries before the commit, up to metadata     *)
(* that is written out although it is the default.                         *)
RollbackRestores ==
  [][Len(log') < Len(log) => Normal(kvs') = Normal(past[Len(past)])]_vars

-------------------------------------------------------------------------------
(* The inductive invariant behind the properties above *)

Val == Entries \cup Metas \cup {None}
Maps(S) == UNION {[D -> S] : D \in SUBSET Keys}
Updates == Maps([old : Val, new : Val])

(* Type invariant. *)
TypeOK ==
  /\ kvs \in [Keys -> Val] /\ used \in Nat
  /\ cache \in Maps(Val) /\ cacheRead \in BOOLEAN /\ delta \in Int
  /\ rehashed \in BOOLEAN /\ stale \in BOOLEAN
  /\ out \in Updates /\ writes \in Nat /\ pending \in Updates
  /\ log \in Seq(Updates) /\ past \in Seq([Keys -> Val]) /\ totals \in Seq(Updates)

(* What the session read after the calls whose updates are in pending. *)
AfterCalls == [k \in Keys |-> IF k \in DOMAIN pending THEN pending[k].new ELSE Normal(kvs)[k]]

(* The entries after the i-th commit. *)
After(i) == IF i = Len(log) THEN kvs ELSE past[i + 1]

SessionExact ==
  /\ IsDifference(pending, Normal(kvs), AfterCalls)
  /\ IsDifference(out, AfterCalls, Normal(View))
  /\ Meta \in DOMAIN pending => pending[Meta].new # None

LogExact ==
  /\ Len(past) = Len(log) /\ Len(totals) = Len(log)
  /\ \A i \in 1 .. Len(log) :
       /\ IsDifference(log[i], Normal(past[i]), Normal(After(i)))
       /\ IsDifference(totals[i], Normal(past[1]), Normal(After(i)))

Inductive == TypeOK /\ SessionExact /\ LogExact /\ CountsExact
===============================================================================
