# SALT: TLA+ models, model checking and proofs

SALT is an authenticated key-value store. Plain keys are hashed to buckets; a
bucket is a history-independent hash table; a trie of vector commitments on top
of the buckets yields the state root. This directory models the crates `salt`,
`banderwagon`, `ipa-multipoint` and `salt-macros` where an error is hard to find
by testing, checks the models with TLC on small instances, and proves the central
properties of the hash table, the sessions and their updates, the store with
concurrent readers, the parallel updates and the committer's table reads for all
instances with TLAPS.

## 1. Inventory

| Component (source) | State | Operations | What is hard |
|---|---|---|---|
| SHI hash table (`state/state.rs`) | slots, nonce, capacity, usage of a bucket | `shi_upsert`, `shi_delete`, `shi_rehash`, `set_nonce`, `canonicalize`, `shi_search` | three loops that depend on each other's order; wraparound; forced expansion in mid-chain; counts kept as deltas |
| Session `EphemeralSaltState` (`state/state.rs`) | `cache`, `usage_count_delta`, `rehashed_buckets`, `cache_read` over a store | `update`, `update_fin`, `canonicalize`, `value`, `metadata`, `usage_count` | overlay and store disagree by design; default metadata has two representations |
| `StateUpdates` (`state/updates.rs`) | key to (old, new) | `add`, `merge`, `try_merge`, `inverse` | transitions must chain; undone changes must vanish; rollback |
| `MemStore` (`mem_store.rs`) | entries, `used_slots`, trie | `update_state`, `update_trie`, reads, `clone`, `fmt` | two locks; readers that take many short locks; counts derived from the caller's transitions |
| `PlainStateProvider` (`state/state.rs`) | none | `plain_value` | a search whose reads are separate critical sections |
| `StateRoot` (`trie/trie.rs`) | `cache`, `updates`, `bucket_capacity_cache` over a store or a witness | `update`, `finalize`, `update_fin`, `rebuild` | buckets that gain or lose levels, with or without changed entries; stale caches between updates; deferred levels; nodes that a witness does not have |
| `add_commitment_deltas`, parallel macros (`trie/trie.rs`, `salt-macros`) | none | sort, node-aligned chunks, collect | a node in two chunks would be written twice from one old value |
| Shared committer (`trie/trie.rs`) | a lazy static | `build_shared_committer` | initialization in and outside of thread pools; panics |
| Node and key arithmetic (`trie/node_utils.rs`, `types.rs`, `constant.rs`) | none | ids of nodes and keys, levels, default commitments, bytes of values | shifts, masks and tags at the boundaries of levels and buckets |
| Hasher (`state/hasher.rs`, `state/ahash`) | none | `bucket_id`, `hash_with_nonce`, `write` | overlapping reads that depend on the length |
| Witness, stateless replay (`proof/witness.rs`, `proof/salt_witness.rs`) | the witnessed slots and commitments | `create`, `verify`, partial reads | the witness must hold all that replay and root computation read |
| Proof shape, prover (`proof/shape.rs`, `prover.rs`, `subtrie.rs`) | none | queries of prover and verifier, wire format | both sides must derive the same queries |
| Multi-openings (`ipa-multipoint`) | a transcript | `open`, `check`, inner product argument | two sides that must draw the same challenges; quotients inside the domain; sign of index differences |
| Committer and curve (`banderwagon`) | precomputed tables | `mul_index`, encodings, `hash_commitments`, assembly | two points per element; unchecked table reads; carry chains |

How they interact: a client opens a session over a store, calls `update`
(upserts and deletes on buckets, which may rehash) and perhaps `canonicalize`,
and gets `StateUpdates`. It hands them to `StateRoot::update`, any number of
times, and gets root and `TrieUpdates` from `finalize`. Both kinds of updates are
applied to the store, in either order and under separate locks, while others
read. `inverse` undoes an applied batch, `rebuild` computes the trie again from
the entries. `Witness::create` runs the changes of a block on a session that
records its reads, and `SaltProof` proves the slots read with one opening of many
polynomials; a stateless validator checks the proof, runs the block on a session
over the witness and computes the new root with a `StateRoot` over it. All
commitments are sums of multiples of fixed points, which the shared committer
takes from its tables.

What makes each component correct:

* hash table: the layout is a function of entries, nonce and capacity; searches
  find all entries; no entry is ever lost, also on the way; counts are exact;
  calls return;
* session, updates, store: the updates say exactly what the session changed;
  they chain, over sessions too; counts in session and store are exact; rollback
  restores; a concurrent lookup never finds what was not stored;
* trie: the root is that of the state, whatever way the changes were split into
  updates and sessions; the stored trie is what the state defines; a rebuild
  agrees; a validator gets the same root from the witness alone;
* parallel parts: every task ends, each node is written once;
* witness: the block that a witness was made for runs on it without a missing
  read and with the result of the full state; what was left out is an error,
  never an absence;
* proof: the verifier derives the queries that the prover opened; all that an
  accepted witness says is true of the state with that root; openings that were
  made are accepted;
* commitments and encodings: bytes and ids stand for one thing each, and the
  optimized arithmetic is the arithmetic of the group.

The hazards behind these properties are listed, with their lines, under
`hazards` in `PROJECT.json`.

## 2. Modules

| Module | Models | Notes |
|---|---|---|
| `ShiTable` | probing, search, compaction candidate, vacant slot | constant operators; a source loop is the set of slots where it stops |
| `ShiBucket` | the operations on one bucket | one action per loop iteration, `pc` names the loop |
| `KvMap` | what a bucket promises | the abstract map that `ShiBucket` refines |
| `ShiTableTheorems`, `ShiBucketProofs` | theorems | about tables, `ShiBucket`, and that it implements `KvMap` |
| `StateSession`, `StateSessionProofs` | session overlay, `StateUpdates`, `MemStore` entries and counts; theorems | one bucket |
| `StoreReaders`, `StoreReadersProofs` | `MemStore` with a writer and concurrent readers; theorems | extends `ShiTable`; one action per critical section |
| `SaltTrie` | node numbers, commitments, contraction ranges | constant operators |
| `TrieReference` | what the commitments of a state are, by definition | the reference of `StateRoot` and `SaltProof` |
| `ProofShape` | which nodes and points a proof opens | constant operators, on pairs |
| `StateRoot` | update sessions, finalize, rebuild, the stored trie, validators | extends `TrieReference` and `ProofShape` |
| `ParallelUpdates`, `ParallelUpdatesProofs` | committer initialization and the chunks of `add_commitment_deltas`, on threads; theorems | rayon and `LazyLock` are external |
| `Witness`, `WitnessProofs`, `WitnessReplayProofs` | `Witness::create`, the partial store, the replay of a block; theorems | one bucket; sessions are records that the operations map to records |
| `SaltProof` | path, levels and queries of a proof, on both sides | |
| `Multipoint` | multi-opening and inner product argument | the transcript's hash is an oracle |
| `Montgomery`, `Banderwagon`, `Committer`, `CommitterProofs` | assembly routines, elements and their bytes, tables and `mul_index`; theorems | each extends the one before |
| `Encodings` | ids, keys, values and hashed bytes as numbers | checked against `SaltTrie` and `ProofShape` |
| `ProofWire` | a `SaltProof` as it is written, read and sent on | framing is external |
| `MC*` | instances for TLC | |

In the map of `PROJECT.json` an entry for a whole function begins at its doc
comment, which says what the definition is to satisfy.

### ShiBucket

`table` is the bucket as `EphemeralSaltState::value` reads it. `Upsert` starts
`shi_upsert`; `ProbeEqual`, `ProbeDisplace`, `ProbePass`, `ProbePlace` are the
four outcomes of one iteration; `Advance` is the end of the loop, where a full
bucket is expanded by force with the displaced entry still in `hand`.
`UpsertDirect` is the shortcut through a witness's lookup table. `Grow` is
`compute_resize_capacity`; `RehashCollect`, `RehashReinsert`, `RehashCommit` are
the steps of `shi_rehash`, `RehashAssert` its panic; `Delete`, `Compact`,
`CompactEnd` are `shi_delete`; `Canonicalize`, `Replay`, `ReplayEnd` are
`canonicalize`. `ProbePlace(FALSE)` is a store that cannot tell the usage count.
Keys are numbers because only their order matters. A hash is any function from
nonces and keys to numbers.

### StateSession

Which slots a call writes is free here (any slot may get any entry), so the
results hold for whatever the hash table does. `Write` is one `update_value`;
`Rehash` the recording part of `shi_rehash`, which puts the entries into other
slots (`move`) and compares the layouts slot by slot; `Canonicalize` the clearing part of
`canonicalize`, whose reinsertions are further `Write`s; `EndCall` the return and
merge; `Commit` and `Rollback` apply updates and their inverse to the store. The
metadata key has two representations of the default (absent, explicit), as in
the code. A session may go on after its commit (`AllowReuse`).

`add` is applied to a set of transitions at once (`AddAll`), each key having one.
`UsedAfter` is a set of counts: `update_state` subtracts with `saturating_sub`, so
with a wrong count its result could depend on the order of the keys. `log` and
`past` hold the commits and the entries before them, `totals` what merging the
updates of all commits up to each one gives.

### StoreReaders

The writer commits a content as `update_state` (lock, one step per entry, unlock)
and then `update_trie`, or waits in between. Readers hold a read lock for a single
access: `plain_value` reads the metadata, then one slot per step; the other
calls are `bucket_used_slots` with a scan, `clone`, `fmt`, and the reads of
`SaltProof::create`. A content is metadata with a table; that tables are ordered and
within their capacity (`IsContent`) is assumed, and is what `OrderRestored` and
`CapacityRespected` prove of buckets. Entries are written in the order of the
updates' keys, the metadata first. `seen` is the set of states that were current during a call;
the properties say which of them an answer is about.

### SaltTrie and StateRoot

A commitment is a number modulo a prime, the sum of child hashes times
generators; hashing a commitment is a cubic bijection, so a delta taken from a
stale old value gives a wrong sum. That is all of the cryptography that the
update algorithm relies on. The width is 2 or 4 in place of 256, for trie nodes
and bucket segments alike; the main trie keeps its four and the subtrees their
five levels.

A call is a sequence of steps: `Update` or a chunk of `Rebuild`, then
`FindSubtrees` (Step 1 of `update_bucket_subtrees`), `UpdateLeaves` (Steps 2 and
5), `UpdateLevel` (Step 6, once per level, with Steps 3 and 4 as the operators
`Resets`, `Extra`, `Triggers`), `EndSubtrees`, then `PropagateLevel` and
`EndUpdate`. `Finalize` is followed by `MainLevel` and `EndFinalize`. `Persist`
writes to the store, `NewSession` is `StateRoot::new`. An update goes from the
current state to any other content of the buckets; the caller may have applied
the entries to the store before (`written`) or not.

`Validate` starts a stateless validator: the same calls over a witness, whose
commitments are those on the paths to the keys that the block read (`PathNodes`).
`view` is that set. `NewDefaults` are the nodes that an expansion adds and for
which Step 1 caches the default commitment. `Reads` collects what the next step
reads; `WitnessSuffices` says that it can be read.

`RootOf` and `ExpectedCommitment` (`TrieReference`) are the reference: commitments
computed from the state by definition, without deltas, caches or capacity changes.

Parallel iterators compute the same sets in any order; `InSomeOrder` stands for
that. That the chunks of the parallel version are such a computation is the
subject of `ParallelUpdates`.

### ParallelUpdates

Each thread has a stack of frames. A worker that waits for its jobs takes others
from the queue on top of its stack (`TakeJob`); a caller outside the pool hands
over its operation and sleeps (`Enter`, `Wake`). `ForceFirst` and `ForceAgain` are
the first and the later uses of the lazy static; `BuildPool`, `SpawnInit`,
`BuildTable`, `BuildPanics`, `JoinInit` are `build_shared_committer`: a thread of
its own, with a pool of its own, joined by a plain `join`, during which a worker
takes no jobs. `Split`, `DoChunk`, `Collect` are `add_commitment_deltas`; `Boundaries`
are the places where its chunks end, between deltas of different nodes.

### Witness

`Create` is `Witness::create` up to `recorder.update`: found keys go into the
lookup table and the witness, absent ones are searched on the recorder; `Record`
is one insertion or deletion on the recorder, `Assemble` the filter by the old
capacity and `SaltWitness::create`. The validator gets the witness as made or
rebuilds the lookup table (`Receive`), and `Replay` runs one key of the block on
the witness and, for comparison, on the full state; `Finish` is `canonicalize`.
The bucket operations are those of `ShiBucket` as one operator per call, with the
set of slots that each reads; a read that the store cannot answer ends the call
with an error, as `?` does, and so does the panic of `shi_rehash` beyond the largest
capacity. `Unknown` is what is not in the witness. The block starts from any entries
in any order that the operations of a bucket leave behind (`ShiOrdered`), which is what
`OrderRestored` proves of `ShiBucket`.

Why the replay works although the updates in place were not recorded: keys are
taken in ascending order (`BTreeMap`), and an operation on a key only moves
smaller keys, so a key that is updated in place is still where the lookup table
says. With another order it may have been displaced, and the search for it reads
slots that nobody witnessed (the mutant `Descending`). And a resize on the
validator needs the usage count, which a witness has only if it covers the whole
bucket, which is so whenever the recorder resized.

### SaltProof

`InternalPoints` and `SlotPoint` are `parents_and_points` for one key. A node that
`encode_parent` tags with the level is a sequence of three numbers; its stored
address is `ConnectParent`, the address that its children derive from is
`LogicParent`. `ProverQueries` and `VerifierQueries` are the lists that the sides
build; both run through nodes and points in the same order, so a list is a
function of node and point. `Malformed` collects the errors of
`create_verifier_queries`. The opening argument accepts what it was made for if
each opening is true of a polynomial behind the commitment (`Opens`); `Coefficient`
gives those polynomials by definition. `Mix` puts a witness together from the
state and another one, from some depth on; `AddNode` adds a commitment.

### Multipoint

The steps of both sides end where a challenge is drawn: `Open`, `ProveR`,
`ProveT`, `ProveW`, `ProveX` (once per round), then `Check`, `CheckR`, `CheckT`,
`CheckW`, `CheckX`, `CheckEnd`. A new transcript gets any challenge of a set, a
known one the challenge it got before, so a verifier whose transcript differs is
on its own. A group element is its vector of coefficients over the generators;
equality of vectors is what the discrete logarithm assumption gives. Lists of
queries with the same polynomial, the same point and a wrong claim are among the
inputs. `powers_of_par` and `multi_scalar_mul_par` are computed in chunks.

### Montgomery, Banderwagon, Committer

The curve is a small one with the properties that `element.rs` relies on
(`CurveAssumption`): a = -5, neither a nor d a square, order four times a prime.
Coordinates in Montgomery form have four words of two bits and are multiplied
row by row, with the two carry chains of `ADCX` and `ADOX` apart: `Step` is one word of
a row, `ShiftDown` the reduction that ends a row. `MulIndex` and
`AddWindow` are the windows of `mul_index`, `AddDelta` the batch addition and
normalization, `Decode` any byte string that `from_bytes` may get, `MulAsm` and
`MulBy5Asm` every pair of operands and every operand of the routines. `mul_index`
computes with the products that the routines stand for (`MontMul`, `MontMulBy5`);
that the routines give these, for all operands, is `MontgomeryExact`.

### Encodings

Ids are numbers with 12 bits of slot for 40 and a width of 4 for 256; bytes have
four bits. One behaviour hashes a plain key to its bucket, sets metadata, stores
entries, and climbs from a slot to the root as `parents_and_points` does.
`NodeOf` and `PairOf` map numbers to the pairs of the other modules. Where the code
asserts or panics on an id, the operator has no case, and TLC would end with an error.
With 12 bits for 1024 slots the largest slot id is one that no bucket of the instance
has room for; entries there (`MCOthers`) show both ends of `bucket_range`.

### Proof on the wire

`Send` writes a `SaltProof` field by field, with the levels sorted. The receiver
reads the commitments into a map, where serde lets the last of two entries stay,
decodes them in parallel (`DecodeCommitment`, in any order; `EndCommitments` may end
early after an error), then the opening chunk by chunk (`DecodeChunk`) and the levels
entry by entry (`DecodeLevel` inserts, and looks at what it replaced). `Damage`
stands for a sender or a channel that is not this code: an entry too many anywhere in
the levels or commitments, or other bytes. `ProofTravels` compares what the loops
end with to the whole message, and the bytes of two sends of one proof. A message
that is cut short is left out: the code asserts its length (`ipa.rs:32`). The module
shares no state with `Encodings`; their run lets one rest while the other moves.

## 3. Runs

| Run | Shows | Bounds | Distinct states |
|---|---|---|---|
| `shi_bucket` | `TypeOK`, `OrderedWhenIdle`, `HistoryIndependent`, `FindComplete`, `UsageExact`, `NothingBeyondCapacity`, `CallsReturn`, `ImplementsKvMap` | 3 keys, two values, 27 first-slot assignments, capacities 2 to 4 and a refused 5, two nonces | 693 000 |
| `session_updates` | `UpdatesExact`, `AccumulationExact`, `CountsExact`, `RollbackRestores` | 2 slots, 2 entries, 2 metadata values, 2 writes per call, any number of calls, 2 commits to roll back | 1 107 000 |
| `trie_incremental` | `RootCorrect`, `OldValuesStored`, `TopReached` | width 4, capacities 4, 8, 16, slots in two leaves, two updates per StateRoot, three deferred levels | 109 000 |
| `trie_buckets` | `RootCorrect`, `TrieExact`, `RebuildExact`, `WitnessSuffices` | width 2, two buckets, capacities 2, 4, 16 (one, two and four subtree levels), two deferred levels | 217 000 |
| `witness_replay` | `ReplayNeverFails`, `ReplayAgrees`, `LookupsRight`, `WitnessAccepted` | 3 keys, all first-slot assignments up to rotation, initial capacities 2, 3 and 4, every block of updates, one lookup or explicit bucket | 469 000 |
| `proofs` | `HonestAccepted`, `AcceptedIsTrue` | width 2, two buckets with one, two, three or five levels, up to 2 of 9 keys; three of the keys for witnesses with parts of another state (`Mixable`), every other content of a bucket, every depth | 31 000 |
| `openings` | `OpeningAccepted`, `SameTranscript` | domain of 4 over 13, up to three of seven queries, three challenges of which one is in the domain, two threads | 1 100 000 |
| `commitments` | `CommitmentExact`, `ReadsInWindow`, `DecodedExactly`, `MontgomeryExact` | prime 113, 29 elements, two positions, windows of 3 bits in scalars of 5, seven scalars; all operands and all byte strings | 17 000 |
| `encodings` | `PathEncoded`, `StoreDecodes`, `AllBytesHashed`, `ProofTravels` | width 4, all nine capacities, 16 slots at the edges of segments and levels, entries at the largest slot id, keys of 0 to 72 bytes; proofs with 2 nodes, 2 elements of two points each, 3 buckets with 2 levels, one round, one change on the way, two sends | 232 000 |
| `readers` | `LookupAnswers`, `ReadsOfOneState` | two readers, two commits among four contents with resize and another nonce, three colliding keys | 1 454 000 |
| `parallel_updates` | `NothingOnTop`, `EachNodeOnce`, `EveryTaskEnds` | two workers, a caller outside, a job that updates and one that only uses the committer, lists of up to five deltas of three nodes, batches of two | 62 000 |
| `trie_regrow` | finding, below | | |

Why the bounds are enough to be of interest: with three keys and four slots a
bucket has displacement chains, wraparound, gaps that skip an unsuitable entry,
and buckets without a free slot; capacities that double and shrink pass through
forced expansion, refused and accepted contraction. In the trie, the capacities
cover distances of one, two and three between top levels, resets on the levels
between, and changed entries inside and outside of the part that old and new
subtree share. A validator's block adds up to three levels to two buckets at once. A
domain of four has two rounds of the inner product argument; a scalar of five bits
with windows of three has a window that ends beyond the scalar and crosses a word.
Two workers are what it takes for one to steal while the other initializes.

Restrictions, each a named constant: `AllowRegrow = FALSE` (a bucket that lost
levels does not grow again in the same StateRoot; the run `trie_regrow` lifts it),
`AllowRepeat = FALSE` (no `finalize` with nothing new before the last one is in
the store). The trie runs use capacities that are powers of two times the width,
which is what `compute_resize_capacity` produces. `Validate` takes blocks as
`update_fin` leaves them: no bucket shrinks, and one that grows has a changed entry.
`OpeningAccepted` is about challenges t outside of the domain.

Deadlock is checked in the trie, session, proof, commitment, encoding and reader
runs. The bucket run may stop: the assertion of `shi_rehash` is a panic. The
witness, opening and parallel runs end with their block, verdict or tasks; that
the last do end, and not in a circle of waiting threads, is `EveryTaskEnds`.

Numbers modulo `Field` (30011) can collide where commitments on the curve do not;
a coincidence would show as a false alarm of `AcceptedIsTrue`, and none occurs.

Fairness: `CallsReturn` and `EveryTaskEnds` need it. A call on a bucket runs on the
thread of its caller and no loop waits for anything, so weak fairness of the steps
of a running call (`Step`) is what the scheduler gives; starting a call is not fair.
In `ParallelUpdates` each thread and the thread that builds the table are weakly
fair: the system schedules them, and rayon wakes a worker while there are jobs. No
order among threads or jobs is assumed.

Every property of a passing run has a mutant: a variant of one definition, as a
plausible slip in the code would have it, under which TLC finds the property
violated. The variants stand before the definitions they vary.

## 4. Finding and observations

**`trie_regrow`** (`trie.rs:449`). The commitment cached for a subtree's old root
is never reset by a contraction, which only resets levels below the old root.
Growing, shrinking and growing a bucket in one `StateRoot` gives a wrong root.

Further behaviour met while modelling; each can be reproduced by changing the
constants or the definition named:

* `trie.rs:1097`: the boundary between resets that are propagated and resets that
  are not is one group too low when the number of kept nodes is one more than a
  multiple of the width. Capacities that double never reach it; multiples of 256 in
  general do (131072 to 65792). `RootCorrect` fails with width 4 and `Capacities`
  {4, 20, 32}, `UsedSlots` {1, 22}.
* `trie.rs:341`: `finalize` with nothing to propagate reads the root from the store,
  also when an earlier `finalize` has a newer one in the cache (`AllowRepeat = TRUE`).
* `trie.rs:440`: default commitments of new nodes are cached only for buckets with
  changed entries. Updates in which a bucket grew and its entries are as before,
  which merged calls without `canonicalize` can produce, make a validator panic on
  a missing node (drop the last restriction of `Validate`).
* `state.rs:755`, `mem_store.rs:195`: default metadata is stored explicitly once
  metadata has changed and changed back, where `mem_store.rs:77` says that only other
  metadata is stored (`kvs[Meta] = DefaultMeta` in `StateSession`). Roots are not affected.
* `state.rs:415`: a session that goes on after its updates were committed gives right
  updates but counts its changes twice (`CountsExact` without its guard).
* A lookup that overlaps an update may miss a key that both states have: it probes
  the new layout with the old nonce or capacity. `LookupAnswers` says what remains.
* `multiproof.rs:326`: with t inside the domain a right proof may be refused
  (`OpeningAccepted` without `t \notin Domain`); the chance is 256 in the field's size.
* Comments that differ from the code: `constant.rs:60` puts the root of 768 to 65536
  slots at level 2 (the code: 3); `node_utils.rs:28` and `:124` put the bucket id in
  bits 0 to 23 (the code: the high 24); the table of `subtree_root_level` counts levels
  from the other end; `salt_committer.rs:357` calls a constant -5 that is the curve's d;
  `salt_committer.rs:47` ends a window at 2^(w-1) - 1 multiples (the table has 2^(w-1)).

## 5. Proofs

Eight modules hold theorems, all checked by TLAPS, for every value of the constants
that satisfies the named assumptions of the component's module. TLC evaluates these
assumptions in the runs, and has checked each inductive invariant below on the
instance of the component's run (of `RInv`, the parts that TLC can evaluate).

### The hash table (`ShiTableTheorems`, `ShiBucketProofs`)

For every key set with a largest key, every hash function, every capacity and every
load factor from 1 to 99 per cent:

* `LayoutUnique`: two ordered layouts of the same entries are equal. The argument
  takes the largest key on which they differ: all slots on its way hold larger
  keys, on which they agree, so each layout forces its slot.
* `InductiveInvariant`: `Inductive` holds in all states. Order between calls
  (`OrderedWhenIdle`) is not inductive; what is added are the facts about the
  loops: `Control` (loop variables outside their loops), `Layout` (order except
  at the gap of a running deletion; the slots an upsert visited hold larger keys
  than the one in hand, and so do those that the key in hand would visit on its
  own), `NewLayout` (the partial layout of a rehash is ordered and takes keys in
  descending order), `OneHome` (no key is at once in the table, in the hand and
  waiting for replay, without which a replay would not restore the count), and
  `UsageExact` itself.
* From it: `TypeCorrect`, `OrderRestored`, `HistoryIndependence` (with
  `LayoutUnique`), `SearchFindsAll`, `UsageCountExact`, `CapacityRespected` and
  `RehashKeepsEntries` (by counting, a vacant slot is always found; its
  `RehashLosesNothing` has no run of its own, TLC sees a lost entry as a violation of
  `ImplementsKvMap`).
* `LargerKeysStay`: no step of an insertion or deletion changes a slot whose key is
  larger than the one it is about, and the keys it goes on with get smaller. For a
  deletion this needs `GapLargest`: whatever may fill the gap is smaller than what the
  gap held. Only a rehash moves larger keys. This is what makes the ascending order of
  a witness's replay right (section 2, Witness).

### Refinement (`ShiBucketProofs`, second part)

`BucketIsMap` is the refinement of `KvMap` by `ShiBucket`: the map that a client sees
(`Live`) is the table without the gap, with the entry in hand in place of an entry of
the same key, and with the entries waiting for replay. A call takes effect on the map
at its first step, every other step leaves `Live` as it is: a displacement exchanges hand
and slot, a compaction doubles an entry into the gap and makes its old slot the gap, a rehash
collects and reinserts the same set. Each case uses the inductive invariant (`OneHome`
and `Layout` above all; a placement would lose an entry if the key were also elsewhere).

### Sessions and updates (`StateSessionProofs`)

For any finite number of slots, any entries, any number of calls, sessions and commits:

* `UpdatesAreExact`, `AccumulationIsExact`, `CountsAreExact`, `RollbacksRestore`, which
  are all four properties of the run, by `SessionInvariant`.
* What the invariant adds: `SessionExact` divides the difference between store and
  session into the updates of the finished calls and those of the running call, with
  the state in between (`AfterCalls`), since `merge` is only right if the two chain;
  `LogExact` says of every commit in the log, not only of the last, what its updates
  and the merged updates up to it are the difference of, since a rollback uncovers
  the one before. That the metadata entry of a finished call is never an absence is
  needed because the default has two representations and `Normal` identifies them.
* The counts are by cardinalities of the occupied slots: the additions and removals
  of a batch, in any order, and that `saturating_sub` never saturates.

### Readers (`StoreReadersProofs`)

For any number of readers, contents, trie nodes and commits: `LookupsAnswer`,
`ReadsAreOfOneState`, by `StoreInvariant`.

* `StateExact`: outside of the write lock the entries are those of the content committed
  last; under it, each entry is the old or the new one, according to whether it is
  still to be written, and the count is right after each entry. Without the last, the
  count after a batch would say nothing.
* `TrieExact`: which nodes have been written, in each order of the two locks.
* `ReadersExact`: what a running call has read so far is what some state in `seen`
  has; if only one state was current, the slots that the lookup passed hold larger
  keys in it, so that its early exit is right (this is `Passed`, shared with the
  proofs of the hash table); and a copy that met no writer has the nodes of the state.

### Parallel updates (`ParallelUpdatesProofs`)

For any number of workers, callers, jobs and deltas: `NothingIsOnTop` and
`ChunksAsIfAlone`, by `ParallelInvariant`.

* `OneInitializer` gives the first: whoever builds the committer has the construction
  on top of its stack, and no other frame anywhere is in it.
* `ChunksAsIfAlone` (`AsIfAlone` has no run of its own) says that an update that has
  ended has, for each chunk, what the chunk comes to alone. It needs `OneHolder` (an
  operation is in the queue, on one stack or ended, never two of these: otherwise two
  threads would write the results of one task) and `Chunked` (a queued chunk
  belongs to the plan of its task). The rest of `EachNodeOnce`, that chunks put
  together give the sequential result, is a fact about sorted lists by induction,
  and stays with TLC.

### Table reads and assembly routines of the committer (`CommitterProofs`)

For all sizes of windows, words and scalars: `ReadsStayInWindow`, that the reads of
`mul_index`, which have no bounds check, are in the part of the table that belongs to
their window, and that no carry is left at the end; `ReadsStayInTable`, that each of
those indexes is one that `Committer::new` filled. The invariant is `WindowsFit`: the last window has less
than half of its values, because a scalar has fewer bits than its words, so the
carry from the windows below still fits. The window arithmetic is done across word
boundaries. The provers know no exponentiation; the laws of exponents they need,
for the bits of a scalar only, are `PowersAssumption`, which TLC evaluates.

`AssemblyExact`: for every odd prime below half of the radix and every word size, both
routines give, for every operand, the words of the product (divided by the radix) and of
five times the number, and drop no carry. The argument: each `Step` is exact (word, upper
half and the two flags together are the sum), so a row adds `x * y[i]` without loss; the
multiplier of the reduction makes the lowest word vanish, so the shift divides by a word;
between rows the number is below twice the prime, from which the fifth word and the top
word fit and no flag is lost; the four rows divide by the radix, one conditional
subtraction is enough, and with the inverse of the radix there is only one remainder that
it can be. `MontgomeryAssumption` and `InverseAssumption` (that the two inverses exist, which the code has
as constants) are what it rests on.

### Witnesses (`WitnessProofs`)

For any keys, hash functions, capacities and blocks: `LookupsAreRight`, that a validator
finds what the block looks up and never takes what was left out for absent, and
`WitnessIsAccepted`, that no slot beyond the bucket is in the witness and both lookup
tables are right about each key they name; by the invariant `WInv`.

* The calls of the recorder are loops, modelled as recursive functions on an interval.
  What such a function gives is proved once (`Iteration`): a set that contains the start
  and is closed under the step contains the end. It needs no induction theorem: a least
  number of iterations without such a run would be one more than a number with one.
* `Recorded` is what every call of the recorder keeps: what it cached is the metadata or
  a slot of the bucket as it has become, and what it has not cached is as in the store.
  The first gives `WitnessIsAccepted` together with `Kept`, the filter by the old capacity.
* `PathSame`: a search on the witness reads the same as on the full state up to the first
  slot that is missing, where it ends with an error. So the answers agree, and for a
  looked-up key nothing is missing: it was found at its slot, which the lookup table has,
  or its whole search path was recorded by `Absence`, before the updates.

### Replay of a block (`WitnessReplayProofs`)

`ReplayNeverFailing` and `ReplayAgreement`, for any keys, hash functions, capacities, load
factors and blocks: the block runs on its witness without a missing read, and leaves the
slots, capacity and usage that it leaves on the full state. If `Witness::create` panics
(a recording that fails), there is no witness and nothing to show.

* Three sessions take the same calls: the recorder, which skips the updates in place; the
  session over the full state; the validator's over the witness. Recorder and full state
  are twins (`Twin`): equal up to values, and no operation looks at a value. So
  what the recorder read is what the full session reads. The validator's session is the
  full one seen through that (`View`). For each step, loop and call there is one lemma
  that `Twin` and `View` are kept together.
* The skipped updates are what makes this hard: nobody recorded their search. `Halfway`
  says that before key `k` of the ascending order every key from `k` on still has the slot
  it had before the block, unless the bucket was rehashed, and then the recorder read all
  of it. It is `LargerKeysStay` for whole calls: smaller keys move smaller keys only. So an
  update in place finds its entry by the lookup table and searches nothing.
* When the replay is at key `k`, its twin is the recorder as it *was* at `k`, which is no
  longer a state of the system. The inductive invariant `RInv` (with `WInv`) therefore
  says that there is a whole run of the recorder that leads to its last state, and that
  the replay is somewhere along it (`Recalls`, `Ran`, `Replaying`). The operations of
  that run must not depend on the state they are named in; `By(H)` instantiates `Witness`
  with a constant hash function for this. A quantifier over runs cannot be enumerated;
  TLC has checked `RInv` without it: `Sent`, `View`, `Ready`, and `Halfway` of the
  recorder at its next key (with the capacities `Reach` listed).
* A resize on the validator's side: an expansion happens only where the recorder expanded,
  which read the whole bucket; so the usage count is known there (`UsageKnown`).
  `canonicalize` empties the bucket and puts its entries back in one order in all three.

### Only model-checked

* `CallsReturn`, `EveryTaskEnds`: liveness under fairness is beyond the prover.
* `EachNodeOnce`: sums over lists, which need induction over data.
* `StateRoot` and `SaltProof`: the reference commitments (`TrieReference`) are recursive
  operators, without which the properties cannot be stated.
* `Encodings`: computes with bits (`Bitwise`).
* `ProofTravels`: sorted and filtered sequences (`SortSeq`, `InsertAt`) for
  which the prover has no theory.
* `OpeningAccepted`, `SameTranscript`, `CommitmentExact`, `DecodedExactly`:
  sums in a field or group by folds, and field algebra.

## 6. Not modelled

* `banderwagon/src/msm.rs` (windowed multiplication of many points, used only to
  compute what `commit_lagrange_poly` defines) and the allocation of huge pages for the
  tables: no state and no order of events beyond what `Committer` has.
* The mixing of `ahash` and SHA-256: any function, since nothing else may be used of
  them. The framing of proofs by serde and bincode, below the entries that `ProofWire` has.
* `try_merge` of updates with unrelated base states (an error, after which the
  accumulation is to be discarded), levels outside of 1 to 5 in a received proof.
* Formatting and diagnostics, the fuzz harness, benchmarks, scripts.

## 7. Plan

1. Done: hash table, sessions and updates, store with readers, trie updates, rebuild
   and validators, parallel parts, witnesses and replay, proof queries, openings,
   commitments, encodings, proofs on the wire.
2. Done: the proofs of section 5.
3. Left to prove: lemmas about the operators of `SaltTrie` and `ProofShape` (parents and
   levels of nodes, the path of a key); that a transcript known to both sides gives the
   verifier of `Multipoint` the prover's challenges.
