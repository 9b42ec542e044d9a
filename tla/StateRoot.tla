-------------------------------- MODULE StateRoot --------------------------------
(***************************************************************************)
(* StateRoot (salt/src/trie/trie.rs) over a MemStore: any number of update *)
(* calls accumulate changes, finalize computes the root, and the changes   *)
(* may then be written to the store, whose trie later sessions build on.   *)
(* rebuild computes the root and the trie from the stored entries alone.   *)
(* A stateless validator runs update and finalize on a witness instead of  *)
(* a store, which has the commitments on the paths to the witnessed keys.  *)
(*                                                                         *)
(* A call runs in steps, one action each: Update or Rebuild (a chunk),     *)
(* then FindSubtrees, UpdateLeaves, UpdateLevel (once per level),          *)
(* EndSubtrees: these are update_bucket_subtrees; then PropagateLevel.     *)
(* Finalize is followed by MainLevel and EndFinalize, the last chunk of a  *)
(* rebuild by MainLevel and EndRebuild: these are update_main_trie.        *)
(***************************************************************************)
EXTENDS TrieReference, ProofShape

CONSTANTS
  Contents,        \* the bucket contents considered: [nonce, capacity, slots]
  DeferredLevels,  \* deferred_levels
  MaxUpdates,      \* bound on the update calls of one StateRoot
  AllowRegrow,     \* may a bucket that lost levels grow in the same StateRoot?
  AllowRepeat      \* may finalize be called with nothing new to finalize?

ASSUME TrieAssumption ==
  /\ DeferredLevels \in 1 .. MainLevels - 1
  /\ {AllowRegrow, AllowRepeat} \subseteq BOOLEAN

VARIABLES
  disk,      \* the state in the store: bucket -> content
  trie,      \* the trie in the store: a function on the stored nodes
  trieOf,    \* the state that trie was written for (history only)
  view,      \* is the store only a witness, and of which commitments?
  state,     \* the state after all the updates of this StateRoot
  cache,     \* self.cache
  updates,   \* self.updates: node -> [old, new]
  caps,      \* self.bucket_capacity_cache
  calls,     \* how often update was called (bounds the model only)
  shrunk,    \* the buckets that lost subtree levels since new (history only)
  result,    \* the root that finalize returned since the last update, and the
             \* TrieUpdates that it returned and that are not yet in the store
  rebuilt,   \* what rebuild returned: the root and the trie
  job,       \* the call that is running: "none", "update", "finalize", "rebuild"
  pc,        \* its next step
  su,        \* its StateUpdates: a function from changed keys to <<old, new>>
  infos,     \* subtree_change_info
  level,     \* the level of the trie that is next
  work,      \* subtree_commitmens, level_updates: the changes at the last level
  out,       \* trie_updates, acc_updates: all the changes so far
  chunks     \* the meta buckets whose chunk the rebuild has yet to do

store == <<disk, trie, trieOf, view>>
root == <<cache, updates, caps>>
client == <<state, calls, shrunk, result, rebuilt>>
call == <<job, pc, su, infos, level, work, out, chunks>>
vars == <<store, root, client, call>>

Nothing == [x \in {} |-> 0]
NoRoot == -1
NoResult == [root |-> NoRoot, changes |-> << >>]
NoRebuild == [root |-> NoRoot, trie |-> Nothing]

FullStore == [partial |-> FALSE, nodes |-> {}]

(* EmptySalt, and a new store: default metadata, no entries, *)
EmptyBucket == [nonce |-> 0, capacity |-> Width, slots |-> Nothing]

(* and the commitment of an empty node. *)
EmptyCommitment(n) == DefaultCommitment(n)

Idle ==
  /\ job' = "none" /\ pc' = "none"
  /\ su' = Nothing /\ infos' = Nothing
  /\ level' = 0 /\ work' = << >> /\ out' = << >> /\ chunks' = {}

Init ==
  /\ disk = [b \in Buckets |-> EmptyBucket] /\ trie = Nothing /\ trieOf = disk /\ view = FullStore
  /\ state = disk /\ calls = 0 /\ shrunk = {} /\ result = NoResult /\ rebuilt = NoRebuild
  /\ cache = Nothing /\ updates = Nothing /\ caps = Nothing
  /\ job = "none" /\ pc = "none"
  /\ su = Nothing /\ infos = Nothing
  /\ level = 0 /\ work = << >> /\ out = << >> /\ chunks = {}

-------------------------------------------------------------------------------
(* What the StateRoot reads *)

(* The bucket and the commitment in the store; a rebuild reads EmptySalt. *)
StoredBucket(b) == IF job = "rebuild" THEN EmptyBucket ELSE disk[b]
StoredCommitment(n) ==
  IF job = "rebuild" THEN EmptyCommitment(n)
  ELSE IF n \in DOMAIN trie THEN trie[n] ELSE DefaultCommitment(n)

(* Is the commitment in the cache or the store?  A witness answers with an *)
(* error for nodes that are not in its proof (NotInWitness), which ends    *)
(* the call: WitnessSuffices says that it never comes to that.             *)
Readable(n) == n \in DOMAIN cache \/ ~ view.partial \/ n \in view.nodes

(* self.commitment *)
Commitment(n) == IF n \in DOMAIN cache THEN cache[n] ELSE StoredCommitment(n)

(* HashMap::insert of the new commitments, into the cache or the store. *)
Written(commitments, changes) ==
  FoldLeft(LAMBDA c, change : (change.id :> change.new) @@ c, commitments, changes)

(* add_commitment_deltas: deltas is a set of [id, child, delta]. *)
AddDeltas(deltas) ==
  LET Delta(n) == MapThenSumSet(LAMBDA d : d.delta, {d \in deltas : d.id = n})
      NewChange(n, old) == Change(n, old, (old + Delta(n)) % Field)
  IN  InSomeOrder({NewChange(n, Commitment(n)) : n \in {d.id : d \in deltas}})

(* update_leaf_nodes: nodeOf maps the changed keys to the nodes that       *)
(* commit to them (to_node_id).                                            *)
UpdateLeafNodes(nodeOf) ==
  LET Delta(key) == MulIndex((KvHash(su[key][2]) - KvHash(su[key][1])) % Field, key[2] % Width)
  IN  AddDeltas({[id |-> nodeOf[key], child |-> key, delta |-> Delta(key)] : key \in DOMAIN nodeOf})

(* update_internal_nodes: the changes of the parents of the changed nodes. *)
UpdateInternalNodes(changes) ==
  LET Delta(c) == MulIndex((HashCommitment(c.new) - HashCommitment(c.old)) % Field, VcPosition(c.id))
  IN  AddDeltas({[id |-> Parent(changes[i].id), child |-> i, delta |-> Delta(changes[i])] :
                   i \in DOMAIN changes})

(* drop_updates_below_level *)
AboveLevel(changes, l) ==
  SelectSeq(changes, LAMBDA c : InMainTrie(c.id) /\ c.id[2] < LevelStart(l))

-------------------------------------------------------------------------------
(* The calls *)

(* The StateUpdates between two states. *)
Diff(from, to) ==
  LET slots(b) == DOMAIN from[b].slots \cup DOMAIN to[b].slots
      keys == {k \in UNION {{<<b, s>> : s \in slots(b)} : b \in Buckets} :
                 SlotValue(from[k[1]], k[2]) # SlotValue(to[k[1]], k[2])}
      metas == {b \in Buckets : MetaOf(from, b) # MetaOf(to, b)}
  IN  [k \in keys |-> <<SlotValue(from[k[1]], k[2]), SlotValue(to[k[1]], k[2])>>]
        @@ [k \in {MetadataKey(b) : b \in metas} |->
              <<MetaOf(from, BucketOfMetaKey(k)), MetaOf(to, BucketOfMetaKey(k))>>]

LosesLevels(b, next) == RootLevel(next[b].capacity) > RootLevel(state[b].capacity)
GainsLevels(b, next) == RootLevel(next[b].capacity) < RootLevel(state[b].capacity)

BeginUpdate(next) ==
  /\ job = "none"
  /\ next # state
  /\ job' = "update" /\ pc' = "subtrees"
  /\ su' = Diff(state, next)
  /\ state' = next
  /\ calls' = calls + 1
  /\ result' = [result EXCEPT !.root = NoRoot]
  /\ rebuilt' = NoRebuild
  /\ UNCHANGED <<trie, trieOf, root, infos, level, work, out, chunks>>

(* update: the caller may hand the same StateUpdates to the store before   *)
(* (written) or only after the root is known.                              *)
Update(next, written) ==
  /\ ~ view.partial
  /\ calls < MaxUpdates
  /\ AllowRegrow \/ \A b \in shrunk : ~ GainsLevels(b, next)
  /\ BeginUpdate(next)
  /\ disk' = IF written THEN next ELSE disk
  /\ shrunk' = shrunk \cup {b \in Buckets : LosesLevels(b, next)}
  /\ UNCHANGED view

(* What a witness of a block proves at least: the changed entries that the *)
(* old state has slots for, and of a bucket that grew the metadata and all *)
(* the slots, which the rehash read.                                       *)
WitnessedKeys(next) ==
  LET grown == {b \in Buckets : next[b].capacity > disk[b].capacity}
  IN  {k \in DOMAIN Diff(disk, next) : IsMetaKey(k) \/ k[2] < disk[k[1]].capacity}
        \cup UNION {{<<b, s>> : s \in 0 .. disk[b].capacity - 1} : b \in grown}

(* A validator starts on the witness of a block.  A block shrinks no       *)
(* bucket, and it grows one only for an insertion.                         *)
Validate(next) ==
  /\ calls = 0 /\ disk = trieOf
  /\ \A b \in Buckets : next[b].capacity >= disk[b].capacity
  /\ BeginUpdate(next)
  /\ \A b \in Buckets : MetadataKey(b) \in DOMAIN su' => \E k \in DOMAIN su' : k[1] = b
  /\ view' = [partial |-> TRUE,
              nodes |-> PathNodes(WitnessedKeys(next),
                                  [b \in 0 .. NumBuckets - 1 |->
                                     IF b \in Buckets THEN SubtreeLevels - RootLevel(disk[b].capacity) ELSE 1])]
  /\ UNCHANGED <<disk, shrunk>>

(* finalize takes self.updates.  A call with nothing to take answers with  *)
(* the stored root: only while that is the root of the current state,      *)
(* unless AllowRepeat.                                                     *)
Finalize ==
  /\ job = "none"
  /\ AllowRepeat \/ updates # Nothing \/ state = trieOf
  /\ job' = "finalize" /\ pc' = "main"
  /\ out' = InSomeOrder({Change(n, updates[n].old, updates[n].new) : n \in DOMAIN updates})
  /\ work' = AboveLevel(out', DeferredLevels + 1)
  /\ level' = DeferredLevels
  /\ updates' = Nothing
  /\ UNCHANGED <<store, cache, caps, client, su, infos, chunks>>

(* What rebuild makes of the stored entries of the data buckets of meta    *)
(* bucket m.  Metadata with the default value may be stored or not.        *)
Chunk(m, explicit) ==
  LET buckets == {b \in Buckets : b \div Width = m}
      metas == {b \in buckets : explicit \/ MetaOf(disk, b) # DefaultMeta}
      keys == UNION {{<<b, s>> : s \in DOMAIN disk[b].slots} : b \in buckets}
  IN  [k \in keys |-> <<None, SlotValue(disk[k[1]], k[2])>>]
        @@ [k \in {MetadataKey(b) : b \in metas} |-> <<DefaultMeta, MetaOf(disk, BucketOfMetaKey(k))>>]

(* A rebuild between sessions. *)
Rebuild ==
  /\ job = "none"
  /\ calls = 0 /\ cache = Nothing /\ rebuilt = NoRebuild
  /\ job' = "rebuild" /\ pc' = "chunk"
  /\ chunks' = {b \div Width : b \in Buckets}
  /\ UNCHANGED <<store, root, client, su, infos, level, work, out>>

NextChunk(explicit) ==
  /\ pc = "chunk"
  /\ \E m \in chunks : su' = Chunk(m, explicit) /\ chunks' = chunks \ {m}
  /\ pc' = "subtrees"
  /\ UNCHANGED <<store, root, client, job, infos, level, work, out>>

(* Variant of LastChunk: starts one level too high. *)
LastChunkHigh ==
  /\ pc = "chunk"
  /\ chunks = {}
  /\ pc' = "main"
  /\ work' = AboveLevel(out, MainLevels - 1)
  /\ level' = MainLevels - 2
  /\ UNCHANGED <<store, root, client, job, su, infos, out, chunks>>

LastChunk ==
  /\ pc = "chunk"
  /\ chunks = {}
  /\ pc' = "main"
  /\ work' = AboveLevel(out, MainLevels)
  /\ level' = MainLevels - 1
  /\ UNCHANGED <<store, root, client, job, su, infos, out, chunks>>

-------------------------------------------------------------------------------
(* update_bucket_subtrees *)

DataKeys == {key \in DOMAIN su : ~ IsMetaKey(key)}
Touched == {key[1] : key \in DataKeys}
Resized == {BucketOfMetaKey(key) : key \in DOMAIN su \ DataKeys}
FirstSlot(b) == Min({key[2] : key \in {k \in DataKeys : k[1] = b}})

(* Variant of KnownCapacity: only the capacity in the store. *)
KnownCapacityStored(b) == Width ^ (SubtreeLevels - RootLevel(StoredBucket(b).capacity))

(* bucket_capacity_cache, or what get_subtree_levels makes of the store. *)
KnownCapacity(b) ==
  IF b \in DOMAIN caps THEN caps[b]
  ELSE Width ^ (SubtreeLevels - RootLevel(StoredBucket(b).capacity))

(* Variant of NewDefaults: only the new leaves. *)
NewDefaultsOfLeaves(info) ==
  {n \in {Node(info.oldTopId[1], Leaf, i) : i \in CeilDiv(info.old, Width) .. CeilDiv(info.new, Width) - 1} :
     ~ Readable(n)}

(* The nodes that an expansion adds and that the store cannot answer for:  *)
(* from each new leaf up to the new root, or to a node that can be read.   *)
NewDefaults(info) ==
  LET leaves == {Node(info.oldTopId[1], Leaf, i) : i \in CeilDiv(info.old, Width) .. CeilDiv(info.new, Width) - 1}
      Unknown(n) == n # info.oldTopId /\ ~ Readable(n)
  IN  UNION {{Ancestor(n, j) : j \in {i \in 0 .. Leaf - info.newTop :
                                       \A h \in 0 .. i : Unknown(Ancestor(n, h))}} : n \in leaves}

(* Step 1: subtree_change_info of the buckets with new metadata, and of    *)
(* the expanded buckets with changed entries; the old subtree roots of     *)
(* buckets with changed entries are read from the bucket roots, and what   *)
(* an expansion of such a bucket adds is cached where the store is partial. *)
FindSubtrees ==
  /\ pc = "subtrees"
  /\ caps' = [b \in Resized |-> CapacityOf(su[MetadataKey(b)][2])] @@ caps
  /\ infos' = [b \in Resized \cup {t \in Touched : KnownCapacity(t) > Width} |->
                 IF b \in Resized
                 THEN ChangeInfo(b, CapacityOf(su[MetadataKey(b)][1]), CapacityOf(su[MetadataKey(b)][2]))
                 ELSE ChangeInfo(b, KnownCapacity(b), KnownCapacity(b))]
  /\ cache' = [n \in {infos'[b].oldTopId : b \in Touched \cap DOMAIN infos'} |->
                 Commitment(BucketRoot(n[1]))]
              @@ [n \in UNION {NewDefaults(infos'[b]) : b \in Touched \cap DOMAIN infos'} |->
                    DefaultCommitment(n)]
              @@ cache
  /\ pc' = "leaves"
  /\ UNCHANGED <<store, updates, client, job, su, level, work, out, chunks>>

(* Subtree leaves commit to the entries of these buckets. *)
IsExpanded(b) == b \in DOMAIN infos /\ (infos[b].new # infos[b].old \/ infos[b].new > Width)

(* Do changed entries of b reach the part that both its subtrees have? *)
NeedHandle(b) ==
  /\ b \in Touched
  /\ CASE infos[b].new > infos[b].old -> FirstSlot(b) < Width ^ (SubtreeLevels - infos[b].oldTop)
       [] infos[b].new < infos[b].old -> FirstSlot(b) < Width ^ (SubtreeLevels - infos[b].newTop)
       [] OTHER -> infos[b].new > Width

(* Capacity changes that no such entry goes with. *)
GrownOnly(b) == ~ NeedHandle(b) /\ infos[b].oldTop > infos[b].newTop
ShrunkOnly(b) == ~ NeedHandle(b) /\ infos[b].oldTop < infos[b].newTop

(* Variant of Handled: buckets that only grow are forgotten. *)
HandledTouched == {b \in DOMAIN infos : NeedHandle(b)}

Handled == {b \in DOMAIN infos : NeedHandle(b) \/ GrownOnly(b)}

(* trigger_levels[l] *)
Triggers(l) ==
  {b \in Handled : infos[b].newTop = l \/ (infos[b].oldTop > infos[b].newTop /\ infos[b].oldTop = l)}

(* Variant of ExpansionKeys: those slots are committed to as well. *)
ExpansionKeysAll == {key \in DataKeys : IsExpanded(key[1])}

(* Slots that a contraction gives up are left to Step 3. *)
ExpansionKeys == {key \in DataKeys : IsExpanded(key[1]) /\ key[2] < infos[key[1]].new}

(* Steps 2 and 5 *)
UpdateLeaves ==
  /\ pc = "leaves"
  /\ out' = out \o UpdateLeafNodes([key \in {k \in DOMAIN su : ~ IsExpanded(k[1])} |-> BucketRoot(key[1])])
  /\ work' = IF Handled = {} THEN << >> ELSE UpdateLeafNodes([key \in ExpansionKeys |-> SubtreeLeaf(key)])
  /\ level' = Leaf
  /\ pc' = "levels"
  /\ UNCHANGED <<store, root, client, job, su, infos, chunks>>

(* Step 3: the nodes at level l that a contraction resets, as changes. *)
Resets(l) ==
  LET shrinking == {b \in DOMAIN infos : infos[b].new < infos[b].old /\ infos[b].oldTop < l}
      ids == UNION {{Node(b, l, i) : i \in ContractionStart(infos[b], l) .. ContractionEnd(infos[b], l) - 1} :
                      b \in shrinking}
  IN  {c \in {Change(n, Commitment(n), SubtreeDefault[l]) : n \in ids} : c.old # c.new}

IsImmediate(c, l) == Index(c.id) < ImmediateBoundary(infos[c.id[1]], l)

(* Variant of Extra: the old root has no place in the larger subtree. *)
ExtraResetsOnly(l) == {c \in Resets(l) : IsImmediate(c, l)}

(* extra_updates[l]: immediate resets, and old roots below a new one. *)
Extra(l) ==
  {c \in Resets(l) : IsImmediate(c, l)}
    \cup {Change(infos[b].oldTopId, SubtreeDefault[l], Commitment(BucketRoot(b))) :
            b \in {g \in DOMAIN infos : infos[g].oldTop = l /\ GrownOnly(g)}}

(* A change of the new root of a bucket's subtree. *)
AtTop(c, trig, l) == c.id[1] \in trig /\ infos[c.id[1]].newTop = l

(* Step 6, at one level: the changes of new subtree roots become changes   *)
(* of bucket roots; the nodes at the level of an old root are new nodes of *)
(* the larger subtree.                                                     *)
LevelChanges(trig, l) ==
  LET tops == SelectSeq(work, LAMBDA c : AtTop(c, trig, l))
      rest == SelectSeq(work, LAMBDA c : ~ AtTop(c, trig, l))
  IN  [roots |-> [i \in DOMAIN tops |->
                    Change(BucketRoot(tops[i].id[1]), Commitment(BucketRoot(tops[i].id[1])), tops[i].new)],
       nodes |-> [i \in DOMAIN rest |->
                    IF rest[i].id[1] \in trig THEN [rest[i] EXCEPT !.old = SubtreeDefault[l]] ELSE rest[i]]
                 \o InSomeOrder(Extra(l))]

(* Is there a subtree root at a higher level still? *)
More == \E l \in 0 .. level - 1 : Triggers(l) # {}

UpdateLevel ==
  /\ pc = "levels"
  /\ LET new == LevelChanges(Triggers(level), level)
     IN  /\ out' = out \o new.roots \o new.nodes
         /\ work' = IF More THEN UpdateInternalNodes(new.nodes) ELSE << >>
         /\ level' = IF More THEN level - 1 ELSE 0
         /\ pc' = IF More THEN "levels" ELSE "done"
  /\ UNCHANGED <<store, root, client, job, su, infos, chunks>>

(* uncomputed_updates *)
Uncomputed ==
  UNION {{c \in Resets(l) : ~ IsImmediate(c, l)} : l \in 0 .. Leaf}
    \cup {Change(BucketRoot(b), Commitment(BucketRoot(b)), Commitment(infos[b].newTopId)) :
            b \in {s \in DOMAIN infos : ShrunkOnly(s)}}

-------------------------------------------------------------------------------
(* The rest of update *)

(* Variant of ApplyToCaches: the old value is the last one, not the first. *)
ApplyToCachesLastOld(changes) ==
  /\ cache' = Written(cache, changes)
  /\ updates' = FoldLeft(LAMBDA u, c : (c.id :> [old |-> c.old, new |-> c.new]) @@ u, updates, changes)

(* apply_updates_to_caches *)
ApplyToCaches(changes) ==
  /\ cache' = Written(cache, changes)
  /\ updates' = FoldLeft(LAMBDA u, c : IF c.id \in DOMAIN u
                                       THEN [u EXCEPT ![c.id].new = c.new]
                                       ELSE (c.id :> [old |-> c.old, new |-> c.new]) @@ u,
                         updates, changes)

(* update_bucket_subtrees returns: to update, or to rebuild, whose next    *)
(* chunk has a StateRoot of its own.                                       *)
EndSubtrees ==
  /\ pc = "done"
  /\ out' = out \o InSomeOrder(Uncomputed)
  /\ \/ job = "update"
        /\ ApplyToCaches(out')
        /\ work' = AboveLevel(out', MainLevels)
        /\ level' = MainLevels - 1
        /\ pc' = "propagate"
        /\ UNCHANGED caps
     \/ job = "rebuild"
        /\ cache' = Nothing /\ caps' = Nothing
        /\ pc' = "chunk"
        /\ UNCHANGED <<updates, work, level>>
  /\ su' = Nothing /\ infos' = Nothing
  /\ UNCHANGED <<store, client, job, chunks>>

PropagateLevel ==
  /\ pc = "propagate"
  /\ level > DeferredLevels
  /\ work' = UpdateInternalNodes(work)
  /\ ApplyToCaches(work')
  /\ level' = level - 1
  /\ UNCHANGED <<store, caps, client, job, pc, su, infos, out, chunks>>

EndUpdate ==
  /\ pc = "propagate"
  /\ level = DeferredLevels
  /\ Idle
  /\ UNCHANGED <<store, root, client>>

-------------------------------------------------------------------------------
(* update_main_trie, and what its callers do with the result *)

MainLevel ==
  /\ pc = "main"
  /\ level > 0
  /\ work' = UpdateInternalNodes(work)
  /\ out' = out \o work'
  /\ level' = level - 1
  /\ UNCHANGED <<store, root, client, job, pc, su, infos, chunks>>

RootHash ==
  HashCommitment(IF out # << >> /\ Last(out).id = RootNode THEN Last(out).new ELSE StoredCommitment(RootNode))

EndFinalize ==
  /\ pc = "main" /\ level = 0 /\ job = "finalize"
  /\ result' = [root |-> RootHash, changes |-> result.changes \o out]
  /\ cache' = Written(cache, AboveLevel(out, DeferredLevels))
  /\ Idle
  /\ UNCHANGED <<store, updates, caps, state, calls, shrunk, rebuilt>>

EndRebuild ==
  /\ pc = "main" /\ level = 0 /\ job = "rebuild"
  /\ rebuilt' = [root |-> RootHash, trie |-> Written(Nothing, out)]
  /\ Idle
  /\ UNCHANGED <<store, root, state, calls, shrunk, result>>

(* update_state, unless already done, and update_trie of the store. *)
Persist ==
  /\ job = "none" /\ ~ view.partial
  /\ result.root # NoRoot
  /\ disk' = state
  /\ trie' = Written(trie, result.changes)
  /\ trieOf' = state
  /\ result' = NoResult
  /\ UNCHANGED <<view, root, state, calls, shrunk, rebuilt, call>>

(* StateRoot::new: whatever was not written is abandoned. *)
NewSession ==
  /\ job = "none"
  /\ calls > 0
  /\ disk = trieOf
  /\ state' = disk
  /\ cache' = Nothing /\ updates' = Nothing /\ caps' = Nothing
  /\ calls' = 0 /\ shrunk' = {} /\ result' = NoResult
  /\ view' = FullStore
  /\ UNCHANGED <<disk, trie, trieOf, rebuilt, call>>

Next ==
  \/ \E next \in [Buckets -> Contents], written \in BOOLEAN : Update(next, written)
  \/ \E next \in [Buckets -> Contents] : Validate(next)
  \/ Finalize
  \/ Rebuild
  \/ \E explicit \in BOOLEAN : NextChunk(explicit)
  \/ LastChunk
  \/ FindSubtrees
  \/ UpdateLeaves
  \/ UpdateLevel
  \/ EndSubtrees
  \/ PropagateLevel
  \/ EndUpdate
  \/ MainLevel
  \/ EndFinalize
  \/ EndRebuild
  \/ Persist
  \/ NewSession

Spec == Init /\ [][Next]_vars

-------------------------------------------------------------------------------
(* finalize returns the root of the state that the updates lead to,        *)
(* however they were split into calls and sessions.                        *)
RootCorrect == result.root # NoRoot => result.root = RootOf(state)

(* Every stored commitment is the one that the stored state defines, and   *)
(* nodes that a contraction gave up are back at their defaults, which a    *)
(* later expansion starts from.                                            *)
TrieExact == \A n \in DOMAIN trie : trie[n] = ExpectedCommitment(trieOf, n)

(* rebuild gets the same root, and the same commitment of every node, as   *)
(* the definition and hence as the incremental updates.                    *)
RebuildExact ==
  rebuilt # NoRebuild =>
    /\ rebuilt.root = RootOf(disk)
    /\ \A n \in DOMAIN trie \cup DOMAIN rebuilt.trie :
         (IF n \in DOMAIN rebuilt.trie THEN rebuilt.trie[n] ELSE DefaultCommitment(n)) = ExpectedCommitment(disk, n)

(* The assertion of Step 6: at the level of a new subtree root, that root  *)
(* is the only node of the bucket with a change.                           *)
TopReached ==
  pc = "levels" =>
    \A i \in DOMAIN work : AtTop(work[i], Triggers(level), level) => work[i].id = infos[work[i].id[1]].newTopId

(* The pending changes are transitions: the old value of each is the       *)
(* commitment that the store has, however often the node was changed       *)
(* since, so they can be undone.                                           *)
OldValuesStored ==
  job = "none" /\ result.changes = << >> =>
    \A n \in DOMAIN updates : updates[n].old = StoredCommitment(n)

(* The commitments that the next step of the running call reads. *)
Reads ==
  CASE pc = "subtrees" -> {BucketRoot(b) : b \in {t \in Touched : t \in Resized \/ KnownCapacity(t) > Width}}
    [] pc = "leaves" -> {BucketRoot(key[1]) : key \in {k \in DOMAIN su : ~ IsExpanded(k[1])}}
                          \cup {SubtreeLeaf(key) : key \in IF Handled = {} THEN {} ELSE ExpansionKeys}
    [] pc = "levels" -> LET new == LevelChanges(Triggers(level), level)
                        IN  {c.id : c \in Range(new.roots)}
                              \cup IF More THEN {Parent(c.id) : c \in Range(new.nodes)} ELSE {}
    [] pc \in {"propagate", "main"} -> IF level = 0 THEN {} ELSE {Parent(c.id) : c \in Range(work)}
    [] OTHER -> {}

(* The witness of a block has every commitment that computing the root     *)
(* after the block reads, or Step 1 has put the default in the cache:      *)
(* a validator gets the root without an error.                             *)
WitnessSuffices == \A n \in Reads : Readable(n)
===============================================================================
