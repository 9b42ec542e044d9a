------------------------------ MODULE StoreReaders ------------------------------
(***************************************************************************)
(* MemStore (salt/src/mem_store.rs) under concurrency: a writer commits    *)
(* blocks with update_state and update_trie, while readers look up plain   *)
(* values (PlainStateProvider, salt/src/state/state.rs), count, copy and   *)
(* print the store.  State and trie have a spin RwLock each; every read    *)
(* method holds one for a single access, so a lookup is a series of        *)
(* critical sections with commits in between.                              *)
(*                                                                         *)
(* The store is that of one bucket.  A content is what the store is of     *)
(* between commits: data, a function from plain keys to values, with the   *)
(* nonce, the capacity and the slots that it has, and its trie is the      *)
(* content itself in each node.                                            *)
(***************************************************************************)
EXTENDS ShiTable, Sequences, Functions

CONSTANTS
  Readers,     \* the reading threads
  HashWith,    \* hash_with_nonce: nonce -> key -> number
  Blocks,      \* the contents that are committed: [nonce, capacity, data, table]
  Nodes,       \* the nodes of the trie, in the order they are written in
  MaxCommits   \* bound on the commits

Genesis ==
  [nonce |-> 0, capacity |-> MaxCapacity \div 2, data |-> [k \in {} |-> Empty], table |-> EmptyTable]

States == Blocks \cup {Genesis}

(* The slots are as sessions leave them: in the order of ShiBucket. *)
IsContent(c) ==
  /\ c.capacity \in 1 .. MaxCapacity /\ HashWith[c.nonce] \in [PlainKeys -> Nat]
  /\ DOMAIN c.data \subseteq PlainKeys
  /\ c.table \in Tables /\ Within(c.table, c.capacity)
  /\ ShiOrdered(c.table, HashWith[c.nonce], c.capacity)
  /\ Contents(c.table) = {[key |-> k, val |-> c.data[k]] : k \in DOMAIN c.data}

ASSUME ReadersAssumption ==
  /\ MaxCommits \in Nat
  /\ Nodes \in Seq(Range(Nodes)) /\ Nodes # << >>
  /\ \A c \in States : IsContent(c)

VARIABLES
  kvs,        \* StateStore.kvs: [nonce, capacity, table]
  used,       \* StateStore.used_slots
  trie,       \* MemStore.trie
  stateLock,  \* self.state: [writing, guards]
  trieLock,   \* self.trie, likewise
  writer,     \* the commit that is running
  commits,    \* how many commits have begun
  current,    \* the content that the state is of, between updates
  reader      \* per reader: the call that is running, and its history

vars == <<kvs, used, trie, stateLock, trieLock, writer, commits, current, reader>>

-------------------------------------------------------------------------------
StoreOf(c) == [nonce |-> c.nonce, capacity |-> c.capacity, table |-> c.table]
Count(c) == Cardinality(DOMAIN c.data)

MetaSlot == -1

(* StateUpdates from one content to another: the keys that it has. *)
Changes(old, new) ==
  {s \in SlotId : old.table[s] # new.table[s]}
    \cup (IF <<old.nonce, old.capacity>> = <<new.nonce, new.capacity>> THEN {} ELSE {MetaSlot})

Free == [writing |-> FALSE, guards |-> {}]
NoWrite == [at |-> "none", first |-> "none", content |-> Genesis, left |-> {}, written |-> 0]
NoCall == [call |-> "none", at |-> "none", seen |-> {}, overlap |-> FALSE,
           key |-> 0, nonce |-> 0, capacity |-> 0, used |-> 0, step |-> 0, result |-> Empty,
           slots |-> 0, state |-> StoreOf(Genesis), trie |-> [n \in Range(Nodes) |-> Genesis]]

Init ==
  /\ kvs = StoreOf(Genesis) /\ used = 0
  /\ trie = [n \in Range(Nodes) |-> Genesis]
  /\ stateLock = Free /\ trieLock = Free
  /\ writer = NoWrite /\ commits = 0 /\ current = Genesis
  /\ reader = [r \in Readers |-> NoCall]

store == <<kvs, used, trie>>
locks == <<stateLock, trieLock>>

Calls(r) == reader[r].call # "none"

(* Every running read has also met content c, or a commit that has begun. *)
Met(c) == [r \in Readers |-> IF Calls(r) THEN [reader[r] EXCEPT !.seen = @ \cup {c}, !.overlap = TRUE]
                             ELSE reader[r]]

-------------------------------------------------------------------------------
(* The writer *)

(* A block is computed: its StateUpdates and TrieUpdates.  Either may be   *)
(* written first.                                                          *)
Commit(content, first) ==
  /\ writer.at = "none" /\ commits < MaxCommits /\ content # current
  /\ writer' = [at |-> first, first |-> first, content |-> content,
                left |-> Changes(current, content), written |-> 0]
  /\ commits' = commits + 1
  /\ reader' = Met(current)
  /\ UNCHANGED <<store, locks, current>>

(* update_state: self.state.write() waits for the readers' guards. *)
LockState ==
  /\ writer.at = "state" /\ ~ stateLock.writing /\ stateLock.guards = {}
  /\ stateLock' = [stateLock EXCEPT !.writing = TRUE]
  /\ UNCHANGED <<store, trieLock, writer, commits, current, reader>>

CountAfter(old, new) ==
  IF old = Empty /\ new # Empty THEN used + 1
  ELSE IF old # Empty /\ new = Empty /\ used > 0 THEN used - 1
  ELSE used

(* One entry of the batch: that of the least key, the metadata first. *)
ApplyEntry ==
  /\ writer.at = "state" /\ stateLock.writing
  /\ \E s \in writer.left :
       LET new == writer.content
       IN  /\ \A other \in writer.left : s <= other
           /\ \/ /\ s = MetaSlot
                 /\ kvs' = [kvs EXCEPT !.nonce = new.nonce, !.capacity = new.capacity]
                 /\ used' = used
              \/ /\ s # MetaSlot
                 /\ kvs' = [kvs EXCEPT !.table[s] = new.table[s]]
                 /\ used' = CountAfter(current.table[s], new.table[s])
           /\ writer' = [writer EXCEPT !.left = @ \ {s}]
  /\ UNCHANGED <<trie, locks, commits, current, reader>>

(* What is left of a commit after one of its halves *)
After(half) == IF writer.first = half THEN (IF half = "state" THEN "trie" ELSE "state") ELSE "end"

UnlockState ==
  /\ writer.at = "state" /\ stateLock.writing /\ writer.left = {}
  /\ stateLock' = [stateLock EXCEPT !.writing = FALSE]
  /\ current' = writer.content
  /\ reader' = Met(writer.content)
  /\ writer' = [writer EXCEPT !.at = After("state")]
  /\ UNCHANGED <<store, trieLock, commits>>

(* update_trie *)
LockTrie ==
  /\ writer.at = "trie" /\ ~ trieLock.writing /\ trieLock.guards = {}
  /\ trieLock' = [trieLock EXCEPT !.writing = TRUE]
  /\ UNCHANGED <<store, stateLock, writer, commits, current, reader>>

(* Variant of Inserted: a node that is there is kept. *)
InsertedOnce(t, n, c) == [t EXCEPT ![n] = IF @ = Genesis THEN c ELSE @]

Inserted(t, n, c) == [t EXCEPT ![n] = c]

ApplyNode ==
  /\ writer.at = "trie" /\ trieLock.writing /\ writer.written < Len(Nodes)
  /\ trie' = Inserted(trie, Nodes[writer.written + 1], writer.content)
  /\ writer' = [writer EXCEPT !.written = @ + 1]
  /\ UNCHANGED <<kvs, used, locks, commits, current, reader>>

UnlockTrie ==
  /\ writer.at = "trie" /\ trieLock.writing /\ writer.written = Len(Nodes)
  /\ trieLock' = [trieLock EXCEPT !.writing = FALSE]
  /\ writer' = [writer EXCEPT !.at = After("trie")]
  /\ UNCHANGED <<store, stateLock, commits, current, reader>>

EndCommit ==
  /\ writer.at = "end"
  /\ writer' = NoWrite
  /\ UNCHANGED <<store, locks, commits, current, reader>>

-------------------------------------------------------------------------------
(* The readers *)

(* Variant of CanRead: the lock is not taken. *)
CanReadAlways(lock) == TRUE

(* read() waits for the writer. *)
CanRead(lock) == ~ lock.writing

Started(call, at) ==
  [NoCall EXCEPT !.call = call, !.at = at, !.seen = {current}, !.overlap = (writer.at # "none")]

(* Calls a reader makes: plain_value(key), bucket_used_slots (the default  *)
(* of the trait), clone and fmt.                                           *)
PlainValue(r, k) ==
  /\ ~ Calls(r)
  /\ reader' = [reader EXCEPT ![r] = [Started("plain_value", "metadata") EXCEPT !.key = k]]
  /\ UNCHANGED <<store, locks, writer, commits, current>>

(* metadata: the entry and the count, under one lock *)
ReadMetadata(r) ==
  /\ reader[r].call = "plain_value" /\ reader[r].at = "metadata" /\ CanRead(stateLock)
  /\ reader' = [reader EXCEPT ![r] = [@ EXCEPT !.at = "search", !.nonce = kvs.nonce,
                                               !.capacity = kvs.capacity, !.used = used]]
  /\ UNCHANGED <<store, locks, writer, commits, current>>

(* What shi_search makes of the entry in a slot *)
Outcome(e, k) ==
  CASE e = Empty -> "absent"
    [] e # Empty /\ e.key < k -> "absent"
    [] e # Empty /\ e.key = k -> "found"
    [] OTHER -> "further"

(* shi_search: the value of the next slot of the probe sequence *)
ReadSlot(r) ==
  /\ reader[r].call = "plain_value" /\ reader[r].at = "search" /\ CanRead(stateLock)
  /\ LET call == reader[r]
         e == kvs.table[probe(HashWith[call.nonce][call.key], call.step, call.capacity)]
         outcome == Outcome(e, call.key)
     IN  reader' = [reader EXCEPT ![r] =
           [@ EXCEPT !.step = call.step + 1,
                     !.at = IF outcome = "further" /\ call.step + 1 < call.capacity THEN "search" ELSE "done",
                     !.result = IF outcome = "found" THEN e.val ELSE Empty]]
  /\ UNCHANGED <<store, locks, writer, commits, current>>

(* entries(bucket_range(..)).len() under one lock *)
CountSlots(r) ==
  /\ ~ Calls(r) /\ CanRead(stateLock)
  /\ reader' = [reader EXCEPT ![r] =
       [Started("bucket_used_slots", "done") EXCEPT !.slots = Cardinality(Occupied(kvs.table)), !.used = used]]
  /\ UNCHANGED <<store, locks, writer, commits, current>>

(* clone: a copy of the state, then one of the trie *)
CloneState(r) ==
  /\ ~ Calls(r) /\ CanRead(stateLock)
  /\ reader' = [reader EXCEPT ![r] = [Started("clone", "trie") EXCEPT !.state = kvs]]
  /\ UNCHANGED <<store, locks, writer, commits, current>>

(* fmt keeps its guard of the state until it has printed the trie, too. *)
FmtState(r) ==
  /\ ~ Calls(r) /\ CanRead(stateLock)
  /\ stateLock' = [stateLock EXCEPT !.guards = @ \cup {r}]
  /\ reader' = [reader EXCEPT ![r] = [Started("fmt", "trie") EXCEPT !.state = kvs]]
  /\ UNCHANGED <<store, trieLock, writer, commits, current>>

ReadTrie(r) ==
  /\ reader[r].call \in {"clone", "fmt"} /\ reader[r].at = "trie" /\ CanRead(trieLock)
  /\ reader' = [reader EXCEPT ![r] = [@ EXCEPT !.at = "done", !.trie = trie]]
  /\ stateLock' = [stateLock EXCEPT !.guards = @ \ {r}]
  /\ UNCHANGED <<store, trieLock, writer, commits, current>>

(* SaltProof::create and the StateRoot of another session: the metadata,   *)
(* then the commitments node by node.                                      *)
ReadState(r) ==
  /\ ~ Calls(r) /\ CanRead(stateLock)
  /\ reader' = [reader EXCEPT ![r] = [Started("create", "nodes") EXCEPT !.state = kvs]]
  /\ UNCHANGED <<store, locks, writer, commits, current>>

(* commitment *)
ReadNode(r) ==
  /\ reader[r].call = "create" /\ reader[r].at = "nodes" /\ CanRead(trieLock)
  /\ LET next == reader[r].step + 1
     IN  reader' = [reader EXCEPT ![r] =
           [@ EXCEPT !.trie = [reader[r].trie EXCEPT ![Nodes[next]] = trie[Nodes[next]]], !.step = next,
                     !.at = IF next = Len(Nodes) THEN "done" ELSE "nodes"]]
  /\ UNCHANGED <<store, locks, writer, commits, current>>

Return(r) ==
  /\ Calls(r) /\ reader[r].at = "done"
  /\ reader' = [reader EXCEPT ![r] = NoCall]
  /\ UNCHANGED <<store, locks, writer, commits, current>>

WriterStep ==
  \/ \E content \in Blocks, first \in {"state", "trie"} : Commit(content, first)
  \/ LockState \/ ApplyEntry \/ UnlockState
  \/ LockTrie \/ ApplyNode \/ UnlockTrie
  \/ EndCommit

ReaderStep(r) ==
  \/ \E k \in PlainKeys : PlainValue(r, k)
  \/ ReadMetadata(r) \/ ReadSlot(r)
  \/ CountSlots(r)
  \/ CloneState(r) \/ FmtState(r) \/ ReadTrie(r)
  \/ ReadState(r) \/ ReadNode(r)
  \/ Return(r)

Next == WriterStep \/ \E r \in Readers : ReaderStep(r)

Spec == Init /\ [][Next]_vars

-------------------------------------------------------------------------------
Looked(r) == reader[r].call = "plain_value" /\ reader[r].at = "done"
Holds(c, k) == IF k \in DOMAIN c.data THEN c.data[k] ELSE Empty

(* PROPERTY LookupAnswers                                                  *)
(* A lookup takes a lock for each slot.  One that met no update answers as *)
(* the one state that it saw, absent keys included: no reader sees a batch *)
(* half applied.  One that ran across updates, with the metadata of one    *)
(* state and slots of others, may miss a key, but what it finds is a value *)
(* that the key had in one of them.                                        *)
LookupAnswers ==
  \A r \in Readers : Looked(r) =>
    LET answers == {Holds(c, reader[r].key) : c \in reader[r].seen}
    IN  \/ reader[r].result \in answers
        \/ reader[r].result = Empty /\ Cardinality(reader[r].seen) > 1

(* PROPERTY ReadsOfOneState                                                *)
(* What is read under one lock is of one state: nonce, capacity and count, *)
(* and the count that is kept is the one that a scan of the slots would    *)
(* give.  State and trie are written under separate locks: a copy, a print *)
(* or a proof has the trie of its state whenever no commit ran in the      *)
(* meantime.                                                               *)
ReadsOfOneState ==
  \A r \in Readers :
    /\ reader[r].call = "plain_value" /\ reader[r].at # "metadata" =>
         \E c \in reader[r].seen :
           <<c.nonce, c.capacity, Count(c)>> = <<reader[r].nonce, reader[r].capacity, reader[r].used>>
    /\ reader[r].call = "bucket_used_slots" => reader[r].slots = reader[r].used
    /\ reader[r].call \in {"clone", "fmt", "create"} /\ reader[r].at = "done" /\ ~ reader[r].overlap =>
         \E c \in reader[r].seen :
           reader[r].state = StoreOf(c) /\ \A n \in Range(Nodes) : reader[r].trie[n] = c

-------------------------------------------------------------------------------
(* The inductive invariant behind the properties above *)

Stores == [nonce : {c.nonce : c \in States}, capacity : 1 .. MaxCapacity, table : Tables]
Tries == [Range(Nodes) -> States]
Locks == [writing : BOOLEAN, guards : SUBSET Readers]
Writes == [at : {"none", "state", "trie", "end"}, first : {"none", "state", "trie"}, content : States,
           left : SUBSET (SlotId \cup {MetaSlot}), written : 0 .. Len(Nodes)]
CallRecords ==
  [call : {"none", "plain_value", "bucket_used_slots", "clone", "fmt", "create"},
   at : {"none", "metadata", "search", "trie", "nodes", "done"}, seen : SUBSET States, overlap : BOOLEAN,
   key : PlainKeys \cup {0}, nonce : {c.nonce : c \in States}, capacity : Nat, used : Nat, step : Nat,
   result : Values \cup {Empty}, slots : Nat, state : Stores, trie : Tries]

(* Type invariant. *)
TypeOK ==
  /\ kvs \in Stores /\ used \in Nat /\ trie \in Tries
  /\ stateLock \in Locks /\ trieLock \in Locks
  /\ writer \in Writes /\ commits \in Nat /\ current \in States
  /\ reader \in [Readers -> CallRecords]

(* update_state is yet to be called or to return. *)
ToWrite == writer.at = "state" \/ (writer.at = "trie" /\ writer.first = "trie")

(* The entries that are left have what they had, the others what they get. *)
StateExact ==
  /\ used = Cardinality(Occupied(kvs.table))
  /\ stateLock.writing => writer.at = "state"
  /\ ~ stateLock.writing => kvs = StoreOf(current)
  /\ ToWrite =>
       LET From(s) == IF s \in writer.left THEN current ELSE writer.content
       IN  /\ writer.content # current
           /\ \A s \in SlotId : kvs.table[s] = From(s).table[s]
           /\ kvs.nonce = From(MetaSlot).nonce /\ kvs.capacity = From(MetaSlot).capacity
  /\ writer.at # "none" => writer.first # "none" /\ (ToWrite \/ current = writer.content)

TrieExact ==
  /\ writer.at = "none" => \A n \in Range(Nodes) : trie[n] = current
  /\ writer.at = "end" \/ (writer.at = "state" /\ writer.first = "trie") =>
       \A n \in Range(Nodes) : trie[n] = writer.content
  /\ writer.at = "trie" => \A i \in 1 .. writer.written : trie[Nodes[i]] = writer.content
  /\ writer.at = "state" /\ writer.first = "state" => writer.written = 0

(* The slots of c that a lookup has passed have larger keys. *)
PassedIn(call, c) ==
  LET hashed == HashWith[c.nonce][call.key]
  IN  /\ call.nonce = c.nonce /\ call.capacity = c.capacity
      /\ Passed(c.table, hashed, c.capacity, call.key, probe(hashed, call.step, c.capacity))

LookupExact(call) ==
  /\ call.key \in PlainKeys
  /\ call.at = "metadata" => call.step = 0
  /\ call.at \in {"search", "done"} =>
       \E c \in call.seen : <<c.nonce, c.capacity, Count(c)>> = <<call.nonce, call.capacity, call.used>>
  /\ call.at = "search" => call.step < call.capacity /\ (call.seen = {current} => PassedIn(call, current))
  /\ call.at = "done" =>
       /\ call.seen = {current} => call.result = Holds(current, call.key)
       /\ call.result = Empty \/ \E c \in call.seen : call.result = Holds(c, call.key)

CopyExact(call) ==
  ~ call.overlap =>
    /\ call.state = StoreOf(current)
    /\ call.at = "done" => \A n \in Range(Nodes) : call.trie[n] = current
    /\ call.at = "nodes" => \A i \in 1 .. call.step : call.trie[Nodes[i]] = current

CallExact(call) ==
  /\ current \in call.seen /\ IsFiniteSet(call.seen)
  /\ ~ call.overlap => writer.at = "none"
  /\ call.call = "plain_value" => call.at \in {"metadata", "search", "done"} /\ LookupExact(call)
  /\ call.call = "bucket_used_slots" => call.at = "done" /\ call.slots = call.used
  /\ call.call \in {"clone", "fmt"} => call.at \in {"trie", "done"} /\ CopyExact(call)
  /\ call.call = "create" => /\ call.at \in {"nodes", "done"} /\ CopyExact(call)
                             /\ call.at = "nodes" => call.step < Len(Nodes)

ReadersExact == \A r \in Readers : Calls(r) => CallExact(reader[r])

Inductive == TypeOK /\ StateExact /\ TrieExact /\ ReadersExact
===============================================================================
