--------------------------- MODULE StoreReadersProofs ---------------------------
(***************************************************************************)
(* Proofs about StoreReaders, for any number of readers, contents, nodes   *)
(* and commits: what a reader gets from a store that is being written.     *)
(***************************************************************************)
EXTENDS StoreReaders, ShiTableTheorems

-------------------------------------------------------------------------------
(* Contents: the slots of a content are its data. *)

(* What the assumption says of a content *)
LEMMA ContentIs ==
  ASSUME NEW c \in States
  PROVE  /\ c.capacity \in 1 .. MaxCapacity /\ c.capacity \in Nat \ {0}
         /\ HashWith[c.nonce] \in [PlainKeys -> Nat]
         /\ c.table \in Tables /\ Within(c.table, c.capacity)
         /\ ShiOrdered(c.table, HashWith[c.nonce], c.capacity)
         /\ Contents(c.table) = {[key |-> k, val |-> c.data[k]] : k \in DOMAIN c.data}
         /\ DOMAIN c.data \subseteq PlainKeys
BY ReadersAssumption, CapacityAssumption DEF IsContent

(* The number of used slots is the number of keys. *)
LEMMA CountIs ==
  ASSUME NEW c \in States
  PROVE  Cardinality(Occupied(c.table)) = Count(c) /\ Count(c) \in Nat
<1> DEFINE D == DOMAIN c.data
           E == Contents(c.table)
           f == [k \in D |-> [key |-> k, val |-> c.data[k]]]
<1>1. E = {[key |-> k, val |-> c.data[k]] : k \in D}
  BY ContentIs
<1>2. Cardinality(E) = Cardinality(Occupied(c.table))
  BY ContentIs, OrderedCardinality
<1>3. IsFiniteSet(E) /\ Cardinality(Occupied(c.table)) \in Nat
  BY ContentsCardinality, OccupiedFinite
<1>4. f \in [D -> E] /\ \A e \in E : \E k \in D : f[k] = e
  BY <1>1
<1>5. \A j, k \in D : f[j] = f[k] => j = k
  OBVIOUS
<1> HIDE DEF f, D, E
<1>6. f \in Surjection(D, E) /\ f \in Injection(D, E)
  BY <1>4, <1>5 DEF Surjection, Injection, IsInjective
<1>7. f \in Surjection(D, E) /\ IsFiniteSet(D)
  BY <1>3, <1>6, FS_Injection
<1>8. Cardinality(E) = Cardinality(D)
  BY <1>6, <1>7, FS_Surjection
<1> QED
  BY <1>2, <1>3, <1>8 DEF Count, D

(* shi_search finds the value that the content has. *)
LEMMA FoundIs ==
  ASSUME NEW c \in States, NEW s \in SlotId, c.table[s] # Empty
  PROVE  Holds(c, c.table[s].key) = c.table[s].val
<1>1. c.table[s] \in Contents(c.table)
  BY DEF Contents, Occupied
<1>2. PICK k \in DOMAIN c.data : c.table[s] = [key |-> k, val |-> c.data[k]]
  BY <1>1, ContentIs
<1> QED
  BY <1>2 DEF Holds

(* A key that the content has is where its probe sequence passes larger keys. *)
LEMMA KeyHasSlot ==
  ASSUME NEW c \in States, NEW k \in PlainKeys, k \in DOMAIN c.data
  PROVE  \E s \in 0 .. c.capacity - 1 :
           /\ c.table[s] # Empty /\ c.table[s].key = k
           /\ Passed(c.table, HashWith[c.nonce][k], c.capacity, k, s)
<1>1. [key |-> k, val |-> c.data[k]] \in Contents(c.table)
  BY ContentIs
<1>2. PICK s \in Occupied(c.table) : c.table[s] = [key |-> k, val |-> c.data[k]]
  BY <1>1 DEF Contents
<1>3. s \in 0 .. c.capacity - 1 /\ c.table[s] # Empty
  BY ContentIs, OccupiedWithin
<1>4. c.table[s].key = k
  BY <1>2
<1>5. ShiOrdered(c.table, HashWith[c.nonce], c.capacity)
  BY ContentIs
<1> QED
  BY <1>3, <1>4, <1>5 DEF ShiOrdered

(* shi_search stops at an empty slot or at a smaller key: the content does *)
(* not have the key.                                                       *)
LEMMA AbsentIs ==
  ASSUME NEW c \in States, NEW k \in PlainKeys, NEW p \in 0 .. c.capacity - 1,
         Passed(c.table, HashWith[c.nonce][k], c.capacity, k, p),
         c.table[p] = Empty \/ c.table[p].key < k
  PROVE  Holds(c, k) = Empty
<1> DEFINE h == HashWith[c.nonce][k]
<1>1. h \in Nat /\ c.capacity \in Nat \ {0} /\ k \in Nat
  BY ContentIs, KeysAssumption
<1>2. SUFFICES ASSUME k \in DOMAIN c.data PROVE FALSE
  BY DEF Holds
<1>3. PICK s \in 0 .. c.capacity - 1 :
        c.table[s] # Empty /\ c.table[s].key = k /\ Passed(c.table, h, c.capacity, k, s)
  BY <1>2, KeyHasSlot
<1> HIDE DEF h
<1>4. s # p
  BY <1>1, <1>3
<1>5. s \in Before(h, p, c.capacity) \/ p \in Before(h, s, c.capacity)
  BY <1>1, <1>4, BeforeTotal
<1>6. ~ Larger(c.table, s, k) /\ ~ Larger(c.table, p, k)
  <2>1. c.table \in Tables /\ p \in SlotId
    BY ContentIs, CapacityAssumption DEF SlotId
  <2>2. c.table[p] # Empty => c.table[p].key \in Nat
    BY <2>1, KeysAssumption DEF Tables, Entry
  <2> QED
    BY <1>1, <1>3, <2>2 DEF Larger
<1>7. Passed(c.table, h, c.capacity, k, p)
  BY DEF h
<1> QED
  BY <1>3, <1>5, <1>6, <1>7 DEF Passed

(* It ran through all slots of the bucket: again the key is not there. *)
LEMMA AbsentAfterAll ==
  ASSUME NEW c \in States, NEW k \in PlainKeys, \A s \in 0 .. c.capacity - 1 : Larger(c.table, s, k)
  PROVE  Holds(c, k) = Empty
<1>1. k \in Nat
  BY KeysAssumption
<1>2. SUFFICES ASSUME k \in DOMAIN c.data PROVE FALSE
  BY DEF Holds
<1>3. PICK s \in 0 .. c.capacity - 1 : c.table[s] # Empty /\ c.table[s].key = k
  BY <1>2, KeyHasSlot
<1> QED
  BY <1>1, <1>3 DEF Larger
-------------------------------------------------------------------------------
(* The readers and the writer share little. *)

LEMMA NoCallType == NoCall \in CallRecords
<1>1. Genesis \in States
  BY DEF States
<1>2. StoreOf(Genesis) \in Stores
  BY <1>1, ContentIs DEF StoreOf, Stores
<1>3. [n \in Range(Nodes) |-> Genesis] \in Tries
  BY <1>1 DEF Tries
<1>4. 0 \in {c.nonce : c \in States}
  BY <1>1 DEF Genesis
<1> QED
  BY <1>1, <1>2, <1>3, <1>4 DEF NoCall, CallRecords

(* A content that is committed has the type of a store. *)
LEMMA StoreOfType ==
  ASSUME NEW c \in States
  PROVE  StoreOf(c) \in Stores
BY ContentIs DEF StoreOf, Stores

(* A call goes on or ends: the store and the other calls are as before. *)
LEMMA ReaderKeeps ==
  ASSUME Inductive, NEW r \in Readers, NEW new \in CallRecords,
         reader' = [reader EXCEPT ![r] = new], new.call # "none" => CallExact(new),
         UNCHANGED <<kvs, used, trie, trieLock, writer, commits, current>>,
         stateLock' \in Locks, stateLock'.writing = stateLock.writing
  PROVE  Inductive'
<1> USE DEF Inductive
<1>1. TypeOK'
  BY DEF TypeOK
<1>2. StateExact'
  BY DEF StateExact, ToWrite
<1>3. TrieExact'
  BY DEF TrieExact
<1>4. \A call : CallExact(call)' <=> CallExact(call)
  BY DEF CallExact, LookupExact, CopyExact, PassedIn
<1>5. \A q \in Readers : reader'[q] = IF q = r THEN new ELSE reader[q]
  BY DEF TypeOK
<1>6. ReadersExact'
  BY <1>4, <1>5 DEF ReadersExact, Calls
<1> QED
  BY <1>1, <1>2, <1>3, <1>6

(* A commit goes on: every call that runs has met it already. *)
LEMMA WriterKeepsReaders ==
  ASSUME Inductive, UNCHANGED <<reader, current>>, writer.at # "none"
  PROVE  ReadersExact'
<1>1. SUFFICES ASSUME NEW r \in Readers, reader[r].call # "none" PROVE CallExact(reader[r])'
  BY DEF ReadersExact, Calls
<1>2. CallExact(reader[r]) /\ reader[r].overlap
  BY <1>1 DEF Inductive, ReadersExact, Calls, CallExact, TypeOK, CallRecords
<1> QED
  BY <1>2 DEF CallExact, LookupExact, CopyExact, PassedIn

(* A call begins. *)
LEMMA StartedIs ==
  ASSUME Inductive, NEW call, NEW at,
         call \in {"plain_value", "bucket_used_slots", "clone", "fmt", "create"},
         at \in {"metadata", "trie", "nodes", "done"},
         NEW v, v = Started(call, at)
  PROVE  /\ v \in CallRecords /\ v.call = call /\ v.at = at /\ v.seen = {current}
         /\ v.overlap = (writer.at # "none") /\ v.step = 0 /\ v.result = Empty
         /\ current \in v.seen /\ IsFiniteSet(v.seen)
<1>1. current \in States
  BY DEF Inductive, TypeOK
<1>2. v = [NoCall EXCEPT !.call = call, !.at = at, !.seen = {current}, !.overlap = (writer.at # "none")]
  BY DEF Started
<1>3. NoCall \in CallRecords /\ NoCall.step = 0 /\ NoCall.result = Empty
  BY NoCallType DEF NoCall
<1>4. PICK b \in BOOLEAN : b = (writer.at # "none")
  OBVIOUS
<1>5. v \in CallRecords
  <2>1. v = [NoCall EXCEPT !.call = call, !.at = at, !.seen = {current}, !.overlap = b]
    BY <1>2, <1>4
  <2>2. {current} \in SUBSET States
    BY <1>1
  <2> QED
    BY <1>3, <2>1, <2>2 DEF CallRecords
<1>6. /\ v.call = call /\ v.at = at /\ v.seen = {current}
      /\ v.overlap = (writer.at # "none") /\ v.step = 0 /\ v.result = Empty
  BY <1>2, <1>3 DEF CallRecords
<1> QED
  BY <1>5, <1>6, FS_Singleton
-------------------------------------------------------------------------------
(* The steps of the readers *)

LEMMA PlainValueStep ==
  ASSUME Inductive, NEW r \in Readers, NEW k \in PlainKeys, PlainValue(r, k)
  PROVE  Inductive'
<1>1. PICK v, new : v = Started("plain_value", "metadata") /\ new = [v EXCEPT !.key = k]
  OBVIOUS
<1>2. reader' = [reader EXCEPT ![r] = new] /\ UNCHANGED <<store, locks, writer, commits, current>>
  BY <1>1 DEF PlainValue
<1>3. /\ v \in CallRecords /\ v.call = "plain_value" /\ v.at = "metadata"
      /\ v.overlap = (writer.at # "none") /\ v.step = 0 /\ current \in v.seen /\ IsFiniteSet(v.seen)
  BY <1>1, StartedIs
<1>4. new \in CallRecords
  BY <1>1, <1>3 DEF CallRecords
<1>5. /\ new.call = v.call /\ new.at = v.at /\ new.step = v.step /\ new.key = k
      /\ new.overlap = v.overlap /\ new.seen = v.seen
  BY <1>1, <1>3 DEF CallRecords
<1>6. CallExact(new)
  BY <1>3, <1>5 DEF CallExact, LookupExact
<1> QED
  BY <1>2, <1>4, <1>6, ReaderKeeps DEF store, locks, Inductive, TypeOK

LEMMA CountSlotsStep ==
  ASSUME Inductive, NEW r \in Readers, CountSlots(r)
  PROVE  Inductive'
<1>1. PICK v, new : /\ v = Started("bucket_used_slots", "done")
                    /\ new = [v EXCEPT !.slots = Cardinality(Occupied(kvs.table)), !.used = used]
  OBVIOUS
<1>2. reader' = [reader EXCEPT ![r] = new] /\ UNCHANGED <<store, locks, writer, commits, current>>
  BY <1>1 DEF CountSlots
<1>3. /\ v \in CallRecords /\ v.call = "bucket_used_slots" /\ v.at = "done"
      /\ v.overlap = (writer.at # "none") /\ current \in v.seen /\ IsFiniteSet(v.seen)
  BY <1>1, StartedIs
<1>4. used \in Nat /\ used = Cardinality(Occupied(kvs.table))
  BY DEF Inductive, TypeOK, StateExact
<1>5. new \in CallRecords
  BY <1>1, <1>3, <1>4 DEF CallRecords
<1>6. /\ new.call = v.call /\ new.at = v.at /\ new.slots = used /\ new.used = used
      /\ new.overlap = v.overlap /\ new.seen = v.seen
  BY <1>1, <1>3, <1>4 DEF CallRecords
<1>7. CallExact(new)
  BY <1>3, <1>6 DEF CallExact
<1> QED
  BY <1>2, <1>5, <1>7, ReaderKeeps DEF store, locks, Inductive, TypeOK

(* clone, fmt and SaltProof::create begin with the state. *)
LEMMA CopyStarts ==
  ASSUME Inductive, NEW r \in Readers, CanRead(stateLock),
         NEW call \in {"clone", "fmt", "create"}, NEW at, at = IF call = "create" THEN "nodes" ELSE "trie",
         NEW new, new = [Started(call, at) EXCEPT !.state = kvs]
  PROVE  new \in CallRecords /\ CallExact(new)
<1>1. PICK v : v = Started(call, at)
  OBVIOUS
<1>2. /\ v \in CallRecords /\ v.call = call /\ v.at = at /\ v.seen = {current} /\ v.step = 0
      /\ v.overlap = (writer.at # "none") /\ current \in v.seen /\ IsFiniteSet(v.seen)
  BY <1>1, StartedIs
<1>3. new = [v EXCEPT !.state = kvs]
  BY <1>1
<1>4. kvs \in Stores /\ kvs = StoreOf(current)
  BY DEF Inductive, TypeOK, StateExact, CanRead
<1>5. new \in CallRecords
  BY <1>2, <1>3, <1>4 DEF CallRecords
<1>6. /\ new.call = v.call /\ new.at = v.at /\ new.state = kvs /\ new.step = 0
      /\ new.overlap = v.overlap /\ new.seen = v.seen
  BY <1>2, <1>3 DEF CallRecords
<1>7. CopyExact(new)
  BY <1>2, <1>4, <1>6 DEF CopyExact
<1>8. Len(Nodes) \in Nat \ {0}
  BY ReadersAssumption
<1>9. ~ new.overlap => writer.at = "none"
  BY <1>2, <1>6
<1>10. /\ call \in {"clone", "fmt"} => at = "trie" /\ call # "create"
       /\ call = "create" => at = "nodes"
  OBVIOUS
<1>11. /\ new.call = call /\ new.at = at /\ new.step = 0
       /\ current \in new.seen /\ IsFiniteSet(new.seen)
  BY <1>2, <1>6
<1>12. CallExact(new)
  BY <1>7, <1>8, <1>9, <1>10, <1>11 DEF CallExact
<1> QED
  BY <1>5, <1>12

LEMMA CloneStateStep ==
  ASSUME Inductive, NEW r \in Readers, CloneState(r)
  PROVE  Inductive'
<1>1. PICK new : new = [Started("clone", "trie") EXCEPT !.state = kvs]
  OBVIOUS
<1>2. /\ reader' = [reader EXCEPT ![r] = new] /\ UNCHANGED <<store, locks, writer, commits, current>>
      /\ CanRead(stateLock)
  BY <1>1 DEF CloneState
<1>3. new \in CallRecords /\ CallExact(new)
  BY <1>1, <1>2, CopyStarts
<1> QED
  BY <1>2, <1>3, ReaderKeeps DEF store, locks, Inductive, TypeOK

LEMMA FmtStateStep ==
  ASSUME Inductive, NEW r \in Readers, FmtState(r)
  PROVE  Inductive'
<1>1. PICK new : new = [Started("fmt", "trie") EXCEPT !.state = kvs]
  OBVIOUS
<1>2. /\ reader' = [reader EXCEPT ![r] = new] /\ UNCHANGED <<store, trieLock, writer, commits, current>>
      /\ CanRead(stateLock) /\ stateLock' = [stateLock EXCEPT !.guards = @ \cup {r}]
  BY <1>1 DEF FmtState
<1>3. new \in CallRecords /\ CallExact(new)
  BY <1>1, <1>2, CopyStarts
<1>4. stateLock' \in Locks /\ stateLock'.writing = stateLock.writing
  BY <1>2 DEF Inductive, TypeOK, Locks
<1> QED
  BY <1>2, <1>3, <1>4, ReaderKeeps DEF store

LEMMA ReadStateStep ==
  ASSUME Inductive, NEW r \in Readers, ReadState(r)
  PROVE  Inductive'
<1>1. PICK new : new = [Started("create", "nodes") EXCEPT !.state = kvs]
  OBVIOUS
<1>2. /\ reader' = [reader EXCEPT ![r] = new] /\ UNCHANGED <<store, locks, writer, commits, current>>
      /\ CanRead(stateLock)
  BY <1>1 DEF ReadState
<1>3. new \in CallRecords /\ CallExact(new)
  BY <1>1, <1>2, CopyStarts
<1> QED
  BY <1>2, <1>3, ReaderKeeps DEF store, locks, Inductive, TypeOK

LEMMA ReadTrieStep ==
  ASSUME Inductive, NEW r \in Readers, ReadTrie(r)
  PROVE  Inductive'
<1>1. PICK v, new : v = reader[r] /\ new = [v EXCEPT !.at = "done", !.trie = trie]
  OBVIOUS
<1>2. /\ reader' = [reader EXCEPT ![r] = new] /\ UNCHANGED <<store, trieLock, writer, commits, current>>
      /\ v.call \in {"clone", "fmt"} /\ stateLock' = [stateLock EXCEPT !.guards = @ \ {r}]
  BY <1>1 DEF ReadTrie
<1>3. v \in CallRecords /\ CallExact(v)
  BY <1>1, <1>2 DEF Inductive, TypeOK, ReadersExact, Calls
<1>4. trie \in Tries
  BY DEF Inductive, TypeOK
<1>5. new \in CallRecords
  BY <1>1, <1>3, <1>4 DEF CallRecords
<1>6. /\ new.call = v.call /\ new.at = "done" /\ new.state = v.state /\ new.trie = trie
      /\ new.overlap = v.overlap /\ new.seen = v.seen
  BY <1>1, <1>3 DEF CallRecords
<1>7. ~ v.overlap => \A n \in Range(Nodes) : trie[n] = current
  BY <1>3 DEF CallExact, Inductive, TrieExact
<1>8. CallExact(new)
  BY <1>2, <1>3, <1>6, <1>7 DEF CallExact, CopyExact
<1>9. stateLock' \in Locks /\ stateLock'.writing = stateLock.writing
  BY <1>2 DEF Inductive, TypeOK, Locks
<1> QED
  BY <1>2, <1>5, <1>8, <1>9, ReaderKeeps DEF store

LEMMA ReadNodeStep ==
  ASSUME Inductive, NEW r \in Readers, ReadNode(r)
  PROVE  Inductive'
<1>1. PICK v, i : v = reader[r] /\ i = v.step + 1
  OBVIOUS
<1>2. PICK t : t = [v.trie EXCEPT ![Nodes[i]] = trie[Nodes[i]]]
  OBVIOUS
<1>3. PICK a, new : /\ a = IF i = Len(Nodes) THEN "done" ELSE "nodes"
                    /\ new = [v EXCEPT !.trie = t, !.step = i, !.at = a]
  OBVIOUS
<1>4. /\ reader' = [reader EXCEPT ![r] = new] /\ UNCHANGED <<store, locks, writer, commits, current>>
      /\ v.call = "create" /\ v.at = "nodes"
  BY <1>1, <1>2, <1>3 DEF ReadNode
<1>5. v \in CallRecords /\ CallExact(v)
  BY <1>1, <1>4 DEF Inductive, TypeOK, ReadersExact, Calls
<1>6. trie \in Tries /\ v.trie \in Tries /\ v.step \in Nat
  BY <1>5 DEF Inductive, TypeOK, CallRecords
<1>7. i \in 1 .. Len(Nodes) /\ Nodes[i] \in Range(Nodes) /\ Len(Nodes) \in Nat /\ DOMAIN Nodes = 1 .. Len(Nodes)
  <2>1. v.step < Len(Nodes) /\ Len(Nodes) \in Nat /\ DOMAIN Nodes = 1 .. Len(Nodes)
    BY <1>4, <1>5, ReadersAssumption DEF CallExact
  <2>2. i \in DOMAIN Nodes
    BY <1>1, <1>6, <2>1
  <2> QED
    BY <2>1, <2>2 DEF Range
<1>8. t \in Tries /\ t[Nodes[i]] = trie[Nodes[i]] /\ \A n \in Range(Nodes) : n # Nodes[i] => t[n] = v.trie[n]
  BY <1>2, <1>6, <1>7 DEF Tries
<1>9. new \in CallRecords
  <2>1. a \in {"none", "metadata", "search", "trie", "nodes", "done"} /\ i \in Nat
    BY <1>3, <1>7
  <2> QED
    BY <1>3, <1>5, <1>8, <2>1 DEF CallRecords
<1>10. /\ new.call = v.call /\ new.at = a /\ new.state = v.state
       /\ new.trie = t /\ new.step = i /\ new.overlap = v.overlap /\ new.seen = v.seen
  BY <1>3, <1>5 DEF CallRecords
<1>11. ~ v.overlap => \A j \in 1 .. i : t[Nodes[j]] = current
  <2> SUFFICES ASSUME ~ v.overlap, NEW j \in 1 .. i PROVE t[Nodes[j]] = current
    OBVIOUS
  <2>1. \A n \in Range(Nodes) : trie[n] = current
    BY <1>5 DEF CallExact, Inductive, TrieExact
  <2>2. \A k \in 1 .. v.step : v.trie[Nodes[k]] = current
    BY <1>4, <1>5 DEF CallExact, CopyExact
  <2>3. Nodes[j] \in Range(Nodes)
    BY <1>7 DEF Range
  <2>4. CASE Nodes[j] = Nodes[i]
    BY <2>1, <2>4, <1>7, <1>8
  <2>5. CASE Nodes[j] # Nodes[i]
    <3>1. j \in 1 .. v.step
      BY <2>5, <1>1, <1>6
    <3> QED
      BY <2>2, <2>3, <2>5, <3>1, <1>8
  <2> QED
    BY <2>4, <2>5
<1>12. ~ v.overlap /\ i = Len(Nodes) => \A n \in Range(Nodes) : t[n] = current
  BY <1>7, <1>11 DEF Range
<1>13. CopyExact(new)
  BY <1>3, <1>4, <1>5, <1>10, <1>11, <1>12 DEF CallExact, CopyExact
<1>14. CallExact(new)
  BY <1>3, <1>4, <1>5, <1>7, <1>10, <1>13 DEF CallExact
<1> QED
  BY <1>4, <1>9, <1>14, ReaderKeeps DEF store, locks, Inductive, TypeOK

LEMMA ReturnStep ==
  ASSUME Inductive, NEW r \in Readers, Return(r)
  PROVE  Inductive'
<1>1. reader' = [reader EXCEPT ![r] = NoCall] /\ UNCHANGED <<store, locks, writer, commits, current>>
  BY DEF Return
<1>2. NoCall \in CallRecords /\ NoCall.call = "none"
  BY NoCallType DEF NoCall
<1> QED
  BY <1>1, <1>2, ReaderKeeps DEF store, locks, Inductive, TypeOK
-------------------------------------------------------------------------------
(* A lookup, slot by slot *)

LEMMA ReadMetadataStep ==
  ASSUME Inductive, NEW r \in Readers, ReadMetadata(r)
  PROVE  Inductive'
<1>1. PICK v, new : /\ v = reader[r]
                    /\ new = [v EXCEPT !.at = "search", !.nonce = kvs.nonce, !.capacity = kvs.capacity, !.used = used]
  OBVIOUS
<1>2. /\ reader' = [reader EXCEPT ![r] = new] /\ UNCHANGED <<store, locks, writer, commits, current>>
      /\ v.call = "plain_value" /\ v.at = "metadata" /\ CanRead(stateLock)
  BY <1>1 DEF ReadMetadata
<1>3. v \in CallRecords /\ CallExact(v)
  BY <1>1, <1>2 DEF Inductive, TypeOK, ReadersExact, Calls
<1>4. kvs \in Stores /\ current \in States /\ used \in Nat
  BY DEF Inductive, TypeOK
<1>5. kvs.nonce \in {c.nonce : c \in States} /\ kvs.capacity \in Nat
  BY <1>4, CapacityAssumption DEF Stores
<1>6. new \in CallRecords
  BY <1>1, <1>3, <1>4, <1>5 DEF CallRecords
<1>7. /\ new.call = "plain_value" /\ new.at = "search" /\ new.key = v.key /\ new.step = v.step
      /\ new.overlap = v.overlap /\ new.seen = v.seen
      /\ new.nonce = kvs.nonce /\ new.capacity = kvs.capacity /\ new.used = used
  BY <1>1, <1>2, <1>3 DEF CallRecords
<1>8. kvs.nonce = current.nonce /\ kvs.capacity = current.capacity /\ used = Count(current)
  <2>1. kvs = StoreOf(current)
    BY <1>2 DEF Inductive, StateExact, CanRead
  <2>2. kvs.nonce = current.nonce /\ kvs.capacity = current.capacity /\ kvs.table = current.table
    BY <2>1 DEF StoreOf
  <2> QED
    BY <1>4, <2>2, CountIs DEF Inductive, StateExact
<1>9. v.step = 0 /\ v.key \in PlainKeys /\ current \in v.seen
  BY <1>2, <1>3 DEF CallExact, LookupExact
<1>10. PassedIn(new, current) /\ 0 < current.capacity
  <2>1. HashWith[current.nonce][v.key] \in Nat /\ current.capacity \in Nat \ {0}
    BY <1>4, <1>9, ContentIs
  <2>2. Passed(current.table, HashWith[current.nonce][v.key], current.capacity, v.key,
               probe(HashWith[current.nonce][v.key], 0, current.capacity))
    BY <2>1, PassFirst
  <2> QED
    BY <2>1, <2>2, <1>7, <1>8, <1>9 DEF PassedIn
<1>11. LookupExact(new)
  BY <1>7, <1>8, <1>9, <1>10 DEF LookupExact
<1>12. CallExact(new)
  BY <1>3, <1>7, <1>11 DEF CallExact
<1> QED
  BY <1>2, <1>6, <1>12, ReaderKeeps DEF store, locks, Inductive, TypeOK

(* The slots that a lookup passed, and the next one: what the entry there  *)
(* says about the content.                                                 *)
LEMMA SearchOn ==
  ASSUME NEW c \in States, NEW k \in PlainKeys, NEW i \in Nat, i < c.capacity,
         NEW h, h = HashWith[c.nonce][k], NEW q, q = probe(h, i, c.capacity),
         Passed(c.table, h, c.capacity, k, q)
  PROVE  /\ q \in 0 .. c.capacity - 1 /\ q \in SlotId
         /\ Outcome(c.table[q], k) = "absent" => Holds(c, k) = Empty
         /\ Outcome(c.table[q], k) = "further" =>
              IF i + 1 < c.capacity
              THEN Passed(c.table, h, c.capacity, k, probe(h, i + 1, c.capacity))
              ELSE Holds(c, k) = Empty
<1>1. h \in Nat /\ c.capacity \in Nat \ {0} /\ c.capacity <= MaxCapacity /\ k \in Nat
  BY ContentIs, KeysAssumption, CapacityAssumption
<1>2. i \in 0 .. c.capacity - 1
  BY <1>1
<1>3. q \in 0 .. c.capacity - 1
  BY <1>1, <1>2, ProbeValue
<1>4. q \in SlotId
  BY <1>1, <1>3, CapacityAssumption DEF SlotId
<1>5. c.table[q] # Empty => c.table[q].key \in Nat
  BY <1>4, ContentIs, KeysAssumption DEF Tables, Entry
<1>6. ASSUME Outcome(c.table[q], k) = "absent" PROVE Holds(c, k) = Empty
  <2>1. c.table[q] = Empty \/ c.table[q].key < k
    BY <1>6 DEF Outcome
  <2> QED
    BY <2>1, <1>3, AbsentIs
<1>7. ASSUME Outcome(c.table[q], k) = "further"
      PROVE  IF i + 1 < c.capacity
             THEN Passed(c.table, h, c.capacity, k, probe(h, i + 1, c.capacity))
             ELSE Holds(c, k) = Empty
  <2>1. Larger(c.table, q, k)
    BY <1>1, <1>5, <1>7 DEF Outcome, Larger
  <2>2. CASE i + 1 < c.capacity
    <3>1. probe(h, i + 1, c.capacity) = NextSlot(q, c.capacity)
      BY <1>1, <2>2, ProbeNext
    <3>2. Passed(c.table, h, c.capacity, k, NextSlot(q, c.capacity))
      BY <1>1, <1>3, <2>1, PassNext
    <3> QED
      BY <2>2, <3>1, <3>2
  <2>3. CASE ~ (i + 1 < c.capacity)
    <3>1. i = c.capacity - 1
      BY <1>1, <1>2, <2>3
    <3>2. \A t \in 0 .. c.capacity - 1 : Larger(c.table, t, k)
      BY <1>1, <2>1, <3>1, PassedAll
    <3>3. Holds(c, k) = Empty
      BY <3>2, AbsentAfterAll
    <3> QED
      BY <2>3, <3>3
  <2> QED
    BY <2>2, <2>3
<1> QED
  BY <1>3, <1>4, <1>6, <1>7

LEMMA ReadSlotStep ==
  ASSUME Inductive, NEW r \in Readers, ReadSlot(r)
  PROVE  Inductive'
<1>1. PICK v, k, q : /\ v = reader[r] /\ k = v.key
                     /\ q = probe(HashWith[v.nonce][k], v.step, v.capacity)
  OBVIOUS
<1>2. PICK e, o : e = kvs.table[q] /\ o = Outcome(e, k)
  OBVIOUS
<1>3. PICK a, res, i : /\ i = v.step + 1
                       /\ a = IF o = "further" /\ i < v.capacity THEN "search" ELSE "done"
                       /\ res = IF o = "found" THEN e.val ELSE Empty
  OBVIOUS
<1>4. PICK new : new = [v EXCEPT !.step = i, !.at = a, !.result = res]
  OBVIOUS
<1>5. /\ reader' = [reader EXCEPT ![r] = new] /\ UNCHANGED <<store, locks, writer, commits, current>>
      /\ v.call = "plain_value" /\ v.at = "search" /\ CanRead(stateLock)
  BY <1>1, <1>2, <1>3, <1>4 DEF ReadSlot
<1>6. v \in CallRecords /\ CallExact(v) /\ LookupExact(v)
  BY <1>1, <1>5 DEF Inductive, TypeOK, ReadersExact, Calls, CallExact
<1>7. current \in States /\ kvs = StoreOf(current) /\ e = current.table[q]
  <2>1. current \in States /\ kvs = StoreOf(current)
    BY <1>5 DEF Inductive, TypeOK, StateExact, CanRead
  <2> QED
    BY <2>1, <1>2 DEF StoreOf
<1>8. k \in PlainKeys /\ v.step \in Nat /\ v.step < v.capacity /\ current \in v.seen
  BY <1>1, <1>5, <1>6 DEF LookupExact, CallExact, CallRecords
<1>9. PICK c \in v.seen : <<c.nonce, c.capacity, Count(c)>> = <<v.nonce, v.capacity, v.used>>
  BY <1>5, <1>6 DEF LookupExact
<1>10. q \in SlotId
  <2>1. c \in States /\ c.nonce = v.nonce /\ c.capacity = v.capacity
    BY <1>6, <1>9 DEF CallRecords
  <2>2. HashWith[v.nonce][k] \in Nat /\ v.capacity \in Nat \ {0} /\ v.capacity <= MaxCapacity
    BY <2>1, <1>8, ContentIs, CapacityAssumption
  <2>3. v.step \in 0 .. v.capacity - 1
    BY <2>2, <1>8
  <2>4. q \in 0 .. v.capacity - 1
    BY <2>2, <2>3, <1>1, ProbeValue
  <2> QED
    BY <2>2, <2>4, CapacityAssumption DEF SlotId
<1>11. e = Empty \/ (e \in Entry /\ e # Empty)
  BY <1>7, <1>10, ContentIs DEF Tables
<1>12. o \in {"absent", "found", "further"} /\ (o = "found" => e # Empty /\ e.key = k)
  BY <1>2 DEF Outcome
<1>13. new \in CallRecords
  <2>1. res \in Values \cup {Empty}
    BY <1>3, <1>11, <1>12 DEF Entry
  <2>2. a \in {"none", "metadata", "search", "trie", "nodes", "done"} /\ i \in Nat
    BY <1>3, <1>8
  <2> QED
    BY <1>4, <1>6, <2>1, <2>2 DEF CallRecords
<1>14. /\ new.call = "plain_value" /\ new.at = a /\ new.key = k /\ new.step = i /\ new.result = res
       /\ new.overlap = v.overlap /\ new.seen = v.seen
       /\ new.nonce = v.nonce /\ new.capacity = v.capacity /\ new.used = v.used
  BY <1>1, <1>4, <1>5, <1>6 DEF CallRecords
<1>15. o = "found" => res = Holds(current, k)
  BY <1>3, <1>7, <1>10, <1>12, FoundIs
<1>16. o # "found" => res = Empty
  BY <1>3
<1>17. ASSUME v.seen = {current}
       PROVE  /\ a = "done" => res = Holds(current, k)
              /\ a = "search" => PassedIn(new, current)
  <2>1. PICK h : h = HashWith[current.nonce][k]
    OBVIOUS
  <2>2. /\ v.nonce = current.nonce /\ v.capacity = current.capacity
        /\ Passed(current.table, h, current.capacity, k, q)
        /\ q = probe(h, v.step, current.capacity)
    BY <1>1, <1>5, <1>6, <1>17, <2>1 DEF LookupExact, PassedIn
  <2>3. /\ o = "absent" => Holds(current, k) = Empty
        /\ o = "further" => IF v.step + 1 < current.capacity
                            THEN Passed(current.table, h, current.capacity, k, probe(h, v.step + 1, current.capacity))
                            ELSE Holds(current, k) = Empty
    BY <1>2, <1>7, <1>8, <2>1, <2>2, SearchOn
  <2>4. a = "done" => res = Holds(current, k)
    BY <1>3, <1>12, <1>15, <1>16, <2>2, <2>3
  <2>5. a = "search" => Passed(current.table, h, current.capacity, k, probe(h, i, current.capacity))
    BY <1>3, <2>2, <2>3
  <2> QED
    BY <2>1, <2>2, <2>4, <2>5, <1>14 DEF PassedIn
<1>18. LookupExact(new)
  <2>1. \E d \in new.seen : <<d.nonce, d.capacity, Count(d)>> = <<new.nonce, new.capacity, new.used>>
    BY <1>9, <1>14
  <2>2. a = "search" => i < v.capacity
    BY <1>3
  <2>3. res = Empty \/ \E d \in v.seen : res = Holds(d, k)
    BY <1>8, <1>15, <1>16
  <2>4. a # "metadata"
    BY <1>3
  <2> QED
    BY <2>1, <2>2, <2>3, <2>4, <1>8, <1>14, <1>17 DEF LookupExact
<1>19. CallExact(new)
  <2>1. a \in {"search", "done"}
    BY <1>3
  <2> QED
    BY <2>1, <1>6, <1>14, <1>18 DEF CallExact
<1> QED
  BY <1>5, <1>13, <1>19, ReaderKeeps DEF store, locks, Inductive, TypeOK

(* A reader's step, whichever it is *)
LEMMA ReaderStepKeeps ==
  ASSUME Inductive, NEW r \in Readers, ReaderStep(r)
  PROVE  Inductive'
BY PlainValueStep, ReadMetadataStep, ReadSlotStep, CountSlotsStep, CloneStateStep, FmtStateStep,
   ReadTrieStep, ReadStateStep, ReadNodeStep, ReturnStep DEF ReaderStep

-------------------------------------------------------------------------------
(* The steps of the writer *)

(* A commit begins or an update ends: the calls that run have met it. *)
LEMMA MetKeepsReaders ==
  ASSUME Inductive, NEW d \in States, reader' = Met(d), current' = d
  PROVE  ReadersExact' /\ reader' \in [Readers -> CallRecords]
<1>1. ASSUME NEW r \in Readers
      PROVE  /\ ~ Calls(r) => reader'[r] = reader[r]
             /\ Calls(r) => reader'[r] = [reader[r] EXCEPT !.seen = reader[r].seen \cup {d}, !.overlap = TRUE]
  BY DEF Met
<1>2. ASSUME NEW r \in Readers, Calls(r)
      PROVE  reader'[r] \in CallRecords /\ CallExact(reader[r])'
  <2>1. PICK v, new : v = reader[r] /\ new = reader'[r]
    OBVIOUS
  <2>2. v \in CallRecords /\ CallExact(v)
    BY <1>2, <2>1 DEF Inductive, TypeOK, ReadersExact
  <2>3. new = [v EXCEPT !.seen = v.seen \cup {d}, !.overlap = TRUE]
    BY <1>1, <1>2, <2>1
  <2>4. new \in CallRecords
    BY <2>2, <2>3 DEF CallRecords
  <2>5. /\ new.call = v.call /\ new.at = v.at /\ new.key = v.key /\ new.step = v.step
        /\ new.nonce = v.nonce /\ new.capacity = v.capacity /\ new.used = v.used
        /\ new.result = v.result /\ new.slots = v.slots
    BY <2>2, <2>3 DEF CallRecords
  <2>6. new.seen = v.seen \cup {d} /\ new.overlap
    BY <2>2, <2>3 DEF CallRecords
  <2>7. current \in v.seen /\ IsFiniteSet(v.seen)
    BY <2>2 DEF CallExact
  <2>8. IsFiniteSet(new.seen) /\ d \in new.seen
    BY <2>6, <2>7, FS_AddElement
  <2>9. new.seen = {d} => d = current /\ v.seen = {current}
    BY <2>6, <2>7
  <2>10. ASSUME v.call = "plain_value" PROVE LookupExact(new)'
    <3>1. LookupExact(v)
      BY <2>2, <2>10 DEF CallExact
    <3>2. \A c \in v.seen : c \in new.seen
      BY <2>6
    <3>3. ASSUME new.seen = {d}, new.at = "search" PROVE PassedIn(new, d)
      BY <2>5, <2>9, <3>1, <3>3 DEF LookupExact, PassedIn
    <3>4. ASSUME new.seen = {d}, new.at = "done" PROVE new.result = Holds(d, new.key)
      BY <2>5, <2>9, <3>1, <3>4 DEF LookupExact
    <3>5. new.at \in {"search", "done"} =>
            \E c \in new.seen : <<c.nonce, c.capacity, Count(c)>> = <<new.nonce, new.capacity, new.used>>
      BY <2>5, <3>1, <3>2 DEF LookupExact
    <3>6. new.at = "done" => new.result = Empty \/ \E c \in new.seen : new.result = Holds(c, new.key)
      BY <2>5, <3>1, <3>2 DEF LookupExact
    <3> QED
      BY <2>5, <3>1, <3>3, <3>4, <3>5, <3>6 DEF LookupExact, PassedIn
  <2>11. CopyExact(new)'
    BY <2>6 DEF CopyExact
  <2>12. CallExact(new)'
    BY <2>2, <2>5, <2>6, <2>8, <2>10, <2>11 DEF CallExact
  <2> QED
    BY <2>1, <2>4, <2>12
<1>3. ASSUME NEW r \in Readers PROVE reader'[r] \in CallRecords
  BY <1>1, <1>2, <1>3 DEF Inductive, TypeOK
<1>4. reader' \in [Readers -> CallRecords]
  BY <1>3 DEF Met
<1>5. ASSUME NEW r \in Readers, Calls(r)' PROVE Calls(r)
  BY <1>1, <1>5 DEF Calls
<1> QED
  BY <1>2, <1>4, <1>5 DEF ReadersExact

(* A block is computed: every entry is still to be written. *)
LEMMA CommitStep ==
  ASSUME Inductive, NEW content \in Blocks, NEW first \in {"state", "trie"}, Commit(content, first)
  PROVE  Inductive'
<1>1. PICK old, left : old = current /\ left = Changes(current, content)
  OBVIOUS
<1>2. /\ writer.at = "none" /\ content # old /\ current' = old /\ commits' = commits + 1
      /\ writer' = [at |-> first, first |-> first, content |-> content, left |-> left, written |-> 0]
      /\ reader' = Met(old) /\ UNCHANGED <<kvs, used, trie, stateLock, trieLock>>
  BY <1>1 DEF Commit, store, locks
<1>3. old \in States /\ content \in States
  BY <1>1 DEF Inductive, TypeOK, States
<1>4. left \in SUBSET (SlotId \cup {MetaSlot}) /\ 0 \in 0 .. Len(Nodes)
  BY <1>1, ReadersAssumption DEF Changes
<1>5. writer' \in Writes
  BY <1>2, <1>3, <1>4 DEF Writes
<1>6. ReadersExact' /\ reader' \in [Readers -> CallRecords]
  BY <1>2, <1>3, MetKeepsReaders
<1>7. TypeOK'
  BY <1>1, <1>2, <1>5, <1>6 DEF Inductive, TypeOK
<1>8. ~ stateLock.writing /\ kvs = StoreOf(old) /\ used = Cardinality(Occupied(kvs.table))
  BY <1>1, <1>2 DEF Inductive, StateExact
<1>9. kvs.table = old.table /\ kvs.nonce = old.nonce /\ kvs.capacity = old.capacity
  BY <1>8 DEF StoreOf
<1>10. MetaSlot \notin SlotId
  BY CapacityAssumption DEF MetaSlot, SlotId
<1>11. \A s \in SlotId : s \notin left => old.table[s] = content.table[s]
  BY <1>1 DEF Changes
<1>12. MetaSlot \notin left => old.nonce = content.nonce /\ old.capacity = content.capacity
  <2>1. <<old.nonce, old.capacity>> # <<content.nonce, content.capacity>> => MetaSlot \in left
    BY <1>1 DEF Changes
  <2> QED
    BY <2>1
<1>13. StateExact'
  BY <1>2, <1>8, <1>9, <1>11, <1>12 DEF StateExact, ToWrite
<1>14. TrieExact'
  BY <1>2 DEF TrieExact
<1> QED
  BY <1>6, <1>7, <1>13, <1>14 DEF Inductive

LEMMA LockStateStep ==
  ASSUME Inductive, LockState
  PROVE  Inductive'
<1> USE DEF Inductive, LockState, store
<1>1. stateLock' \in Locks /\ stateLock'.writing
  BY DEF TypeOK, Locks
<1>2. TypeOK'
  BY <1>1 DEF TypeOK
<1>3. StateExact'
  BY <1>1 DEF StateExact, ToWrite
<1>4. TrieExact'
  BY DEF TrieExact
<1>5. ReadersExact'
  BY WriterKeepsReaders
<1> QED
  BY <1>2, <1>3, <1>4, <1>5

(* used_slots counts the slots: what update_state adds and takes off for   *)
(* one entry.                                                              *)
LEMMA CountAfterIs ==
  ASSUME NEW T \in Tables, NEW s \in SlotId, NEW e \in Entry \cup {Empty},
         used = Cardinality(Occupied(T))
  PROVE  CountAfter(T[s], e) = Cardinality(Occupied([T EXCEPT ![s] = e]))
<1>1. used \in Nat
  BY OccupiedFinite
<1>2. CASE e = Empty /\ T[s] = Empty
  <2>1. [T EXCEPT ![s] = e] = T
    BY <1>2 DEF Tables
  <2> QED
    BY <1>2, <2>1 DEF CountAfter
<1>3. CASE e = Empty /\ T[s] # Empty
  <2>1. Cardinality(Occupied([T EXCEPT ![s] = e])) = used - 1
    BY <1>3, ClearCardinality
  <2>2. used # 0
    <3>1. s \in Occupied(T) /\ IsFiniteSet(Occupied(T))
      BY <1>3, OccupiedFinite DEF Occupied
    <3> QED
      BY <3>1, FS_EmptySet
  <2> QED
    BY <1>1, <1>3, <2>1, <2>2 DEF CountAfter
<1>4. CASE e # Empty
  <2>1. Cardinality(Occupied([T EXCEPT ![s] = e])) = IF T[s] = Empty THEN used + 1 ELSE used
    BY <1>4, PutCardinality
  <2> QED
    BY <1>4, <2>1 DEF CountAfter
<1> QED
  BY <1>2, <1>3, <1>4

LEMMA ApplyEntryStep ==
  ASSUME Inductive, ApplyEntry
  PROVE  Inductive'
<1>1. PICK old, new, left : old = current /\ new = writer.content /\ left = writer.left
  OBVIOUS
<1>2. PICK s \in left :
        /\ \/ /\ s = MetaSlot
              /\ kvs' = [kvs EXCEPT !.nonce = new.nonce, !.capacity = new.capacity] /\ used' = used
           \/ /\ s # MetaSlot
              /\ kvs' = [kvs EXCEPT !.table[s] = new.table[s]]
              /\ used' = CountAfter(old.table[s], new.table[s])
        /\ writer' = [writer EXCEPT !.left = left \ {s}]
  BY <1>1 DEF ApplyEntry
<1>3. writer.at = "state" /\ stateLock.writing /\ UNCHANGED <<trie, stateLock, trieLock, commits, current, reader>>
  BY DEF ApplyEntry, locks
<1>4. /\ kvs \in Stores /\ writer \in Writes /\ old \in States /\ new \in States
      /\ left \in SUBSET (SlotId \cup {MetaSlot}) /\ used = Cardinality(Occupied(kvs.table))
  BY <1>1 DEF Inductive, TypeOK, Writes, StateExact
<1>5. /\ kvs.nonce \in {c.nonce : c \in States} /\ kvs.capacity \in 1 .. MaxCapacity /\ kvs.table \in Tables
      /\ kvs = [nonce |-> kvs.nonce, capacity |-> kvs.capacity, table |-> kvs.table]
  BY <1>4 DEF Stores
<1>6. /\ new # old /\ writer.first # "none"
      /\ \A t \in SlotId : kvs.table[t] = IF t \in left THEN old.table[t] ELSE new.table[t]
      /\ kvs.nonce = IF MetaSlot \in left THEN old.nonce ELSE new.nonce
      /\ kvs.capacity = IF MetaSlot \in left THEN old.capacity ELSE new.capacity
  BY <1>1, <1>3 DEF Inductive, StateExact, ToWrite
<1>7. /\ writer' \in Writes /\ writer'.at = "state" /\ writer'.first = writer.first /\ writer'.content = new
      /\ writer'.left = left \ {s} /\ writer'.written = writer.written
  BY <1>1, <1>2, <1>3, <1>4 DEF Writes
<1>8. PICK n, c, T : kvs' = [nonce |-> n, capacity |-> c, table |-> T] /\ n = kvs'.nonce /\ c = kvs'.capacity /\ T = kvs'.table
  <2>1. CASE s = MetaSlot
    BY <1>2, <1>5, <2>1
  <2>2. CASE s # MetaSlot
    BY <1>2, <1>5, <2>2
  <2> QED
    BY <2>1, <2>2
<1>9. /\ n \in {d.nonce : d \in States} /\ c \in 1 .. MaxCapacity /\ T \in Tables
      /\ used' = Cardinality(Occupied(T))
      /\ \A t \in SlotId : T[t] = IF t \in left \ {s} THEN old.table[t] ELSE new.table[t]
      /\ n = IF MetaSlot \in left \ {s} THEN old.nonce ELSE new.nonce
      /\ c = IF MetaSlot \in left \ {s} THEN old.capacity ELSE new.capacity
  <2>1. MetaSlot \notin SlotId
    BY CapacityAssumption DEF MetaSlot, SlotId
  <2>2. CASE s = MetaSlot
    <3>1. n = new.nonce /\ c = new.capacity /\ T = kvs.table /\ used' = used
      BY <1>2, <1>5, <1>8, <2>1, <2>2
    <3>2. new.capacity \in 1 .. MaxCapacity
      BY <1>4, ContentIs
    <3> QED
      BY <1>4, <1>5, <1>6, <2>1, <2>2, <3>1, <3>2
  <2>3. CASE s # MetaSlot
    <3>1. s \in SlotId
      BY <1>4, <2>3
    <3>2. n = kvs.nonce /\ c = kvs.capacity /\ T = [kvs.table EXCEPT ![s] = new.table[s]]
      BY <1>2, <1>5, <1>8, <2>3
    <3>3. new.table[s] \in Entry \cup {Empty}
      BY <1>4, <3>1, ContentIs DEF Tables
    <3>4. T \in Tables /\ T[s] = new.table[s] /\ \A t \in SlotId : t # s => T[t] = kvs.table[t]
      BY <1>5, <3>1, <3>2, <3>3 DEF Tables
    <3>5. kvs.table[s] = old.table[s] /\ used' = CountAfter(old.table[s], new.table[s])
      BY <1>2, <1>6, <2>3, <3>1
    <3>6. used' = Cardinality(Occupied(T))
      BY <1>4, <1>5, <3>1, <3>2, <3>3, <3>5, CountAfterIs
    <3>7. \A t \in SlotId : T[t] = IF t \in left \ {s} THEN old.table[t] ELSE new.table[t]
      BY <1>6, <3>4
    <3>8. MetaSlot \in left \ {s} <=> MetaSlot \in left
      BY <2>3
    <3> QED
      BY <1>5, <1>6, <3>2, <3>4, <3>6, <3>7, <3>8
  <2> QED
    BY <2>2, <2>3
<1>10. kvs' \in Stores /\ used' \in Nat
  BY <1>8, <1>9, OccupiedFinite DEF Stores
<1>11. TypeOK'
  BY <1>3, <1>7, <1>10 DEF Inductive, TypeOK
<1>12. StateExact'
  BY <1>1, <1>3, <1>6, <1>7, <1>8, <1>9 DEF StateExact, ToWrite
<1>13. TrieExact'
  BY <1>1, <1>3, <1>7 DEF Inductive, TrieExact
<1>14. ReadersExact'
  BY <1>3, WriterKeepsReaders
<1> QED
  BY <1>11, <1>12, <1>13, <1>14 DEF Inductive

LEMMA UnlockStateStep ==
  ASSUME Inductive, UnlockState
  PROVE  Inductive'
<1>1. PICK new, a : new = writer.content /\ a = After("state")
  OBVIOUS
<1>2. /\ writer.at = "state" /\ stateLock.writing /\ writer.left = {}
      /\ stateLock' = [stateLock EXCEPT !.writing = FALSE] /\ current' = new /\ reader' = Met(new)
      /\ writer' = [writer EXCEPT !.at = a] /\ UNCHANGED <<kvs, used, trie, trieLock, commits>>
  BY <1>1 DEF UnlockState, store
<1>3. /\ kvs \in Stores /\ writer \in Writes /\ new \in States /\ writer.first \in {"state", "trie"}
      /\ used = Cardinality(Occupied(kvs.table))
  BY <1>1, <1>2 DEF Inductive, TypeOK, Writes, StateExact
<1>4. a = IF writer.first = "state" THEN "trie" ELSE "end"
  BY <1>1 DEF After
<1>5. kvs = StoreOf(new)
  <2>1. /\ \A s \in SlotId : kvs.table[s] = new.table[s]
        /\ kvs.nonce = new.nonce /\ kvs.capacity = new.capacity
    BY <1>1, <1>2 DEF Inductive, StateExact, ToWrite
  <2>2. kvs.table \in Tables /\ new.table \in Tables
    BY <1>3, ContentIs DEF Stores
  <2>3. kvs.table = new.table
    BY <2>1, <2>2 DEF Tables
  <2> QED
    BY <1>3, <2>1, <2>3 DEF Stores, StoreOf
<1>6. stateLock' \in Locks /\ ~ stateLock'.writing
  BY <1>2 DEF Inductive, TypeOK, Locks
<1>7. /\ writer' \in Writes /\ writer'.at = a /\ writer'.first = writer.first /\ writer'.content = new
      /\ writer'.written = writer.written
  <2>1. a \in {"none", "state", "trie", "end"}
    BY <1>4
  <2> QED
    BY <1>1, <1>2, <1>3, <2>1 DEF Writes
<1>8. ReadersExact' /\ reader' \in [Readers -> CallRecords]
  BY <1>2, <1>3, MetKeepsReaders
<1>9. TypeOK'
  BY <1>2, <1>3, <1>6, <1>7, <1>8 DEF Inductive, TypeOK
<1>10. StateExact'
  BY <1>2, <1>3, <1>4, <1>5, <1>6, <1>7 DEF StateExact, ToWrite
<1>11. TrieExact'
  <2>1. writer.first = "trie" => \A n \in Range(Nodes) : trie[n] = new
    BY <1>1, <1>2 DEF Inductive, TrieExact
  <2>2. writer.first = "state" => writer.written = 0
    BY <1>2 DEF Inductive, TrieExact
  <2> QED
    BY <1>2, <1>3, <1>4, <1>7, <2>1, <2>2 DEF TrieExact
<1> QED
  BY <1>8, <1>9, <1>10, <1>11 DEF Inductive

LEMMA LockTrieStep ==
  ASSUME Inductive, LockTrie
  PROVE  Inductive'
<1> USE DEF Inductive, LockTrie, store
<1>1. trieLock' \in Locks
  BY DEF TypeOK, Locks
<1>2. TypeOK'
  BY <1>1 DEF TypeOK
<1>3. StateExact'
  BY DEF StateExact, ToWrite
<1>4. TrieExact'
  BY DEF TrieExact
<1>5. ReadersExact'
  BY WriterKeepsReaders
<1> QED
  BY <1>2, <1>3, <1>4, <1>5

LEMMA ApplyNodeStep ==
  ASSUME Inductive, ApplyNode
  PROVE  Inductive'
<1>1. PICK new, w : new = writer.content /\ w = writer.written
  OBVIOUS
<1>2. /\ writer.at = "trie" /\ w < Len(Nodes) /\ trie' = [trie EXCEPT ![Nodes[w + 1]] = new]
      /\ writer' = [writer EXCEPT !.written = w + 1]
      /\ UNCHANGED <<kvs, used, stateLock, trieLock, commits, current, reader>>
  BY <1>1 DEF ApplyNode, Inserted, locks
<1>3. trie \in Tries /\ writer \in Writes /\ new \in States /\ w \in 0 .. Len(Nodes)
  BY <1>1 DEF Inductive, TypeOK, Writes
<1>4. Len(Nodes) \in Nat /\ DOMAIN Nodes = 1 .. Len(Nodes)
  BY ReadersAssumption
<1>5. w + 1 \in 0 .. Len(Nodes) /\ \A i \in 1 .. Len(Nodes) : Nodes[i] \in Range(Nodes)
  BY <1>2, <1>3, <1>4 DEF Range
<1>6. trie' \in Tries /\ \A n \in Range(Nodes) : trie'[n] = IF n = Nodes[w + 1] THEN new ELSE trie[n]
  BY <1>2, <1>3 DEF Tries
<1>7. /\ writer' \in Writes /\ writer'.at = "trie" /\ writer'.first = writer.first /\ writer'.content = new
      /\ writer'.left = writer.left /\ writer'.written = w + 1
  BY <1>1, <1>2, <1>3, <1>5 DEF Writes
<1>8. TypeOK'
  BY <1>2, <1>6, <1>7 DEF Inductive, TypeOK
<1>9. StateExact'
  BY <1>1, <1>2, <1>7 DEF Inductive, StateExact, ToWrite
<1>10. ASSUME NEW i \in 1 .. w + 1 PROVE trie'[Nodes[i]] = new
  <2>1. i \in 1 .. Len(Nodes)
    BY <1>3, <1>4, <1>5
  <2>2. i # w + 1 => i \in 1 .. w
    BY <1>3, <1>4
  <2>3. \A j \in 1 .. w : trie[Nodes[j]] = new
    BY <1>1, <1>2 DEF Inductive, TrieExact
  <2> QED
    BY <1>5, <1>6, <2>1, <2>2, <2>3
<1>11. TrieExact'
  BY <1>7, <1>10 DEF TrieExact
<1>12. ReadersExact'
  BY <1>2, WriterKeepsReaders
<1> QED
  BY <1>8, <1>9, <1>11, <1>12 DEF Inductive

LEMMA UnlockTrieStep ==
  ASSUME Inductive, UnlockTrie
  PROVE  Inductive'
<1>1. PICK new, a : new = writer.content /\ a = After("trie")
  OBVIOUS
<1>2. /\ writer.at = "trie" /\ writer.written = Len(Nodes)
      /\ trieLock' = [trieLock EXCEPT !.writing = FALSE]
      /\ writer' = [writer EXCEPT !.at = a] /\ UNCHANGED <<kvs, used, trie, stateLock, commits, current, reader>>
  BY <1>1 DEF UnlockTrie, store
<1>3. writer \in Writes /\ writer.first \in {"state", "trie"} /\ new \in States
  BY <1>1, <1>2 DEF Inductive, TypeOK, Writes, StateExact
<1>4. a = IF writer.first = "trie" THEN "state" ELSE "end"
  BY <1>1 DEF After
<1>5. trieLock' \in Locks
  BY <1>2 DEF Inductive, TypeOK, Locks
<1>6. /\ writer' \in Writes /\ writer'.at = a /\ writer'.first = writer.first /\ writer'.content = new
      /\ writer'.left = writer.left /\ writer'.written = writer.written
  <2>1. a \in {"none", "state", "trie", "end"}
    BY <1>4
  <2> QED
    BY <1>1, <1>2, <1>3, <2>1 DEF Writes
<1>7. TypeOK'
  BY <1>2, <1>5, <1>6 DEF Inductive, TypeOK
<1>8. ~ stateLock.writing
  BY <1>2 DEF Inductive, StateExact
<1>9. StateExact'
  BY <1>1, <1>2, <1>3, <1>4, <1>6, <1>8 DEF Inductive, StateExact, ToWrite
<1>10. \A n \in Range(Nodes) : trie[n] = new
  <2>1. \A i \in 1 .. Len(Nodes) : trie[Nodes[i]] = new
    BY <1>1, <1>2 DEF Inductive, TrieExact
  <2>2. DOMAIN Nodes = 1 .. Len(Nodes)
    BY ReadersAssumption
  <2> QED
    BY <2>1, <2>2 DEF Range
<1>11. TrieExact'
  BY <1>2, <1>3, <1>4, <1>6, <1>10 DEF TrieExact
<1>12. ReadersExact'
  BY <1>2, WriterKeepsReaders
<1> QED
  BY <1>7, <1>9, <1>11, <1>12 DEF Inductive

LEMMA EndCommitStep ==
  ASSUME Inductive, EndCommit
  PROVE  Inductive'
<1>1. /\ writer.at = "end" /\ writer' = NoWrite
      /\ UNCHANGED <<kvs, used, trie, stateLock, trieLock, commits, current, reader>>
  BY DEF EndCommit, store, locks
<1>2. NoWrite \in Writes /\ NoWrite.at = "none"
  BY ReadersAssumption DEF NoWrite, Writes, States
<1>3. TypeOK'
  BY <1>1, <1>2 DEF Inductive, TypeOK
<1>4. ~ stateLock.writing /\ current = writer.content
  BY <1>1 DEF Inductive, StateExact, ToWrite
<1>5. StateExact'
  BY <1>1, <1>2, <1>4 DEF Inductive, StateExact, ToWrite
<1>6. TrieExact'
  BY <1>1, <1>2, <1>4 DEF Inductive, TrieExact
<1>7. ReadersExact'
  BY <1>1, WriterKeepsReaders
<1> QED
  BY <1>3, <1>5, <1>6, <1>7 DEF Inductive

-------------------------------------------------------------------------------
LEMMA InitInductive == Init => Inductive
<1> SUFFICES ASSUME Init PROVE Inductive
  OBVIOUS
<1> USE DEF Init
<1>1. Genesis \in States
  BY DEF States
<1>2. NoWrite \in Writes /\ NoWrite.at = "none"
  BY <1>1, ReadersAssumption DEF NoWrite, Writes
<1>3. Free \in Locks /\ ~ Free.writing
  BY DEF Free, Locks
<1>4. NoCall \in CallRecords /\ NoCall.call = "none"
  BY NoCallType DEF NoCall
<1>5. TypeOK
  BY <1>1, <1>2, <1>3, <1>4, StoreOfType DEF TypeOK, Tries
<1>6. Cardinality(Occupied(kvs.table)) = 0
  <2>1. kvs.table = EmptyTable
    BY DEF StoreOf, Genesis
  <2>2. Occupied(EmptyTable) = {}
    BY DEF Occupied, EmptyTable
  <2> QED
    BY <2>1, <2>2, FS_EmptySet
<1>7. StateExact
  BY <1>2, <1>3, <1>6 DEF StateExact, ToWrite
<1>8. TrieExact
  BY <1>2 DEF TrieExact
<1>9. ReadersExact
  BY <1>4 DEF ReadersExact, Calls
<1> QED
  BY <1>5, <1>7, <1>8, <1>9 DEF Inductive

LEMMA StepInductive == Inductive /\ [Next]_vars => Inductive'
<1> SUFFICES ASSUME Inductive, [Next]_vars PROVE Inductive'
  OBVIOUS
<1>1. ASSUME NEW r \in Readers, ReaderStep(r) PROVE Inductive'
  BY <1>1, ReaderStepKeeps
<1>2. CASE WriterStep
  BY <1>2, CommitStep, LockStateStep, ApplyEntryStep, UnlockStateStep, LockTrieStep, ApplyNodeStep,
     UnlockTrieStep, EndCommitStep DEF WriterStep
<1>3. CASE UNCHANGED vars
  BY <1>3 DEF vars, Inductive, TypeOK, StateExact, ToWrite, TrieExact, ReadersExact, Calls, CallExact,
              LookupExact, CopyExact, PassedIn
<1> QED
  BY <1>1, <1>2, <1>3 DEF Next

(* Between the locks of update_state and update_trie the store is exactly  *)
(* the content that was committed last: under the state lock every entry   *)
(* is the old or the new one, used_slots counts the slots at every step    *)
(* (saturating_sub never saturates), and each call that runs has of the    *)
(* store what it read of a state that it met.                              *)
THEOREM StoreInvariant == Spec => []Inductive
BY InitInductive, StepInductive, PTL DEF Spec

(* plain_value takes a lock for each slot that shi_search looks at: without *)
(* an update in between it answers as the state does, absent keys included, *)
(* and with updates it may miss a key but never makes a value up.  For any  *)
(* number of readers, keys and commits.                                     *)
THEOREM LookupsAnswer == Spec => []LookupAnswers
<1>1. Inductive => LookupAnswers
  <2> SUFFICES ASSUME Inductive, NEW r \in Readers, Looked(r), NEW v, v = reader[r]
               PROVE  \/ \E c \in v.seen : v.result = Holds(c, v.key)
                      \/ v.result = Empty /\ Cardinality(v.seen) > 1
    BY DEF LookupAnswers
  <2>1. CallExact(v) /\ LookupExact(v) /\ v.at = "done"
    BY DEF Inductive, ReadersExact, Calls, CallExact, Looked
  <2>2. current \in v.seen /\ IsFiniteSet(v.seen)
    BY <2>1 DEF CallExact
  <2>3. CASE v.seen = {current}
    BY <2>1, <2>3 DEF LookupExact
  <2>4. CASE v.seen # {current}
    <3>1. PICK d \in v.seen : d # current
      BY <2>2, <2>4
    <3>2. Cardinality({current, d}) = 2 /\ Cardinality({current, d}) <= Cardinality(v.seen)
      <4>1. IsFiniteSet({current}) /\ Cardinality({current}) = 1 /\ {current} \cup {d} = {current, d}
        BY FS_Singleton
      <4>2. Cardinality({current} \cup {d}) = 1 + 1
        BY <3>1, <4>1, FS_AddElement
      <4>3. Cardinality({current, d}) = 2
        BY <4>1, <4>2
      <4> QED
        BY <2>2, <3>1, <4>3, FS_Subset
    <3>3. Cardinality(v.seen) \in Nat
      BY <2>2, FS_CardinalityType
    <3>4. Cardinality(v.seen) > 1
      BY <3>2, <3>3
    <3> QED
      BY <2>1, <3>4 DEF LookupExact
  <2> QED
    BY <2>3, <2>4
<1> QED
  BY <1>1, StoreInvariant, PTL

(* metadata, bucket_used_slots, clone, fmt and SaltProof::create read one  *)
(* state: the count that MemStore keeps is that of a scan, and a copy or a *)
(* proof that no commit met has the trie of its state.                     *)
THEOREM ReadsAreOfOneState == Spec => []ReadsOfOneState
<1>1. Inductive => ReadsOfOneState
  <2> SUFFICES ASSUME Inductive, NEW r \in Readers, NEW v, v = reader[r]
               PROVE  /\ v.call = "plain_value" /\ v.at # "metadata" =>
                           \E c \in v.seen : <<c.nonce, c.capacity, Count(c)>> = <<v.nonce, v.capacity, v.used>>
                      /\ v.call = "bucket_used_slots" => v.slots = v.used
                      /\ v.call \in {"clone", "fmt", "create"} /\ v.at = "done" /\ ~ v.overlap =>
                           \E c \in v.seen : v.state = StoreOf(c) /\ \A n \in Range(Nodes) : v.trie[n] = c
    BY DEF ReadsOfOneState
  <2>1. v.call # "none" => CallExact(v)
    BY DEF Inductive, ReadersExact, Calls
  <2>2. v.call = "plain_value" => LookupExact(v) /\ v.at \in {"metadata", "search", "done"}
    BY <2>1 DEF CallExact
  <2>3. v.call \in {"clone", "fmt", "create"} => CopyExact(v) /\ current \in v.seen
    BY <2>1 DEF CallExact
  <2>4. v.call = "bucket_used_slots" => v.slots = v.used
    BY <2>1 DEF CallExact
  <2> QED
    BY <2>2, <2>3, <2>4 DEF LookupExact, CopyExact
<1> QED
  BY <1>1, StoreInvariant, PTL
===============================================================================
