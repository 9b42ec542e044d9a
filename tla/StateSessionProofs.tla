-------------------------- MODULE StateSessionProofs --------------------------
(***************************************************************************)
(* The invariant of StateSession, for every number of slots, every set of  *)
(* entries and metadata, and every length of calls and of the log.         *)
(***************************************************************************)
EXTENDS StateSession, FiniteSetTheorems, TLAPS

(* A HashMap with keys of the bucket. *)
LEMMA MapsMember ==
  ASSUME NEW S, NEW f
  PROVE  f \in Maps(S) <=> DOMAIN f \subseteq Keys /\ f \in [DOMAIN f -> S]
  BY DEF Maps

(* Absent metadata and the default are the same, and neither is None. *)
LEMMA AsMetaFacts ==
  /\ DefaultMeta # None
  /\ \A v : AsMeta(v) # None /\ AsMeta(AsMeta(v)) = AsMeta(v) /\ AsMeta(AsCached(AsMeta(v))) = AsMeta(v)
  /\ \A v : v # None => AsMeta(v) = v
  /\ \A v \in Val : AsMeta(v) \in Val /\ AsCached(v) \in Val
  /\ \A m \in Metas : m \in Val /\ m # None
  /\ None \in Val /\ Entries \subseteq Val /\ Meta \in Keys /\ Slots \subseteq Keys /\ Meta \notin Slots
  BY SessionAssumption DEF AsMeta, AsCached, Val, Keys

(* HashMap::extend. *)
LEMMA OverFacts ==
  ASSUME NEW f, NEW g
  PROVE  /\ DOMAIN Over(f, g) = DOMAIN f \cup DOMAIN g
         /\ \A k \in DOMAIN f : Over(f, g)[k] = f[k]
         /\ \A k \in DOMAIN g \ DOMAIN f : Over(f, g)[k] = g[k]
  BY DEF Over

(* Extending a HashMap keeps its type. *)
LEMMA OverType ==
  ASSUME NEW S, NEW f \in Maps(S), NEW g \in Maps(S)
  PROVE  Over(f, g) \in Maps(S)
<1>1. DOMAIN f \subseteq Keys /\ DOMAIN g \subseteq Keys /\ f \in [DOMAIN f -> S] /\ g \in [DOMAIN g -> S]
  BY MapsMember
<1>2. Over(f, g) \in [DOMAIN f \cup DOMAIN g -> S] /\ DOMAIN f \cup DOMAIN g \in SUBSET Keys
  BY <1>1 DEF Over
<1> QED
  BY <1>2 DEF Maps

(* The old value of the first and the new value of the last of two changes. *)
Joined(su, changes, k) ==
  [old |-> IF k \in DOMAIN su THEN su[k].old ELSE changes[k].old,
   new |-> IF k \in DOMAIN changes THEN changes[k].new ELSE su[k].new]

(* Which keys StateUpdates::try_add keeps, and with which values. *)
LEMMA AddAllFacts ==
  ASSUME NEW su, NEW changes
  PROVE  /\ \A k : k \in DOMAIN AddAll(su, changes) <=>
                     /\ k \in DOMAIN su \cup DOMAIN changes
                     /\ k \in DOMAIN changes => Joined(su, changes, k).old # Joined(su, changes, k).new
         /\ \A k \in DOMAIN AddAll(su, changes) : AddAll(su, changes)[k] = Joined(su, changes, k)
  BY DEF AddAll, Joined

(* StateUpdates::try_add keeps its type. *)
LEMMA AddAllType ==
  ASSUME NEW su \in Updates, NEW changes \in Updates
  PROVE  AddAll(su, changes) \in Updates
<1> DEFINE R == [old : Val, new : Val]
           D == DOMAIN AddAll(su, changes)
<1>1. /\ DOMAIN su \subseteq Keys /\ su \in [DOMAIN su -> R]
      /\ DOMAIN changes \subseteq Keys /\ changes \in [DOMAIN changes -> R]
  BY MapsMember DEF Updates
<1>2. D \subseteq Keys
  BY <1>1, AddAllFacts
<1>3. ASSUME NEW k \in D PROVE AddAll(su, changes)[k] \in R
  <2>1. k \in DOMAIN su \cup DOMAIN changes /\ AddAll(su, changes)[k] = Joined(su, changes, k)
    BY AddAllFacts
  <2>2. /\ k \in DOMAIN su => su[k].old \in Val /\ su[k].new \in Val
        /\ k \in DOMAIN changes => changes[k].old \in Val /\ changes[k].new \in Val
    BY <1>1
  <2> QED
    BY <2>1, <2>2 DEF Joined
<1>4. AddAll(su, changes) = [k \in D |-> AddAll(su, changes)[k]]
  BY DEF AddAll
<1> HIDE DEF D, R
<1>5. AddAll(su, changes) \in [D -> R]
  BY <1>3, <1>4
<1> QED
  BY <1>2, <1>5, MapsMember DEF Updates, R, D

(* The heart of StateUpdates::merge: updates from a to b, joined with      *)
(* changes from b to c, are the difference between a and c.                *)
LEMMA Compose ==
  ASSUME NEW a, NEW b, NEW c, NEW su, NEW changes, IsDifference(su, a, b), Leads(changes, b, c)
  PROVE  IsDifference(AddAll(su, changes), a, c)
<1> DEFINE r == AddAll(su, changes)
<1>1. /\ DOMAIN su \subseteq Keys /\ DOMAIN changes \subseteq Keys
      /\ \A k \in DOMAIN su : su[k].old = a[k] /\ su[k].new = b[k] /\ su[k].old # su[k].new
      /\ \A k \in Keys \ DOMAIN su : a[k] = b[k]
      /\ \A k \in DOMAIN changes : changes[k].old = b[k] /\ changes[k].new = c[k]
      /\ \A k \in Keys \ DOMAIN changes : b[k] = c[k]
  BY DEF IsDifference, Leads
<1>2. ASSUME NEW k \in DOMAIN su \cup DOMAIN changes
      PROVE  Joined(su, changes, k).old = a[k] /\ Joined(su, changes, k).new = c[k]
  BY <1>1 DEF Joined
<1>3. \A k : k \in DOMAIN r <=> /\ k \in DOMAIN su \cup DOMAIN changes
                                /\ k \in DOMAIN changes => Joined(su, changes, k).old # Joined(su, changes, k).new
  BY AddAllFacts
<1>4. \A k \in DOMAIN r : r[k] = Joined(su, changes, k)
  BY AddAllFacts
<1> HIDE DEF r
<1>5. DOMAIN r \subseteq Keys
  BY <1>1, <1>3
<1>6. ASSUME NEW k \in DOMAIN r PROVE r[k].old = a[k] /\ r[k].new = c[k] /\ r[k].old # r[k].new
  <2>1. k \in DOMAIN su \cup DOMAIN changes /\ r[k].old = a[k] /\ r[k].new = c[k]
    BY <1>2, <1>3, <1>4
  <2>2. a[k] # c[k]
    BY <1>1, <1>2, <1>3, <2>1
  <2> QED
    BY <2>1, <2>2
<1>7. ASSUME NEW k \in Keys \ DOMAIN r PROVE a[k] = c[k]
  BY <1>1, <1>2, <1>3
<1> QED
  BY <1>5, <1>6, <1>7 DEF IsDifference, Leads, r

(* No change at all. *)
LEMMA NoDifference ==
  ASSUME NEW a PROVE IsDifference(Empty, a, a) /\ Empty \in Updates /\ Empty \in Maps(Val) /\ DOMAIN Empty = {}
<1>1. DOMAIN Empty = {}
  BY DEF Empty
<1>2. \A S : Empty \in [{} -> S]
  BY DEF Empty
<1>3. {} \in SUBSET Keys
  OBVIOUS
<1>4. \A S : Empty \in Maps(S)
  BY <1>2, <1>3 DEF Maps
<1> QED
  BY <1>1, <1>4 DEF IsDifference, Leads, Updates

(* A single change. *)
LEMMA ChangeLeads ==
  ASSUME NEW k \in Keys, NEW a, NEW b, \A j \in Keys : j # k => a[j] = b[j]
  PROVE  Leads(Change(k, a[k], b[k]), a, b)
  BY DEF Leads, Change

(* A single change is a StateUpdates. *)
LEMMA ChangeType ==
  ASSUME NEW k \in Keys, NEW x \in Val, NEW y \in Val
  PROVE  Change(k, x, y) \in Updates
<1>1. Change(k, x, y) \in [{k} -> [old : Val, new : Val]] /\ {k} \in SUBSET Keys
  BY DEF Change
<1> QED
  BY <1>1 DEF Updates, Maps
-------------------------------------------------------------------------------
(* What the calls of a session read and write *)

(* EphemeralSaltState::value: a cache c over the entries e. *)
Reads(c, e) == [k \in Keys |-> IF k \in DOMAIN c THEN c[k] ELSE e[k]]

(* The entries e after the updates su. *)
Applied(su, e) == [k \in Keys |-> IF k \in DOMAIN su THEN su[k].new ELSE e[k]]

(* The reads of the session and the entries after its calls, in these terms. *)
LEMMA ViewIs ==
  /\ View = Reads(cache, kvs) /\ View' = Reads(cache', kvs')
  /\ \A k \in Keys : value(k) = Reads(cache, kvs)[k]
  /\ metadata = AsMeta(Reads(cache, kvs)[Meta])
  /\ AfterCalls = Applied(pending, Normal(kvs)) /\ AfterCalls' = Applied(pending', Normal(kvs'))
<1>1. View = Reads(cache, kvs) /\ View' = Reads(cache', kvs') /\ \A k \in Keys : value(k) = Reads(cache, kvs)[k]
  BY DEF View, value, Reads
<1>2. metadata = AsMeta(Reads(cache, kvs)[Meta])
  BY <1>1, AsMetaFacts DEF metadata
<1>3. AfterCalls = Applied(pending, Normal(kvs)) /\ AfterCalls' = Applied(pending', Normal(kvs'))
  BY DEF AfterCalls, Applied
<1> QED
  BY <1>1, <1>2, <1>3

(* Normal only looks at the metadata. *)
LEMMA NormalFacts ==
  ASSUME NEW e
  PROVE  /\ \A s \in Slots : Normal(e)[s] = e[s]
         /\ Normal(e)[Meta] = AsMeta(e[Meta]) /\ Normal(e)[Meta] # None
         /\ Occupied(Normal(e)) = Occupied(e)
         /\ Normal(e) = [k \in Keys |-> Normal(e)[k]]
<1>1. \A s \in Slots : s \in Keys /\ s # Meta
  BY AsMetaFacts
<1> QED
  BY <1>1, AsMetaFacts DEF Normal, Occupied

(* Two sets of entries that agree on the slots and on the metadata. *)
LEMMA NormalEqual ==
  ASSUME NEW e, NEW f, \A s \in Slots : e[s] = f[s], AsMeta(e[Meta]) = AsMeta(f[Meta])
  PROVE  Normal(e) = Normal(f)
  BY DEF Normal, Keys

(* What the session reads has the types of entries. *)
LEMMA ReadsType ==
  ASSUME NEW c \in Maps(Val), NEW e \in [Keys -> Val] PROVE Reads(c, e) \in [Keys -> Val]
<1>1. c \in [DOMAIN c -> Val]
  BY MapsMember
<1> QED
  BY <1>1 DEF Reads

(* A read that enters the cache does not change what is read later. *)
LEMMA ReadExact ==
  ASSUME TypeOK, NEW k \in Keys, Read(k)
  PROVE  Normal(View') = Normal(View) /\ cache' \in Maps(Val)
<1>1. /\ kvs' = kvs /\ k \notin DOMAIN cache
      /\ cache' = Over([j \in {k} |-> IF k = Meta THEN AsCached(metadata) ELSE kvs[k]], cache)
  BY DEF Read, store
<1> DEFINE r == IF k = Meta THEN AsCached(metadata) ELSE kvs[k]
           f == [j \in {k} |-> r]
<1>2. DOMAIN f = {k} /\ f[k] = r
  OBVIOUS
<1>3. cache' = Over(f, cache)
  BY <1>1
<1>4. metadata = AsMeta(kvs[Meta]) \/ k # Meta
  BY <1>1, ViewIs, AsMetaFacts DEF Reads
<1>5. r \in Val
  <2>1. kvs[k] \in Val /\ kvs[Meta] \in Val
    BY AsMetaFacts DEF TypeOK
  <2> QED
    BY <1>4, <2>1, AsMetaFacts
<1>6. f \in Maps(Val)
  BY <1>2, <1>5, MapsMember
<1> HIDE DEF f
<1>7. /\ DOMAIN cache' = {k} \cup DOMAIN cache /\ cache'[k] = r
      /\ \A j \in DOMAIN cache : cache'[j] = cache[j]
  <2>1. k \notin DOMAIN cache
    BY <1>1
  <2>2. /\ DOMAIN Over(f, cache) = DOMAIN f \cup DOMAIN cache
        /\ \A j \in DOMAIN f : Over(f, cache)[j] = f[j]
        /\ \A j \in DOMAIN cache \ DOMAIN f : Over(f, cache)[j] = cache[j]
    BY OverFacts
  <2> HIDE DEF r
  <2>3. DOMAIN cache' = {k} \cup DOMAIN cache
    BY <1>2, <1>3, <2>2
  <2>4. cache'[k] = r
    BY <1>2, <1>3, <2>2
  <2> QED
    BY <1>2, <1>3, <2>1, <2>2, <2>3, <2>4
<1>8. \A s \in Slots : Reads(cache', kvs)[s] = Reads(cache, kvs)[s]
  BY <1>1, <1>7, AsMetaFacts DEF Reads
<1>9. AsMeta(Reads(cache', kvs)[Meta]) = AsMeta(Reads(cache, kvs)[Meta])
  <2>1. CASE k = Meta
    <3>1. Reads(cache', kvs)[Meta] = AsCached(AsMeta(kvs[Meta])) /\ Reads(cache, kvs)[Meta] = kvs[Meta]
      BY <1>1, <1>4, <1>7, <2>1, AsMetaFacts DEF Reads
    <3> QED
      BY <3>1, AsMetaFacts
  <2>2. CASE k # Meta
    BY <1>7, <2>2, AsMetaFacts DEF Reads
  <2> QED
    BY <2>1, <2>2
<1>10. Normal(View') = Normal(View)
  BY <1>1, <1>8, <1>9, ViewIs, NormalEqual
<1>11. cache' \in Maps(Val)
  BY <1>3, <1>6, OverType DEF TypeOK
<1> QED
  BY <1>10, <1>11

(* update_value keeps the cache, the updates and the count in step. *)
LEMMA WriteExact ==
  ASSUME Inductive, NEW s \in Slots, NEW v \in Entries \cup {None}, Write(s, v)
  PROVE  /\ cache' \in Maps(Val) /\ out' \in Updates /\ delta' \in Int
         /\ IsDifference(out', AfterCalls, Normal(View'))
         /\ ~ stale => used + delta' = Cardinality(Occupied(View'))
<1>1. /\ kvs' = kvs /\ value(s) # v /\ out' = AddAll(out, Change(s, value(s), v))
      /\ cache' = Over([j \in {s} |-> v], cache)
      /\ delta' = delta + (IF v # None THEN 1 ELSE 0) - (IF value(s) # None THEN 1 ELSE 0)
  BY DEF Write, UpdateValue, store, Add
<1>2. TypeOK /\ s \in Keys /\ s # Meta /\ v \in Val /\ cache \in Maps(Val) /\ kvs \in [Keys -> Val]
  BY AsMetaFacts DEF Inductive, TypeOK
<1>3. View' = [View EXCEPT ![s] = v]
  <2>1. /\ DOMAIN cache' = {s} \cup DOMAIN cache /\ cache'[s] = v
        /\ \A j \in DOMAIN cache : j # s => cache'[j] = cache[j]
    <3> DEFINE f == [j \in {s} |-> v]
    <3>1. DOMAIN f = {s} /\ f[s] = v
      OBVIOUS
    <3>2. cache' = Over(f, cache)
      BY <1>1
    <3> HIDE DEF f
    <3>3. /\ DOMAIN Over(f, cache) = DOMAIN f \cup DOMAIN cache
          /\ \A k \in DOMAIN f : Over(f, cache)[k] = f[k]
          /\ \A k \in DOMAIN cache \ DOMAIN f : Over(f, cache)[k] = cache[k]
      BY OverFacts
    <3>4. DOMAIN cache' = {s} \cup DOMAIN cache
      BY <3>1, <3>2, <3>3
    <3>5. cache'[s] = v
      BY <3>1, <3>2, <3>3
    <3> QED
      BY <3>1, <3>2, <3>3, <3>4, <3>5
  <2>2. Reads(cache', kvs) = [Reads(cache, kvs) EXCEPT ![s] = v]
    BY <1>2, <2>1 DEF Reads
  <2> QED
    BY <1>1, <2>2, ViewIs
<1>4. View \in [Keys -> Val] /\ value(s) = View[s]
  BY <1>2, ViewIs, ReadsType
<1>5. cache' \in Maps(Val)
  <2>1. [j \in {s} |-> v] \in Maps(Val)
    BY <1>2, MapsMember
  <2> QED
    BY <1>1, <1>2, <2>1, OverType
<1>6. out' \in Updates
  <2>1. Change(s, value(s), v) \in Updates
    BY <1>2, <1>4, ChangeType
  <2> QED
    BY <1>1, <1>2, <2>1, AddAllType DEF TypeOK
<1>7. IsDifference(out', AfterCalls, Normal(View'))
  <2>1. Normal(View)[s] = value(s) /\ Normal(View')[s] = v
    BY <1>2, <1>3, <1>4, NormalFacts
  <2>2. \A j \in Keys : j # s => Normal(View)[j] = Normal(View')[j]
    BY <1>3, <1>4 DEF Normal
  <2>3. Leads(Change(s, value(s), v), Normal(View), Normal(View'))
    BY <1>2, <2>1, <2>2, ChangeLeads
  <2>4. IsDifference(out, AfterCalls, Normal(View))
    BY DEF Inductive, SessionExact
  <2> QED
    BY <1>1, <2>3, <2>4, Compose
<1>8. delta' \in Int
  BY <1>1, <1>2 DEF TypeOK
<1>9. ASSUME ~ stale PROVE used + delta' = Cardinality(Occupied(View'))
  <2>1. used + delta = Cardinality(Occupied(View)) /\ used \in Nat /\ delta \in Int
    BY <1>9 DEF Inductive, CountsExact, usage_count, TypeOK
  <2>2. IsFiniteSet(Occupied(View)) /\ Cardinality(Occupied(View)) \in Nat
    BY SessionAssumption, FS_Subset, FS_CardinalityType DEF Occupied
  <2>3. Occupied(View') = IF v # None THEN Occupied(View) \cup {s} ELSE Occupied(View) \ {s}
    BY <1>3, <1>4, <1>2, AsMetaFacts DEF Occupied
  <2>4. s \in Occupied(View) <=> value(s) # None
    BY <1>4 DEF Occupied
  <2>5. CASE v # None
    <3>1. Cardinality(Occupied(View) \cup {s}) = IF s \in Occupied(View) THEN Cardinality(Occupied(View)) ELSE Cardinality(Occupied(View)) + 1
      BY <2>2, FS_AddElement
    <3> QED
      BY <1>1, <2>1, <2>2, <2>3, <2>4, <2>5, <3>1
  <2>6. CASE v = None
    <3>1. Cardinality(Occupied(View) \ {s}) = IF s \in Occupied(View) THEN Cardinality(Occupied(View)) - 1 ELSE Cardinality(Occupied(View))
      BY <2>2, FS_RemoveElement
    <3> QED
      BY <1>1, <2>1, <2>2, <2>3, <2>4, <2>6, <3>1
  <2> QED
    BY <2>5, <2>6
<1> QED
  BY <1>5, <1>6, <1>7, <1>8, <1>9
(* One cache over another. *)
LEMMA ReadsOver ==
  ASSUME NEW f, NEW g, NEW e PROVE Reads(Over(f, g), e) = Reads(f, Reads(g, e))
<1>1. /\ DOMAIN Over(f, g) = DOMAIN f \cup DOMAIN g
      /\ \A k \in DOMAIN f : Over(f, g)[k] = f[k]
      /\ \A k \in DOMAIN g \ DOMAIN f : Over(f, g)[k] = g[k]
  BY OverFacts
<1>2. ASSUME NEW k \in Keys
      PROVE  (IF k \in DOMAIN Over(f, g) THEN Over(f, g)[k] ELSE e[k])
               = (IF k \in DOMAIN f THEN f[k] ELSE IF k \in DOMAIN g THEN g[k] ELSE e[k])
  BY <1>1
<1> QED
  BY <1>2 DEF Reads

(* Reading everything into the cache does not change what is read. *)
LEMMA FetchedFacts ==
  ASSUME TypeOK
  PROVE  /\ Fetched \in Maps(Val)
         /\ \A s \in Slots : Reads(Fetched, kvs)[s] = value(s)
         /\ AsMeta(Reads(Fetched, kvs)[Meta]) = metadata
<1>1. View \in [Keys -> Val] /\ \A k \in Keys : value(k) = View[k]
  BY ViewIs, ReadsType DEF TypeOK
<1>2. metadata = AsMeta(value(Meta)) /\ value(Meta) \in Val
  BY <1>1, AsMetaFacts DEF metadata
<1>3. CASE cacheRead
  <2> DEFINE F == [k \in Keys |-> IF k = Meta THEN AsCached(metadata) ELSE value(k)]
  <2>1. Fetched = F
    BY <1>3 DEF Fetched
  <2>2. AsCached(metadata) \in Val
    BY <1>2, AsMetaFacts
  <2>3. F \in [Keys -> Val]
    BY <1>1, <2>2
  <2>4. F \in Maps(Val)
    BY <2>3 DEF Maps
  <2>5. \A s \in Slots : Reads(F, kvs)[s] = value(s)
    BY AsMetaFacts DEF Reads
  <2>6. Reads(F, kvs)[Meta] = AsCached(metadata)
    BY AsMetaFacts DEF Reads
  <2> QED
    BY <1>2, <2>1, <2>4, <2>5, <2>6, AsMetaFacts
<1>4. CASE ~ cacheRead
  BY <1>4, ViewIs, AsMetaFacts DEF Fetched, TypeOK
<1> QED
  BY <1>3, <1>4

(* Two runs of changes: first slots, then the metadata. *)
LEMMA SlotsThenMeta ==
  ASSUME NEW a, NEW b, NEW c, NEW su \in Updates, IsDifference(su, a, b),
         NEW changes \in Updates, DOMAIN changes \subseteq Slots,
         \A s \in DOMAIN changes : changes[s].old = b[s] /\ changes[s].new = c[s],
         \A s \in Slots \ DOMAIN changes : b[s] = c[s],
         b[Meta] \in Val, c[Meta] \in Val
  PROVE  /\ Add(AddAll(su, changes), Meta, b[Meta], c[Meta]) \in Updates
         /\ IsDifference(Add(AddAll(su, changes), Meta, b[Meta], c[Meta]), a, c)
<1> DEFINE d == [k \in Keys |-> IF k = Meta THEN b[Meta] ELSE c[k]]
<1>1. Leads(changes, b, d)
  BY AsMetaFacts DEF Leads, Keys
<1>2. IsDifference(AddAll(su, changes), a, d)
  BY <1>1, Compose
<1>3. Leads(Change(Meta, b[Meta], c[Meta]), d, c)
  <2>1. d[Meta] = b[Meta] /\ \A j \in Keys : j # Meta => d[j] = c[j]
    BY AsMetaFacts
  <2> HIDE DEF d
  <2> QED
    BY <2>1, ChangeLeads, AsMetaFacts
<1>4. IsDifference(AddAll(AddAll(su, changes), Change(Meta, b[Meta], c[Meta])), a, c)
  BY <1>2, <1>3, Compose
<1>5. AddAll(su, changes) \in Updates /\ Change(Meta, b[Meta], c[Meta]) \in Updates
  BY AddAllType, ChangeType, AsMetaFacts
<1> QED
  BY <1>4, <1>5, AddAllType DEF Add

(* shi_rehash records its moves, and neither adds nor loses an entry. *)
LEMMA RehashExact ==
  ASSUME Inductive, NEW move \in Bijection(Slots, Slots), NEW m \in Metas, Rehash(move, m)
  PROVE  /\ cache' \in Maps(Val) /\ out' \in Updates
         /\ IsDifference(out', AfterCalls, Normal(View'))
         /\ Cardinality(Occupied(View')) = Cardinality(Occupied(View))
<1> DEFINE changed == {s \in Slots : value(move[s]) # value(s)}
           moved == [s \in changed |-> [old |-> value(s), new |-> value(move[s])]]
           written == IF metadata = m THEN Empty ELSE [k \in {Meta} |-> m]
           mc == [s \in changed |-> value(move[s])]
<1>1. /\ kvs' = kvs /\ out' = Add(AddAll(out, moved), Meta, metadata, m)
      /\ cache' = Over(written, Over(mc, Fetched))
  BY DEF Rehash, store
<1>2. TypeOK /\ cache \in Maps(Val) /\ kvs \in [Keys -> Val] /\ out \in Updates
  BY DEF Inductive, TypeOK
<1>3. View \in [Keys -> Val] /\ \A k \in Keys : value(k) = View[k]
  BY <1>2, ViewIs, ReadsType
<1>4. \A s \in Slots : move[s] \in Slots /\ move[s] \in Keys /\ s \in Keys
  BY AsMetaFacts DEF Bijection, Injection
<1>5. metadata \in Val /\ metadata = Normal(View)[Meta] /\ m \in Val /\ m # None
  BY <1>3, NormalFacts, AsMetaFacts DEF metadata
<1>6. cache' \in Maps(Val)
  <2>1. mc \in [changed -> Val] /\ changed \in SUBSET Keys
    BY <1>3, <1>4
  <2>2. mc \in Maps(Val)
    BY <2>1 DEF Maps
  <2>3. [k \in {Meta} |-> m] \in [{Meta} -> Val] /\ {Meta} \in SUBSET Keys
    BY <1>5, AsMetaFacts
  <2>4. written \in Maps(Val)
    BY <2>3, NoDifference DEF Maps
  <2> HIDE DEF mc, written
  <2> QED
    BY <1>1, <1>2, <2>2, <2>4, OverType, FetchedFacts
<1>7. View' = Reads(written, Reads(mc, Reads(Fetched, kvs)))
  <2> HIDE DEF mc, written
  <2>1. Reads(Over(written, Over(mc, Fetched)), kvs) = Reads(written, Reads(Over(mc, Fetched), kvs))
    BY ReadsOver
  <2>2. Reads(Over(mc, Fetched), kvs) = Reads(mc, Reads(Fetched, kvs))
    BY ReadsOver
  <2> QED
    BY <1>1, <2>1, <2>2, ViewIs
<1>8. \A s \in Slots : View'[s] = value(move[s])
  <2>1. \A s \in Slots : s \notin DOMAIN written /\ (s \in DOMAIN mc <=> s \in changed)
    BY NoDifference, AsMetaFacts
  <2>2. \A s \in changed : mc[s] = value(move[s])
    OBVIOUS
  <2> HIDE DEF mc, written
  <2>3. \A s \in Slots : s \in changed \/ value(move[s]) = value(s)
    OBVIOUS
  <2> HIDE DEF changed
  <2>4. ASSUME NEW s \in Slots PROVE View'[s] = IF s \in changed THEN mc[s] ELSE Reads(Fetched, kvs)[s]
    BY <1>4, <1>7, <2>1 DEF Reads
  <2> QED
    BY <1>2, <2>2, <2>3, <2>4, FetchedFacts
<1>9. Normal(View')[Meta] = m
  <2>1. Meta \notin DOMAIN mc
    BY AsMetaFacts
  <2>2. View'[Meta] = IF Meta \in DOMAIN written THEN written[Meta] ELSE Reads(Fetched, kvs)[Meta]
    <3> HIDE DEF mc, written
    <3> QED
      BY <1>7, <2>1, AsMetaFacts DEF Reads
  <2>3. CASE metadata = m
    <3>1. Meta \notin DOMAIN written
      BY <2>3, NoDifference
    <3> HIDE DEF written
    <3> QED
      BY <1>2, <2>2, <2>3, <3>1, FetchedFacts, NormalFacts
  <2>4. CASE metadata # m
    <3>1. Meta \in DOMAIN written /\ written[Meta] = m
      BY <2>4
    <3> HIDE DEF written
    <3> QED
      BY <1>5, <2>2, <3>1, AsMetaFacts, NormalFacts
  <2> QED
    BY <2>3, <2>4
<1>10. /\ out' \in Updates
       /\ IsDifference(out', AfterCalls, Normal(View'))
  <2>1. moved \in Updates
    <3>1. moved \in [changed -> [old : Val, new : Val]] /\ changed \in SUBSET Keys
      BY <1>3, <1>4
    <3> QED
      BY <3>1 DEF Updates, Maps
  <2>2. /\ DOMAIN moved \subseteq Slots
        /\ \A s \in DOMAIN moved : moved[s].old = value(s) /\ moved[s].new = value(move[s])
        /\ \A s \in Slots \ DOMAIN moved : value(s) = value(move[s])
    OBVIOUS
  <2>3. \A s \in Slots : Normal(View)[s] = value(s) /\ Normal(View')[s] = value(move[s])
    BY <1>3, <1>4, <1>8, NormalFacts
  <2>4. IsDifference(out, AfterCalls, Normal(View))
    BY DEF Inductive, SessionExact
  <2> HIDE DEF moved
  <2>5. /\ Add(AddAll(out, moved), Meta, Normal(View)[Meta], Normal(View')[Meta]) \in Updates
        /\ IsDifference(Add(AddAll(out, moved), Meta, Normal(View)[Meta], Normal(View')[Meta]),
                        AfterCalls, Normal(View'))
    BY <1>2, <1>5, <1>9, <2>1, <2>2, <2>3, <2>4, SlotsThenMeta
  <2> QED
    BY <1>1, <1>5, <1>9, <2>5
<1>11. Cardinality(Occupied(View')) = Cardinality(Occupied(View))
  <2>1. Occupied(View') = {s \in Slots : value(move[s]) # None}
    BY <1>8 DEF Occupied
  <2>2. Occupied(View) = {s \in Slots : value(s) # None}
    BY <1>3, <1>4 DEF Occupied
  <2> DEFINE f == [s \in Occupied(View') |-> move[s]]
  <2>3. f \in Bijection(Occupied(View'), Occupied(View))
    <3>1. f \in [Occupied(View') -> Occupied(View)]
      BY <1>4, <2>1, <2>2
    <3>2. \A s, t \in Slots : move[s] = move[t] => s = t
      BY DEF Bijection, Injection, IsInjective
    <3>3. \A t \in Slots : \E s \in Slots : move[s] = t
      BY DEF Bijection, Surjection
    <3>4. \A s, t \in Occupied(View') : f[s] = f[t] => s = t
      BY <2>1, <3>2
    <3>5. \A t \in Occupied(View) : \E s \in Occupied(View') : f[s] = t
      BY <2>1, <2>2, <3>3
    <3> QED
      BY <3>1, <3>4, <3>5 DEF Bijection, Injection, Surjection, IsInjective
  <2>4. IsFiniteSet(Occupied(View'))
    BY SessionAssumption, FS_Subset DEF Occupied
  <2> QED
    BY <2>3, <2>4, FS_Bijection DEF ExistsBijection
<1> QED
  BY <1>6, <1>10, <1>11
(* canonicalize records that it empties the bucket, and the count follows. *)
LEMMA CanonicalizeExact ==
  ASSUME Inductive, Canonicalize
  PROVE  /\ cache' \in Maps(Val) /\ out' \in Updates /\ delta' \in Int
         /\ IsDifference(out', AfterCalls, Normal(View'))
         /\ ~ stale => used + delta' = Cardinality(Occupied(View'))
<1> DEFINE full == Occupied(View)
           cleared == [s \in full |-> [old |-> value(s), new |-> None]]
           others == [k \in DOMAIN Fetched \ {Meta} |-> Fetched[k]]
           stored == IF cacheRead THEN [k \in {Meta} |-> AsCached(AsMeta(kvs[Meta]))] ELSE Empty
           none == [s \in full |-> None]
<1>1. /\ kvs' = kvs /\ out' = Add(AddAll(out, cleared), Meta, metadata, AsMeta(kvs[Meta]))
      /\ delta' = delta - Cardinality(full)
      /\ cache' = Over(none, Over(others, stored))
  BY DEF Canonicalize, store
<1>2. TypeOK /\ cache \in Maps(Val) /\ kvs \in [Keys -> Val] /\ out \in Updates
  BY DEF Inductive, TypeOK
<1>3. View \in [Keys -> Val] /\ \A k \in Keys : value(k) = View[k]
  BY <1>2, ViewIs, ReadsType
<1>4. \A s \in Slots : s \in Keys /\ s # Meta
  BY AsMetaFacts
<1>5. metadata \in Val /\ metadata = Normal(View)[Meta] /\ kvs[Meta] \in Val
  BY <1>2, <1>3, NormalFacts, AsMetaFacts DEF metadata
<1>6. full \subseteq Slots /\ IsFiniteSet(full) /\ Cardinality(full) \in Nat
  BY SessionAssumption, FS_Subset, FS_CardinalityType DEF Occupied
<1>7. cache' \in Maps(Val)
  <2>1. none \in Maps(Val)
    <3>1. none \in [full -> Val] /\ full \in SUBSET Keys
      BY <1>4, <1>6, AsMetaFacts
    <3> QED
      BY <3>1 DEF Maps
  <2>2. others \in Maps(Val)
    <3>1. DOMAIN Fetched \subseteq Keys /\ Fetched \in [DOMAIN Fetched -> Val]
      BY <1>2, FetchedFacts, MapsMember
    <3>2. others \in [DOMAIN Fetched \ {Meta} -> Val] /\ DOMAIN Fetched \ {Meta} \in SUBSET Keys
      BY <3>1
    <3> QED
      BY <3>2 DEF Maps
  <2>3. stored \in Maps(Val)
    <3>1. AsCached(AsMeta(kvs[Meta])) \in Val
      BY <1>5, AsMetaFacts
    <3>2. [k \in {Meta} |-> AsCached(AsMeta(kvs[Meta]))] \in [{Meta} -> Val] /\ {Meta} \in SUBSET Keys
      BY <3>1, AsMetaFacts
    <3> QED
      BY <3>2, NoDifference DEF Maps
  <2> HIDE DEF none, others, stored
  <2> QED
    BY <1>1, <2>1, <2>2, <2>3, OverType
<1>8. View' = Reads(none, Reads(others, Reads(stored, kvs)))
  <2> HIDE DEF none, others, stored
  <2>1. Reads(Over(none, Over(others, stored)), kvs) = Reads(none, Reads(Over(others, stored), kvs))
    BY ReadsOver
  <2>2. Reads(Over(others, stored), kvs) = Reads(others, Reads(stored, kvs))
    BY ReadsOver
  <2> QED
    BY <1>1, <2>1, <2>2, ViewIs
<1>9. \A s \in Slots : View'[s] = None
  <2>1. \A s \in Slots : s \notin DOMAIN stored
    BY NoDifference, <1>4
  <2>2. \A s \in Slots : s \in DOMAIN others => s \in DOMAIN Fetched /\ others[s] = Fetched[s]
    OBVIOUS
  <2>3. \A s \in Slots : s \in DOMAIN Fetched => s \in DOMAIN others
    BY <1>4
  <2>4. DOMAIN none = full /\ \A s \in full : none[s] = None
    OBVIOUS
  <2>5. ASSUME NEW s \in Slots, s \notin full PROVE value(s) = None
    BY <1>3, <1>4, <2>5 DEF Occupied
  <2> HIDE DEF none, others, stored, full
  <2>6. ASSUME NEW s \in Slots, s \notin full PROVE View'[s] = Reads(Fetched, kvs)[s]
    BY <1>4, <1>8, <2>1, <2>2, <2>3, <2>4, <2>6 DEF Reads
  <2>7. ASSUME NEW s \in Slots, s \in full PROVE View'[s] = None
    BY <1>4, <1>8, <2>4, <2>7 DEF Reads
  <2> QED
    BY <1>2, <2>5, <2>6, <2>7, FetchedFacts
<1>10. Normal(View')[Meta] = AsMeta(kvs[Meta])
  <2>1. Meta \notin DOMAIN none /\ Meta \notin DOMAIN others /\ Meta \in Keys
    BY <1>6, AsMetaFacts
  <2>2. View'[Meta] = Reads(stored, kvs)[Meta]
    <3> HIDE DEF none, others, stored
    <3> QED
      BY <1>8, <2>1 DEF Reads
  <2>3. Reads(stored, kvs)[Meta] = AsCached(AsMeta(kvs[Meta])) \/ Reads(stored, kvs)[Meta] = kvs[Meta]
    BY <2>1, NoDifference DEF Reads
  <2> HIDE DEF stored
  <2> QED
    BY <2>2, <2>3, NormalFacts, AsMetaFacts
<1>11. /\ out' \in Updates
       /\ IsDifference(out', AfterCalls, Normal(View'))
  <2>1. cleared \in Updates
    <3>1. cleared \in [full -> [old : Val, new : Val]] /\ full \in SUBSET Keys
      BY <1>3, <1>4, <1>6, AsMetaFacts
    <3> QED
      BY <3>1 DEF Updates, Maps
  <2>2. /\ DOMAIN cleared \subseteq Slots
        /\ \A s \in DOMAIN cleared : cleared[s].old = value(s) /\ cleared[s].new = None
    BY <1>6
  <2>3. \A s \in Slots \ DOMAIN cleared : value(s) = None
    BY <1>3, <1>4 DEF Occupied
  <2>4. \A s \in Slots : Normal(View)[s] = value(s) /\ Normal(View')[s] = None
    BY <1>3, <1>4, <1>9, NormalFacts
  <2>5. IsDifference(out, AfterCalls, Normal(View)) /\ AsMeta(kvs[Meta]) \in Val
    BY <1>5, AsMetaFacts DEF Inductive, SessionExact
  <2> HIDE DEF cleared
  <2>6. /\ Add(AddAll(out, cleared), Meta, Normal(View)[Meta], Normal(View')[Meta]) \in Updates
        /\ IsDifference(Add(AddAll(out, cleared), Meta, Normal(View)[Meta], Normal(View')[Meta]),
                        AfterCalls, Normal(View'))
    BY <1>2, <1>5, <1>10, <2>1, <2>2, <2>3, <2>4, <2>5, SlotsThenMeta
  <2> QED
    BY <1>1, <1>5, <1>10, <2>6
<1>12. delta' \in Int
  BY <1>1, <1>2, <1>6 DEF TypeOK
<1>13. ASSUME ~ stale PROVE used + delta' = Cardinality(Occupied(View'))
  <2>1. used + delta = Cardinality(full) /\ used \in Nat /\ delta \in Int
    BY <1>13 DEF Inductive, CountsExact, usage_count, TypeOK
  <2>2. Occupied(View') = {}
    BY <1>9 DEF Occupied
  <2>3. Cardinality(Occupied(View')) = 0
    BY <2>2, FS_EmptySet
  <2> QED
    BY <1>1, <1>6, <2>1, <2>3
<1> QED
  BY <1>7, <1>11, <1>12, <1>13

-------------------------------------------------------------------------------
(* update_state *)

(* The entries after the updates, and the count of the used slots, which   *)
(* the updates from a to b move from that of a to that of b.               *)
LEMMA UpdateStateExact ==
  ASSUME NEW su \in Updates, NEW a, NEW b, IsDifference(su, a, b), NEW n \in Nat,
         n = Cardinality(Occupied(a))
  PROVE  /\ Cardinality(Deleted(su)) <= n
         /\ n + Cardinality(Inserted(su)) - Cardinality(Deleted(su)) = Cardinality(Occupied(b))
<1> DEFINE inserted == Inserted(su)
           deleted == Deleted(su)
<1>1. /\ Occupied(a) \subseteq Slots /\ IsFiniteSet(Occupied(a)) /\ IsFiniteSet(inserted) /\ IsFiniteSet(deleted)
  BY SessionAssumption, FS_Subset DEF Occupied, Inserted, Deleted
<1>2. deleted \in SUBSET Occupied(a)
  BY DEF IsDifference, Leads, Occupied, Inserted, Deleted
<1>3. inserted \cap Occupied(a) = {}
  BY DEF IsDifference, Leads, Occupied, Inserted, Deleted
<1>4. Occupied(b) = (Occupied(a) \ deleted) \cup inserted
  <2>1. ASSUME NEW s \in Slots PROVE s \in Occupied(b) <=> s \in (Occupied(a) \ deleted) \cup inserted
    BY AsMetaFacts DEF IsDifference, Leads, Occupied, Inserted, Deleted
  <2>2. inserted \subseteq Slots /\ Occupied(b) \subseteq Slots
    BY DEF Occupied, Inserted
  <2> QED
    BY <1>1, <2>1, <2>2
<1>5. /\ Cardinality(deleted) \in Nat /\ Cardinality(inserted) \in Nat /\ Cardinality(deleted) <= n
  BY <1>1, <1>2, FS_Subset, FS_CardinalityType
<1>6. Cardinality(Occupied(a) \ deleted) = n - Cardinality(deleted) /\ IsFiniteSet(Occupied(a) \ deleted)
  <2>1. Occupied(a) \cap deleted = deleted
    BY <1>2
  <2>2. /\ IsFiniteSet(Occupied(a) \ deleted)
        /\ Cardinality(Occupied(a) \ deleted) = Cardinality(Occupied(a)) - Cardinality(Occupied(a) \cap deleted)
    BY <1>1, FS_Difference
  <2> QED
    BY <2>1, <2>2
<1>7. (Occupied(a) \ deleted) \cap inserted = {}
  BY <1>3
<1>8. Cardinality(Occupied(b)) = (n - Cardinality(deleted)) + Cardinality(inserted) - 0
  <2> DEFINE A == Occupied(a) \ deleted
  <2>1. Cardinality(A \cup inserted) = Cardinality(A) + Cardinality(inserted) - Cardinality(A \cap inserted)
    BY <1>1, <1>6, FS_Union
  <2>2. Cardinality(A \cap inserted) = 0
    BY <1>7, FS_EmptySet
  <2> QED
    BY <1>4, <1>6, <2>1, <2>2
<1> QED
  BY <1>5, <1>8
(* What the store holds after updates that are the difference to n. *)
LEMMA NormalApplied ==
  ASSUME NEW su, NEW e, NEW n, IsDifference(su, Normal(e), n), n[Meta] # None, n = [k \in Keys |-> n[k]]
  PROVE  Normal(Applied(su, e)) = n
<1>1. ASSUME NEW k \in Keys PROVE Normal(Applied(su, e))[k] = n[k]
  <2>1. CASE k \in DOMAIN su
    <3>1. Applied(su, e)[k] = n[k]
      BY <2>1 DEF Applied, IsDifference, Leads
    <3> QED
      BY <3>1, AsMetaFacts DEF Normal
  <2>2. CASE k \notin DOMAIN su
    <3>1. Applied(su, e)[k] = e[k] /\ Normal(e)[k] = n[k]
      BY <2>2 DEF Applied, IsDifference, Leads
    <3> QED
      BY <3>1 DEF Normal
  <2> QED
    BY <2>1, <2>2
<1> QED
  BY <1>1, NormalFacts

(* update_state with updates that are the difference to n. *)
LEMMA StoreExact ==
  ASSUME TypeOK, used = Cardinality(Occupied(kvs)), NEW su \in Updates, UpdateState(su),
         NEW n, IsDifference(su, Normal(kvs), n), n[Meta] # None, n = [k \in Keys |-> n[k]]
  PROVE  /\ kvs' \in [Keys -> Val] /\ kvs' = Applied(su, kvs) /\ Normal(kvs') = n
         /\ used' \in Nat /\ used' = Cardinality(Occupied(kvs'))
<1>1. kvs' = Applied(su, kvs) /\ used' \in UsedAfter(su)
  BY DEF UpdateState, Applied
<1>2. Normal(kvs') = n
  BY <1>1, NormalApplied
<1>3. kvs' \in [Keys -> Val]
  <2>1. su \in [DOMAIN su -> [old : Val, new : Val]]
    BY MapsMember DEF Updates
  <2>2. \A k \in DOMAIN su : su[k].new \in Val
    BY <2>1
  <2> QED
    BY <1>1, <2>2 DEF Applied, TypeOK
<1>4. used' = Cardinality(Occupied(kvs'))
  <2>1. used \in Nat /\ used = Cardinality(Occupied(Normal(kvs)))
    BY NormalFacts DEF TypeOK
  <2>2. /\ Cardinality(Deleted(su)) <= used
        /\ used + Cardinality(Inserted(su)) - Cardinality(Deleted(su)) = Cardinality(Occupied(n))
    BY <2>1, UpdateStateExact
  <2>3. used' = used + Cardinality(Inserted(su)) - Cardinality(Deleted(su))
    BY <1>1, <2>2 DEF UsedAfter
  <2>4. Occupied(n) = Occupied(kvs')
    BY <1>2, NormalFacts
  <2> QED
    BY <2>2, <2>3, <2>4
<1>5. IsFiniteSet(Occupied(kvs'))
  BY SessionAssumption, FS_Subset DEF Occupied
<1> QED
  BY <1>1, <1>2, <1>3, <1>4, <1>5, FS_CardinalityType

(* inverse: the difference in the other direction. *)
LEMMA InverseExact ==
  ASSUME NEW su \in Updates, NEW a, NEW b, IsDifference(su, a, b)
  PROVE  inverse(su) \in Updates /\ IsDifference(inverse(su), b, a)
<1>1. DOMAIN su \in SUBSET Keys /\ su \in [DOMAIN su -> [old : Val, new : Val]]
  BY MapsMember DEF Updates
<1>2. inverse(su) \in [DOMAIN su -> [old : Val, new : Val]]
  BY <1>1 DEF inverse
<1>3. inverse(su) \in Updates
  BY <1>1, <1>2 DEF Updates, Maps
<1>4. DOMAIN inverse(su) = DOMAIN su /\ \A k \in DOMAIN su : inverse(su)[k].old = su[k].new /\ inverse(su)[k].new = su[k].old
  BY DEF inverse
<1> QED
  BY <1>3, <1>4 DEF IsDifference, Leads

-------------------------------------------------------------------------------
(* The steps *)

(* A session that begins, with an empty cache and no updates. *)
LEMMA FreshSession ==
  ASSUME kvs' \in [Keys -> Val], cache' = Empty, out' = Empty, pending' = Empty, delta' = 0,
         used' \in Nat, used' = Cardinality(Occupied(kvs'))
  PROVE  SessionExact' /\ CountsExact'
<1>1. View' = kvs'
  BY ViewIs, NoDifference DEF Reads
<1>2. AfterCalls' = Normal(kvs')
  BY ViewIs, NoDifference, NormalFacts DEF Applied
<1>3. SessionExact'
  BY <1>1, <1>2, NoDifference DEF SessionExact
<1>4. CountsExact'
  BY <1>1 DEF CountsExact, usage_count
<1> QED
  BY <1>3, <1>4

(* The calls, and the steps between them, that leave the store alone. *)
LEMMA SessionStep ==
  ASSUME Inductive, UNCHANGED store,
         cache' \in Maps(Val), out' \in Updates, pending' = pending,
         delta' \in Int, writes' \in Nat, cacheRead' \in BOOLEAN, rehashed' \in BOOLEAN, stale' = stale,
         IsDifference(out', AfterCalls, Normal(View')),
         ~ stale => used + delta' = Cardinality(Occupied(View'))
  PROVE  Inductive'
<1>1. TypeOK'
  BY DEF Inductive, TypeOK, store
<1>2. AfterCalls' = AfterCalls
  BY ViewIs DEF store
<1>3. SessionExact'
  BY <1>2 DEF Inductive, SessionExact, store
<1>4. LogExact'
  BY DEF Inductive, LogExact, After, store
<1>5. CountsExact'
  BY DEF Inductive, CountsExact, usage_count, store
<1> QED
  BY <1>1, <1>3, <1>4, <1>5 DEF Inductive

(* The merge of a call's updates into those of the session. *)
LEMMA EndCallStep == ASSUME Inductive, EndCall PROVE Inductive'
<1>1. /\ pending' = AddAll(pending, out) /\ out' = Empty /\ writes' = 0
      /\ UNCHANGED <<store, session>>
  BY DEF EndCall, Merge
<1>2. /\ IsDifference(pending, Normal(kvs), AfterCalls) /\ IsDifference(out, AfterCalls, Normal(View))
      /\ pending \in Updates /\ out \in Updates
  BY DEF Inductive, SessionExact, TypeOK
<1>3. IsDifference(pending', Normal(kvs), Normal(View)) /\ pending' \in Updates
  BY <1>1, <1>2, Compose, AddAllType DEF IsDifference
<1>4. kvs' = kvs /\ View' = View
  BY <1>1, ViewIs DEF store, session
<1>5. AfterCalls' = Normal(View)
  <2>1. ASSUME NEW k \in Keys PROVE (IF k \in DOMAIN pending' THEN pending'[k].new ELSE Normal(kvs)[k]) = Normal(View)[k]
    BY <1>3 DEF IsDifference, Leads
  <2>2. AfterCalls' = [k \in Keys |-> IF k \in DOMAIN pending' THEN pending'[k].new ELSE Normal(kvs)[k]]
    BY <1>4 DEF AfterCalls
  <2> QED
    BY <2>1, <2>2, NormalFacts
<1>6. Meta \in DOMAIN pending' => pending'[Meta].new # None
  BY <1>3, NormalFacts DEF IsDifference, Leads
<1>7. SessionExact'
  BY <1>1, <1>3, <1>4, <1>5, <1>6, NoDifference DEF SessionExact
<1>8. TypeOK'
  BY <1>1, <1>3, NoDifference DEF Inductive, TypeOK, store, session
<1>9. LogExact'
  BY <1>1 DEF Inductive, LogExact, After, store
<1>10. CountsExact'
  BY <1>1, <1>4 DEF Inductive, CountsExact, usage_count, store, session
<1> QED
  BY <1>7, <1>8, <1>9, <1>10 DEF Inductive
(* The accumulation so far leads from before the first commit to the store. *)
LEMMA TotalExact ==
  ASSUME Inductive
  PROVE  /\ Len(log) \in Nat
         /\ Total(Len(log)) \in Updates
         /\ IsDifference(Total(Len(log)), Normal(IF Len(log) = 0 THEN kvs ELSE past[1]), Normal(kvs))
<1>1. Len(log) \in Nat /\ Len(totals) = Len(log) /\ totals \in Seq(Updates)
  BY DEF Inductive, TypeOK, LogExact
<1>2. CASE Len(log) = 0
  BY <1>2, NoDifference DEF Total
<1>3. CASE Len(log) # 0
  <2>1. Len(log) \in 1 .. Len(log)
    BY <1>1, <1>3
  <2>2. IsDifference(totals[Len(log)], Normal(past[1]), Normal(After(Len(log))))
    BY <2>1 DEF Inductive, LogExact
  <2>3. totals[Len(log)] \in Updates
    BY <1>1, <2>1
  <2> QED
    BY <1>1, <1>3, <2>2, <2>3 DEF Total, After
<1> QED
  BY <1>1, <1>2, <1>3

(* A commit: the store has what the session read, the session reads what   *)
(* the store has, and the log and its accumulation have grown by one.      *)
LEMMA CommitStep == ASSUME Inductive, Commit PROVE Inductive'
<1>1. /\ out = Empty /\ UpdateState(pending) /\ log' = Append(log, pending) /\ past' = Append(past, kvs)
      /\ totals' = Append(totals, AddAll(Total(Len(log)), pending))
      /\ pending' = Empty /\ stale' = TRUE /\ UNCHANGED <<cache, cacheRead, delta, rehashed, out, writes>>
  BY DEF Commit, Merge
<1>2. /\ TypeOK /\ used = Cardinality(Occupied(kvs)) /\ pending \in Updates /\ cache \in Maps(Val)
      /\ IsDifference(pending, Normal(kvs), AfterCalls) /\ IsDifference(out, AfterCalls, Normal(View))
      /\ Meta \in DOMAIN pending => pending[Meta].new # None
  BY DEF Inductive, TypeOK, SessionExact, CountsExact
<1>3. AfterCalls[Meta] # None /\ AfterCalls = [k \in Keys |-> AfterCalls[k]]
  BY <1>2, NormalFacts, AsMetaFacts DEF AfterCalls
<1>4. /\ kvs' \in [Keys -> Val] /\ Normal(kvs') = AfterCalls
      /\ used' \in Nat /\ used' = Cardinality(Occupied(kvs'))
  BY <1>1, <1>2, <1>3, StoreExact
<1>5. Normal(View') = Normal(kvs')
  <2>1. \A k \in Keys : AfterCalls[k] = Normal(View)[k]
    BY <1>1, <1>2, NoDifference DEF IsDifference, Leads
  <2>2. ASSUME NEW k \in Keys PROVE Normal(View')[k] = Normal(kvs')[k]
    <3>1. CASE k \in DOMAIN cache
      <4>1. View'[k] = View[k]
        BY <1>1, <3>1, ViewIs DEF Reads
      <4>2. Normal(View')[k] = Normal(View)[k]
        BY <4>1 DEF Normal
      <4> QED
        BY <1>4, <2>1, <4>2
    <3>2. CASE k \notin DOMAIN cache
      <4>1. View'[k] = kvs'[k]
        BY <1>1, <3>2, ViewIs DEF Reads
      <4> QED
        BY <4>1 DEF Normal
    <3> QED
      BY <3>1, <3>2
  <2> QED
    BY <2>2, NormalFacts
<1>6. SessionExact'
  <2>1. AfterCalls' = Normal(kvs')
    BY <1>1, ViewIs, NoDifference, NormalFacts DEF Applied
  <2> QED
    BY <1>1, <1>5, <2>1, NoDifference DEF SessionExact
<1>7. CountsExact'
  BY <1>1, <1>4 DEF CountsExact
<1>8. /\ Len(log) \in Nat /\ Len(past) = Len(log) /\ Len(totals) = Len(log)
      /\ log \in Seq(Updates) /\ past \in Seq([Keys -> Val]) /\ totals \in Seq(Updates)
      /\ kvs \in [Keys -> Val]
  BY DEF Inductive, TypeOK, LogExact
<1>9. /\ AddAll(Total(Len(log)), pending) \in Updates
      /\ IsDifference(AddAll(Total(Len(log)), pending), Normal(IF Len(log) = 0 THEN kvs ELSE past[1]), AfterCalls)
  <2>1. Leads(pending, Normal(kvs), AfterCalls)
    BY <1>2 DEF IsDifference
  <2> QED
    BY <1>2, <2>1, TotalExact, Compose, AddAllType
<1>10. TypeOK'
  BY <1>1, <1>2, <1>4, <1>8, <1>9, NoDifference DEF TypeOK
<1>11. LogExact'
  <2> DEFINE n == Len(log)
             t == AddAll(Total(Len(log)), pending)
  <2>1. /\ Len(log') = n + 1 /\ Len(past') = n + 1 /\ Len(totals') = n + 1
    BY <1>1, <1>8
  <2>2. /\ log'[n + 1] = pending /\ past'[n + 1] = kvs /\ totals'[n + 1] = t
    BY <1>1, <1>8
  <2>3. \A i \in 1 .. n : log'[i] = log[i] /\ past'[i] = past[i] /\ totals'[i] = totals[i]
    BY <1>1, <1>8
  <2> HIDE DEF t
  <2>4. ASSUME NEW i \in 1 .. n
        PROVE  /\ IsDifference(log'[i], Normal(past'[i]), Normal(After(i)'))
               /\ IsDifference(totals'[i], Normal(past'[1]), Normal(After(i)'))
    <3>1. After(i)' = past'[i + 1]
      BY <1>8, <2>1 DEF After
    <3>2. past'[i + 1] = After(i)
      <4>1. CASE i = n
        BY <1>8, <2>2, <4>1 DEF After
      <4>2. CASE i # n
        <5>1. i + 1 \in 1 .. n
          BY <1>8, <4>2
        <5> QED
          BY <2>3, <4>2, <5>1 DEF After
      <4> QED
        BY <4>1, <4>2
    <3>3. past'[1] = past[1]
      BY <1>8, <2>3
    <3> QED
      BY <2>3, <3>1, <3>2, <3>3 DEF Inductive, LogExact
  <2>5. ASSUME NEW i, i = n + 1
        PROVE  /\ IsDifference(log'[i], Normal(past'[i]), Normal(After(i)'))
               /\ IsDifference(totals'[i], Normal(past'[1]), Normal(After(i)'))
    <3>1. After(i)' = kvs'
      BY <2>1, <2>5 DEF After
    <3>2. past'[1] = IF n = 0 THEN kvs ELSE past[1]
      BY <1>8, <2>2, <2>3
    <3> QED
      BY <1>2, <1>4, <1>9, <2>2, <2>5, <3>1, <3>2 DEF t
  <2>6. \A i \in 1 .. n + 1 : i \in 1 .. n \/ i = n + 1
    BY <1>8
  <2> HIDE DEF n
  <2> QED
    BY <2>1, <2>4, <2>5, <2>6 DEF LogExact
<1> QED
  BY <1>6, <1>7, <1>10, <1>11 DEF Inductive

(* A rollback goes back to the entries before the last commit. *)
LEMMA RollbackExact ==
  ASSUME Inductive, Rollback
  PROVE  /\ kvs' \in [Keys -> Val] /\ Normal(kvs') = Normal(past[Len(past)])
         /\ used' \in Nat /\ used' = Cardinality(Occupied(kvs'))
         /\ Len(log) \in Nat \ {0}
<1>1. UpdateState(inverse(log[Len(log)])) /\ log # << >>
  BY DEF Rollback
<1>2. TypeOK /\ used = Cardinality(Occupied(kvs)) /\ log \in Seq(Updates) /\ Len(past) = Len(log)
  BY DEF Inductive, TypeOK, CountsExact, LogExact
<1>3. Len(log) \in Nat \ {0} /\ Len(log) \in 1 .. Len(log) /\ log[Len(log)] \in Updates
  BY <1>1, <1>2
<1>4. IsDifference(log[Len(log)], Normal(past[Len(log)]), Normal(kvs))
  <2>1. IsDifference(log[Len(log)], Normal(past[Len(log)]), Normal(After(Len(log))))
    BY <1>3 DEF Inductive, LogExact
  <2> QED
    BY <2>1 DEF After
<1>5. /\ inverse(log[Len(log)]) \in Updates
      /\ IsDifference(inverse(log[Len(log)]), Normal(kvs), Normal(past[Len(log)]))
  BY <1>3, <1>4, InverseExact
<1> QED
  BY <1>1, <1>2, <1>3, <1>5, StoreExact, NormalFacts

(* The log, the accumulation and the session after a rollback. *)
LEMMA RollbackStep == ASSUME Inductive, Rollback PROVE Inductive'
<1>1. /\ log' = AllButLast(log) /\ past' = AllButLast(past) /\ totals' = AllButLast(totals)
      /\ out' = Empty /\ pending' = Empty /\ cache' = Empty /\ delta' = 0 /\ rehashed' = FALSE /\ stale' = FALSE
      /\ UNCHANGED <<cacheRead, writes>>
  BY DEF Rollback
<1>2. /\ kvs' \in [Keys -> Val] /\ Normal(kvs') = Normal(past[Len(past)])
      /\ used' \in Nat /\ used' = Cardinality(Occupied(kvs'))
      /\ Len(log) \in Nat \ {0}
  BY RollbackExact
<1>3. SessionExact' /\ CountsExact'
  BY <1>1, <1>2, FreshSession
<1>4. /\ Len(past) = Len(log) /\ Len(totals) = Len(log)
      /\ log \in Seq(Updates) /\ past \in Seq([Keys -> Val]) /\ totals \in Seq(Updates)
  BY DEF Inductive, TypeOK, LogExact
<1> DEFINE n == Len(log) - 1
<1>5. n \in Nat
  BY <1>2
<1>6. ASSUME NEW S, NEW q \in Seq(S), Len(q) = Len(log)
      PROVE  AllButLast(q) \in Seq(S) /\ Len(AllButLast(q)) = n /\ \A i \in 1 .. n : AllButLast(q)[i] = q[i]
  <2>1. \A i \in 1 .. n : q[i] \in S
    BY <1>2, <1>6
  <2>2. AllButLast(q) = [i \in 1 .. n |-> q[i]]
    BY <1>6 DEF AllButLast
  <2>3. AllButLast(q) \in [1 .. n -> S]
    BY <2>1, <2>2
  <2>4. AllButLast(q) \in Seq(S) /\ Len(AllButLast(q)) = n
    BY <1>5, <2>3
  <2> QED
    BY <2>2, <2>4
<1>7. /\ log' \in Seq(Updates) /\ past' \in Seq([Keys -> Val]) /\ totals' \in Seq(Updates)
      /\ Len(log') = n /\ Len(past') = n /\ Len(totals') = n
      /\ \A i \in 1 .. n : log'[i] = log[i] /\ past'[i] = past[i] /\ totals'[i] = totals[i]
  BY <1>1, <1>4, <1>6
<1>8. TypeOK'
  <2>1. /\ cacheRead' \in BOOLEAN /\ rehashed' \in BOOLEAN /\ stale' \in BOOLEAN
    BY <1>1 DEF Inductive, TypeOK
  <2>2. delta' \in Int /\ writes' \in Nat /\ out' \in Updates /\ pending' \in Updates /\ cache' \in Maps(Val)
    BY <1>1, NoDifference DEF Inductive, TypeOK
  <2> QED
    BY <1>2, <1>7, <2>1, <2>2 DEF TypeOK
<1>9. LogExact'
  <2>1. ASSUME NEW i \in 1 .. n
        PROVE  /\ IsDifference(log'[i], Normal(past'[i]), Normal(After(i)'))
               /\ IsDifference(totals'[i], Normal(past'[1]), Normal(After(i)'))
    <3>1. After(i) = past[i + 1] /\ i \in 1 .. Len(log)
      BY <1>2 DEF After
    <3>2. Normal(After(i)') = Normal(After(i))
      <4>1. CASE i = n
        BY <1>2, <1>4, <1>7, <3>1, <4>1 DEF After
      <4>2. CASE i # n
        <5>1. i + 1 \in 1 .. n
          BY <1>5, <4>2
        <5> QED
          BY <1>7, <3>1, <4>2, <5>1 DEF After
      <4> QED
        BY <4>1, <4>2
    <3>3. past'[1] = past[1]
      BY <1>5, <1>7
    <3> QED
      BY <1>7, <3>1, <3>2, <3>3 DEF Inductive, LogExact
  <2> HIDE DEF n
  <2> QED
    BY <1>7, <2>1 DEF LogExact
<1> QED
  BY <1>3, <1>8, <1>9 DEF Inductive
-------------------------------------------------------------------------------
(* The theorems *)

(* A new session over an empty store. *)
LEMMA InitExact == Init => Inductive
<1> SUFFICES ASSUME Init PROVE Inductive
  OBVIOUS
<1>1. /\ kvs = [k \in Keys |-> None] /\ used = 0 /\ cache = Empty /\ delta = 0
      /\ out = Empty /\ writes = 0 /\ pending = Empty /\ log = << >> /\ past = << >> /\ totals = << >>
  BY DEF Init
<1>2. cacheRead \in BOOLEAN /\ rehashed \in BOOLEAN /\ stale \in BOOLEAN
  BY DEF Init
<1>3. kvs \in [Keys -> Val]
  BY <1>1, AsMetaFacts
<1>4. TypeOK
  BY <1>1, <1>2, <1>3, NoDifference DEF TypeOK
<1>5. View = kvs
  BY <1>1, <1>3, ViewIs, NoDifference DEF Reads
<1>6. AfterCalls = Normal(kvs)
  BY <1>1, ViewIs, NoDifference, NormalFacts DEF Applied
<1>7. SessionExact
  BY <1>1, <1>5, <1>6, NoDifference DEF SessionExact
<1>8. LogExact
  BY <1>1 DEF LogExact
<1>9. Occupied(kvs) = {}
  BY <1>1, AsMetaFacts DEF Occupied
<1>10. CountsExact
  <2>1. Cardinality(Occupied(kvs)) = 0 /\ Cardinality(Occupied(View)) = 0
    BY <1>5, <1>9, FS_EmptySet
  <2>2. used = 0 /\ used + delta = 0
    BY <1>1
  <2> QED
    BY <2>1, <2>2 DEF CountsExact, usage_count
<1> QED
  BY <1>4, <1>7, <1>8, <1>10 DEF Inductive

(* Every call, merge, commit and rollback keeps the invariant. *)
LEMMA StepExact == Inductive /\ [Next]_vars => Inductive'
<1> SUFFICES ASSUME Inductive, [Next]_vars PROVE Inductive'
  OBVIOUS
<1>0. /\ TypeOK /\ CountsExact /\ IsDifference(out, AfterCalls, Normal(View))
      /\ cache \in Maps(Val) /\ out \in Updates /\ delta \in Int /\ writes \in Nat
  BY DEF Inductive, TypeOK, SessionExact
<1>10. cacheRead \in BOOLEAN /\ rehashed \in BOOLEAN
  BY DEF Inductive, TypeOK
<1>1. ASSUME NEW k \in Keys, Read(k) PROVE Inductive'
  <2>1. Normal(View') = Normal(View) /\ cache' \in Maps(Val)
    BY <1>0, <1>1, ReadExact
  <2>2. Occupied(View') = Occupied(View)
    BY <2>1, NormalFacts
  <2>3. /\ UNCHANGED store /\ out' = out /\ pending' = pending /\ delta' = delta /\ writes' = writes /\ stale' = stale
        /\ cacheRead' = cacheRead /\ rehashed' = rehashed
    BY <1>1 DEF Read
  <2>4. cacheRead' \in BOOLEAN /\ rehashed' \in BOOLEAN
    BY <1>10, <2>3
  <2>5. ~ stale => used + delta' = Cardinality(Occupied(View'))
    BY <1>0, <2>2, <2>3 DEF CountsExact, usage_count
  <2> QED
    BY <1>0, <2>1, <2>3, <2>4, <2>5, SessionStep
<1>2. ASSUME NEW s \in Slots, NEW v \in Entries \cup {None}, Write(s, v) PROVE Inductive'
  <2>1. /\ UNCHANGED store /\ pending' = pending /\ writes' \in Nat /\ stale' = stale
        /\ cacheRead' = cacheRead /\ rehashed' = rehashed
    BY <1>0, <1>2 DEF Write
  <2>2. cacheRead' \in BOOLEAN /\ rehashed' \in BOOLEAN
    BY <1>10, <2>1
  <2> QED
    BY <1>2, <2>1, <2>2, WriteExact, SessionStep
<1>3. ASSUME NEW move \in Bijection(Slots, Slots), NEW m \in Metas, Rehash(move, m) PROVE Inductive'
  <2>1. /\ UNCHANGED store /\ pending' = pending /\ writes' \in Nat /\ stale' = stale /\ delta' = delta
        /\ cacheRead' = cacheRead /\ rehashed' = TRUE
    BY <1>0, <1>3 DEF Rehash
  <2>2. cacheRead' \in BOOLEAN /\ rehashed' \in BOOLEAN
    BY <1>10, <2>1
  <2>3. /\ cache' \in Maps(Val) /\ out' \in Updates
        /\ IsDifference(out', AfterCalls, Normal(View'))
        /\ Cardinality(Occupied(View')) = Cardinality(Occupied(View))
    BY <1>3, RehashExact
  <2>4. ~ stale => used + delta' = Cardinality(Occupied(View'))
    BY <1>0, <2>1, <2>3 DEF CountsExact, usage_count
  <2> QED
    BY <1>0, <2>1, <2>2, <2>3, <2>4, SessionStep
<1>4. ASSUME Canonicalize PROVE Inductive'
  <2>1. /\ UNCHANGED store /\ pending' = pending /\ writes' = writes /\ stale' = stale
        /\ cacheRead' = cacheRead /\ rehashed' = FALSE
    BY <1>4 DEF Canonicalize
  <2>2. cacheRead' \in BOOLEAN /\ rehashed' \in BOOLEAN
    BY <1>10, <2>1
  <2> QED
    BY <1>0, <1>4, <2>1, <2>2, CanonicalizeExact, SessionStep
<1>5. ASSUME EndCall PROVE Inductive'
  BY <1>5, EndCallStep
<1>6. ASSUME NewSession PROVE Inductive'
  <2>1. /\ cache' = Empty /\ delta' = 0 /\ out' = Empty /\ writes' = 0 /\ pending' = Empty /\ UNCHANGED store
    BY <1>6 DEF NewSession
  <2>2. cacheRead' \in BOOLEAN /\ rehashed' \in BOOLEAN /\ stale' \in BOOLEAN
    BY <1>6 DEF NewSession
  <2>3. kvs' \in [Keys -> Val] /\ used' \in Nat /\ used' = Cardinality(Occupied(kvs'))
    BY <1>0, <2>1 DEF TypeOK, CountsExact, store
  <2>4. SessionExact' /\ CountsExact'
    BY <2>1, <2>3, FreshSession
  <2>5. LogExact'
    BY <2>1 DEF Inductive, LogExact, After, store
  <2>6. TypeOK'
    BY <1>0, <2>1, <2>2, NoDifference DEF TypeOK, store
  <2> QED
    BY <2>4, <2>5, <2>6 DEF Inductive
<1>7. ASSUME Commit PROVE Inductive'
  BY <1>7, CommitStep
<1>8. ASSUME Rollback PROVE Inductive'
  BY <1>8, RollbackStep
<1>9. CASE UNCHANGED vars
  BY <1>9 DEF vars, store, session, Inductive, TypeOK, SessionExact, LogExact, CountsExact,
              AfterCalls, After, View, value, usage_count
<1> QED
  BY <1>1, <1>2, <1>3, <1>4, <1>5, <1>6, <1>7, <1>8, <1>9 DEF Next

(* Inductive holds in every state of every behaviour. *)
THEOREM SessionInvariant == Spec => []Inductive
<1>1. Init => Inductive
  BY InitExact
<1>2. Inductive /\ [Next]_vars => Inductive'
  BY StepExact
<1> QED
  BY <1>1, <1>2, PTL DEF Spec

(* The StateUpdates of a session are the difference between the store and  *)
(* what the session reads, for every sequence of its calls.                *)
THEOREM UpdatesAreExact == Spec => []UpdatesExact
<1>1. Inductive => UpdatesExact
  <2> SUFFICES ASSUME Inductive PROVE UpdatesExact
    OBVIOUS
  <2>1. IsDifference(pending, Normal(kvs), AfterCalls) /\ Leads(out, AfterCalls, Normal(View))
    BY DEF Inductive, SessionExact, IsDifference
  <2> QED
    BY <2>1, Compose DEF UpdatesExact, Merge
<1> QED
  BY <1>1, SessionInvariant, PTL

(* used_slots of the MemStore and usage_count of the session never drift   *)
(* and never saturate, for every sequence of commits and rollbacks.        *)
THEOREM CountsAreExact == Spec => []CountsExact
<1>1. Inductive => CountsExact
  BY DEF Inductive
<1> QED
  BY <1>1, SessionInvariant, PTL

(* StateUpdates::inverse of the last commit restores the entries before it. *)
THEOREM RollbacksRestore == Spec => RollbackRestores
<1>1. ASSUME Inductive, [Next]_vars, Len(log') < Len(log) PROVE Normal(kvs') = Normal(past[Len(past)])
  <2>1. log \in Seq(Updates) /\ Len(log) \in Nat
    BY <1>1 DEF Inductive, TypeOK
  <2>2. CASE log' = log
    BY <1>1, <2>1, <2>2
  <2>3. CASE Commit
    <3>1. Len(log') = Len(log) + 1
      BY <2>1, <2>3 DEF Commit
    <3> QED
      BY <1>1, <2>1, <3>1
  <2>4. CASE Rollback
    BY <1>1, <2>4, RollbackExact
  <2>5. CASE Next /\ ~ Commit /\ ~ Rollback
    BY <2>2, <2>5 DEF Next, Read, Write, Rehash, Canonicalize, EndCall, NewSession, store
  <2> QED
    BY <1>1, <2>2, <2>3, <2>4, <2>5 DEF vars, store
<1>2. Inductive /\ [Next]_vars => [Len(log') < Len(log) => Normal(kvs') = Normal(past[Len(past)])]_vars
  BY <1>1
<1> QED
  BY <1>2, SessionInvariant, PTL DEF Spec, RollbackRestores

(* StateUpdates::merge never panics, try_merge never fails, and what they  *)
(* accumulate is the difference between the first and the last state.      *)
THEOREM AccumulationIsExact == Spec => []AccumulationExact
<1>1. Inductive => AccumulationExact
  <2> SUFFICES ASSUME Inductive PROVE AccumulationExact
    OBVIOUS
  <2> DEFINE total == Total(Len(log))
             before == Normal(IF log = << >> THEN kvs ELSE past[1])
  <2>1. log \in Seq(Updates) /\ Len(log) \in Nat
    BY DEF Inductive, TypeOK
  <2>2. IsDifference(total, before, Normal(kvs))
    <3>1. log = << >> <=> Len(log) = 0
      BY <2>1
    <3> QED
      BY <3>1, TotalExact
  <2>3. ASSUME NEW i \in 1 .. Len(log), NEW k \in DOMAIN log[i] PROVE Chains(Total(i - 1), k, log[i][k].old)
    <3>1. log[i][k].old = Normal(past[i])[k]
      BY DEF Inductive, LogExact, IsDifference, Leads
    <3>2. CASE i = 1
      BY <3>2, NoDifference DEF Total, Chains
    <3>3. CASE i # 1
      <4>1. i - 1 \in 1 .. Len(log) /\ i - 1 # Len(log) /\ i - 1 # 0 /\ (i - 1) + 1 = i
        BY <2>1, <3>3
      <4>2. IsDifference(totals[i - 1], Normal(past[1]), Normal(After(i - 1)))
        BY <4>1 DEF Inductive, LogExact
      <4>3. After(i - 1) = past[i]
        BY <4>1 DEF After
      <4> QED
        BY <3>1, <4>1, <4>2, <4>3 DEF Total, Chains, IsDifference, Leads
    <3> QED
      BY <3>2, <3>3
  <2>4. IsDifference(pending, Normal(kvs), AfterCalls) /\ IsDifference(out, AfterCalls, Normal(View))
    BY DEF Inductive, SessionExact
  <2>5. \A k \in DOMAIN pending : Chains(total, k, pending[k].old)
    BY <2>2, <2>4 DEF Chains, IsDifference, Leads
  <2>6. IsDifference(Merge(total, pending), before, AfterCalls)
    <3>1. Leads(pending, Normal(kvs), AfterCalls)
      BY <2>4 DEF IsDifference
    <3> HIDE DEF total, before
    <3> QED
      BY <2>2, <3>1, Compose DEF Merge
  <2>7. \A k \in DOMAIN out : Chains(Merge(total, pending), k, out[k].old)
    BY <2>4, <2>6 DEF Chains, IsDifference, Leads
  <2>8. DOMAIN log = 1 .. Len(log)
    BY <2>1
  <2> QED
    BY <2>2, <2>3, <2>5, <2>7, <2>8 DEF AccumulationExact
<1> QED
  BY <1>1, SessionInvariant, PTL
===============================================================================
