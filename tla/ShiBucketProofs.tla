--------------------------- MODULE ShiBucketProofs ---------------------------
(***************************************************************************)
(* The invariant of ShiBucket, and that it implements KvMap, for every key *)
(* set, hash function, capacity and load factor.                           *)
(***************************************************************************)
EXTENDS ShiBucket, ShiTableTheorems

(* The SaltValues that shi_upsert writes are entries, never the empty slot. *)
LEMMA EntryFacts ==
  /\ \A e \in Entry : e # Empty /\ e.key \in PlainKeys /\ e.key \in Nat
  /\ \A k \in PlainKeys, v \in Values : [key |-> k, val |-> v] \in Entry
  /\ EmptyTable \in Tables
  /\ Occupied(EmptyTable) = {}
<1>1. \A e \in Entry : e # Empty
  BY EmptyAssumption
<1>2. \A e \in Entry : e.key \in PlainKeys /\ e.key \in Nat
  BY KeysAssumption DEF Entry
<1>3. \A k \in PlainKeys, v \in Values : [key |-> k, val |-> v] \in Entry
  BY DEF Entry
<1>4. EmptyTable \in Tables /\ Occupied(EmptyTable) = {}
  BY DEF EmptyTable, Tables, Occupied
<1> QED
  BY <1>1, <1>2, <1>3, <1>4

(* Types of the derived expressions. *)
LEMMA Derived ==
  ASSUME TypeOK
  PROVE  /\ meta.capacity \in 1 .. MaxCapacity /\ meta.nonce \in Nonces
         /\ H \in [PlainKeys -> Nat]
         /\ slot \in 0 .. meta.capacity - 1
         /\ slot \in SlotId
         /\ \A n \in Nonces : hash[n] \in [PlainKeys -> Nat]
         /\ target.nonce \in Nonces /\ target.capacity \in Nat \ {0}
<1>1. meta.capacity \in Nat \ {0} /\ meta.capacity \in 1 .. MaxCapacity /\ meta.nonce \in Nonces
  BY CapacityAssumption DEF TypeOK, Meta
<1>2. hash \in [Nonces -> [PlainKeys -> Nat]]
  BY HashAssumption DEF TypeOK
<1>3. start \in Nat /\ step \in 0 .. meta.capacity - 1
  BY <1>1 DEF TypeOK
<1>4. slot \in 0 .. meta.capacity - 1
  BY <1>1, <1>3, ProbeValue DEF slot
<1>5. slot \in SlotId
  BY <1>1, <1>4, CapacityAssumption DEF SlotId
<1>6. target.nonce \in Nonces /\ target.capacity \in Nat \ {0}
  BY DEF TypeOK, Meta
<1> QED
  BY <1>1, <1>2, <1>4, <1>5, <1>6 DEF H

(* What shi_rehash collects from the slots are entries. *)
LEMMA ContentsType ==
  ASSUME NEW T \in Tables
  PROVE  Contents(T) \in SUBSET Entry
  BY DEF Contents, Occupied, Tables

-------------------------------------------------------------------------------
(* Types and control *)

(* A new EphemeralSaltState over an empty bucket has the types. *)
LEMMA InitType == Init => TypeOK /\ Control
<1> SUFFICES ASSUME Init PROVE TypeOK /\ Control
  OBVIOUS
<1>1. meta \in Meta /\ meta.capacity = InitCapacity /\ InitCapacity <= MaxCapacity
  BY MetaAssumption DEF Init, Meta
<1>2. InitCapacity \in Nat /\ 0 < InitCapacity
  BY MetaAssumption, CapacityAssumption
<1>3. TypeOK
  <2>1. EmptyTable \in Tables
    BY EntryFacts
  <2>2. step = 0 /\ step < meta.capacity
    BY <1>1, <1>2 DEF Init
  <2>3. base \in Meta /\ target \in Meta /\ base.capacity <= MaxCapacity /\ meta.capacity <= MaxCapacity
    BY <1>1 DEF Init
  <2>4. /\ hash \in HashFns /\ table = EmptyTable /\ fresh = EmptyTable /\ pool = EmptyTable
        /\ used = 0 /\ load = 0 /\ start = 0 /\ pending = {} /\ gap = NoSlot /\ hand = Empty
        /\ pc = "idle"
    BY DEF Init
  <2>5. rehashed \in BOOLEAN /\ replaying \in BOOLEAN
    BY DEF Init
  <2> QED
    BY <1>1, <2>1, <2>2, <2>3, <2>4, <2>5 DEF TypeOK
<1>4. Control
  BY DEF Init, Control
<1> QED
  BY <1>3, <1>4

(* Every step of every loop keeps the types. *)
LEMMA TypeStep == TypeOK /\ Control /\ [Next]_vars => TypeOK'
<1> SUFFICES ASSUME TypeOK, Control, [Next]_vars PROVE TypeOK'
  OBVIOUS
<1> USE DEF TypeOK, upsertVars, rehashVars, canonVars, EndUpsert, EndRehash, Return
<1>0. /\ \A n \in Nonces, k \in PlainKeys : hash[n][k] \in Nat
      /\ meta.nonce \in Nonces /\ meta.capacity \in Nat \ {0}
      /\ target.nonce \in Nonces /\ target.capacity \in Nat \ {0}
  BY Derived DEF Meta
<1>1. ASSUME NEW k \in PlainKeys, NEW v \in Values, Upsert(k, v) PROVE TypeOK'
  <2>1. [key |-> k, val |-> v] \in Entry /\ hash[meta.nonce][k] \in Nat
    BY <1>0, EntryFacts
  <2> QED
    BY <1>0, <1>1, <2>1 DEF Upsert, StartUpsert
<1>2. ASSUME NEW k \in PlainKeys, NEW v \in Values, UpsertDirect(k, v) PROVE TypeOK'
  <2>1. [key |-> k, val |-> v] \in Entry
    BY EntryFacts
  <2> QED
    BY <1>2, <2>1 DEF UpsertDirect, Tables
<1>3. ASSUME ProbeEqual PROVE TypeOK'
  <2>1. [table EXCEPT ![slot] = hand] \in Tables
    BY DEF Tables
  <2> QED
    BY <1>0, <1>3, <2>1 DEF ProbeEqual
<1>4. ASSUME ProbeDisplace PROVE TypeOK'
  <2>1. slot \in SlotId
    BY Derived
  <2> QED
    BY <1>0, <1>4, <2>1 DEF ProbeDisplace, Advance, Tables
<1>5. ASSUME ProbePass PROVE TypeOK'
  BY <1>0, <1>5 DEF ProbePass, Advance
<1>6. ASSUME NEW known \in BOOLEAN, ProbePlace(known) PROVE TypeOK'
  <2>1. [table EXCEPT ![slot] = hand] \in Tables
    BY DEF Tables
  <2>2. used + 1 \in Int
    OBVIOUS
  <2> QED
    BY <1>0, <1>6, <2>1, <2>2 DEF ProbePlace
<1>7. ASSUME Grow PROVE TypeOK'
  <2>1. [target EXCEPT !.capacity = @ * Multiplier] \in Meta
    BY <1>0 DEF Meta, Multiplier
  <2> QED
    BY <1>7, <2>1 DEF Grow
<1>8. ASSUME NEW n \in Nonces, NEW c \in Nat \ {0}, Rehash(n, c) PROVE TypeOK'
  BY <1>8 DEF Rehash, Meta
<1>9. ASSUME RehashAssert PROVE TypeOK'
  BY <1>9 DEF RehashAssert
<1>10. ASSUME RehashCollect PROVE TypeOK'
  <2>1. Contents(table) \in SUBSET Entry
    BY ContentsType
  <2>2. hand # Empty => hash[meta.nonce][hand.key] \in Nat
    BY <1>0, EntryFacts
  <2>3. EmptyTable \in Tables
    BY EntryFacts
  <2> QED
    BY <1>0, <1>10, <2>1, <2>2, <2>3 DEF RehashCollect, StartUpsert
<1>11. ASSUME RehashReinsert PROVE TypeOK'
  <2>1. PICK e \in pending :
          /\ pending' = pending \ {e}
          /\ fresh' = [s \in SlotId |->
               IF s \in FirstVacant(fresh, hash[target.nonce][e.key], target.capacity)
               THEN e ELSE fresh[s]]
    BY <1>11 DEF RehashReinsert
  <2>2. fresh' \in Tables /\ pending' \in SUBSET Entry
    BY <2>1 DEF Tables
  <2> QED
    BY <1>11, <2>2 DEF RehashReinsert
<1>12. ASSUME RehashCommit PROVE TypeOK'
  <2>1. target.capacity <= MaxCapacity
    BY <1>12 DEF RehashCommit, Control
  <2>2. step = 0
    BY <1>12 DEF RehashCommit, Control
  <2>3. hand # Empty => hash[target.nonce][hand.key] \in Nat
    BY <1>0, EntryFacts
  <2> QED
    BY <1>0, <1>12, <2>1, <2>2, <2>3, EntryFacts DEF RehashCommit, StartUpsert
<1>13. ASSUME NEW k \in PlainKeys, Delete(k) PROVE TypeOK'
  <2>1. \A s \in ShiSearch(table, H, meta.capacity, k) : s \in SlotId
    BY <1>0, CapacityAssumption DEF ShiSearch, SlotId
  <2> QED
    BY <1>13, <2>1 DEF Delete
<1>14. ASSUME Compact PROVE TypeOK'
  <2>0. \A s \in ShiNext(table, H, meta.capacity, gap) : s \in SlotId
    BY <1>0, CapacityAssumption DEF ShiNext, SlotId
  <2>1. PICK s \in SlotId : gap' = s /\ table' = [table EXCEPT ![gap] = table[s]]
    BY <1>14, <2>0 DEF Compact
  <2>2. table' \in Tables
    BY <2>1 DEF Tables
  <2> QED
    BY <1>14, <2>1, <2>2 DEF Compact
<1>15. ASSUME CompactEnd PROVE TypeOK'
  <2>1. [table EXCEPT ![gap] = Empty] \in Tables
    BY DEF Tables
  <2>2. used - 1 \in Int
    OBVIOUS
  <2> QED
    BY <1>15, <2>1, <2>2 DEF CompactEnd
<1>16. ASSUME Canonicalize PROVE TypeOK'
  <2>1. step = 0 /\ 0 < base.capacity
    BY <1>16 DEF Canonicalize, Control, Meta
  <2>2. Cardinality(Occupied(table)) \in Nat
    BY OccupiedFinite
  <2>3. used - Cardinality(Occupied(table)) \in Int
    BY <2>2
  <2>4. EmptyTable \in Tables
    BY EntryFacts
  <2> QED
    BY <1>16, <2>1, <2>3, <2>4 DEF Canonicalize
<1>17. ASSUME Replay PROVE TypeOK'
  <2>1. PICK s \in Occupied(pool) : StartUpsert(pool[s], meta) /\ pool' = [pool EXCEPT ![s] = Empty]
    BY <1>17 DEF Replay
  <2>2. pool[s] \in Entry
    BY DEF Occupied, Tables
  <2>3. hash[meta.nonce][pool[s].key] \in Nat
    BY <1>0, <2>2, EntryFacts
  <2>4. pool' \in Tables
    BY <2>1 DEF Tables
  <2> QED
    BY <1>0, <1>17, <2>1, <2>2, <2>3, <2>4 DEF Replay, StartUpsert
<1>18. ASSUME ReplayEnd PROVE TypeOK'
  BY <1>18 DEF ReplayEnd
<1>19. ASSUME Commit PROVE TypeOK'
  BY <1>19 DEF Commit
<1>20. ASSUME UNCHANGED vars PROVE TypeOK'
  BY <1>20 DEF vars
<1>21. \A n \in Nonces : SetNonce(n) => Rehash(n, meta.capacity)
  BY DEF SetNonce
<1> QED
  BY <1>0, <1>1, <1>2, <1>3, <1>4, <1>5, <1>6, <1>7, <1>8, <1>9, <1>10, <1>11, <1>12, <1>13,
     <1>14, <1>15, <1>16, <1>17, <1>18, <1>19, <1>20, <1>21, MetaAssumption
     DEF Next, Call, Step, UpsertStep, RehashStep, DeleteStep, ReplayStep

(* Loop variables are reset when their loops end, on each of the exits. *)
LEMMA ControlStep == TypeOK /\ Control /\ [Next]_vars => Control'
<1> SUFFICES ASSUME TypeOK, Control, [Next]_vars PROVE Control'
  OBVIOUS
<1> USE DEF Control, upsertVars, rehashVars, canonVars
<1>0. meta.nonce \in Nonces /\ meta.capacity \in Nat \ {0}
  BY Derived
<1>1. ASSUME NEW k \in PlainKeys, NEW v \in Values, Upsert(k, v) PROVE Control'
  BY <1>1, EntryFacts DEF Upsert, StartUpsert
<1>2. ASSUME NEW k \in PlainKeys, NEW v \in Values, UpsertDirect(k, v) PROVE Control'
  BY <1>2 DEF UpsertDirect
<1>3. ASSUME ProbeEqual PROVE Control'
  BY <1>3 DEF ProbeEqual, EndUpsert, Return
<1>4. ASSUME ProbeDisplace PROVE Control'
  BY <1>4, EntryFacts DEF ProbeDisplace, Advance
<1>5. ASSUME ProbePass PROVE Control'
  BY <1>5 DEF ProbePass, Advance
<1>6. ASSUME NEW known \in BOOLEAN, ProbePlace(known) PROVE Control'
  BY <1>6 DEF ProbePlace, EndUpsert, Return
<1>7. ASSUME Grow PROVE Control'
  BY <1>7 DEF Grow
<1>8. ASSUME NEW n \in Nonces, NEW c \in Nat \ {0}, Rehash(n, c) PROVE Control'
  BY <1>8 DEF Rehash
<1>9. ASSUME RehashAssert PROVE Control'
  BY <1>9 DEF RehashAssert, RehashPanics
<1>10. ASSUME RehashCollect PROVE Control'
  <2>1. target.capacity \in Nat
    BY Derived
  <2>2. target.capacity <= MaxCapacity
    BY <1>10, <2>1, CapacityAssumption DEF RehashCollect, RehashPanics
  <2> QED
    BY <1>10, <2>2 DEF RehashCollect, Return, EndRehash, StartUpsert
<1>11. ASSUME RehashReinsert PROVE Control'
  BY <1>11 DEF RehashReinsert
<1>12. ASSUME RehashCommit PROVE Control'
  BY <1>12 DEF RehashCommit, StartUpsert, Return, EndRehash
<1>13. ASSUME NEW k \in PlainKeys, Delete(k) PROVE Control'
  BY <1>13 DEF Delete
<1>14. ASSUME Compact PROVE Control'
  BY <1>14 DEF Compact
<1>15. ASSUME CompactEnd PROVE Control'
  BY <1>15 DEF CompactEnd
<1>16. ASSUME Canonicalize PROVE Control'
  BY <1>16 DEF Canonicalize
<1>17. ASSUME Replay PROVE Control'
  BY <1>17, EntryFacts DEF Replay, StartUpsert, Occupied
<1>18. ASSUME ReplayEnd PROVE Control'
  BY <1>18 DEF ReplayEnd, Occupied, EmptyTable, TypeOK, Tables
<1>19. ASSUME Commit PROVE Control'
  BY <1>19 DEF Commit
<1>20. ASSUME UNCHANGED vars PROVE Control'
  BY <1>20 DEF vars
<1>21. \A n \in Nonces : SetNonce(n) => Rehash(n, meta.capacity)
  BY DEF SetNonce
<1> QED
  BY <1>0, <1>1, <1>2, <1>3, <1>4, <1>5, <1>6, <1>7, <1>8, <1>9, <1>10, <1>11, <1>12, <1>13,
     <1>14, <1>15, <1>16, <1>17, <1>18, <1>19, <1>20, <1>21, MetaAssumption
     DEF Next, Call, Step, UpsertStep, RehashStep, DeleteStep, ReplayStep

-------------------------------------------------------------------------------
(* The order of the table *)

(* The empty bucket is ordered. *)
LEMMA InitLayout == Init => Layout /\ NewLayout
<1> SUFFICES ASSUME Init PROVE Layout /\ NewLayout
  OBVIOUS
<1>1. table = EmptyTable /\ pc = "idle" /\ meta.capacity = InitCapacity
  BY DEF Init
<1>2. InitCapacity \in 1 .. MaxCapacity
  BY MetaAssumption
<1>3. \A s \in 0 .. InitCapacity - 1 : EmptyTable[s] = Empty
  BY <1>2, CapacityAssumption DEF EmptyTable, SlotId
<1>4. Within(EmptyTable, InitCapacity) /\ ShiOrdered(EmptyTable, H, InitCapacity)
  BY <1>3, EntryFacts DEF Within, ShiOrdered
<1> QED
  BY <1>1, <1>4 DEF Layout, NewLayout

(* A write below the capacity leaves the rest of the bucket empty. *)
LEMMA WithinPut ==
  ASSUME NEW c \in 1 .. MaxCapacity, NEW T \in Tables, Within(T, c),
         NEW p \in 0 .. c - 1, NEW e
  PROVE  Within([T EXCEPT ![p] = e], c)
  BY CapacityAssumption DEF Within, Occupied, SlotId, Tables

(* A step of the walk of shi_upsert that goes on with hand', whose key the *)
(* slot that was just visited exceeds.                                     *)
LEMMA AdvanceKeepsPassed ==
  ASSUME TypeOK, pc = "probe", Advance, pc' = "probe",
         meta' = meta, hash' = hash, NEW k \in PlainKeys,
         Passed(table', H[k], meta.capacity, k, slot),
         Passed(table', start, meta.capacity, k, slot),
         Larger(table', slot, k)
  PROVE  /\ Passed(table', H'[k], meta'.capacity, k, slot')
         /\ Passed(table', start', meta'.capacity, k, slot')
<1>1. /\ meta.capacity \in 1 .. MaxCapacity /\ meta.capacity \in Nat \ {0}
      /\ H[k] \in Nat /\ slot \in 0 .. meta.capacity - 1
  BY Derived, CapacityAssumption
<1>2. step + 1 < meta.capacity /\ step' = step + 1 /\ start' = start /\ step \in Nat /\ start \in Nat
  BY DEF Advance, TypeOK
<1>3. slot' = NextSlot(slot, meta.capacity)
  BY <1>1, <1>2, ProbeNext DEF slot
<1>4. H' = H
  BY DEF H
<1> QED
  BY <1>1, <1>2, <1>3, <1>4, PassNext

(* Every step keeps the order of the slots, and what the walk of shi_upsert knows
   about the slots behind it. *)
LEMMA LayoutStep ==
  TypeOK /\ Control /\ Layout /\ NewLayout /\ TypeOK' /\ [Next]_vars => Layout'
<1> SUFFICES ASSUME TypeOK, Control, Layout, NewLayout, TypeOK', [Next]_vars PROVE Layout'
  OBVIOUS
<1> DEFINE C == meta.capacity
<1>0. /\ C \in 1 .. MaxCapacity /\ C \in Nat \ {0} /\ meta.nonce \in Nonces
      /\ H \in [PlainKeys -> Nat] /\ table \in Tables /\ start \in Nat
      /\ slot \in 0 .. C - 1 /\ slot \in SlotId
      /\ Within(table, C)
  BY Derived, CapacityAssumption DEF Layout, TypeOK
\* An upsert begins at the first slot of its key.
<1>s. ASSUME NEW e \in Entry, NEW m \in Meta, m.capacity <= MaxCapacity,
             StartUpsert(e, m), meta' = m, hash' = hash
      PROVE  /\ Passed(table', H'[hand'.key], meta'.capacity, hand'.key, slot')
             /\ Passed(table', start', meta'.capacity, hand'.key, slot')
  <2>1. hand' = e /\ start' = hash[m.nonce][e.key] /\ step' = 0
    BY <1>s DEF StartUpsert
  <2>2. H' = hash[m.nonce]
    BY <1>s DEF H
  <2>3. e.key \in PlainKeys /\ m.nonce \in Nonces /\ m.capacity \in Nat \ {0}
    BY EntryFacts DEF Meta
  <2>4. start' \in Nat
    BY DEF TypeOK
  <2>5. slot' = probe(start', 0, m.capacity)
    BY <1>s, <2>1 DEF slot
  <2>6. Passed(table', start', m.capacity, e.key, slot')
    BY <2>3, <2>4, <2>5, PassFirst
  <2> QED
    BY <1>s, <2>1, <2>2, <2>6
<1>1. ASSUME NEW k \in PlainKeys, NEW v \in Values, Upsert(k, v) PROVE Layout'
  <2>1. [key |-> k, val |-> v] \in Entry /\ meta \in Meta /\ meta.capacity <= MaxCapacity
    BY EntryFacts DEF TypeOK
  <2>2. /\ StartUpsert([key |-> k, val |-> v], meta)
        /\ pc = "idle" /\ pc' = "probe" /\ UNCHANGED <<table, meta, hash>>
    BY <1>1 DEF Upsert, StartUpsert
  <2>3. /\ Passed(table', H'[hand'.key], meta'.capacity, hand'.key, slot')
        /\ Passed(table', start', meta'.capacity, hand'.key, slot')
    BY <1>s, <2>1, <2>2
  <2> QED
    BY <2>2, <2>3 DEF Layout, H
<1>2. ASSUME NEW k \in PlainKeys, NEW v \in Values, UpsertDirect(k, v) PROVE Layout'
  <2>1. PICK s \in SlotId : /\ table[s] # Empty
                            /\ table[s].key = k
                            /\ table' = [table EXCEPT ![s] = [key |-> k, val |-> v]]
    BY <1>2 DEF UpsertDirect
  <2>2. pc = "idle" /\ pc' = "idle" /\ UNCHANGED <<meta, hash>>
    BY <1>2 DEF UpsertDirect
  <2>3. s \in 0 .. C - 1
    BY <1>0, <2>1, OccupiedWithin DEF Occupied
  <2>4. ShiOrdered(table, H, C)
    BY <2>2 DEF Layout
  <2> DEFINE e == [key |-> k, val |-> v]
  <2>5. e \in Entry /\ e.key = k /\ k \in Nat
    BY EntryFacts, KeysAssumption
  <2>6. Passed(table, H[k], C, k, s)
    BY <2>1, <2>3, <2>4 DEF ShiOrdered
  <2> HIDE DEF e
  <2>7. ShiOrdered(table', H, C)
    <3>1. table' = [table EXCEPT ![s] = e]
      BY <2>1 DEF e
    <3>2. table[s].key <= e.key
      BY <2>1, <2>5
    <3>3. Passed(table, H[e.key], C, e.key, s)
      BY <2>5, <2>6
    <3> HIDE DEF C
    <3> QED
      BY <1>0, <2>3, <2>4, <2>5, <3>1, <3>2, <3>3, PutKeepsOrder
  <2>8. Within(table', C)
    BY <1>0, <2>1, <2>3, WithinPut
  <2> QED
    BY <2>2, <2>7, <2>8 DEF Layout, H
\* What the three writes of shi_upsert have in common.
<1>p. ASSUME pc = "probe", table[slot] = Empty \/ table[slot].key <= hand.key,
             table' = [table EXCEPT ![slot] = hand]
      PROVE  ShiOrdered(table', H, C) /\ Within(table', C)
  <2>1. hand \in Entry /\ ShiOrdered(table, H, C) /\ Passed(table, H[hand.key], C, hand.key, slot)
    BY <1>p DEF Layout, Control, TypeOK
  <2> QED
    BY <1>0, <1>p, <2>1, PutKeepsOrder, WithinPut
<1>3. ASSUME ProbeEqual PROVE Layout'
  <2>1. pc = "probe" /\ table[slot].key = hand.key /\ table' = [table EXCEPT ![slot] = hand]
    BY <1>3 DEF ProbeEqual
  <2>2. hand.key \in Nat
    BY <2>1, EntryFacts DEF TypeOK, Control
  <2>3. ShiOrdered(table', H, C) /\ Within(table', C)
    BY <1>p, <2>1, <2>2
  <2>4. pc' \in {"idle", "replay"} /\ UNCHANGED <<meta, hash>>
    BY <1>3 DEF ProbeEqual, Return
  <2> QED
    BY <2>3, <2>4 DEF Layout, H
<1>4. ASSUME ProbeDisplace PROVE Layout'
  <2>1. /\ pc = "probe" /\ table[slot] # Empty /\ table[slot].key < hand.key
        /\ table' = [table EXCEPT ![slot] = hand] /\ hand' = table[slot]
        /\ Advance /\ UNCHANGED <<meta, hash>>
    BY <1>4 DEF ProbeDisplace
  <2>2. hand \in Entry /\ hand.key \in Nat /\ hand # Empty
    BY <2>1, EntryFacts DEF TypeOK, Control
  <2>3. table[slot] \in Entry /\ table[slot].key \in Nat /\ table[slot].key \in PlainKeys
    BY <1>0, <2>1, EntryFacts DEF Tables
  <2>4. ShiOrdered(table', H, C) /\ Within(table', C)
    BY <1>p, <2>1, <2>2, <2>3
  <2>5. pc' \in {"probe", "grow"}
    BY <2>1 DEF Advance
  <2>6. pc' = "probe" => /\ Passed(table', H'[hand'.key], meta'.capacity, hand'.key, slot')
                         /\ Passed(table', start', meta'.capacity, hand'.key, slot')
    <3> DEFINE k == table[slot].key
    <3>1. table'[slot] = hand /\ \A s \in SlotId : s # slot => table'[s] = table[s]
      BY <1>0, <2>1 DEF Tables
    <3>2. Larger(table', slot, k)
      BY <2>1, <2>2, <2>3, <3>1 DEF Larger
    <3>3. Passed(table, H[k], C, k, slot)
      BY <1>0, <2>1 DEF Layout, ShiOrdered
    <3>4. H[k] \in Nat
      BY <1>0, <2>3
    <3>5. \A t \in 0 .. C - 1 : t \in SlotId
      BY <1>0, CapacityAssumption DEF SlotId
    <3> HIDE DEF k
    <3>6. Passed(table', H[k], C, k, slot)
      BY <1>0, <3>1, <3>3, <3>4, <3>5, BeforeIrreflexive DEF Passed, Before, Larger
    <3>7. \A t \in Before(start, slot, C) : Larger(table, t, hand.key) /\ t # slot /\ t \in SlotId
      BY <1>0, <2>1, <3>5, BeforeIrreflexive DEF Layout, Passed, Before
    <3>8. \A t \in Before(start, slot, C) : Larger(table', t, k)
      <4> SUFFICES ASSUME NEW t \in Before(start, slot, C) PROVE Larger(table', t, k)
        OBVIOUS
      <4>1. table'[t] = table[t] /\ table[t] # Empty /\ table[t].key > hand.key
        BY <3>1, <3>7 DEF Larger
      <4>2. table[t].key \in Nat
        BY <1>0, <3>7, <4>1, EntryFacts DEF Tables
      <4> QED
        BY <2>1, <2>2, <2>3, <4>1, <4>2 DEF Larger, k
    <3>9. Passed(table', start, C, k, slot)
      BY <3>8 DEF Passed
    <3> QED
      BY <2>1, <2>3, <3>2, <3>6, <3>9, AdvanceKeepsPassed DEF k
  <2>7. gap' = gap
    BY <1>4 DEF ProbeDisplace
  <2> QED
    BY <2>1, <2>4, <2>5, <2>6 DEF Layout, H
<1>5. ASSUME ProbePass PROVE Layout'
  <2>1. /\ pc = "probe" /\ Larger(table, slot, hand.key)
        /\ Advance /\ UNCHANGED <<meta, hash, table, hand>>
    BY <1>5 DEF ProbePass, Larger
  <2>2. hand.key \in PlainKeys
    BY <2>1, EntryFacts DEF TypeOK, Control
  <2>3. pc' \in {"probe", "grow"}
    BY <2>1 DEF Advance
  <2>4. pc' = "probe" => /\ Passed(table', H'[hand.key], meta'.capacity, hand.key, slot')
                         /\ Passed(table', start', meta'.capacity, hand.key, slot')
    BY <2>1, <2>2, AdvanceKeepsPassed DEF Layout
  <2> QED
    BY <2>1, <2>3, <2>4 DEF Layout, H
<1>6. ASSUME NEW known \in BOOLEAN, ProbePlace(known) PROVE Layout'
  <2>1. pc = "probe" /\ table[slot] = Empty /\ table' = [table EXCEPT ![slot] = hand]
    BY <1>6 DEF ProbePlace
  <2>2. ShiOrdered(table', H, C) /\ Within(table', C)
    BY <1>p, <2>1
  <2>3. pc' \in {"idle", "replay", "grow"} /\ UNCHANGED <<meta, hash>>
    BY <1>6 DEF ProbePlace, Return
  <2> QED
    BY <2>2, <2>3 DEF Layout, H
\* Steps that leave the table alone.
<1>q. ASSUME pc # "compact", pc' \notin {"probe", "compact"}, UNCHANGED <<table, meta, hash>>
      PROVE  Layout'
  BY <1>q DEF Layout, H
<1>7. ASSUME Grow PROVE Layout'
  BY <1>7, <1>q DEF Grow
<1>8. ASSUME NEW n \in Nonces, NEW c \in Nat \ {0}, Rehash(n, c) PROVE Layout'
  BY <1>8, <1>q DEF Rehash
<1>9. ASSUME RehashAssert PROVE Layout'
  BY <1>9, <1>q DEF RehashAssert, RehashPanics
<1>10. ASSUME RehashCollect PROVE Layout'
  <2>1. pc = "rehash" /\ UNCHANGED <<table, meta, hash>>
    BY <1>10 DEF RehashCollect
  <2>2. CASE pc' = "probe"
    <3>1. hand # Empty /\ StartUpsert(hand, meta)
      BY <1>10, <2>2 DEF RehashCollect, EndRehash, Return
    <3>2. hand \in Entry /\ meta \in Meta /\ meta.capacity <= MaxCapacity
      BY <3>1 DEF TypeOK
    <3>3. /\ Passed(table', H'[hand'.key], meta'.capacity, hand'.key, slot')
          /\ Passed(table', start', meta'.capacity, hand'.key, slot')
      BY <1>s, <2>1, <3>1, <3>2
    <3> QED
      BY <2>1, <2>2, <3>3 DEF Layout, H
  <2>3. CASE pc' # "probe"
    <3>1. pc' \in {"idle", "replay", "reinsert"}
      BY <1>10, <2>3 DEF RehashCollect, EndRehash, Return, StartUpsert
    <3> QED
      BY <1>q, <2>1, <3>1
  <2> QED
    BY <2>2, <2>3
<1>11. ASSUME RehashReinsert PROVE Layout'
  BY <1>11, <1>q DEF RehashReinsert
<1>12. ASSUME RehashCommit PROVE Layout'
  <2>1. pc = "reinsert" /\ table' = fresh /\ meta' = target /\ hash' = hash /\ EndRehash(target)
    BY <1>12 DEF RehashCommit
  <2>2. Within(table', meta'.capacity) /\ ShiOrdered(table', H', meta'.capacity)
    BY <2>1 DEF NewLayout, H
  <2>3. CASE pc' = "probe"
    <3>1. hand # Empty /\ StartUpsert(hand, target)
      BY <2>1, <2>3 DEF EndRehash, Return
    <3>2. hand \in Entry /\ target \in Meta /\ target.capacity <= MaxCapacity
      BY <2>1, <3>1 DEF TypeOK, Control
    <3>3. /\ Passed(table', H'[hand'.key], meta'.capacity, hand'.key, slot')
          /\ Passed(table', start', meta'.capacity, hand'.key, slot')
      BY <1>s, <2>1, <3>1, <3>2
    <3> QED
      BY <2>2, <2>3, <3>3 DEF Layout
  <2>4. CASE pc' # "probe"
    <3>1. pc' \in {"idle", "replay"}
      BY <2>1, <2>4 DEF EndRehash, Return, StartUpsert
    <3> QED
      BY <2>2, <3>1 DEF Layout
  <2> QED
    BY <2>3, <2>4
<1>13. ASSUME NEW k \in PlainKeys, Delete(k) PROVE Layout'
  <2>1. pc = "idle" /\ pc' = "compact" /\ UNCHANGED <<table, meta, hash>>
    BY <1>13 DEF Delete
  <2>2. gap' \in 0 .. C - 1 /\ table[gap'] # Empty
    BY <1>13 DEF Delete, ShiSearch
  <2>3. ShiOrderedExcept(table, H, C, gap')
    BY <2>1, OrderedIsOrderedExcept DEF Layout
  <2> QED
    BY <2>1, <2>2, <2>3 DEF Layout, H
<1>14. ASSUME Compact PROVE Layout'
  <2>1. PICK s \in ShiNext(table, H, C, gap) : table' = [table EXCEPT ![gap] = table[s]] /\ gap' = s
    BY <1>14 DEF Compact
  <2>2. pc = "compact" /\ pc' = "compact" /\ UNCHANGED <<meta, hash>>
    BY <1>14 DEF Compact
  <2>3. s \in 0 .. C - 1 /\ table[s] # Empty /\ s # gap
    BY DEF ShiNext
  <2>4. gap \in 0 .. C - 1 /\ ShiOrderedExcept(table, H, C, gap)
    BY <2>2 DEF Layout
  <2>5. ShiOrderedExcept(table', H, C, s)
    BY <1>0, <2>1, <2>4, CompactKeepsOrder
  <2>6. Within(table', C)
    BY <1>0, <2>1, <2>4, WithinPut
  <2>7. table'[s] = table[s]
    BY <1>0, <2>1, <2>3, CapacityAssumption DEF Tables, SlotId
  <2> QED
    BY <2>1, <2>2, <2>3, <2>5, <2>6, <2>7 DEF Layout, H
<1>15. ASSUME CompactEnd PROVE Layout'
  <2>1. /\ pc = "compact" /\ pc' = "idle" /\ UNCHANGED <<meta, hash>>
        /\ ShiNext(table, H, C, gap) = {}
        /\ table' = [table EXCEPT ![gap] = Empty]
    BY <1>15 DEF CompactEnd
  <2>2. gap \in 0 .. C - 1 /\ ShiOrderedExcept(table, H, C, gap)
    BY <2>1 DEF Layout
  <2>3. ShiOrdered(table', H, C)
    BY <1>0, <2>1, <2>2, CompactEndRestoresOrder
  <2>4. Within(table', C)
    BY <1>0, <2>1, <2>2, WithinPut
  <2> QED
    BY <2>1, <2>3, <2>4 DEF Layout, H
<1>16. ASSUME Canonicalize PROVE Layout'
  <2>1. table' = EmptyTable /\ meta' = base /\ pc' = "replay"
    BY <1>16 DEF Canonicalize
  <2>2. base.capacity \in 1 .. MaxCapacity
    BY CapacityAssumption DEF TypeOK, Meta
  <2>3. \A s \in 0 .. base.capacity - 1 : EmptyTable[s] = Empty
    BY <2>2, CapacityAssumption DEF EmptyTable, SlotId
  <2>4. Within(EmptyTable, base.capacity) /\ ShiOrdered(EmptyTable, H', base.capacity)
    BY <2>3, EntryFacts DEF Within, ShiOrdered
  <2> QED
    BY <2>1, <2>4 DEF Layout
<1>17. ASSUME Replay PROVE Layout'
  <2>1. PICK s \in Occupied(pool) : StartUpsert(pool[s], meta)
    BY <1>17 DEF Replay
  <2>2. pc = "replay" /\ pc' = "probe" /\ UNCHANGED <<table, meta, hash>>
    BY <1>17, <2>1 DEF Replay, StartUpsert
  <2>3. pool[s] \in Entry /\ meta \in Meta /\ meta.capacity <= MaxCapacity
    BY DEF Occupied, Tables, TypeOK
  <2>4. /\ Passed(table', H'[hand'.key], meta'.capacity, hand'.key, slot')
        /\ Passed(table', start', meta'.capacity, hand'.key, slot')
    BY <1>s, <2>1, <2>2, <2>3
  <2> QED
    BY <2>2, <2>4 DEF Layout, H
<1>18. ASSUME ReplayEnd PROVE Layout'
  BY <1>18, <1>q DEF ReplayEnd
<1>19. ASSUME Commit PROVE Layout'
  BY <1>19, <1>q DEF Commit
<1>20. ASSUME UNCHANGED vars PROVE Layout'
  BY <1>20 DEF vars, upsertVars, Layout, H, slot
<1>21. \A n \in Nonces : SetNonce(n) => Rehash(n, meta.capacity)
  BY DEF SetNonce
<1> HIDE DEF C
<1> QED
  BY <1>0, <1>1, <1>2, <1>3, <1>4, <1>5, <1>6, <1>7, <1>8, <1>9, <1>10, <1>11, <1>12, <1>13,
     <1>14, <1>15, <1>16, <1>17, <1>18, <1>19, <1>20, <1>21, MetaAssumption
     DEF Next, Call, Step, UpsertStep, RehashStep, DeleteStep, ReplayStep, C

-------------------------------------------------------------------------------
(* The new layout of a rehash *)

(* Two entries of an ordered table with the same key are the same entry. *)
LEMMA ContentsByKey ==
  ASSUME NEW c \in 1 .. MaxCapacity, NEW G \in [PlainKeys -> Nat], NEW T \in Tables,
         Within(T, c), ShiOrdered(T, G, c),
         NEW e \in Contents(T), NEW f \in Contents(T), e.key = f.key
  PROVE  e = f
<1>1. PICK s \in Occupied(T) : e = T[s]
  BY DEF Contents
<1>2. PICK t \in Occupied(T) : f = T[t]
  BY DEF Contents
<1> QED
  BY <1>1, <1>2, OrderedEntriesUnique

(* The loop of shi_rehash keeps the new layout ordered and complete. *)
LEMMA NewLayoutStep ==
  TypeOK /\ Control /\ Layout /\ NewLayout /\ [Next]_vars => NewLayout'
<1> SUFFICES ASSUME TypeOK, Control, Layout, NewLayout, [Next]_vars, pc' = "reinsert"
             PROVE  NewLayout'
  BY DEF NewLayout
<1> DEFINE c == target.capacity
           G == hash[target.nonce]
<1>0. /\ meta.capacity \in 1 .. MaxCapacity /\ H \in [PlainKeys -> Nat] /\ table \in Tables
      /\ target.nonce \in Nonces /\ c \in Nat \ {0} /\ G \in [PlainKeys -> Nat]
      /\ fresh \in Tables /\ pending \subseteq Entry
  BY Derived DEF TypeOK
<1>1. ASSUME RehashCollect PROVE NewLayout'
  <2>1. /\ pc = "rehash" /\ c <= MaxCapacity /\ Cardinality(Occupied(table)) <= c
        /\ pending' = Contents(table) /\ fresh' = fresh
        /\ UNCHANGED <<hash, table, target>>
    <3>1. ~ (target.capacity < Cardinality(Occupied(table)))
      BY <1>1 DEF RehashCollect, EndRehash, Return, StartUpsert
    <3>2. Cardinality(Occupied(table)) \in Nat
      BY OccupiedFinite
    <3>3. c <= MaxCapacity
      BY <1>0, <1>1, CapacityAssumption DEF RehashCollect, RehashPanics
    <3> QED
      BY <1>0, <1>1, <3>1, <3>2, <3>3 DEF RehashCollect
  <2>2. fresh' = EmptyTable
    BY <2>1 DEF Control
  <2>3. \A s \in 0 .. c - 1 : EmptyTable[s] = Empty
    BY <1>0, <2>1, CapacityAssumption DEF EmptyTable, SlotId
  <2>4. Within(EmptyTable, c) /\ ShiOrdered(EmptyTable, G, c) /\ Contents(EmptyTable) = {}
    BY <2>3, EntryFacts DEF Within, ShiOrdered, Contents
  <2> QED
    BY <2>1, <2>2, <2>4 DEF NewLayout
<1>2. ASSUME RehashReinsert PROVE NewLayout'
  <2>1. PICK e \in pending :
          /\ IsLargest(e, pending)
          /\ pending' = pending \ {e}
          /\ fresh' = [s \in SlotId |->
               IF s \in FirstVacant(fresh, G[e.key], c) THEN e ELSE fresh[s]]
    BY <1>2 DEF RehashReinsert
  <2>2. pc = "reinsert" /\ UNCHANGED <<hash, table, target>>
    BY <1>2 DEF RehashReinsert
  <2>3. /\ Cardinality(Occupied(table)) <= c
        /\ Within(fresh, c) /\ ShiOrdered(fresh, G, c)
        /\ Contents(fresh) \cup pending = Contents(table)
        /\ \A x \in Contents(fresh), y \in pending : x.key > y.key
    BY <2>2 DEF NewLayout
  <2>4. c \in 1 .. MaxCapacity
    BY <1>0, <2>2, CapacityAssumption DEF Control
  <2>5. e \in Entry /\ e.key \in PlainKeys /\ e.key \in Nat /\ e # Empty /\ G[e.key] \in Nat
    BY <1>0, <2>1, EntryFacts
  <2>6. e \notin Contents(fresh)
    BY <2>1, <2>3, <2>5
  <2>7. FirstVacant(fresh, G[e.key], c) # {}
    <3>1. Contents(fresh) \subseteq Contents(table) /\ e \in Contents(table) \ Contents(fresh)
      BY <2>1, <2>3, <2>6
    <3> HIDE DEF c, G
    <3> QED
      BY <1>0, <2>3, <2>4, <2>5, <3>1, RoomToReinsert
  <2>8. PICK p \in FirstVacant(fresh, G[e.key], c) : TRUE
    BY <2>7
  <2>9. FirstVacant(fresh, G[e.key], c) = {p}
    <3> HIDE DEF c, G
    <3> QED
      BY <2>4, <2>5, <2>8, FirstVacantUnique
  <2>10. p \in 0 .. c - 1 /\ fresh[p] = Empty /\ \A t \in Before(G[e.key], p, c) : fresh[t] # Empty
    BY DEF FirstVacant
  <2>11. p \in SlotId /\ \A t \in 0 .. c - 1 : t \in SlotId
    BY <2>4, <2>10, CapacityAssumption DEF SlotId
  <2>12. fresh' = [fresh EXCEPT ![p] = e]
    BY <1>0, <2>1, <2>9 DEF Tables
  <2>13. Passed(fresh, G[e.key], c, e.key, p)
    <3> SUFFICES ASSUME NEW t \in Before(G[e.key], p, c) PROVE Larger(fresh, t, e.key)
      BY DEF Passed
    <3>1. fresh[t] # Empty /\ t \in SlotId
      BY <2>10, <2>11 DEF Before
    <3>2. fresh[t] \in Contents(fresh)
      BY <3>1 DEF Contents, Occupied
    <3> QED
      BY <2>1, <2>3, <3>1, <3>2 DEF Larger
  <2>14. ShiOrdered(fresh', G, c) /\ Within(fresh', c)
    <3> HIDE DEF c, G
    <3> QED
      BY <1>0, <2>3, <2>4, <2>5, <2>10, <2>12, <2>13, PutKeepsOrder, WithinPut
  <2>15. Contents(fresh') = Contents(fresh) \cup {e}
    <3>1. fresh'[p] = e /\ \A s \in SlotId : s # p => fresh'[s] = fresh[s]
      BY <1>0, <2>11, <2>12 DEF Tables
    <3>2. Occupied(fresh') = Occupied(fresh) \cup {p}
      BY <2>5, <2>11, <3>1 DEF Occupied
    <3>3. p \notin Occupied(fresh) /\ Occupied(fresh) \subseteq SlotId
      BY <2>10 DEF Occupied
    <3> QED
      BY <3>1, <3>2, <3>3 DEF Contents
  <2>16. Contents(fresh') \cup pending' = Contents(table')
    BY <2>1, <2>2, <2>3, <2>15
  <2>17. ASSUME NEW x \in Contents(fresh'), NEW y \in pending' PROVE x.key > y.key
    <3>1. y \in pending /\ y # e
      BY <2>1
    <3>2. CASE x \in Contents(fresh)
      BY <2>3, <3>1, <3>2
    <3>3. CASE x = e
      <4>1. y.key # e.key
        <5>1. y \in Contents(table) /\ e \in Contents(table)
          BY <2>1, <2>3, <3>1
        <5>2. ShiOrdered(table, H, meta.capacity) /\ Within(table, meta.capacity)
          BY <2>2 DEF Layout
        <5> HIDE DEF c, G
        <5> QED
          BY <1>0, <3>1, <5>1, <5>2, ContentsByKey
      <4>2. y.key <= e.key
        BY <2>1, <3>1 DEF IsLargest
      <4>3. y.key \in Nat
        BY <1>0, <3>1, EntryFacts
      <4> QED
        BY <2>5, <3>3, <4>1, <4>2, <4>3
    <3> QED
      BY <2>15, <3>2, <3>3
  <2> QED
    BY <2>2, <2>3, <2>14, <2>16, <2>17 DEF NewLayout
<1>3. CASE UNCHANGED vars
  BY <1>3 DEF vars, rehashVars, NewLayout
<1> QED
  BY <1>1, <1>2, <1>3
     DEF Next, Call, Step, UpsertStep, RehashStep, DeleteStep, ReplayStep,
         Upsert, UpsertDirect, ProbeEqual, ProbeDisplace, ProbePass, ProbePlace, Advance,
         Grow, Rehash, SetNonce, RehashAssert, RehashCommit, EndRehash, Delete, Compact, CompactEnd,
         Canonicalize, Replay, ReplayEnd, Commit, Return, StartUpsert

-------------------------------------------------------------------------------
(* The usage count *)

(* update_value counts every slot it fills or clears. *)
LEMMA UsageStep ==
  TypeOK /\ Control /\ Layout /\ NewLayout /\ UsageExact /\ [Next]_vars => UsageExact'
<1> SUFFICES ASSUME TypeOK, Control, Layout, NewLayout, UsageExact, [Next]_vars
             PROVE  UsageExact'
  OBVIOUS
<1>0. /\ table \in Tables /\ slot \in SlotId /\ Cardinality(Occupied(table)) \in Nat
      /\ meta.capacity \in 1 .. MaxCapacity /\ H \in [PlainKeys -> Nat]
  BY Derived, OccupiedFinite DEF TypeOK
<1>1. CASE UNCHANGED <<table, used>>
  BY <1>1 DEF UsageExact
<1>2. ASSUME NEW k \in PlainKeys, NEW v \in Values, UpsertDirect(k, v) PROVE UsageExact'
  <2>1. PICK s \in SlotId : table[s] # Empty /\ table' = [table EXCEPT ![s] = [key |-> k, val |-> v]]
    BY <1>2 DEF UpsertDirect
  <2>2. [key |-> k, val |-> v] \in Entry /\ used' = used
    BY <1>2, EntryFacts DEF UpsertDirect
  <2> QED
    BY <1>0, <2>1, <2>2, PutCardinality DEF UsageExact
<1>3. ASSUME ProbeEqual \/ ProbeDisplace PROVE UsageExact'
  <2>1. /\ table[slot] # Empty /\ table' = [table EXCEPT ![slot] = hand] /\ used' = used
        /\ pc = "probe"
    BY <1>3 DEF ProbeEqual, ProbeDisplace
  <2>2. hand \in Entry
    BY <2>1 DEF TypeOK, Control
  <2> QED
    BY <1>0, <2>1, <2>2, PutCardinality DEF UsageExact
<1>4. ASSUME NEW known \in BOOLEAN, ProbePlace(known) PROVE UsageExact'
  <2>1. /\ table[slot] = Empty /\ table' = [table EXCEPT ![slot] = hand] /\ used' = used + 1
        /\ pc = "probe"
    BY <1>4 DEF ProbePlace
  <2>2. hand \in Entry
    BY <2>1 DEF TypeOK, Control
  <2> QED
    BY <1>0, <2>1, <2>2, PutCardinality DEF UsageExact
<1>5. ASSUME RehashCommit PROVE UsageExact'
  <2>1. pc = "reinsert" /\ pending = {} /\ table' = fresh /\ used' = used
    BY <1>5 DEF RehashCommit
  <2>2. /\ Contents(fresh) = Contents(table) /\ Within(fresh, target.capacity)
        /\ ShiOrdered(fresh, hash[target.nonce], target.capacity)
    BY <2>1 DEF NewLayout
  <2>3. Within(table, meta.capacity) /\ ShiOrdered(table, H, meta.capacity)
    BY <2>1 DEF Layout
  <2>4. /\ target.capacity \in 1 .. MaxCapacity /\ hash[target.nonce] \in [PlainKeys -> Nat]
        /\ fresh \in Tables
    BY <2>1, Derived, CapacityAssumption DEF TypeOK, Control
  <2>5. Cardinality(Contents(fresh)) = Cardinality(Occupied(fresh))
    BY <2>2, <2>4, OrderedCardinality
  <2>6. Cardinality(Contents(table)) = Cardinality(Occupied(table))
    BY <1>0, <2>3, OrderedCardinality
  <2> QED
    BY <2>1, <2>2, <2>5, <2>6 DEF UsageExact
<1>6. ASSUME Compact PROVE UsageExact'
  <2>1. PICK s \in ShiNext(table, H, meta.capacity, gap) : table' = [table EXCEPT ![gap] = table[s]]
    BY <1>6 DEF Compact
  <2>2. pc = "compact" /\ used' = used
    BY <1>6 DEF Compact
  <2>3. gap \in SlotId /\ table[gap] # Empty
    BY <1>0, <2>2, CapacityAssumption DEF Layout, SlotId
  <2>4. s \in SlotId /\ table[s] # Empty
    BY <1>0, CapacityAssumption DEF ShiNext, SlotId
  <2>5. table[s] \in Entry
    BY <1>0, <2>4 DEF Tables
  <2> QED
    BY <1>0, <2>1, <2>2, <2>3, <2>5, PutCardinality DEF UsageExact
<1>7. ASSUME CompactEnd PROVE UsageExact'
  <2>1. pc = "compact" /\ table' = [table EXCEPT ![gap] = Empty] /\ used' = used - 1
    BY <1>7 DEF CompactEnd
  <2>2. gap \in SlotId /\ table[gap] # Empty
    BY <1>0, <2>1, CapacityAssumption DEF Layout, SlotId
  <2> QED
    BY <1>0, <2>1, <2>2, ClearCardinality DEF UsageExact
<1>8. ASSUME Canonicalize PROVE UsageExact'
  <2>1. table' = EmptyTable /\ used' = used - Cardinality(Occupied(table))
    BY <1>8 DEF Canonicalize
  <2>2. Cardinality(Occupied(EmptyTable)) = 0
    BY EntryFacts, FS_EmptySet
  <2> QED
    BY <1>0, <2>1, <2>2 DEF UsageExact
<1>9. CASE UNCHANGED vars
  BY <1>1, <1>9 DEF vars
<1> QED
  BY <1>1, <1>2, <1>3, <1>4, <1>5, <1>6, <1>7, <1>8, <1>9
     DEF Next, Call, Step, UpsertStep, RehashStep, DeleteStep, ReplayStep,
         Upsert, ProbePass, Grow, Rehash, SetNonce, RehashAssert, RehashCollect, RehashReinsert,
         Delete, Replay, ReplayEnd, Commit

-------------------------------------------------------------------------------
(* Every key has one home *)

(* No step stores a key twice, or stores one that still waits for its replay. *)
LEMMA OneHomeStep ==
  TypeOK /\ Control /\ Layout /\ NewLayout /\ OneHome /\ [Next]_vars => OneHome'
<1> SUFFICES ASSUME TypeOK, Control, Layout, NewLayout, OneHome, [Next]_vars
             PROVE  OneHome'
  OBVIOUS
<1>0. /\ table \in Tables /\ slot \in SlotId /\ pool \in Tables /\ slot \in 0 .. meta.capacity - 1
      /\ meta.capacity \in 1 .. MaxCapacity /\ H \in [PlainKeys -> Nat]
  BY Derived DEF TypeOK
<1>1. ASSUME Occupied(pool') = {}, hand' = Empty \/ pc' = "probe" PROVE OneHome'
  BY <1>1 DEF OneHome
<1>2. CASE UNCHANGED <<table, hand, pool>> /\ (pc = "probe" => pc' = "probe")
  BY <1>2 DEF OneHome
<1>3. ASSUME pc \in {"idle", "compact"} PROVE Occupied(pool) = {} /\ hand = Empty
  BY <1>3, EntryFacts DEF Control
<1>4. ASSUME NEW k \in PlainKeys, NEW v \in Values, Upsert(k, v) \/ UpsertDirect(k, v) PROVE OneHome'
  BY <1>1, <1>3, <1>4 DEF Upsert, UpsertDirect, StartUpsert, canonVars, upsertVars
<1>5. ASSUME ProbeEqual \/ \E known \in BOOLEAN : ProbePlace(known) PROVE OneHome'
  <2>1. /\ pc = "probe" /\ table' = [table EXCEPT ![slot] = hand] /\ hand' = Empty /\ pool' = pool
    BY <1>5 DEF ProbeEqual, ProbePlace, EndUpsert, canonVars
  <2>2. hand # Empty
    BY <2>1 DEF Control
  <2>3. table'[slot] = hand /\ \A t \in SlotId : t # slot => table'[t] = table[t]
    BY <1>0, <2>1 DEF Tables
  <2>4. \A t \in Occupied(table') : t # slot => t \in Occupied(table)
    BY <2>3 DEF Occupied
  <2>5. Occupied(table') \subseteq SlotId
    BY DEF Occupied
  <2>6. ASSUME NEW s \in Occupied(pool), NEW t \in Occupied(table') PROVE table'[t].key # pool[s].key
    BY <2>2, <2>3, <2>4, <2>5 DEF OneHome
  <2> QED
    BY <2>1, <2>6 DEF OneHome
<1>6. ASSUME ProbeDisplace PROVE OneHome'
  <2>1. /\ pc = "probe" /\ table' = [table EXCEPT ![slot] = hand] /\ hand' = table[slot]
        /\ pool' = pool /\ table[slot] # Empty /\ table[slot].key < hand.key
    BY <1>6 DEF ProbeDisplace, canonVars
  <2>2. hand # Empty /\ hand \in Entry /\ hand.key \in Nat
    BY <2>1, EntryFacts DEF Control, TypeOK
  <2>3. table'[slot] = hand /\ \A t \in SlotId : t # slot => table'[t] = table[t]
    BY <1>0, <2>1 DEF Tables
  <2>4. \A t \in Occupied(table') : t # slot => t \in Occupied(table)
    BY <2>3 DEF Occupied
  <2>5. Occupied(table') \subseteq SlotId /\ slot \in Occupied(table)
    BY <1>0, <2>1 DEF Occupied
  <2>6. ASSUME NEW t \in Occupied(table') PROVE table'[t].key # hand'.key
    <3>1. CASE t = slot
      <4>1. table[slot] \in Entry
        BY <1>0, <2>1 DEF Tables
      <4>2. table[slot].key \in Nat
        BY <4>1, EntryFacts
      <4> QED
        BY <2>1, <2>2, <2>3, <3>1, <4>2
    <3>2. CASE t # slot
      <4>1. t \in Occupied(table) /\ table'[t] = table[t]
        BY <2>3, <2>4, <2>5, <3>2
      <4>2. ShiOrdered(table, H, meta.capacity) /\ Within(table, meta.capacity)
        BY <2>1 DEF Layout
      <4> QED
        BY <1>0, <2>1, <2>5, <3>2, <4>1, <4>2, OrderedEntriesUnique
    <3> QED
      BY <3>1, <3>2
  <2>7. ASSUME NEW s \in Occupied(pool), NEW t \in Occupied(table') PROVE table'[t].key # pool[s].key
    BY <2>2, <2>3, <2>4, <2>5 DEF OneHome
  <2>8. ASSUME NEW s \in Occupied(pool) PROVE hand'.key # pool[s].key
    BY <2>1, <2>5 DEF OneHome
  <2> QED
    BY <2>1, <2>6, <2>7, <2>8 DEF OneHome
<1>7. ASSUME ProbePass PROVE OneHome'
  <2>1. pc = "probe" /\ UNCHANGED <<table, hand, pool>> /\ Advance
    BY <1>7 DEF ProbePass, canonVars
  <2>2. CASE pc' = "probe"
    BY <1>2, <2>1, <2>2
  <2>3. CASE pc' # "probe"
    <3>1. step \in Nat /\ step < meta.capacity /\ ~ (step + 1 < meta.capacity)
      BY <2>1, <2>3 DEF Advance, TypeOK
    <3>2. slot = probe(start, meta.capacity - 1, meta.capacity)
      <4>1. step = meta.capacity - 1
        BY <1>0, <3>1
      <4> QED
        BY <4>1 DEF slot
    <3>3. Passed(table, start, meta.capacity, hand.key, slot) /\ Larger(table, slot, hand.key)
      BY <1>7, <2>1 DEF Layout, ProbePass, Larger
    <3>4. start \in Nat /\ meta.capacity \in Nat \ {0}
      BY <1>0 DEF TypeOK
    <3>5. \A t \in 0 .. meta.capacity - 1 : Larger(table, t, hand.key)
      BY <3>2, <3>3, <3>4, PassedAll
    <3>6. hand.key \in Nat
      BY <2>1, EntryFacts DEF Control, TypeOK
    <3>7. ASSUME NEW t \in Occupied(table) PROVE table[t].key # hand.key
      <4>1. t \in 0 .. meta.capacity - 1
        BY <1>0, OccupiedWithin DEF Layout
      <4>2. table[t].key > hand.key
        BY <3>5, <4>1 DEF Larger
      <4> QED
        BY <3>6, <4>2
    <3> QED
      BY <2>1, <3>7 DEF OneHome
  <2> QED
    BY <2>2, <2>3
<1>8. ASSUME RehashCommit PROVE OneHome'
  <2>1. /\ pc = "reinsert" /\ pending = {} /\ table' = fresh /\ pool' = pool /\ hand' = hand
    BY <1>8 DEF RehashCommit, EndRehash, StartUpsert, canonVars, upsertVars
  <2>2. Contents(table') = Contents(table)
    BY <2>1 DEF NewLayout
  <2>3. ASSUME NEW t \in Occupied(table') PROVE \E u \in Occupied(table) : table'[t] = table[u]
    <3>1. table'[t] \in Contents(table)
      BY <2>2 DEF Contents
    <3> QED
      BY <3>1 DEF Contents
  <2> QED
    BY <2>1, <2>3 DEF OneHome
<1>9. ASSUME RehashCollect PROVE OneHome'
  BY <1>2, <1>9 DEF RehashCollect, EndRehash, StartUpsert, canonVars, upsertVars
<1>10. ASSUME Compact \/ CompactEnd \/ Commit PROVE OneHome'
  BY <1>1, <1>3, <1>10 DEF Compact, CompactEnd, Commit, canonVars, upsertVars
<1>11. ASSUME Canonicalize PROVE OneHome'
  <2>1. /\ pc = "idle" /\ pool' = table /\ table' = EmptyTable /\ hand' = hand
    BY <1>11 DEF Canonicalize, upsertVars
  <2>2. ShiOrdered(table, H, meta.capacity) /\ Within(table, meta.capacity)
    BY <2>1 DEF Layout
  <2>3. \A s, t \in Occupied(table) : table[s].key = table[t].key => s = t
    BY <1>0, <2>2, OrderedEntriesUnique
  <2>4. hand' = Empty /\ Occupied(table') = {}
    BY <1>3, <2>1, EntryFacts
  <2> QED
    BY <2>1, <2>3, <2>4 DEF OneHome
<1>12. ASSUME Replay PROVE OneHome'
  <2>1. PICK s \in Occupied(pool) : hand' = pool[s] /\ pool' = [pool EXCEPT ![s] = Empty]
    BY <1>12 DEF Replay, StartUpsert
  <2>2. pc' = "probe" /\ table' = table
    BY <1>12 DEF Replay, StartUpsert
  <2>3. s \in SlotId /\ pool'[s] = Empty /\ \A t \in SlotId : t # s => pool'[t] = pool[t]
    BY <1>0, <2>1 DEF Tables, Occupied
  <2>4. \A t \in Occupied(pool') : t \in Occupied(pool) /\ t # s /\ pool'[t] = pool[t]
    BY <2>3 DEF Occupied
  <2>5. ASSUME NEW t \in Occupied(pool') PROVE hand'.key # pool'[t].key
    BY <2>1, <2>4 DEF OneHome
  <2>6. ASSUME NEW t \in Occupied(pool'), NEW u \in Occupied(table') PROVE table'[u].key # pool'[t].key
    BY <2>2, <2>4 DEF OneHome
  <2>7. ASSUME NEW t \in Occupied(pool'), NEW u \in Occupied(pool'), pool'[t].key = pool'[u].key
        PROVE  t = u
    BY <2>4, <2>7 DEF OneHome
  <2> QED
    BY <2>2, <2>5, <2>6, <2>7 DEF OneHome
<1>13. CASE UNCHANGED vars
  BY <1>2, <1>13 DEF vars, upsertVars, canonVars
<1>14. ASSUME NEW k \in PlainKeys, Delete(k) PROVE OneHome'
  BY <1>1, <1>3, <1>14 DEF Delete, canonVars, upsertVars
<1>15. ASSUME NEW n \in Nonces, NEW c, Rehash(n, c) PROVE OneHome'
  BY <1>2, <1>15 DEF Rehash, canonVars, upsertVars
<1>16. ASSUME Grow \/ RehashAssert \/ RehashReinsert \/ ReplayEnd PROVE OneHome'
  <2>1. UNCHANGED <<table, hand, pool>>
    BY <1>16 DEF Grow, RehashAssert, RehashReinsert, ReplayEnd, canonVars, upsertVars
  <2>2. pc # "probe"
    BY <1>16 DEF Grow, RehashAssert, RehashPanics, RehashReinsert, ReplayEnd
  <2> QED
    BY <1>2, <2>1, <2>2
<1> QED
  BY <1>4, <1>5, <1>6, <1>7, <1>8, <1>9, <1>10, <1>11, <1>12, <1>13, <1>14, <1>15, <1>16
     DEF Next, Call, Step, UpsertStep, RehashStep, DeleteStep, ReplayStep, SetNonce

-------------------------------------------------------------------------------
(* The theorems *)

(* Inductive holds in every state of every behaviour. *)
THEOREM InductiveInvariant == Spec => []Inductive
<1>1. Init => Inductive
  <2> SUFFICES ASSUME Init PROVE Inductive
    OBVIOUS
  <2>1. table = EmptyTable /\ used = 0 /\ pool = EmptyTable /\ hand = Empty
    BY DEF Init
  <2>2. UsageExact
    BY <2>1, EntryFacts, FS_EmptySet DEF UsageExact
  <2>3. OneHome
    BY <2>1, EntryFacts DEF OneHome
  <2> QED
    BY <2>2, <2>3, InitType, InitLayout DEF Inductive
<1>2. Inductive /\ [Next]_vars => Inductive'
  <2> SUFFICES ASSUME Inductive, [Next]_vars PROVE Inductive'
    OBVIOUS
  <2>1. TypeOK /\ Control /\ Layout /\ NewLayout /\ OneHome /\ UsageExact
    BY DEF Inductive
  <2>2. TypeOK' /\ Control'
    BY <2>1, TypeStep, ControlStep
  <2>3. Layout' /\ NewLayout'
    BY <2>1, <2>2, LayoutStep, NewLayoutStep
  <2>4. UsageExact' /\ OneHome'
    BY <2>1, UsageStep, OneHomeStep
  <2> QED
    BY <2>2, <2>3, <2>4 DEF Inductive
<1> QED
  BY <1>1, <1>2, PTL DEF Spec

(* No call leaves the types: in particular the capacity never exceeds the  *)
(* largest slot id and the loop counter of shi_upsert never the capacity.  *)
THEOREM TypeCorrect == Spec => []TypeOK
<1>1. Inductive => TypeOK
  BY DEF Inductive
<1> QED
  BY <1>1, InductiveInvariant, PTL

(* Every call restores the order that shi_search relies on. *)
THEOREM OrderRestored == Spec => []OrderedWhenIdle
<1>1. Inductive => OrderedWhenIdle
  BY DEF Inductive, Layout, OrderedWhenIdle
<1> QED
  BY <1>1, InductiveInvariant, PTL

(* The layout of a bucket is a function of its entries, nonce and          *)
(* capacity: the theorem the state root of SALT depends on.                *)
THEOREM HistoryIndependence == Spec => []HistoryIndependent
<1>1. Inductive => HistoryIndependent
  <2> SUFFICES ASSUME Inductive, pc = "idle", NEW T \in Tables,
                      Contents(T) = Contents(table), Within(T, meta.capacity),
                      ShiOrdered(T, H, meta.capacity)
               PROVE  T = table
    BY DEF HistoryIndependent
  <2>1. Within(table, meta.capacity) /\ ShiOrdered(table, H, meta.capacity)
    BY DEF Inductive, Layout
  <2>2. /\ meta.capacity \in 1 .. MaxCapacity /\ H \in [PlainKeys -> Nat] /\ table \in Tables
    BY Derived DEF Inductive, TypeOK
  <2> QED
    BY <2>1, <2>2, LayoutUnique
<1> QED
  BY <1>1, InductiveInvariant, PTL

(* shi_search finds every stored key. *)
THEOREM SearchFindsAll == Spec => []FindComplete
<1>1. Inductive => FindComplete
  <2> SUFFICES ASSUME Inductive, pc = "idle", NEW s \in Occupied(table)
               PROVE  ShiSearch(table, H, meta.capacity, table[s].key) = {s}
    BY DEF FindComplete
  <2>1. Within(table, meta.capacity) /\ ShiOrdered(table, H, meta.capacity)
    BY DEF Inductive, Layout
  <2>2. /\ meta.capacity \in 1 .. MaxCapacity /\ H \in [PlainKeys -> Nat] /\ table \in Tables
    BY Derived DEF Inductive, TypeOK
  <2>3. s \in 0 .. meta.capacity - 1 /\ table[s] # Empty
    BY <2>1, <2>2, OccupiedWithin
  <2>4. s \in ShiSearch(table, H, meta.capacity, table[s].key)
    BY <2>1, <2>3 DEF ShiSearch, ShiOrdered
  <2>5. ASSUME NEW t \in ShiSearch(table, H, meta.capacity, table[s].key) PROVE t = s
    <3>1. t \in 0 .. meta.capacity - 1 /\ table[t] # Empty /\ table[t].key = table[s].key
      BY DEF ShiSearch
    <3>2. t \in Occupied(table)
      BY <2>2, <3>1, CapacityAssumption DEF Occupied, SlotId
    <3> QED
      BY <2>1, <2>2, <3>1, <3>2, OrderedEntriesUnique
  <2> QED
    BY <2>4, <2>5
<1> QED
  BY <1>1, InductiveInvariant, PTL

(* The usage count that decides about resizing never drifts. *)
THEOREM UsageCountExact == Spec => []UsageExact
<1>1. Inductive => UsageExact
  BY DEF Inductive
<1> QED
  BY <1>1, InductiveInvariant, PTL

(* No slot beyond the capacity is ever occupied. *)
THEOREM CapacityRespected == Spec => []NothingBeyondCapacity
<1>1. Inductive => NothingBeyondCapacity
  BY DEF Inductive, Layout, NothingBeyondCapacity
<1> QED
  BY <1>1, InductiveInvariant, PTL

(* The loop of shi_rehash always finds a vacant slot. *)
THEOREM RehashKeepsEntries == Spec => []RehashLosesNothing
<1>1. Inductive => RehashLosesNothing
  BY DEF Inductive, NewLayout, RehashLosesNothing
<1> QED
  BY <1>1, InductiveInvariant, PTL

(* The gap of a deletion had an entry that is larger than all that may fill it. *)
LEMMA GapLargestStep == Inductive /\ GapLargest /\ [Next]_vars => GapLargest'
<1> SUFFICES ASSUME Inductive, GapLargest, [Next]_vars, pc' = "compact" PROVE GapLargest'
  BY DEF GapLargest
<1>1. /\ meta.capacity \in Nat \ {0} /\ table \in Tables /\ H \in [PlainKeys -> Nat]
      /\ meta.capacity <= MaxCapacity
  BY Derived, CapacityAssumption DEF Inductive, TypeOK
<1>2. CASE UNCHANGED vars
  BY <1>2 DEF GapLargest, vars, H
<1>3. ASSUME NEW k \in PlainKeys, Delete(k) PROVE GapLargest'
  <2>1. PICK g \in 0 .. meta.capacity - 1 : gap' = g
    BY <1>3 DEF Delete, ShiSearch
  <2>2. pc = "idle" /\ table' = table /\ meta' = meta /\ H' = H
    BY <1>3 DEF Delete, H
  <2>3. ShiOrdered(table, H, meta.capacity)
    BY <2>2 DEF Inductive, Layout
  <2>4. ASSUME NEW s \in 0 .. meta.capacity - 1, table[s] # Empty, Suitable(table, H, meta.capacity, g, s)
        PROVE  table[s].key < table[g].key
    <3>1. s \in SlotId /\ g \in SlotId
      BY <1>1, <2>1, CapacityAssumption DEF SlotId
    <3>2. g \in Before(H[table[s].key], s, meta.capacity)
      BY <2>1, <2>4 DEF Suitable, Before
    <3>3. Larger(table, g, table[s].key)
      BY <2>3, <2>4, <3>2 DEF ShiOrdered, Passed
    <3>4. table[s].key \in Nat /\ table[g].key \in Nat
      BY <1>1, <2>4, <3>1, <3>3, KeysAssumption DEF Tables, Entry, Larger
    <3> QED
      BY <3>3, <3>4 DEF Larger
  <2> QED
    BY <2>1, <2>2, <2>4 DEF GapLargest
<1>4. ASSUME Compact PROVE GapLargest'
  <2>1. PICK s, g : g = gap /\ s \in ShiNext(table, H, meta.capacity, g) /\ gap' = s
                    /\ table' = [table EXCEPT ![g] = table[s]]
    BY <1>4 DEF Compact
  <2>2. pc = "compact" /\ meta' = meta /\ H' = H
    BY <1>4 DEF Compact, H
  <2>3. g \in 0 .. meta.capacity - 1 /\ ShiOrderedExcept(table, H, meta.capacity, g)
    BY <2>1, <2>2 DEF Inductive, Layout
  <2>4. /\ s \in 0 .. meta.capacity - 1 /\ s # g /\ table[s] # Empty
        /\ Suitable(table, H, meta.capacity, g, s)
    BY <2>1 DEF ShiNext
  <2>5. s \in SlotId /\ g \in SlotId
    BY <1>1, <2>3, <2>4, CapacityAssumption DEF SlotId
  <2>6. table'[g] = table[s] /\ \A t \in SlotId : t # g => table'[t] = table[t]
    BY <1>1, <2>1, <2>5 DEF Tables
  <2>7. ASSUME NEW t \in 0 .. meta.capacity - 1, t # s, table'[t] # Empty,
               Suitable(table', H, meta.capacity, s, t)
        PROVE  table'[t].key < table'[s].key
    <3>1. t \in SlotId
      BY <1>1, CapacityAssumption DEF SlotId
    <3>2. t # g
      <4>1. SUFFICES ASSUME t = g PROVE FALSE
        OBVIOUS
      <4>2. rank(H[table[s].key], g, meta.capacity) > rank(H[table[s].key], s, meta.capacity)
        BY <2>6, <2>7, <4>1 DEF Suitable
      <4>3. rank(H[table[s].key], s, meta.capacity) > rank(H[table[s].key], g, meta.capacity)
        BY <2>4 DEF Suitable
      <4>4. H[table[s].key] \in Nat
        BY <1>1, <2>4, <2>5 DEF Tables, Entry
      <4>5. rank(H[table[s].key], s, meta.capacity) \in Int /\ rank(H[table[s].key], g, meta.capacity) \in Int
        BY <1>1, <2>3, <2>4, <4>4, RankRange
      <4> QED
        BY <4>2, <4>3, <4>5
    <3>3. table'[t] = table[t] /\ table'[s] = table[s]
      BY <2>4, <2>5, <2>6, <3>1, <3>2
    <3>4. s \in Before(H[table[t].key], t, meta.capacity)
      BY <2>4, <2>7, <3>3 DEF Suitable, Before
    <3>5. Larger(table, s, table[t].key)
      BY <2>3, <2>4, <2>7, <3>2, <3>3, <3>4 DEF ShiOrderedExcept
    <3>6. table[s].key \in Nat /\ table[t].key \in Nat
      BY <1>1, <2>4, <2>5, <2>7, <3>1, <3>3, KeysAssumption DEF Tables, Entry
    <3> QED
      BY <3>3, <3>5, <3>6 DEF Larger
  <2> QED
    BY <2>1, <2>2, <2>7 DEF GapLargest
<1>5. ASSUME Next, ~ Compact, \A k \in PlainKeys : ~ Delete(k) PROVE FALSE
  BY <1>5 DEF Next, Call, Step, UpsertStep, RehashStep, DeleteStep, ReplayStep, Upsert, UpsertDirect,
         StartUpsert, SetNonce, Rehash, Canonicalize, Commit, ProbeEqual, ProbeDisplace, ProbePass,
         ProbePlace, Advance, Return, Grow, RehashAssert, RehashCollect, EndRehash, RehashReinsert,
         RehashCommit, CompactEnd, Replay, ReplayEnd, Inductive, Control
<1> QED
  BY <1>2, <1>3, <1>4, <1>5

(* An insertion or deletion leaves the larger keys in their slots: what    *)
(* the replay of a witness relies on when it takes the keys of a block in  *)
(* ascending order and finds the later ones by the lookup table.           *)
THEOREM LargerKeysStay == Spec => [][LargerStay]_vars
<1>1. Init => GapLargest
  BY DEF Init, GapLargest
<1>2. Inductive /\ GapLargest /\ [Next]_vars => [LargerStay]_vars
  <2> SUFFICES ASSUME Inductive, GapLargest, Next PROVE LargerStay
    BY DEF vars
  <2>1. ASSUME pc = "probe"
        PROVE  /\ \A s \in SlotId : Larger(table, s, hand.key) => table'[s] = table[s]
               /\ hand' # Empty => hand'.key <= hand.key
    <3>1. UpsertStep
      BY <2>1 DEF Next, Call, Step, RehashStep, DeleteStep, ReplayStep, Upsert, UpsertDirect,
             SetNonce, Rehash, Delete, Canonicalize, Commit, Grow, RehashAssert, RehashPanics, RehashCollect,
             RehashReinsert, RehashCommit, Compact, CompactEnd, Replay, ReplayEnd
    <3>2. table \in Tables /\ slot \in SlotId /\ hand \in Entry /\ hand # Empty
      BY <2>1, Derived DEF Inductive, TypeOK, Control
    <3>3. hand.key \in Nat /\ (table[slot] # Empty => table[slot].key \in Nat)
      BY <3>2, KeysAssumption DEF Tables, Entry
    <3>4. ASSUME ~ Larger(table, slot, hand.key), NEW e, table' = [table EXCEPT ![slot] = e]
          PROVE  \A s \in SlotId : Larger(table, s, hand.key) => table'[s] = table[s]
      BY <3>2, <3>4 DEF Tables
    <3>5. CASE ProbeEqual
      BY <3>3, <3>4, <3>5 DEF ProbeEqual, EndUpsert, Larger
    <3>6. CASE ProbeDisplace
      BY <3>3, <3>4, <3>6 DEF ProbeDisplace, Larger
    <3>7. CASE ProbePass
      BY <3>3, <3>7 DEF ProbePass
    <3>8. CASE \E known \in BOOLEAN : ProbePlace(known)
      BY <3>4, <3>8 DEF ProbePlace, EndUpsert, Larger
    <3> QED
      BY <3>1, <3>5, <3>6, <3>7, <3>8 DEF UpsertStep
  <2>2. ASSUME pc = "compact"
        PROVE  /\ \A s \in SlotId : Larger(table, s, table[gap].key) => table'[s] = table[s]
               /\ pc' = "compact" => table'[gap'].key <= table[gap].key
    <3>1. Compact \/ CompactEnd
      BY <2>2 DEF Next, Call, Step, UpsertStep, RehashStep, DeleteStep, ReplayStep, Upsert, UpsertDirect,
             SetNonce, Rehash, Delete, Canonicalize, Commit, Grow, RehashAssert, RehashPanics, RehashCollect,
             RehashReinsert, RehashCommit, Replay, ReplayEnd, ProbeEqual, ProbeDisplace, ProbePass, ProbePlace
    <3>2. /\ table \in Tables /\ gap \in 0 .. meta.capacity - 1 /\ table[gap] # Empty
          /\ meta.capacity \in 1 .. MaxCapacity
      BY <2>2, Derived DEF Inductive, TypeOK, Layout
    <3>3. gap \in SlotId /\ table[gap].key \in Nat
      <4>1. gap \in SlotId
        BY <3>2, CapacityAssumption DEF SlotId
      <4> QED
        BY <3>2, <4>1, KeysAssumption DEF Tables, Entry
    <3>4. ~ Larger(table, gap, table[gap].key)
      BY <3>3 DEF Larger
    <3>5. ASSUME NEW e, table' = [table EXCEPT ![gap] = e]
          PROVE  \A s \in SlotId : Larger(table, s, table[gap].key) => table'[s] = table[s]
      BY <3>2, <3>4, <3>5 DEF Tables
    <3>6. CASE CompactEnd
      BY <3>5, <3>6 DEF CompactEnd
    <3>7. CASE Compact
      <4>1. PICK s \in ShiNext(table, H, meta.capacity, gap) :
              table' = [table EXCEPT ![gap] = table[s]] /\ gap' = s
        BY <3>7 DEF Compact
      <4>2. s \in 0 .. meta.capacity - 1 /\ s # gap /\ table[s] # Empty /\ Suitable(table, H, meta.capacity, gap, s)
        BY <4>1 DEF ShiNext
      <4>3. table[s].key < table[gap].key /\ s \in SlotId
        BY <2>2, <3>2, <4>2, CapacityAssumption DEF GapLargest, SlotId
      <4>4. table'[s] = table[s] /\ table[s].key \in Nat
        BY <3>2, <4>1, <4>2, <4>3, KeysAssumption DEF Tables, Entry
      <4>5. table'[gap'].key <= table[gap].key
        BY <3>3, <4>1, <4>3, <4>4
      <4> QED
        BY <3>5, <4>1, <4>5
    <3> QED
      BY <3>1, <3>6, <3>7
  <2> QED
    BY <2>1, <2>2 DEF LargerStay
<1> QED
  BY <1>1, <1>2, GapLargestStep, InductiveInvariant, PTL DEF Spec
-------------------------------------------------------------------------------
(***************************************************************************)
(* A bucket implements KvMap, for every key set, hash function, capacity   *)
(* and load factor: each call changes the map of its client as the call    *)
(* promises, at the one step where it starts, and none of the loops behind *)
(* it (displacement, compaction, expansion, rehash, replay) changes it.    *)
(***************************************************************************)

(* The map that a set of entries stands for. *)
MapOf(L) == [k \in PlainKeys |->
               IF \E e \in L : e.key = k THEN (CHOOSE e \in L : e.key = k).val ELSE Empty]

(* No key has two entries. *)
OneEntryPerKey(L) == \A e, f \in L : e.key = f.key => e = f

(* The value of a key that has one entry. *)
LEMMA MapOfMember ==
  ASSUME NEW L \in SUBSET Entry, OneEntryPerKey(L), NEW e \in L
  PROVE  MapOf(L)[e.key] = e.val
<1>1. e.key \in PlainKeys
  BY EntryFacts
<1>2. \E f \in L : f.key = e.key
  OBVIOUS
<1>3. (CHOOSE f \in L : f.key = e.key) = e
  BY <1>2 DEF OneEntryPerKey
<1> QED
  BY <1>1, <1>2, <1>3 DEF MapOf

(* What insert and update do to the map of the plain keys. *)
LEMMA MapOfPut ==
  ASSUME NEW L \in SUBSET Entry, OneEntryPerKey(L), NEW k \in PlainKeys, NEW v \in Values
  PROVE  MapOf({[key |-> k, val |-> v]} \cup {e \in L : e.key # k}) = [MapOf(L) EXCEPT ![k] = v]
<1> DEFINE n == [key |-> k, val |-> v]
           M == {n} \cup {e \in L : e.key # k}
<1>1. n \in Entry /\ n.key = k /\ n.val = v
  BY EntryFacts
<1>2. M \in SUBSET Entry /\ OneEntryPerKey(M) /\ n \in M
  BY <1>1 DEF OneEntryPerKey
<1>3. MapOf(M)[k] = v
  BY <1>1, <1>2, MapOfMember
<1>4. ASSUME NEW j \in PlainKeys, j # k PROVE MapOf(M)[j] = MapOf(L)[j]
  <2>1. CASE \E e \in L : e.key = j
    <3>1. PICK e \in L : e.key = j
      BY <2>1
    <3>2. e \in M
      BY <1>4, <3>1
    <3>3. MapOf(L)[e.key] = e.val
      BY MapOfMember
    <3>4. MapOf(M)[e.key] = e.val
      BY <1>2, <3>2, MapOfMember
    <3> QED
      BY <3>1, <3>3, <3>4
  <2>2. CASE ~ \E e \in L : e.key = j
    <3>1. ~ \E e \in M : e.key = j
      BY <1>1, <1>4, <2>2
    <3>2. MapOf(M)[j] = Empty
      BY <3>1 DEF MapOf
    <3>3. MapOf(L)[j] = Empty
      BY <2>2 DEF MapOf
    <3> QED
      BY <3>2, <3>3
  <2> QED
    BY <2>1, <2>2
<1>5. DOMAIN MapOf(M) = PlainKeys /\ DOMAIN MapOf(L) = PlainKeys
  BY DEF MapOf
<1> HIDE DEF M
<1>6. MapOf(M) = [j \in PlainKeys |-> MapOf(M)[j]] /\ MapOf(L) = [j \in PlainKeys |-> MapOf(L)[j]]
  BY DEF MapOf
<1>7. MapOf(M) = [MapOf(L) EXCEPT ![k] = v]
  BY <1>3, <1>4, <1>5, <1>6
<1> QED
  BY <1>7 DEF M

(* What delete does to the map of the plain keys. *)
LEMMA MapOfRemove ==
  ASSUME NEW L \in SUBSET Entry, OneEntryPerKey(L), NEW k \in PlainKeys
  PROVE  MapOf({e \in L : e.key # k}) = [MapOf(L) EXCEPT ![k] = Empty]
<1> DEFINE M == {e \in L : e.key # k}
<1>1. M \in SUBSET Entry /\ OneEntryPerKey(M)
  BY DEF OneEntryPerKey
<1>2. MapOf(M)[k] = Empty
  BY DEF MapOf
<1>3. ASSUME NEW j \in PlainKeys, j # k PROVE MapOf(M)[j] = MapOf(L)[j]
  <2>1. CASE \E e \in L : e.key = j
    <3>1. PICK e \in L : e.key = j
      BY <2>1
    <3>2. e \in M
      BY <1>3, <3>1
    <3>3. MapOf(L)[e.key] = e.val /\ MapOf(M)[e.key] = e.val
      BY <1>1, <3>2, MapOfMember
    <3> QED
      BY <3>1, <3>3
  <2>2. CASE ~ \E e \in L : e.key = j
    <3>1. ~ \E e \in M : e.key = j
      BY <2>2
    <3> QED
      BY <2>2, <3>1 DEF MapOf
  <2> QED
    BY <2>1, <2>2
<1> HIDE DEF M
<1>4. MapOf(M) = [j \in PlainKeys |-> MapOf(M)[j]] /\ MapOf(L) = [j \in PlainKeys |-> MapOf(L)[j]]
  BY DEF MapOf
<1>5. MapOf(M) = [MapOf(L) EXCEPT ![k] = Empty]
  BY <1>2, <1>3, <1>4
<1> QED
  BY <1>5 DEF M
-------------------------------------------------------------------------------
(* The entries of a client *)

(* Live, for a table T with a gap g, a hand h and a pool P. *)
LiveOf(T, g, h, P) ==
  (IF h = Empty THEN {} ELSE {h})
    \cup {e \in {T[s] : s \in Occupied(T) \ {g}} : h = Empty \/ e.key # h.key}
    \cup Contents(P)

(* Member by member. *)
LEMMA LiveOfMember ==
  ASSUME NEW T, NEW g, NEW h, NEW P, NEW e
  PROVE  e \in LiveOf(T, g, h, P) <=>
           \/ h # Empty /\ e = h
           \/ \E s \in SlotId : s # g /\ T[s] # Empty /\ e = T[s] /\ (h = Empty \/ e.key # h.key)
           \/ \E s \in SlotId : P[s] # Empty /\ e = P[s]
  BY DEF LiveOf, Contents, Occupied

(* Tables T and U differ at slot s at most. *)
SameBut(T, U, s) == \A t \in SlotId : t # s => U[t] = T[t]

(* The entry in hand goes into slot s and what the slot held is in hand,   *)
(* when its key is not in the other slots.                                 *)
LEMMA LiveOfPut ==
  ASSUME NEW T, NEW U, NEW s \in SlotId, NEW h, NEW n, NEW g, g \notin SlotId, NEW P,
         h # Empty, U[s] = h, SameBut(T, U, s),
         \A t \in SlotId : t # s /\ T[t] # Empty => T[t].key # h.key,
         \/ n = Empty /\ (T[s] # Empty => T[s].key = h.key)
         \/ /\ T[s] # Empty /\ n = T[s] /\ T[s].key # h.key
            /\ \A t \in SlotId : t # s /\ T[t] # Empty => T[t].key # T[s].key
  PROVE  LiveOf(U, g, n, P) = LiveOf(T, g, h, P)
<1>1. s # g /\ \A t \in SlotId : t # g /\ (t # s => U[t] = T[t])
  BY DEF SameBut
<1>2. ASSUME NEW e \in LiveOf(U, g, n, P) PROVE e \in LiveOf(T, g, h, P)
  <2>1. \/ n # Empty /\ e = n
        \/ \E t \in SlotId : U[t] # Empty /\ e = U[t] /\ (n = Empty \/ e.key # n.key)
        \/ \E t \in SlotId : P[t] # Empty /\ e = P[t]
    BY <1>2, LiveOfMember
  <2>2. \/ h # Empty /\ e = h
        \/ \E t \in SlotId : t # g /\ T[t] # Empty /\ e = T[t] /\ (h = Empty \/ e.key # h.key)
        \/ \E t \in SlotId : P[t] # Empty /\ e = P[t]
    BY <1>1, <2>1
  <2> QED
    BY <2>2, LiveOfMember
<1>3. ASSUME NEW e \in LiveOf(T, g, h, P) PROVE e \in LiveOf(U, g, n, P)
  <2>1. \/ e = h
        \/ \E t \in SlotId : T[t] # Empty /\ e = T[t] /\ e.key # h.key
        \/ \E t \in SlotId : P[t] # Empty /\ e = P[t]
    BY <1>3, LiveOfMember
  <2>2. \/ n # Empty /\ e = n
        \/ \E t \in SlotId : t # g /\ U[t] # Empty /\ e = U[t] /\ (n = Empty \/ e.key # n.key)
        \/ \E t \in SlotId : P[t] # Empty /\ e = P[t]
    BY <1>1, <2>1
  <2> QED
    BY <2>2, LiveOfMember
<1> QED
  BY <1>2, <1>3

(* The gap moves on from g: the entry of the new gap n is copied into it,  *)
(* or there is no new gap and the slot is emptied.                         *)
LEMMA LiveOfGap ==
  ASSUME NEW T, NEW U, NEW g \in SlotId, NEW n, NEW P, SameBut(T, U, g),
         \/ n \in SlotId /\ n # g /\ T[n] # Empty /\ U[g] = T[n]
         \/ n \notin SlotId /\ U[g] = Empty
  PROVE  LiveOf(U, n, Empty, P) = LiveOf(T, g, Empty, P)
<1>1. \A t \in SlotId : t # g => U[t] = T[t]
  BY DEF SameBut
<1>2. ASSUME NEW e \in LiveOf(U, n, Empty, P) PROVE e \in LiveOf(T, g, Empty, P)
  <2>1. \/ \E t \in SlotId : t # n /\ U[t] # Empty /\ e = U[t]
        \/ \E t \in SlotId : P[t] # Empty /\ e = P[t]
    BY <1>2, LiveOfMember
  <2>2. \/ \E t \in SlotId : t # g /\ T[t] # Empty /\ e = T[t]
        \/ \E t \in SlotId : P[t] # Empty /\ e = P[t]
    BY <1>1, <2>1
  <2> QED
    BY <2>2, LiveOfMember
<1>3. ASSUME NEW e \in LiveOf(T, g, Empty, P) PROVE e \in LiveOf(U, n, Empty, P)
  <2>1. \/ \E t \in SlotId : t # g /\ T[t] # Empty /\ e = T[t]
        \/ \E t \in SlotId : P[t] # Empty /\ e = P[t]
    BY <1>3, LiveOfMember
  <2>2. \/ \E t \in SlotId : t # n /\ U[t] # Empty /\ e = U[t]
        \/ \E t \in SlotId : P[t] # Empty /\ e = P[t]
    BY <1>1, <2>1
  <2> QED
    BY <2>2, LiveOfMember
<1> QED
  BY <1>2, <1>3

(* An entry that no slot of the table has goes from the pool to the hand. *)
LEMMA LiveOfTake ==
  ASSUME NEW T, NEW g, NEW P, NEW Q, NEW s \in SlotId, P[s] # Empty, Q[s] = Empty, SameBut(P, Q, s),
         \A t \in SlotId : T[t] # Empty => T[t].key # P[s].key
  PROVE  LiveOf(T, g, P[s], Q) = LiveOf(T, g, Empty, P)
<1>1. \A t \in SlotId : t # s => Q[t] = P[t]
  BY DEF SameBut
<1>2. ASSUME NEW e \in LiveOf(T, g, P[s], Q) PROVE e \in LiveOf(T, g, Empty, P)
  <2>1. \/ e = P[s]
        \/ \E t \in SlotId : t # g /\ T[t] # Empty /\ e = T[t]
        \/ \E t \in SlotId : Q[t] # Empty /\ e = Q[t]
    BY <1>2, LiveOfMember
  <2>2. \/ \E t \in SlotId : t # g /\ T[t] # Empty /\ e = T[t]
        \/ \E t \in SlotId : P[t] # Empty /\ e = P[t]
    BY <1>1, <2>1
  <2> QED
    BY <2>2, LiveOfMember
<1>3. ASSUME NEW e \in LiveOf(T, g, Empty, P) PROVE e \in LiveOf(T, g, P[s], Q)
  <2>1. \/ \E t \in SlotId : t # g /\ T[t] # Empty /\ e = T[t]
        \/ \E t \in SlotId : P[t] # Empty /\ e = P[t]
    BY <1>3, LiveOfMember
  <2>2. \/ e = P[s]
        \/ \E t \in SlotId : t # g /\ T[t] # Empty /\ e = T[t] /\ e.key # P[s].key
        \/ \E t \in SlotId : Q[t] # Empty /\ e = Q[t]
    BY <1>1, <2>1
  <2> QED
    BY <2>2, LiveOfMember
<1> QED
  BY <1>2, <1>3

(* The state variables. *)
LEMMA LiveIs == Live = LiveOf(table, gap, hand, pool) /\ Live' = LiveOf(table', gap', hand', pool')
  BY DEF Live, LiveOf

(* Live, member by member. *)
LEMMA LiveMembers ==
  \A e : e \in Live <=>
           \/ hand # Empty /\ e = hand
           \/ \E s \in Occupied(table) \ {gap} : e = table[s] /\ (hand = Empty \/ e.key # hand.key)
           \/ \E s \in Occupied(pool) : e = pool[s]
  BY DEF Live, Contents

(* Outside a deletion the table has one slot for each key, and during one  *)
(* the slots but the gap do.                                               *)
LEMMA SlotsUnique ==
  ASSUME Inductive, NEW s \in Occupied(table) \ {gap}, NEW t \in Occupied(table) \ {gap},
         table[s].key = table[t].key
  PROVE  s = t
<1>1. meta.capacity \in 1 .. MaxCapacity /\ H \in [PlainKeys -> Nat] /\ table \in Tables
  BY Derived DEF Inductive, TypeOK
<1>2. Within(table, meta.capacity)
  BY DEF Inductive, Layout
<1>3. CASE pc = "compact"
  <2>1. ShiOrderedExcept(table, H, meta.capacity, gap)
    BY <1>3 DEF Inductive, Layout
  <2>2. s \in 0 .. meta.capacity - 1 /\ t \in 0 .. meta.capacity - 1 /\ table[s] # Empty /\ table[t] # Empty
    BY <1>1, <1>2, OccupiedWithin
  <2> QED
    BY <1>1, <2>1, <2>2, OrderedKeysUnique
<1>4. CASE pc # "compact"
  <2>1. ShiOrdered(table, H, meta.capacity)
    BY <1>4 DEF Inductive, Layout
  <2> QED
    BY <1>1, <1>2, <2>1, OrderedEntriesUnique
<1> QED
  BY <1>3, <1>4

(* A client never sees two values of one key, in the middle of a call too. *)
LEMMA LiveOne ==
  ASSUME Inductive
  PROVE  Live \in SUBSET Entry /\ OneEntryPerKey(Live)
<1>1. /\ table \in Tables /\ pool \in Tables /\ hand \in Entry \cup {Empty}
  BY DEF Inductive, TypeOK
<1>2. \A s \in Occupied(table) : table[s] \in Entry
  BY <1>1 DEF Occupied, Tables
<1>3. \A s \in Occupied(pool) : pool[s] \in Entry
  BY <1>1 DEF Occupied, Tables
<1>4. Live \in SUBSET Entry
  BY <1>1, <1>2, <1>3, LiveMembers
<1>5. ASSUME NEW e \in Live, NEW f \in Live, e.key = f.key PROVE e = f
  <2>1. \A s \in Occupied(pool) : /\ hand # Empty => hand.key # pool[s].key
                                  /\ \A t \in Occupied(table) : table[t].key # pool[s].key
    BY DEF Inductive, OneHome
  <2>2. \A s, t \in Occupied(pool) : pool[s].key = pool[t].key => s = t
    BY DEF Inductive, OneHome
  <2>3. CASE \E s \in Occupied(pool) : e = pool[s]
    BY <1>5, <2>1, <2>2, <2>3, LiveMembers
  <2>4. CASE \E s \in Occupied(pool) : f = pool[s]
    BY <1>5, <2>1, <2>2, <2>4, LiveMembers
  <2>5. CASE \E s \in Occupied(table) \ {gap} : e = table[s] /\ (hand = Empty \/ e.key # hand.key)
    BY <1>5, <2>4, <2>5, SlotsUnique, LiveMembers
  <2>6. CASE hand # Empty /\ e = hand
    BY <1>5, <2>4, <2>6, LiveMembers
  <2> QED
    BY <2>3, <2>5, <2>6, LiveMembers
<1> QED
  BY <1>4, <1>5 DEF OneEntryPerKey

(* Where shi_upsert stops at an empty slot or a smaller key, the key in    *)
(* hand is nowhere in the table.                                           *)
LEMMA HandAbsent ==
  ASSUME Inductive, pc = "probe", table[slot] = Empty \/ table[slot].key < hand.key,
         NEW t \in Occupied(table)
  PROVE  table[t].key # hand.key
<1> SUFFICES ASSUME table[t].key = hand.key PROVE FALSE
  OBVIOUS
<1>1. /\ meta.capacity \in 1 .. MaxCapacity /\ meta.capacity \in Nat \ {0}
      /\ H \in [PlainKeys -> Nat] /\ table \in Tables /\ slot \in 0 .. meta.capacity - 1
  BY Derived DEF Inductive, TypeOK
<1>2. t \in 0 .. meta.capacity - 1 /\ table[t] # Empty
  BY <1>1, OccupiedWithin DEF Inductive, Layout
<1>3. hand.key \in PlainKeys /\ hand.key \in Nat /\ H[hand.key] \in Nat
  BY <1>1, EntryFacts DEF Inductive, TypeOK, Control
<1>4. ~ Larger(table, slot, hand.key) /\ ~ Larger(table, t, hand.key)
  <2>1. table[slot] # Empty => table[slot].key \in Nat
    BY <1>1, EntryFacts, CapacityAssumption DEF Tables, SlotId
  <2> QED
    BY <1>3, <2>1 DEF Larger
<1>5. t # slot
  BY <1>2, <1>3
<1>6. CASE t \in Before(H[hand.key], slot, meta.capacity)
  <2>1. Passed(table, H[hand.key], meta.capacity, hand.key, slot)
    BY DEF Inductive, Layout
  <2> QED
    BY <1>4, <1>6, <2>1 DEF Passed
<1>7. CASE slot \in Before(H[hand.key], t, meta.capacity)
  <2>1. ShiOrdered(table, H, meta.capacity)
    BY DEF Inductive, Layout
  <2>2. Passed(table, H[hand.key], meta.capacity, hand.key, t)
    BY <1>2, <2>1 DEF ShiOrdered
  <2> QED
    BY <1>4, <1>7, <2>2 DEF Passed
<1> QED
  BY <1>1, <1>2, <1>3, <1>5, <1>6, <1>7, BeforeTotal
-------------------------------------------------------------------------------
(* What each step does to the entries of a client *)

(* shi_upsert finds the key and replaces its value, or places the entry in *)
(* hand in an empty slot, or takes a slot from a smaller key and carries   *)
(* that one on.                                                            *)
LEMMA LiveProbe ==
  ASSUME Inductive, ProbeEqual \/ ProbeDisplace \/ \E known \in BOOLEAN : ProbePlace(known)
  PROVE  Live' = Live
<1>1. /\ pc = "probe" /\ table' = [table EXCEPT ![slot] = hand] /\ pool' = pool /\ gap' = gap
  BY DEF ProbeEqual, ProbeDisplace, ProbePlace, canonVars
<1>2. table \in Tables /\ slot \in SlotId /\ gap = NoSlot /\ hand \in Entry /\ gap \notin SlotId
  BY <1>1, Derived DEF Inductive, TypeOK, Control, NoSlot, SlotId
<1>3. \A t \in SlotId : t \in Occupied(table) \ {gap} <=> table[t] # Empty
  BY <1>2 DEF Occupied
<1>8. table'[slot] = hand /\ SameBut(table, table', slot) /\ hand # Empty
  BY <1>1, <1>2, EntryFacts DEF Tables, SameBut
<1>4. table[slot] # Empty => \A t \in SlotId : t # slot /\ table[t] # Empty => table[t].key # table[slot].key
  BY <1>2, <1>3, SlotsUnique
<1>5. CASE ProbeEqual
  <2>1. hand' = Empty /\ table[slot] # Empty /\ table[slot].key = hand.key
    BY <1>5 DEF ProbeEqual, EndUpsert
  <2>2. LiveOf(table', gap, Empty, pool) = LiveOf(table, gap, hand, pool)
    BY <1>2, <1>8, <1>4, <2>1, LiveOfPut
  <2> QED
    BY <1>1, <2>1, <2>2, LiveIs
<1>6. CASE ProbeDisplace
  <2>1. hand' = table[slot] /\ table[slot] # Empty /\ table[slot].key < hand.key
    BY <1>6 DEF ProbeDisplace
  <2>2. \A t \in SlotId : table[t] # Empty => table[t].key # hand.key
    BY <1>1, <1>3, <2>1, HandAbsent
  <2>3. LiveOf(table', gap, table[slot], pool) = LiveOf(table, gap, hand, pool)
    BY <1>2, <1>8, <1>4, <2>1, <2>2, LiveOfPut
  <2> QED
    BY <1>1, <2>1, <2>3, LiveIs
<1>7. CASE \E known \in BOOLEAN : ProbePlace(known)
  <2>1. hand' = Empty /\ table[slot] = Empty
    BY <1>7 DEF ProbePlace, EndUpsert
  <2>2. \A t \in SlotId : table[t] # Empty => table[t].key # hand.key
    BY <1>1, <1>3, <2>1, HandAbsent
  <2>3. LiveOf(table', gap, Empty, pool) = LiveOf(table, gap, hand, pool)
    BY <1>2, <1>8, <2>1, <2>2, LiveOfPut
  <2> QED
    BY <1>1, <2>1, <2>3, LiveIs
<1> QED
  BY <1>5, <1>6, <1>7

(* shi_rehash exchanges the layout. *)
LEMMA LiveRehashCommit ==
  ASSUME Inductive, RehashCommit PROVE Live' = Live
<1>1. /\ pc = "reinsert" /\ pending = {} /\ table' = fresh /\ pool' = pool /\ hand' = hand /\ gap' = gap
  BY DEF RehashCommit, EndRehash, StartUpsert, canonVars, upsertVars
<1>2. Contents(table') = Contents(table)
  BY <1>1 DEF Inductive, NewLayout
<1>3. gap = NoSlot /\ NoSlot \notin SlotId
  BY <1>1 DEF Inductive, Control, NoSlot, SlotId
<1>4. Occupied(table) \ {gap} = Occupied(table) /\ Occupied(table') \ {gap'} = Occupied(table')
  BY <1>1, <1>3 DEF Occupied
<1>5. {table[s] : s \in Occupied(table) \ {gap}} = Contents(table)
  BY <1>4 DEF Contents
<1>6. {table'[s] : s \in Occupied(table') \ {gap'}} = Contents(table')
  BY <1>4 DEF Contents
<1> QED
  BY <1>1, <1>2, <1>5, <1>6 DEF Live

(* shi_delete moves an entry into the gap, or empties it. *)
LEMMA LiveCompact ==
  ASSUME Inductive, Compact \/ CompactEnd PROVE Live' = Live
<1>1. pc = "compact" /\ pool' = pool /\ hand' = hand
  BY DEF Compact, CompactEnd, canonVars, upsertVars
<1>2. table \in Tables /\ gap \in SlotId /\ hand = Empty /\ NoSlot \notin SlotId /\ table[gap] # Empty
  <2>1. meta.capacity \in 1 .. MaxCapacity /\ gap \in 0 .. meta.capacity - 1
    BY <1>1, Derived DEF Inductive, Layout
  <2>2. gap \in SlotId
    BY <2>1, CapacityAssumption DEF SlotId
  <2> QED
    BY <1>1, <2>2 DEF Inductive, TypeOK, Control, NoSlot, SlotId, Layout
<1>3. CASE Compact
  <2>1. PICK s \in ShiNext(table, H, meta.capacity, gap) : table' = [table EXCEPT ![gap] = table[s]] /\ gap' = s
    BY <1>3 DEF Compact
  <2>2. s \in 0 .. meta.capacity - 1 /\ s # gap /\ table[s] # Empty
    BY <2>1 DEF ShiNext
  <2>3. s \in SlotId
    <3>1. meta.capacity \in 1 .. MaxCapacity
      BY Derived DEF Inductive
    <3> QED
      BY <2>2, <3>1, CapacityAssumption DEF SlotId
  <2>4. table'[gap] = table[s] /\ SameBut(table, table', gap)
    BY <1>2, <2>1 DEF Tables, SameBut
  <2>5. LiveOf(table', s, Empty, pool) = LiveOf(table, gap, Empty, pool)
    BY <1>2, <2>2, <2>3, <2>4, LiveOfGap
  <2> QED
    BY <1>1, <1>2, <2>1, <2>5, LiveIs
<1>4. CASE CompactEnd
  <2>1. table' = [table EXCEPT ![gap] = Empty] /\ gap' = NoSlot
    BY <1>4 DEF CompactEnd
  <2>2. table'[gap] = Empty /\ SameBut(table, table', gap)
    BY <1>2, <2>1 DEF Tables, SameBut
  <2>3. LiveOf(table', NoSlot, Empty, pool) = LiveOf(table, gap, Empty, pool)
    BY <1>2, <2>2, LiveOfGap
  <2> QED
    BY <1>1, <1>2, <2>1, <2>3, LiveIs
<1> QED
  BY <1>3, <1>4

(* canonicalize takes all entries out of the bucket, to reinsert them. *)
LEMMA LiveCanonicalize ==
  ASSUME Inductive, Canonicalize PROVE Live' = Live
<1>1. /\ pc = "idle" /\ pool' = table /\ table' = EmptyTable /\ hand' = hand /\ gap' = gap
  BY DEF Canonicalize, upsertVars
<1>2. /\ hand = Empty /\ gap \notin SlotId /\ pool = EmptyTable
  BY <1>1 DEF Inductive, Control, NoSlot, SlotId
<1>3. \A t \in SlotId : pool[t] = Empty /\ table'[t] = Empty
  BY <1>1, <1>2 DEF EmptyTable
<1>4. ASSUME NEW e \in Live' PROVE e \in Live
  BY <1>1, <1>2, <1>3, LiveOfMember, LiveIs
<1>5. ASSUME NEW e \in Live PROVE e \in Live'
  BY <1>1, <1>2, <1>3, LiveOfMember, LiveIs
<1> QED
  BY <1>4, <1>5

(* canonicalize takes the next entry in hand. *)
LEMMA LiveReplay ==
  ASSUME Inductive, Replay PROVE Live' = Live
<1>1. PICK s \in Occupied(pool) : hand' = pool[s] /\ pool' = [pool EXCEPT ![s] = Empty]
  BY DEF Replay, StartUpsert
<1>2. pc = "replay" /\ table' = table /\ gap' = gap
  BY DEF Replay
<1>3. hand = Empty /\ pool \in Tables /\ s \in SlotId /\ pool[s] # Empty
  BY <1>2 DEF Inductive, Control, TypeOK, Occupied
<1>4. pool'[s] = Empty /\ SameBut(pool, pool', s)
  BY <1>1, <1>3 DEF Tables, SameBut
<1>5. \A t \in SlotId : table[t] # Empty => table[t].key # pool[s].key
  BY DEF Inductive, OneHome, Occupied
<1>6. LiveOf(table, gap, pool[s], pool') = LiveOf(table, gap, Empty, pool)
  BY <1>3, <1>4, <1>5, LiveOfTake
<1> QED
  BY <1>1, <1>2, <1>3, <1>6, LiveIs
(* Between two calls the client sees what the table holds. *)
LEMMA LiveWhenIdle ==
  ASSUME Inductive, pc = "idle"
  PROVE  /\ hand = Empty /\ gap \notin SlotId /\ (\A t \in SlotId : pool[t] = Empty)
         /\ \A e : e \in Live <=> \E t \in SlotId : table[t] # Empty /\ e = table[t]
<1>1. hand = Empty /\ gap \notin SlotId /\ pool = EmptyTable
  BY DEF Inductive, Control, NoSlot, SlotId
<1>2. \A t \in SlotId : pool[t] = Empty
  BY <1>1 DEF EmptyTable
<1>3. ASSUME NEW e PROVE e \in Live <=> \E t \in SlotId : table[t] # Empty /\ e = table[t]
  BY <1>1, <1>2, LiveOfMember, LiveIs
<1> QED
  BY <1>1, <1>2, <1>3

(* The call of shi_upsert puts the entry into the map, also when the walk  *)
(* has still to find its slot and to displace what is in the way.          *)
LEMMA LiveUpsert ==
  ASSUME Inductive, NEW k \in PlainKeys, NEW v \in Values, Upsert(k, v) \/ UpsertDirect(k, v)
  PROVE  Live' = {[key |-> k, val |-> v]} \cup {e \in Live : e.key # k}
<1> DEFINE n == [key |-> k, val |-> v]
<1>1. pc = "idle" /\ pool' = pool /\ gap' = gap
  BY DEF Upsert, UpsertDirect, canonVars
<1>2. /\ hand = Empty /\ gap \notin SlotId /\ (\A t \in SlotId : pool[t] = Empty)
      /\ \A e : e \in Live <=> \E t \in SlotId : table[t] # Empty /\ e = table[t]
  BY <1>1, LiveWhenIdle
<1>3. n \in Entry /\ n # Empty /\ n.key = k
  BY EntryFacts
<1> HIDE DEF n
<1>4. CASE Upsert(k, v)
  <2>1. hand' = n /\ table' = table
    BY <1>4 DEF Upsert, StartUpsert, n
  <2>2. ASSUME NEW e
        PROVE  e \in Live' <=> e = n \/ \E t \in SlotId : table[t] # Empty /\ e = table[t] /\ e.key # k
    <3>1. e \in LiveOf(table, gap, n, pool)
            <=> \/ n # Empty /\ e = n
                \/ \E t \in SlotId : t # gap /\ table[t] # Empty /\ e = table[t] /\ (n = Empty \/ e.key # n.key)
                \/ \E t \in SlotId : pool[t] # Empty /\ e = pool[t]
      BY LiveOfMember
    <3> QED
      BY <1>1, <1>2, <1>3, <2>1, <3>1, LiveIs
  <2>3. ASSUME NEW e PROVE e \in Live' <=> e \in {n} \cup {f \in Live : f.key # k}
    BY <1>2, <2>2
  <2>4. Live' = {n} \cup {f \in Live : f.key # k}
    BY <2>3
  <2> QED
    BY <2>4 DEF n
<1>5. CASE UpsertDirect(k, v)
  <2>1. hand' = Empty
    BY <1>2, <1>5 DEF UpsertDirect, upsertVars
  <2>2. PICK s \in SlotId : table[s] # Empty /\ table[s].key = k /\ table' = [table EXCEPT ![s] = n]
    BY <1>5 DEF UpsertDirect, n
  <2>3. table'[s] = n /\ \A t \in SlotId : t # s => table'[t] = table[t]
    BY <2>2 DEF Inductive, TypeOK, Tables
  <2>4. ASSUME NEW t \in SlotId, t # s, table[t] # Empty PROVE table[t].key # k
    <3>1. s \in Occupied(table) \ {gap} /\ t \in Occupied(table) \ {gap}
      BY <1>2, <2>2, <2>4 DEF Occupied
    <3> QED
      BY <2>2, <2>4, <3>1, SlotsUnique
  <2>5. ASSUME NEW e
        PROVE  e \in Live' <=> \E t \in SlotId : table'[t] # Empty /\ e = table'[t]
    <3>1. e \in LiveOf(table', gap, Empty, pool)
            <=> \/ \E t \in SlotId : t # gap /\ table'[t] # Empty /\ e = table'[t]
                \/ \E t \in SlotId : pool[t] # Empty /\ e = pool[t]
      BY LiveOfMember
    <3> QED
      BY <1>1, <1>2, <2>1, <3>1, LiveIs
  <2>6. ASSUME NEW e PROVE e \in Live' <=> e \in {n} \cup {f \in Live : f.key # k}
    BY <1>2, <1>3, <2>2, <2>3, <2>4, <2>5
  <2>7. Live' = {n} \cup {f \in Live : f.key # k}
    BY <2>6
  <2> QED
    BY <2>7 DEF n
<1> QED
  BY <1>4, <1>5

(* The call of shi_delete takes the key out of the map when it has found   *)
(* the slot, before the compaction.                                        *)
LEMMA LiveDelete ==
  ASSUME Inductive, NEW k \in PlainKeys, Delete(k)
  PROVE  Live' = {e \in Live : e.key # k}
<1>1. pc = "idle" /\ pool' = pool /\ hand' = hand /\ table' = table
  BY DEF Delete, canonVars, upsertVars
<1>2. /\ hand = Empty /\ gap \notin SlotId /\ (\A t \in SlotId : pool[t] = Empty)
      /\ \A e : e \in Live <=> \E t \in SlotId : table[t] # Empty /\ e = table[t]
  BY <1>1, LiveWhenIdle
<1>3. PICK s \in ShiSearch(table, H, meta.capacity, k) : gap' = s
  BY DEF Delete
<1>4. s \in 0 .. meta.capacity - 1 /\ table[s] # Empty /\ table[s].key = k
  BY <1>3 DEF ShiSearch
<1>5. s \in SlotId
  <2>1. meta.capacity \in 1 .. MaxCapacity
    BY Derived DEF Inductive
  <2> QED
    BY <1>4, <2>1, CapacityAssumption DEF SlotId
<1>6. ASSUME NEW t \in SlotId, t # s, table[t] # Empty PROVE table[t].key # k
  <2>1. s \in Occupied(table) \ {gap} /\ t \in Occupied(table) \ {gap}
    BY <1>2, <1>4, <1>5, <1>6 DEF Occupied
  <2> QED
    BY <1>4, <1>6, <2>1, SlotsUnique
<1>7. ASSUME NEW e
      PROVE  e \in Live' <=> \E t \in SlotId : t # s /\ table[t] # Empty /\ e = table[t]
  <2>1. e \in LiveOf(table, s, Empty, pool)
          <=> \/ \E t \in SlotId : t # s /\ table[t] # Empty /\ e = table[t]
              \/ \E t \in SlotId : pool[t] # Empty /\ e = pool[t]
    BY LiveOfMember
  <2> QED
    BY <1>1, <1>2, <1>3, <2>1, LiveIs
<1>8. ASSUME NEW e PROVE e \in Live' <=> e \in {f \in Live : f.key # k}
  BY <1>2, <1>4, <1>6, <1>7
<1> QED
  BY <1>8

-------------------------------------------------------------------------------
(* The refinement *)

(* The map is that of the entries the client sees. *)
LEMMA KvsIs == kvs = MapOf(Live) /\ kvs' = MapOf(Live')
  BY DEF kvs, MapOf

(* An empty bucket is the empty map. *)
LEMMA InitMaps == Init => Kv!Init
<1> SUFFICES ASSUME Init PROVE Kv!Init
  OBVIOUS
<1>1. hand = Empty /\ table = EmptyTable /\ pool = EmptyTable /\ pc = "idle"
  BY DEF Init
<1>2. Live = {}
  BY <1>1, EntryFacts DEF Live, Contents
<1>3. kvs = [k \in PlainKeys |-> Empty]
  BY <1>2 DEF kvs
<1> QED
  BY <1>1, <1>3 DEF Kv!Init

(* Each step of a bucket is a step of the map: a call that puts, removes   *)
(* or reorganises, the return of one, or nothing.                          *)
LEMMA StepMaps == Inductive /\ [Next]_vars => [Kv!Next]_<<kvs, pc # "idle">>
<1> DEFINE Goal == [Kv!Next]_<<kvs, pc # "idle">>
<1> SUFFICES ASSUME Inductive, [Next]_vars PROVE Goal
  OBVIOUS
<1> USE DEF upsertVars, rehashVars, canonVars
<1>1. ASSUME Live' = Live, pc = "idle", pc' # "idle" PROVE Goal
  <2>1. Kv!Reorganise
    BY <1>1, KvsIs DEF Kv!Reorganise
  <2> QED
    BY <2>1 DEF Kv!Next
<1>2. ASSUME Live' = Live, pc # "idle" PROVE Goal
  <2>1. kvs' = kvs
    BY <1>2, KvsIs
  <2>2. CASE pc' = "idle"
    <3>1. Kv!Return
      BY <1>2, <2>1, <2>2 DEF Kv!Return
    <3> QED
      BY <3>1 DEF Kv!Next
  <2>3. CASE pc' # "idle"
    BY <1>2, <2>1, <2>3
  <2> QED
    BY <2>2, <2>3
<1>3. ASSUME Live' = Live, pc' = pc PROVE Goal
  BY <1>3, KvsIs
<1>4. Live \in SUBSET Entry /\ OneEntryPerKey(Live)
  BY LiveOne
<1>5. ASSUME NEW k \in PlainKeys, NEW v \in Values, Upsert(k, v) \/ UpsertDirect(k, v) PROVE Goal
  <2>1. kvs' = [kvs EXCEPT ![k] = v]
    BY <1>4, <1>5, LiveUpsert, MapOfPut, KvsIs
  <2>2. pc = "idle"
    BY <1>5 DEF Upsert, UpsertDirect
  <2>3. Kv!Put(k, v)
    BY <2>1, <2>2 DEF Kv!Put
  <2> QED
    BY <2>3 DEF Kv!Next
<1>6. ASSUME NEW k \in PlainKeys, Delete(k) PROVE Goal
  <2>1. kvs' = [kvs EXCEPT ![k] = Empty]
    BY <1>4, <1>6, LiveDelete, MapOfRemove, KvsIs
  <2>2. pc = "idle" /\ pc' = "compact"
    BY <1>6 DEF Delete
  <2>3. Kv!Remove(k)
    BY <2>1, <2>2 DEF Kv!Remove
  <2> QED
    BY <2>3 DEF Kv!Next
<1>7. ASSUME UpsertStep PROVE Goal
  <2>1. pc = "probe"
    BY <1>7 DEF UpsertStep, ProbeEqual, ProbeDisplace, ProbePass, ProbePlace
  <2>2. CASE ProbePass
    BY <1>2, <2>1, <2>2, LiveIs DEF ProbePass
  <2>3. CASE ~ ProbePass
    BY <1>2, <1>7, <2>1, <2>3, LiveProbe DEF UpsertStep
  <2> QED
    BY <2>2, <2>3
<1>8. ASSUME NEW n \in Nonces, NEW c, Rehash(n, c) PROVE Goal
  BY <1>1, <1>8, LiveIs DEF Rehash
<1>9. ASSUME RehashStep PROVE Goal
  <2>1. pc # "idle"
    BY <1>9 DEF RehashStep, Grow, RehashAssert, RehashPanics, RehashCollect, RehashReinsert, RehashCommit
  <2>2. CASE Grow \/ RehashAssert \/ RehashReinsert
    BY <1>2, <2>1, <2>2, LiveIs DEF Grow, RehashAssert, RehashReinsert
  <2>3. CASE RehashCollect
    BY <1>2, <2>1, <2>3, LiveIs DEF RehashCollect, EndRehash, StartUpsert
  <2>4. CASE RehashCommit
    BY <1>2, <2>1, <2>4, LiveRehashCommit
  <2> QED
    BY <1>9, <2>2, <2>3, <2>4 DEF RehashStep
<1>10. ASSUME DeleteStep PROVE Goal
  BY <1>2, <1>10, LiveCompact DEF DeleteStep, Compact, CompactEnd
<1>11. ASSUME Canonicalize PROVE Goal
  BY <1>1, <1>11, LiveCanonicalize DEF Canonicalize
<1>12. ASSUME ReplayStep PROVE Goal
  <2>1. CASE Replay
    BY <1>2, <2>1, LiveReplay DEF Replay
  <2>2. CASE ReplayEnd
    BY <1>2, <2>2, LiveIs DEF ReplayEnd
  <2> QED
    BY <1>12, <2>1, <2>2 DEF ReplayStep
<1>13. CASE Commit \/ UNCHANGED vars
  BY <1>3, <1>13, LiveIs DEF Commit, vars
<1> HIDE DEF Goal
<1> QED
  BY <1>5, <1>6, <1>7, <1>8, <1>9, <1>10, <1>11, <1>12, <1>13 DEF Next, Call, Step, SetNonce

(* For every key set, hash function, capacity and load factor, a bucket of *)
(* EphemeralSaltState is a plain map to its clients: shi_upsert and        *)
(* shi_delete change it at their key and nothing else does.                *)
THEOREM BucketIsMap == Spec => ImplementsKvMap
<1>1. Init => Kv!Init
  BY InitMaps
<1>2. Inductive /\ [Next]_vars => [Kv!Next]_<<kvs, pc # "idle">>
  BY StepMaps
<1>3. Spec => []Inductive
  BY InductiveInvariant
<1> QED
  BY <1>1, <1>2, <1>3, PTL DEF Spec, ImplementsKvMap, Kv!Spec
===============================================================================
