------------------------------- MODULE ShiTable -------------------------------
(***************************************************************************)
(* The strongly history-independent (SHI) hash table that one SALT bucket  *)
(* stores its entries in (salt/src/state/state.rs): linear probing in      *)
(* which, along the probe sequence of a key, every earlier slot holds a    *)
(* larger key.  This module has the constant operators only; ShiBucket     *)
(* has the operations as a state machine.                                  *)
(*                                                                         *)
(* A table is a function on all the slot ids a bucket may ever use; the    *)
(* capacity c says how many of them are in use.  H is the keyed hash under *)
(* the bucket's current nonce.  Each loop of the source that walks a probe *)
(* sequence until some test succeeds is the set of the slots where it      *)
(* stops: the empty set (the loop ran out) or one slot.                    *)
(***************************************************************************)
EXTENDS Integers, FiniteSets

CONSTANTS
  PlainKeys,    \* plain keys; numbers, because only their order matters
  Values,       \* plain values
  Empty,        \* the content of an unused slot
  MaxCapacity   \* BUCKET_SLOT_ID_MASK: the largest capacity of a bucket

(* The length of a key is a u8, so there is a largest key. *)
ASSUME KeysAssumption ==
  /\ PlainKeys \subseteq Nat
  /\ \E m \in PlainKeys \cup {0} : \A k \in PlainKeys : k <= m
ASSUME CapacityAssumption == MaxCapacity \in Nat \ {0}

Entry == [key : PlainKeys, val : Values]

ASSUME EmptyAssumption == Empty \notin Entry

SlotId == 0 .. MaxCapacity - 1

Tables == [SlotId -> Entry \cup {Empty}]

EmptyTable == [s \in SlotId |-> Empty]

Occupied(T) == {s \in SlotId : T[s] # Empty}

Contents(T) == {T[s] : s \in Occupied(T)}

-------------------------------------------------------------------------------
(* The i-th slot of a probe sequence, and its inverse. *)

probe(hashed, i, c) == ((hashed % c) + i) % c

rank(hashed, s, c) ==
  LET first == probe(hashed, 0, c)
  IN  IF s >= first THEN s - first ELSE s + c - first

(* The slots that a walk from `hashed` visits before it reaches slot s. *)
Before(hashed, s, c) == {t \in 0 .. c - 1 : rank(hashed, t, c) < rank(hashed, s, c)}

Larger(T, t, k) == T[t] # Empty /\ T[t].key > k

(* A walk for key k came to slot s past larger keys only. *)
Passed(T, hashed, c, k, s) == \A t \in Before(hashed, s, c) : Larger(T, t, k)

-------------------------------------------------------------------------------
(* Variant of ShiSearch with the two orderings swapped. *)
ShiSearchSwapped(T, H, c, k) ==
  {s \in 0 .. c - 1 : /\ T[s] # Empty
                      /\ T[s].key = k
                      /\ \A t \in Before(H[k], s, c) : T[t] # Empty /\ T[t].key < k}

(* shi_search passes the slots with larger keys and stops at the first     *)
(* empty slot and at the first smaller key.                                *)
ShiSearch(T, H, c, k) ==
  {s \in 0 .. c - 1 : /\ T[s] # Empty
                      /\ T[s].key = k
                      /\ Passed(T, H[k], c, k, s)}

(* Variant of Suitable: whatever follows the gap moves into it. *)
SuitableAlways(T, H, c, g, s) == TRUE

(* The entry of slot s probed past slot g, so it may fill the gap at g. *)
Suitable(T, H, c, g, s) == rank(H[T[s].key], s, c) > rank(H[T[s].key], g, c)

(* shi_next walks the slots after the gap and stops at the first empty one. *)
ShiNext(T, H, c, g) ==
  {s \in 0 .. c - 1 : /\ s # g
                      /\ T[s] # Empty
                      /\ Suitable(T, H, c, g, s)
                      /\ \A t \in Before(g, s, c) :
                           t # g => T[t] # Empty /\ ~ Suitable(T, H, c, g, t)}

(* Where shi_rehash puts the next of the keys it reinserts. *)
FirstVacant(T, hashed, c) ==
  {s \in 0 .. c - 1 : /\ T[s] = Empty
                      /\ \A t \in Before(hashed, s, c) : T[t] # Empty}

(* Variant of IsLargest: without the rev(). *)
IsSmallest(e, E) == e \in E /\ \A f \in E : f.key >= e.key

(* BTreeMap::iter().rev(): the entry of E with the largest key. *)
IsLargest(e, E) == e \in E /\ \A f \in E : f.key <= e.key

-------------------------------------------------------------------------------
(* Every slot that an entry probed past holds a larger key, slot g apart. *)
ShiOrderedExcept(T, H, c, g) ==
  \A s \in 0 .. c - 1 : s # g /\ T[s] # Empty =>
    \A t \in Before(H[T[s].key], s, c) : t # g => Larger(T, t, T[s].key)

(* The order that makes the layout of a bucket unique. *)
ShiOrdered(T, H, c) ==
  \A s \in 0 .. c - 1 : T[s] # Empty =>
    Passed(T, H[T[s].key], c, T[s].key, s)

(* All entries are in slots of the bucket. *)
Within(T, c) == \A s \in Occupied(T) : s < c
===============================================================================
