--------------------------- MODULE ShiTableTheorems ---------------------------
(***************************************************************************)
(* Facts about probe sequences and about the order of the SHI hash table,  *)
(* for every capacity, key set and hash function.                          *)
(***************************************************************************)
EXTENDS ShiTable, TLAPS, FiniteSetTheorems, WellFoundedInduction

(* The slot after p, around the end of the bucket. *)
NextSlot(p, c) == IF p + 1 < c THEN p + 1 ELSE 0

-------------------------------------------------------------------------------
(* Minima of sets of numbers *)

LessThanRel == {p \in Nat \X Nat : p[1] < p[2]}

(* Every set of numbers has a least one: the induction of this module. *)
LEMMA LeastElement ==
  ASSUME NEW S, S \subseteq Nat, S # {}
  PROVE  \E n \in S : \A m \in S : n <= m
<1>1. IsWellFoundedOn(LessThanRel, Nat)
  BY NatLessThanWellFounded DEF OpToRel, LessThanRel
<1>2. PICK x \in S : \A y \in S : ~ (<<y, x>> \in LessThanRel)
  BY <1>1, WFMin, Zenon
<1>3. ASSUME NEW y \in S PROVE x <= y
  <2>1. x \in Nat /\ y \in Nat
    OBVIOUS
  <2>2. y < x => <<y, x>> \in LessThanRel
    BY <2>1 DEF LessThanRel
  <2> QED
    BY <1>2, <2>1, <2>2
<1> QED
  BY <1>3

-------------------------------------------------------------------------------
(* Arithmetic of probe and rank *)

(* The remainder by a capacity is a slot of the bucket. *)
LEMMA ModRange ==
  ASSUME NEW c \in Nat \ {0}, NEW x \in Nat
  PROVE  x % c \in 0 .. c - 1
  BY Z3

(* Before the end of the bucket, the remainder that probe takes changes nothing. *)
LEMMA ModSmall ==
  ASSUME NEW c \in Nat \ {0}, NEW x \in 0 .. c - 1
  PROVE  x % c = x
  BY Z3

(* Past the end of the bucket, the remainder that probe takes goes on at slot 0. *)
LEMMA ModWrap ==
  ASSUME NEW c \in Nat \ {0}, NEW x \in c .. 2 * c - 1
  PROVE  x % c = x - c
  BY Z3

(* probe wraps around the end of the bucket at most once (the comment on   *)
(* overflow in probe), so its second remainder is a subtraction.           *)
LEMMA ProbeValue ==
  ASSUME NEW c \in Nat \ {0}, NEW h \in Nat, NEW i \in 0 .. c - 1
  PROVE  /\ h % c \in 0 .. c - 1
         /\ probe(h, i, c) = IF (h % c) + i < c THEN (h % c) + i ELSE (h % c) + i - c
         /\ probe(h, i, c) \in 0 .. c - 1
<1> DEFINE f == h % c
<1>1. f \in 0 .. c - 1
  BY ModRange
<1>2. CASE f + i < c
  <2>1. f + i \in 0 .. c - 1
    BY <1>1, <1>2
  <2>2. (f + i) % c = f + i
    BY <2>1, ModSmall
  <2> QED
    BY <1>1, <1>2, <2>1, <2>2 DEF probe
<1>3. CASE ~ (f + i < c)
  <2>1. f + i \in c .. 2 * c - 1
    BY <1>1, <1>3
  <2>2. (f + i) % c = f + i - c
    <3> DEFINE x == f + i
    <3> HIDE DEF x
    <3>1. x \in c .. 2 * c - 1
      BY <2>1 DEF x
    <3>2. x % c = x - c
      BY <3>1, ModWrap
    <3> QED BY <3>2 DEF x
  <2>3. f + i - c \in 0 .. c - 1
    BY <2>1
  <2> QED
    BY <1>1, <1>3, <2>2, <2>3 DEF probe
<1> QED
  BY <1>2, <1>3

(* rank as a distance from the first slot, without remainders. *)
LEMMA RankValue ==
  ASSUME NEW c \in Nat \ {0}, NEW h \in Nat, NEW s \in 0 .. c - 1
  PROVE  /\ h % c \in 0 .. c - 1
         /\ rank(h, s, c) = IF s >= h % c THEN s - (h % c) ELSE s + c - (h % c)
         /\ rank(h, s, c) \in 0 .. c - 1
<1> DEFINE f == h % c
<1>1. 0 \in 0 .. c - 1
  OBVIOUS
<1>2. f \in 0 .. c - 1 /\ probe(h, 0, c) = IF f + 0 < c THEN f + 0 ELSE f + 0 - c
  BY <1>1, ProbeValue
<1> HIDE DEF f
<1>3. f \in 0 .. c - 1 /\ probe(h, 0, c) = f
  BY <1>2
<1> QED
  BY <1>3 DEF rank, f

(* rank is a distance of less than the capacity. *)
LEMMA RankRange ==
  ASSUME NEW c \in Nat \ {0}, NEW h \in Nat
  PROVE  \A s \in 0 .. c - 1 : rank(h, s, c) \in 0 .. c - 1 /\ rank(h, s, c) \in Int
  BY RankValue

(* Two slots at the same distance from a key's first slot are one slot. *)
LEMMA RankInjective ==
  ASSUME NEW c \in Nat \ {0}, NEW h \in Nat, NEW s \in 0 .. c - 1, NEW t \in 0 .. c - 1,
         rank(h, s, c) = rank(h, t, c)
  PROVE  s = t
<1> DEFINE f == h % c
<1>1. f \in 0 .. c - 1 /\ rank(h, s, c) = IF s >= f THEN s - f ELSE s + c - f
  BY RankValue
<1>2. rank(h, t, c) = IF t >= f THEN t - f ELSE t + c - f
  BY RankValue
<1> HIDE DEF f
<1>3. (IF s >= f THEN s - f ELSE s + c - f) = (IF t >= f THEN t - f ELSE t + c - f)
  BY <1>1, <1>2
<1> QED
  BY <1>1, <1>3

(* The first slot that probe visits has rank 0. *)
LEMMA RankFirst ==
  ASSUME NEW c \in Nat \ {0}, NEW h \in Nat
  PROVE  probe(h, 0, c) \in 0 .. c - 1 /\ rank(h, probe(h, 0, c), c) = 0
<1>1. 0 \in 0 .. c - 1
  OBVIOUS
<1> QED
  BY <1>1, ProbeValue, RankValue

(* One probe step goes to the next slot. *)
LEMMA ProbeNext ==
  ASSUME NEW c \in Nat \ {0}, NEW h \in Nat, NEW i \in Nat, i + 1 < c
  PROVE  probe(h, i + 1, c) = NextSlot(probe(h, i, c), c)
<1> DEFINE f == h % c
<1>1. i \in 0 .. c - 1 /\ i + 1 \in 0 .. c - 1
  OBVIOUS
<1>2. /\ f \in 0 .. c - 1
      /\ probe(h, i, c) = IF f + i < c THEN f + i ELSE f + i - c
  BY <1>1, ProbeValue
<1>3. probe(h, i + 1, c) = IF f + (i + 1) < c THEN f + (i + 1) ELSE f + (i + 1) - c
  BY <1>1, ProbeValue
<1> HIDE DEF f
<1> QED
  BY <1>2, <1>3 DEF NextSlot

(* The next slot is one further from any first slot, until it is reached. *)
LEMMA RankNext ==
  ASSUME NEW c \in Nat \ {0}, NEW h \in Nat, NEW p \in 0 .. c - 1
  PROVE  /\ NextSlot(p, c) \in 0 .. c - 1
         /\ rank(h, NextSlot(p, c), c) = IF rank(h, p, c) + 1 < c THEN rank(h, p, c) + 1 ELSE 0
<1>1. NextSlot(p, c) \in 0 .. c - 1
  BY DEF NextSlot
<1> DEFINE f == h % c
           q == NextSlot(p, c)
<1>2. f \in 0 .. c - 1 /\ rank(h, p, c) = IF p >= f THEN p - f ELSE p + c - f
  BY RankValue
<1>3. rank(h, q, c) = IF q >= f THEN q - f ELSE q + c - f
  BY <1>1, RankValue
<1>4. q = IF p + 1 < c THEN p + 1 ELSE 0
  BY DEF NextSlot
<1> HIDE DEF f, q
<1>5. rank(h, q, c) = IF rank(h, p, c) + 1 < c THEN rank(h, p, c) + 1 ELSE 0
  BY <1>2, <1>3, <1>4
<1> QED
  BY <1>1, <1>5 DEF q

(* An entry at t that probed past g also probed past every slot between    *)
(* g and t: the walk from g that shi_next makes is a part of its own.      *)
LEMMA RankBetween ==
  ASSUME NEW c \in Nat \ {0}, NEW h \in Nat,
         NEW g \in 0 .. c - 1, NEW s \in 0 .. c - 1, NEW t \in 0 .. c - 1,
         rank(h, g, c) < rank(h, t, c),
         rank(g, s, c) < rank(g, t, c)
  PROVE  rank(h, s, c) < rank(h, t, c)
<1> DEFINE f == h % c
           Dist(a, b) == IF b >= a THEN b - a ELSE b + c - a
<1>1. g \in Nat /\ g % c = g
  BY ModSmall
<1>2. rank(g, s, c) = Dist(g, s) /\ rank(g, t, c) = Dist(g, t)
  BY <1>1, RankValue
<1>3. f \in 0 .. c - 1 /\ rank(h, g, c) = Dist(f, g)
  BY RankValue
<1>4. rank(h, s, c) = Dist(f, s) /\ rank(h, t, c) = Dist(f, t)
  BY RankValue
<1> HIDE DEF f
<1> QED
  BY <1>2, <1>3, <1>4
-------------------------------------------------------------------------------
(* The order of a table *)

(* Of two slots, one comes first on any walk. *)
LEMMA BeforeTotal ==
  ASSUME NEW c \in Nat \ {0}, NEW h \in Nat, NEW s \in 0 .. c - 1, NEW t \in 0 .. c - 1, s # t
  PROVE  s \in Before(h, t, c) \/ t \in Before(h, s, c)
<1>1. rank(h, s, c) \in Int /\ rank(h, t, c) \in Int
  BY RankValue
<1>2. rank(h, s, c) # rank(h, t, c)
  BY RankInjective
<1> QED
  BY <1>1, <1>2 DEF Before

(* No walk visits a slot before itself. *)
LEMMA BeforeIrreflexive ==
  ASSUME NEW c \in Nat \ {0}, NEW h \in Nat, NEW s \in 0 .. c - 1
  PROVE  s \notin Before(h, s, c)
  BY RankValue DEF Before

(* In an ordered table no key is in two slots. *)
LEMMA OrderedKeysUnique ==
  ASSUME NEW c \in 1 .. MaxCapacity, NEW H \in [PlainKeys -> Nat], NEW T \in Tables,
         NEW g, ShiOrderedExcept(T, H, c, g),
         NEW s \in 0 .. c - 1, NEW t \in 0 .. c - 1,
         s # g, t # g, T[s] # Empty, T[t] # Empty, T[s].key = T[t].key
  PROVE  s = t
<1> USE CapacityAssumption, KeysAssumption
<1> SUFFICES ASSUME s # t PROVE FALSE
  OBVIOUS
<1>1. s \in SlotId /\ t \in SlotId /\ c \in Nat \ {0}
  BY DEF SlotId
<1>2. T[s].key \in PlainKeys /\ T[s].key \in Nat /\ H[T[s].key] \in Nat
  BY <1>1 DEF Tables, Entry
<1>3. CASE s \in Before(H[T[s].key], t, c)
  <2>1. Larger(T, s, T[t].key)
    BY <1>3 DEF ShiOrderedExcept
  <2> QED
    BY <2>1, <1>2 DEF Larger
<1>4. CASE t \in Before(H[T[s].key], s, c)
  <2>1. Larger(T, t, T[s].key)
    BY <1>4 DEF ShiOrderedExcept
  <2> QED
    BY <2>1, <1>2 DEF Larger
<1> QED
  BY <1>1, <1>2, <1>3, <1>4, BeforeTotal

(* shi_delete starts from an ordered table, so its gap is the only exception. *)
LEMMA OrderedIsOrderedExcept ==
  ASSUME NEW c, NEW H, NEW T, NEW g, ShiOrdered(T, H, c)
  PROVE  ShiOrderedExcept(T, H, c, g)
  BY DEF ShiOrdered, ShiOrderedExcept, Passed

(* Writing an entry over an empty slot, a smaller key or its own old value *)
(* keeps the order when the slots it passed hold larger keys: the one      *)
(* write of shi_upsert (update, displacement, placement) and of the        *)
(* reinsertion in shi_rehash.                                              *)
LEMMA PutKeepsOrder ==
  ASSUME NEW c \in 1 .. MaxCapacity, NEW H \in [PlainKeys -> Nat], NEW T \in Tables,
         ShiOrdered(T, H, c),
         NEW p \in 0 .. c - 1, NEW e \in Entry,
         T[p] = Empty \/ T[p].key <= e.key,
         Passed(T, H[e.key], c, e.key, p)
  PROVE  ShiOrdered([T EXCEPT ![p] = e], H, c)
<1> DEFINE U == [T EXCEPT ![p] = e]
<1> USE CapacityAssumption, KeysAssumption
<1>a. e # Empty
  BY EmptyAssumption
<1>b. e.key \in PlainKeys
  BY DEF Entry
<1>c. p \in SlotId /\ c \in Nat \ {0}
  BY DEF SlotId
<1>1. p \in SlotId /\ e.key \in PlainKeys /\ e.key \in Nat /\ e # Empty /\ c \in Nat \ {0}
  BY <1>a, <1>b, <1>c
<1>2. U[p] = e /\ \A s \in SlotId : s # p => U[s] = T[s]
  BY <1>1 DEF Tables
<1>3. \A s \in SlotId : T[s] # Empty => T[s].key \in Nat /\ H[T[s].key] \in Nat
  BY DEF Tables, Entry
<1>4. \A s \in 0 .. c - 1 : s \in SlotId
  BY DEF SlotId
<1>5. H[e.key] \in Nat
  BY <1>1
<1> HIDE DEF U
<1> SUFFICES ASSUME NEW s \in 0 .. c - 1, U[s] # Empty,
                    NEW t \in Before(H[U[s].key], s, c)
             PROVE  Larger(U, t, U[s].key)
  BY DEF ShiOrdered, Passed, U
<1>6. t \in 0 .. c - 1
  BY DEF Before
<1>7. CASE s = p
  <2>1. t # p
    BY <1>7, <1>1, <1>2, <1>5, BeforeIrreflexive
  <2>2. Larger(T, t, e.key)
    BY <1>7, <1>2 DEF Passed
  <2> QED
    BY <1>7, <2>1, <2>2, <1>2, <1>4, <1>6 DEF Larger
<1>8. CASE s # p
  <2>1. U[s] = T[s] /\ T[s] # Empty
    BY <1>8, <1>2, <1>4
  <2>2. Larger(T, t, T[s].key)
    BY <2>1 DEF ShiOrdered, Passed
  <2>3. CASE t = p
    BY <2>1, <2>2, <2>3, <1>1, <1>2, <1>3, <1>4 DEF Larger
  <2>4. CASE t # p
    BY <2>1, <2>2, <2>4, <1>2, <1>4, <1>6 DEF Larger
  <2> QED
    BY <2>3, <2>4
<1> QED
  BY <1>7, <1>8


(* A walk starts at its first slot. *)
LEMMA PassFirst ==
  ASSUME NEW c \in Nat \ {0}, NEW h \in Nat, NEW T, NEW k
  PROVE  Passed(T, h, c, k, probe(h, 0, c))
<1>1. rank(h, probe(h, 0, c), c) = 0
  BY RankFirst
<1>2. \A t \in 0 .. c - 1 : rank(h, t, c) \in 0 .. c - 1
  BY RankRange
<1> QED
  BY <1>1, <1>2 DEF Passed, Before

(* A slot with a larger key is passed; a walk that has gone all around is  *)
(* at its first slot again.                                                *)
LEMMA PassNext ==
  ASSUME NEW c \in Nat \ {0}, NEW h \in Nat, NEW T,
         NEW k, NEW p \in 0 .. c - 1,
         Passed(T, h, c, k, p), Larger(T, p, k)
  PROVE  Passed(T, h, c, k, NextSlot(p, c))
<1> DEFINE q == NextSlot(p, c)
<1>1. /\ q \in 0 .. c - 1
      /\ rank(h, q, c) = IF rank(h, p, c) + 1 < c THEN rank(h, p, c) + 1 ELSE 0
  BY RankNext
<1>2. \A t \in 0 .. c - 1 : rank(h, t, c) \in 0 .. c - 1
  BY RankRange
<1>3. \A t \in 0 .. c - 1 : rank(h, t, c) = rank(h, p, c) => t = p
  BY RankInjective
<1> HIDE DEF q
<1> SUFFICES ASSUME NEW t \in Before(h, q, c) PROVE Larger(T, t, k)
  BY DEF Passed, q
<1>4. t \in 0 .. c - 1 /\ rank(h, t, c) < rank(h, q, c)
  BY DEF Before
<1>5. rank(h, t, c) < rank(h, p, c) \/ rank(h, t, c) = rank(h, p, c)
  BY <1>1, <1>2, <1>4
<1> QED
  BY <1>3, <1>4, <1>5 DEF Before, Passed

(* When the last slot of a walk is passed, all slots are. *)
LEMMA PassedAll ==
  ASSUME NEW c \in Nat \ {0}, NEW h \in Nat, NEW T, NEW k,
         Passed(T, h, c, k, probe(h, c - 1, c)), Larger(T, probe(h, c - 1, c), k)
  PROVE  \A t \in 0 .. c - 1 : Larger(T, t, k)
<1> DEFINE p == probe(h, c - 1, c)
           f == h % c
<1>1. c - 1 \in 0 .. c - 1
  OBVIOUS
<1>2. /\ f \in 0 .. c - 1
      /\ p = IF f + (c - 1) < c THEN f + (c - 1) ELSE f + (c - 1) - c
      /\ p \in 0 .. c - 1
  BY <1>1, ProbeValue
<1>3. rank(h, p, c) = IF p >= f THEN p - f ELSE p + c - f
  BY <1>2, RankValue
<1>4. \A t \in 0 .. c - 1 : rank(h, t, c) \in 0 .. c - 1
  BY RankRange
<1> HIDE DEF p, f
<1>5. rank(h, p, c) = c - 1
  BY <1>2, <1>3
<1>6. ASSUME NEW t \in 0 .. c - 1 PROVE Larger(T, t, k)
  <2>1. CASE t = p
    BY <2>1 DEF p
  <2>2. CASE t # p
    <3>1. rank(h, t, c) # rank(h, p, c)
      BY <1>2, <2>2, RankInjective
    <3>2. rank(h, t, c) < rank(h, p, c)
      BY <1>4, <1>5, <3>1
    <3> QED
      BY <3>2 DEF Passed, Before, p
  <2> QED
    BY <2>1, <2>2
<1> QED
  BY <1>6

(* shi_delete moves the first suitable entry into the gap: the order still *)
(* holds except for the new gap.                                           *)
LEMMA CompactKeepsOrder ==
  ASSUME NEW c \in 1 .. MaxCapacity, NEW H \in [PlainKeys -> Nat], NEW T \in Tables,
         NEW g \in 0 .. c - 1,
         ShiOrderedExcept(T, H, c, g), NEW n \in ShiNext(T, H, c, g)
  PROVE  ShiOrderedExcept([T EXCEPT ![g] = T[n]], H, c, n)
<1> DEFINE U == [T EXCEPT ![g] = T[n]]
<1> USE CapacityAssumption, KeysAssumption
<1>1. c \in Nat \ {0} /\ \A s \in 0 .. c - 1 : s \in SlotId
  BY DEF SlotId
<1>2. U[g] = T[n] /\ \A s \in SlotId : s # g => U[s] = T[s]
  BY <1>1 DEF Tables
<1>3. \A s \in SlotId : T[s] # Empty => T[s].key \in Nat /\ H[T[s].key] \in Nat
  BY DEF Tables, Entry
<1>4. n \in 0 .. c - 1 /\ n # g /\ T[n] # Empty /\ Suitable(T, H, c, g, n)
  BY DEF ShiNext
<1>5. \A t \in Before(g, n, c) : t # g => T[t] # Empty /\ ~ Suitable(T, H, c, g, t)
  BY DEF ShiNext
<1> HIDE DEF U
<1> SUFFICES ASSUME NEW s \in 0 .. c - 1, s # n, U[s] # Empty,
                    NEW t \in Before(H[U[s].key], s, c), t # n
             PROVE  Larger(U, t, U[s].key)
  BY DEF ShiOrderedExcept, U
<1>6. t \in 0 .. c - 1
  BY DEF Before
<1>7. CASE s = g
  <2>1. U[s] = T[n]
    BY <1>7, <1>2
  <2>2. H[T[n].key] \in Nat
    BY <1>1, <1>3, <1>4
  <2>3. t # g
    BY <1>1, <1>7, <2>1, <2>2, BeforeIrreflexive
  <2>4. t \in Before(H[T[n].key], n, c)
    <3>1. rank(H[T[n].key], t, c) < rank(H[T[n].key], g, c)
      BY <1>7, <2>1 DEF Before
    <3>2. rank(H[T[n].key], n, c) > rank(H[T[n].key], g, c)
      BY <1>4 DEF Suitable
    <3>3. /\ rank(H[T[n].key], t, c) \in Int
          /\ rank(H[T[n].key], g, c) \in Int
          /\ rank(H[T[n].key], n, c) \in Int
      BY <1>1, <1>4, <1>6, <2>2, RankRange
    <3> QED
      BY <1>6, <3>1, <3>2, <3>3 DEF Before
  <2>5. Larger(T, t, T[n].key)
    BY <1>4, <2>3, <2>4 DEF ShiOrderedExcept
  <2> QED
    BY <1>1, <1>2, <1>6, <2>1, <2>3, <2>5 DEF Larger
<1>8. CASE s # g
  <2>1. U[s] = T[s] /\ T[s] # Empty /\ H[T[s].key] \in Nat
    BY <1>1, <1>2, <1>3, <1>8
  <2>2. CASE t # g
    <3>1. Larger(T, t, T[s].key)
      BY <1>8, <2>1, <2>2 DEF ShiOrderedExcept
    <3> QED
      BY <1>1, <1>2, <1>6, <2>1, <2>2, <3>1 DEF Larger
  <2>3. CASE t = g
    <3>1. rank(H[T[s].key], g, c) < rank(H[T[s].key], s, c)
      BY <2>1, <2>3 DEF Before
    <3>2. rank(H[T[s].key], g, c) \in Int /\ rank(H[T[s].key], s, c) \in Int
      BY <1>1, <2>1, RankRange
    <3>3. s \notin Before(g, n, c)
      BY <1>5, <1>8, <3>1, <3>2 DEF Suitable
    <3>4. n \in Before(g, s, c)
      BY <1>1, <1>4, <3>3, BeforeTotal
    <3>5. n \in Before(H[T[s].key], s, c)
      BY <1>1, <1>4, <2>1, <3>1, <3>4, RankBetween DEF Before
    <3>6. Larger(T, n, T[s].key)
      BY <1>4, <1>8, <2>1, <3>5 DEF ShiOrderedExcept
    <3> QED
      BY <1>2, <2>1, <2>3, <3>6 DEF Larger
  <2> QED
    BY <2>2, <2>3
<1> QED
  BY <1>7, <1>8


(* When shi_next finds nothing the gap becomes empty, and the order holds. *)
LEMMA CompactEndRestoresOrder ==
  ASSUME NEW c \in 1 .. MaxCapacity, NEW H \in [PlainKeys -> Nat], NEW T \in Tables,
         NEW g \in 0 .. c - 1,
         ShiOrderedExcept(T, H, c, g), ShiNext(T, H, c, g) = {}
  PROVE  ShiOrdered([T EXCEPT ![g] = Empty], H, c)
<1> DEFINE U == [T EXCEPT ![g] = Empty]
           Stops(s) == T[s] = Empty \/ Suitable(T, H, c, g, s)
<1> USE CapacityAssumption, KeysAssumption
<1>1. c \in Nat \ {0} /\ \A s \in 0 .. c - 1 : s \in SlotId
  BY DEF SlotId
<1>2. U[g] = Empty /\ \A s \in SlotId : s # g => U[s] = T[s]
  BY <1>1 DEF Tables
<1>3. \A s \in SlotId : T[s] # Empty => T[s].key \in Nat /\ H[T[s].key] \in Nat
  BY DEF Tables, Entry
<1> HIDE DEF U
<1> SUFFICES ASSUME NEW s \in 0 .. c - 1, U[s] # Empty,
                    NEW t \in Before(H[U[s].key], s, c)
             PROVE  Larger(U, t, U[s].key)
  BY DEF ShiOrdered, Passed, U
<1>4. s # g /\ U[s] = T[s] /\ T[s] # Empty /\ H[T[s].key] \in Nat /\ t \in 0 .. c - 1
  BY <1>1, <1>2, <1>3 DEF Before
<1>5. ~ Suitable(T, H, c, g, s)
  <2> SUFFICES ASSUME Suitable(T, H, c, g, s) PROVE FALSE
    OBVIOUS
  \* The first slot after the gap where the walk of shi_next would stop.
  <2> DEFINE R == {rank(g, x, c) : x \in {y \in (0 .. c - 1) \ {g} : Stops(y)}}
  <2>1. g \in Nat /\ \A x \in 0 .. c - 1 : rank(g, x, c) \in 0 .. c - 1 /\ rank(g, x, c) \in Nat
    BY <1>1, RankRange
  <2>2. R \subseteq Nat /\ R # {}
    BY <1>4, <2>1
  <2>3. PICK r \in R : \A q \in R : r <= q
    BY <2>2, LeastElement
  <2>4. PICK n \in (0 .. c - 1) \ {g} : Stops(n) /\ r = rank(g, n, c)
    BY <2>3
  <2>5. \A x \in Before(g, n, c) : x # g => ~ Stops(x)
    <3> SUFFICES ASSUME NEW x \in Before(g, n, c), x # g, Stops(x) PROVE FALSE
      OBVIOUS
    <3>1. x \in 0 .. c - 1 /\ rank(g, x, c) < rank(g, n, c)
      BY DEF Before
    <3>2. rank(g, x, c) \in R
      BY <3>1
    <3>3. r <= rank(g, x, c)
      BY <2>3, <3>2
    <3> QED
      BY <2>1, <2>4, <3>1, <3>3
  <2>6. T[n] = Empty
    BY <2>4, <2>5 DEF ShiNext
  <2>7. n # s
    BY <1>4, <2>6
  <2>8. s \notin Before(g, n, c)
    BY <1>4, <2>5
  <2>9. n \in Before(g, s, c)
    BY <1>1, <2>1, <2>4, <2>7, <2>8, BeforeTotal
  <2>10. rank(H[T[s].key], g, c) < rank(H[T[s].key], s, c)
    <3>1. rank(H[T[s].key], g, c) \in Int /\ rank(H[T[s].key], s, c) \in Int
      BY <1>1, <1>4, RankRange
    <3> QED
      BY <3>1 DEF Suitable
  <2>11. n \in Before(H[T[s].key], s, c)
    BY <1>1, <1>4, <2>4, <2>9, <2>10, RankBetween DEF Before
  <2>12. Larger(T, n, T[s].key)
    BY <1>4, <2>4, <2>11 DEF ShiOrderedExcept
  <2> QED
    BY <2>6, <2>12 DEF Larger
<1>6. t # g
  <2>1. rank(H[T[s].key], g, c) \in Int /\ rank(H[T[s].key], s, c) \in Int
    BY <1>1, <1>4, RankRange
  <2> QED
    BY <1>4, <1>5, <2>1 DEF Suitable, Before
<1>7. Larger(T, t, T[s].key)
  BY <1>4, <1>6 DEF ShiOrderedExcept
<1> QED
  BY <1>1, <1>2, <1>4, <1>6, <1>7 DEF Larger

-------------------------------------------------------------------------------
(* History independence *)

(* The entries of a bucket are in slots below its capacity. *)
LEMMA OccupiedWithin ==
  ASSUME NEW c \in 1 .. MaxCapacity, NEW T \in Tables, Within(T, c)
  PROVE  /\ Occupied(T) \subseteq 0 .. c - 1
         /\ \A s \in Occupied(T) : T[s] \in Entry /\ T[s] # Empty
         /\ \A s \in 0 .. c - 1 : s \in SlotId
  BY CapacityAssumption DEF Within, Occupied, SlotId, Tables

(* In an ordered table an entry is in one slot. *)
LEMMA OrderedEntriesUnique ==
  ASSUME NEW c \in 1 .. MaxCapacity, NEW H \in [PlainKeys -> Nat], NEW T \in Tables,
         Within(T, c), ShiOrdered(T, H, c),
         NEW s \in Occupied(T), NEW t \in Occupied(T), T[s].key = T[t].key
  PROVE  s = t
<1>1. s \in 0 .. c - 1 /\ t \in 0 .. c - 1 /\ T[s] # Empty /\ T[t] # Empty
  BY OccupiedWithin
<1>2. ShiOrderedExcept(T, H, c, -1)
  BY OrderedIsOrderedExcept
<1>3. s # -1 /\ t # -1
  BY <1>1
<1> QED
  BY <1>1, <1>2, <1>3, OrderedKeysUnique

(* A non-empty set of keys has a largest one. *)
LEMMA LargestKey ==
  ASSUME NEW K, K \subseteq PlainKeys, K # {}
  PROVE  \E k \in K : \A j \in K : j <= k
<1>1. PICK m \in Nat : \A k \in PlainKeys : k \in Nat /\ k <= m
  BY KeysAssumption
<1> DEFINE D == {m - k : k \in K}
<1>2. D \subseteq Nat /\ D # {}
  BY <1>1
<1>3. PICK d \in D : \A x \in D : d <= x
  BY <1>2, LeastElement
<1>4. PICK k \in K : d = m - k
  BY <1>3
<1>5. ASSUME NEW j \in K PROVE j <= k
  <2>1. m - j \in D
    OBVIOUS
  <2>2. d <= m - j
    BY <1>3, <2>1
  <2>3. j \in Nat /\ k \in Nat
    BY <1>1
  <2> QED
    BY <1>4, <2>2, <2>3
<1> QED
  BY <1>5

(* History independence: the entries, the hash and the capacity determine  *)
(* the layout of an ordered bucket.  The largest key that two layouts put  *)
(* in different slots would have to be passed by itself in one of them.    *)
THEOREM LayoutUnique ==
  ASSUME NEW c \in 1 .. MaxCapacity, NEW H \in [PlainKeys -> Nat],
         NEW T \in Tables, Within(T, c), ShiOrdered(T, H, c),
         NEW U \in Tables, Within(U, c), ShiOrdered(U, H, c),
         Contents(T) = Contents(U)
  PROVE  T = U
<1> DEFINE Differs == {s \in Occupied(T) : U[s] # T[s]}
           K == {T[s].key : s \in Differs}
<1>1. /\ Occupied(T) \subseteq 0 .. c - 1 /\ Occupied(U) \subseteq 0 .. c - 1
      /\ \A s \in Occupied(T) : T[s] \in Entry
      /\ \A s \in Occupied(U) : U[s] \in Entry
      /\ \A s \in 0 .. c - 1 : s \in SlotId
  BY OccupiedWithin
<1>2. \A s \in Occupied(T) : \E u \in Occupied(U) : U[u] = T[s]
  BY DEF Contents
<1>3. \A u \in Occupied(U) : \E s \in Occupied(T) : T[s] = U[u]
  BY DEF Contents
<1>4. \A s \in Occupied(T) : T[s].key \in PlainKeys /\ T[s].key \in Nat /\ H[T[s].key] \in Nat
  BY <1>1, KeysAssumption DEF Entry
<1>5. Differs = {}
  <2> SUFFICES ASSUME Differs # {} PROVE FALSE
    OBVIOUS
  <2>1. K \subseteq PlainKeys /\ K # {}
    BY <1>4
  <2>2. PICK k \in K : \A j \in K : j <= k
    BY <2>1, LargestKey
  <2>3. PICK s \in Differs : T[s].key = k
    BY <2>2
  <2>4. PICK u \in Occupied(U) : U[u] = T[s]
    BY <1>2
  <2>5. s \in 0 .. c - 1 /\ u \in 0 .. c - 1 /\ u # s /\ H[k] \in Nat /\ k \in Nat
    BY <1>1, <1>4, <2>3, <2>4
  \* A larger key is in the same slot of both tables.
  <2>6. \A w \in Occupied(T) : T[w].key > k => U[w] = T[w]
    <3> SUFFICES ASSUME NEW w \in Occupied(T), T[w].key > k, U[w] # T[w] PROVE FALSE
      OBVIOUS
    <3>1. T[w].key \in K
      OBVIOUS
    <3>2. T[w].key <= k
      BY <2>2, <3>1
    <3> HIDE DEF Differs, K
    <3> QED
      BY <1>4, <2>5, <3>2
  <2>7. CASE u \in Before(H[k], s, c)
    <3>1. Larger(T, u, k)
      BY <2>3, <2>5, <2>7 DEF ShiOrdered, Passed, Occupied
    <3>2. u \in Occupied(T) /\ T[u].key > k
      BY <1>1, <2>5, <3>1 DEF Larger, Occupied
    <3> QED
      BY <2>3, <2>4, <2>5, <2>6, <3>2
  <2>8. CASE s \in Before(H[k], u, c)
    <3>1. Larger(U, s, k)
      BY <2>3, <2>4, <2>5, <2>8 DEF ShiOrdered, Passed, Occupied
    <3>2. s \in Occupied(U) /\ U[s].key > k
      BY <1>1, <2>5, <3>1 DEF Larger, Occupied
    <3>3. PICK w \in Occupied(T) : T[w] = U[s]
      BY <1>3, <3>2
    <3>4. U[w] = U[s]
      BY <2>6, <3>2, <3>3
    <3>5. w \in Occupied(U)
      BY <3>2, <3>3, <3>4 DEF Occupied
    <3>6. w = s
      BY <3>2, <3>4, <3>5, OrderedEntriesUnique
    <3> QED
      BY <3>3, <3>6
  <2> QED
    BY <2>5, <2>7, <2>8, BeforeTotal
<1>6. ASSUME NEW s \in SlotId PROVE T[s] = U[s]
  <2>1. CASE s \in Occupied(T)
    BY <1>5, <2>1
  <2>2. CASE s \in Occupied(U)
    <3>1. PICK w \in Occupied(T) : T[w] = U[s]
      BY <1>3, <2>2
    <3>2. U[w] = U[s]
      BY <1>5, <3>1
    <3>3. w \in Occupied(U)
      BY <2>2, <3>1, <3>2 DEF Occupied
    <3> QED
      BY <2>2, <3>1, <3>2, <3>3, OrderedEntriesUnique
  <2> QED
    BY <2>1, <2>2 DEF Occupied
<1> QED
  BY <1>6 DEF Tables

-------------------------------------------------------------------------------
(* Counting *)

(* A bucket has finitely many used slots. *)
LEMMA OccupiedFinite ==
  ASSUME NEW T
  PROVE  IsFiniteSet(Occupied(T)) /\ Cardinality(Occupied(T)) \in Nat
<1>1. IsFiniteSet(SlotId)
  BY CapacityAssumption, FS_Interval DEF SlotId
<1>2. Occupied(T) \in SUBSET SlotId
  BY DEF Occupied
<1> QED
  BY <1>1, <1>2, FS_Subset, FS_CardinalityType

(* A table with pairwise different entries has as many entries as used     *)
(* slots, any other has no more entries than used slots.                   *)
LEMMA ContentsCardinality ==
  ASSUME NEW T
  PROVE  /\ IsFiniteSet(Contents(T))
         /\ Cardinality(Contents(T)) <= Cardinality(Occupied(T))
         /\ (\A s, t \in Occupied(T) : T[s] = T[t] => s = t)
              => Cardinality(Contents(T)) = Cardinality(Occupied(T))
<1> DEFINE f == [s \in Occupied(T) |-> T[s]]
<1>1. f \in Surjection(Occupied(T), Contents(T))
  BY DEF Surjection, Contents
<1>2. (\A s, t \in Occupied(T) : T[s] = T[t] => s = t)
         => f \in Injection(Occupied(T), Contents(T))
  BY <1>1 DEF Injection, IsInjective, Surjection
<1> HIDE DEF f
<1> QED
  BY <1>1, <1>2, OccupiedFinite, FS_Surjection

(* An ordered table has as many entries as used slots. *)
LEMMA OrderedCardinality ==
  ASSUME NEW c \in 1 .. MaxCapacity, NEW H \in [PlainKeys -> Nat], NEW T \in Tables,
         Within(T, c), ShiOrdered(T, H, c)
  PROVE  Cardinality(Contents(T)) = Cardinality(Occupied(T))
<1>1. \A s, t \in Occupied(T) : T[s] = T[t] => s = t
  BY OrderedEntriesUnique
<1> QED
  BY <1>1, ContentsCardinality

(* While shi_rehash has an entry to place there is room for it: the check  *)
(* of the new capacity against the number of entries is enough.            *)
LEMMA RoomToReinsert ==
  ASSUME NEW c \in 1 .. MaxCapacity, NEW H \in [PlainKeys -> Nat],
         NEW F \in Tables, Within(F, c), ShiOrdered(F, H, c),
         NEW T, Cardinality(Occupied(T)) <= c,
         Contents(F) \subseteq Contents(T),
         NEW e \in Contents(T) \ Contents(F), NEW h \in Nat
  PROVE  FirstVacant(F, h, c) # {}
<1>1. c \in Nat \ {0}
  BY CapacityAssumption
<1>2. \E s \in 0 .. c - 1 : F[s] = Empty
  <2> SUFFICES ASSUME \A s \in 0 .. c - 1 : F[s] # Empty PROVE FALSE
    OBVIOUS
  <2>1. Occupied(F) = 0 .. c - 1
    BY OccupiedWithin DEF Occupied
  <2>2. Cardinality(Occupied(F)) = c
    BY <1>1, <2>1, FS_Interval
  <2>3. Cardinality(Contents(F)) = c
    BY <2>2, OrderedCardinality
  <2>4. IsFiniteSet(Contents(T)) /\ Cardinality(Contents(T)) <= Cardinality(Occupied(T))
    BY ContentsCardinality
  <2>5. Contents(F) \in SUBSET Contents(T) /\ Contents(F) # Contents(T)
    OBVIOUS
  <2>6. /\ Cardinality(Contents(F)) <= Cardinality(Contents(T))
        /\ Cardinality(Contents(F)) # Cardinality(Contents(T))
    BY <2>4, <2>5, FS_Subset
  <2>7. Cardinality(Contents(T)) \in Nat /\ Cardinality(Occupied(T)) \in Nat
    BY <2>4, FS_CardinalityType, OccupiedFinite
  <2> QED
    BY <1>1, <2>3, <2>4, <2>6, <2>7
<1> DEFINE R == {rank(h, x, c) : x \in {y \in 0 .. c - 1 : F[y] = Empty}}
<1>3. \A x \in 0 .. c - 1 : rank(h, x, c) \in Nat
  BY <1>1, RankRange
<1>4. R \subseteq Nat /\ R # {}
  BY <1>2, <1>3
<1>5. PICK r \in R : \A q \in R : r <= q
  BY <1>4, LeastElement
<1>6. PICK s \in 0 .. c - 1 : F[s] = Empty /\ r = rank(h, s, c)
  BY <1>5
<1>7. ASSUME NEW t \in Before(h, s, c) PROVE F[t] # Empty
  <2>1. t \in 0 .. c - 1 /\ rank(h, t, c) < rank(h, s, c)
    BY DEF Before
  <2>2. F[t] = Empty => r <= rank(h, t, c)
    BY <1>5, <2>1
  <2> HIDE DEF R
  <2> QED
    BY <1>3, <1>6, <2>1, <2>2
<1> QED
  BY <1>6, <1>7 DEF FirstVacant

(* The first vacant slot is one slot. *)
LEMMA FirstVacantUnique ==
  ASSUME NEW c \in 1 .. MaxCapacity, NEW F, NEW h \in Nat,
         NEW s \in FirstVacant(F, h, c)
  PROVE  FirstVacant(F, h, c) = {s}
<1> SUFFICES ASSUME NEW t \in FirstVacant(F, h, c), t # s PROVE FALSE
  OBVIOUS
<1>1. c \in Nat \ {0} /\ s \in 0 .. c - 1 /\ t \in 0 .. c - 1
  BY CapacityAssumption DEF FirstVacant
<1> QED
  BY <1>1, BeforeTotal DEF FirstVacant

(* Overwriting an entry, filling an empty slot and clearing a slot change  *)
(* the number of occupied slots by 0, 1 and -1.                            *)
LEMMA PutCardinality ==
  ASSUME NEW T \in Tables, NEW p \in SlotId, NEW e \in Entry
  PROVE  Cardinality(Occupied([T EXCEPT ![p] = e])) =
           IF T[p] = Empty THEN Cardinality(Occupied(T)) + 1 ELSE Cardinality(Occupied(T))
<1> DEFINE U == [T EXCEPT ![p] = e]
<1>1. e # Empty
  BY EmptyAssumption
<1>2. U[p] = e /\ \A s \in SlotId : s # p => U[s] = T[s]
  BY DEF Tables
<1>3. Occupied(U) = Occupied(T) \cup {p}
  BY <1>1, <1>2 DEF Occupied
<1>4. p \in Occupied(T) <=> T[p] # Empty
  BY DEF Occupied
<1>5. IsFiniteSet(Occupied(T))
  BY OccupiedFinite
<1> QED
  BY <1>3, <1>4, <1>5, FS_AddElement

(* shi_delete clears one used slot. *)
LEMMA ClearCardinality ==
  ASSUME NEW T \in Tables, NEW p \in SlotId, T[p] # Empty
  PROVE  Cardinality(Occupied([T EXCEPT ![p] = Empty])) = Cardinality(Occupied(T)) - 1
<1> DEFINE U == [T EXCEPT ![p] = Empty]
<1>1. U[p] = Empty /\ \A s \in SlotId : s # p => U[s] = T[s]
  BY DEF Tables
<1>2. Occupied(U) = Occupied(T) \ {p} /\ p \in Occupied(T)
  BY <1>1 DEF Occupied
<1>3. IsFiniteSet(Occupied(T))
  BY OccupiedFinite
<1> QED
  BY <1>2, <1>3, FS_RemoveElement
===============================================================================
