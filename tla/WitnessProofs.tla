----------------------------- MODULE WitnessProofs -----------------------------
(***************************************************************************)
(* Proofs about Witness: that a validator with the witness alone answers   *)
(* the lookups of the block as the full state does, and accepts the        *)
(* witness, for every set of keys, hash function and capacity.             *)
(*                                                                         *)
(* The recursive functions of Witness are loops: Iteration shows that a    *)
(* step from each set into the next has a run in these sets, so that a     *)
(* fact about one iteration is a fact about the loop.  With it every       *)
(* operation of the recorder is shown to keep what was cached, within the  *)
(* bucket (Recorded), and every call to do to an ordered bucket what it    *)
(* promises (Upserted, Deleted, Replaced).  The rest is about one search:  *)
(* on the witness it reads what it reads on the full state, up to the      *)
(* first slot that is missing (PathSame).                                  *)
(***************************************************************************)
EXTENDS Witness, ShiTableTheorems, FiniteSetTheorems

-------------------------------------------------------------------------------
(* Loops *)

(* The values of the loop f are in the sets X, one per iteration. *)
Stays(f, n, X) == \A i \in 0 .. n : f[i] \in X[i]

(* f has the values of a loop of n iterations of step, from x0. *)
Iterates(f, n, x0, step) ==
  /\ f = [i \in 0 .. n |-> f[i]]
  /\ f[0] = x0
  /\ \A i \in 1 .. n : f[i] = step[<<f[i - 1], i>>]

(* What holds of the first value of a loop and is carried on by each       *)
(* iteration holds of every value.                                         *)
LEMMA Along ==
  ASSUME NEW n \in Nat, NEW X, NEW g, g[0] \in X[0], \A i \in 1 .. n : g[i - 1] \in X[i - 1] => g[i] \in X[i]
  PROVE  Stays(g, n, X)
<1> DEFINE Bad == {i \in 0 .. n : g[i] \notin X[i]}
<1> SUFFICES ASSUME Bad # {} PROVE FALSE
  BY DEF Stays
<1>1. PICK i \in Bad : \A j \in Bad : i <= j
  <2>1. Bad \subseteq Nat
    OBVIOUS
  <2> HIDE DEF Bad
  <2> QED
    BY <2>1, LeastElement
<1>2. i \in 1 .. n
  BY <1>1
<1>3. i - 1 \in 0 .. n /\ ~ (i <= i - 1)
  BY <1>2
<1>4. g[i - 1] \in X[i - 1]
  BY <1>1, <1>3
<1> QED
  BY <1>1, <1>2, <1>4

(* A set that each iteration enlarges is within its last value. *)
LEMMA Climbs ==
  ASSUME NEW n \in Nat, NEW g, \A i \in 1 .. n : g[i - 1] \subseteq g[i]
  PROVE  \A i \in 0 .. n : g[i] \subseteq g[n]
<1> DEFINE Bad == {d \in 0 .. n : ~ (g[n - d] \subseteq g[n])}
<1>1. Bad = {}
  <2> SUFFICES ASSUME Bad # {} PROVE FALSE
    OBVIOUS
  <2>1. PICK d \in Bad : \A j \in Bad : d <= j
    <3>1. Bad \subseteq Nat
      OBVIOUS
    <3> HIDE DEF Bad
    <3> QED
      BY <3>1, LeastElement
  <2>2. d # 0
    <3>1. n - 0 = n
      OBVIOUS
    <3> QED
      BY <2>1, <3>1
  <2>3. d - 1 \in 0 .. n /\ ~ (d <= d - 1) /\ n - d + 1 \in 1 .. n /\ n - (d - 1) = n - d + 1 /\ (n - d + 1) - 1 = n - d
    BY <2>1, <2>2
  <2>4. g[n - (d - 1)] \subseteq g[n]
    BY <2>1, <2>3
  <2>5. g[n - d] \subseteq g[n - (d - 1)]
    BY <2>3
  <2> QED
    BY <2>1, <2>4, <2>5
<1> SUFFICES ASSUME NEW i \in 0 .. n PROVE g[i] \subseteq g[n]
  OBVIOUS
<1>2. n - i \in 0 .. n /\ n - (n - i) = i
  OBVIOUS
<1>3. n - i \notin Bad
  BY <1>1
<1> QED
  BY <1>2, <1>3

(* A loop whose step leads from each set into the next has values in these *)
(* sets.                                                                   *)
LEMMA Iteration ==
  ASSUME NEW n \in Nat, NEW X, NEW x0 \in X[0], NEW step, \A i \in 1 .. n : \A x \in X[i - 1] : step[<<x, i>>] \in X[i]
  PROVE  \E f : Iterates(f, n, x0, step) /\ Stays(f, n, X)
<1> USE DEF Iterates, Stays
<1> DEFINE Good(m) == \E f : Iterates(f, m, x0, step) /\ Stays(f, m, X)
           Bad == {m \in 0 .. n : ~ Good(m)}
<1> SUFFICES ASSUME Bad # {} PROVE FALSE
  BY n \in 0 .. n
<1>1. PICK m \in Bad : \A j \in Bad : m <= j
  <2>1. Bad \subseteq Nat
    OBVIOUS
  <2> HIDE DEF Bad
  <2> QED
    BY <2>1, LeastElement
<1>2. m \in 0 .. n /\ ~ Good(m)
  BY <1>1
<1>3. m # 0
  <2> DEFINE z == [i \in 0 .. 0 |-> x0]
  <2>1. z = [i \in 0 .. 0 |-> z[i]] /\ z[0] = x0
    OBVIOUS
  <2>2. (\A i \in 1 .. 0 : FALSE) /\ (\A i \in 0 .. 0 : i = 0)
    OBVIOUS
  <2> HIDE DEF z
  <2>3. Good(0)
    BY <2>1, <2>2
  <2> QED
    BY <2>3, <1>2
<1>4. m - 1 \in 0 .. n /\ ~ (m <= m - 1) /\ m \in 1 .. n
  BY <1>2, <1>3
<1>5. Good(m - 1)
  <2>1. m - 1 \notin Bad
    BY <1>4, <1>1
  <2> QED
    BY <2>1, <1>4
<1>6. PICK f : Iterates(f, m - 1, x0, step) /\ Stays(f, m - 1, X)
  BY <1>5
<1> DEFINE g == [i \in 0 .. m |-> IF i = m THEN step[<<f[m - 1], m>>] ELSE f[i]]
<1>7. f[m - 1] \in X[m - 1]
  BY <1>4, <1>6
<1>8. step[<<f[m - 1], m>>] \in X[m]
  BY <1>7, <1>4
<1>9. g = [i \in 0 .. m |-> g[i]] /\ \A i \in 0 .. m : g[i] \in X[i]
  BY <1>4, <1>6, <1>8
<1>10. g[0] = x0
  BY <1>4, <1>6
<1>11. ASSUME NEW i \in 1 .. m PROVE g[i] = step[<<g[i - 1], i>>]
  <2>1. i \in 0 .. m /\ i - 1 \in 0 .. m /\ i - 1 # m
    BY <1>4
  <2>2. g[i - 1] = f[i - 1]
    BY <2>1
  <2>3. CASE i = m
    BY <2>1, <2>2, <2>3
  <2>4. CASE i # m
    <3>1. i \in 1 .. m - 1
      BY <2>4, <1>4
    <3> QED
      BY <3>1, <2>1, <2>2, <2>4, <1>6
  <2> QED
    BY <2>3, <2>4
<1> HIDE DEF g
<1>12. Good(m)
  BY <1>9, <1>10, <1>11
<1> QED
  BY <1>12, <1>2

(* The loop of shi_upsert over the probe sequence of k. *)
ProbeRun(f, S, k) ==
  /\ f[0] = S
  /\ \A i \in 1 .. S.capacity : f[i] = ProbeStep(f[i - 1], probe(hash[k], i - 1, S.capacity))
  /\ Probed(S, k) = f[S.capacity]

(* The recursive function of Probed is that loop. *)
LEMMA ProbedRun ==
  ASSUME NEW X, NEW S, NEW k, S.capacity \in Nat, S \in X[0],
         \A i \in 1 .. S.capacity : \A x \in X[i - 1] : ProbeStep(x, probe(hash[k], i - 1, S.capacity)) \in X[i]
  PROVE  \E f : ProbeRun(f, S, k) /\ Stays(f, S.capacity, X)
<1> DEFINE n == S.capacity
           U == UNION {X[i] : i \in 0 .. n}
           step == [p \in U \X (1 .. n) |-> ProbeStep(p[1], probe(hash[k], p[2] - 1, S.capacity))]
           Eq(g) == g = [i \in 0 .. n |-> IF i = 0 THEN S ELSE ProbeStep(g[i - 1], probe(hash[k], i - 1, S.capacity))]
<1>a. n \in Nat
  OBVIOUS
<1>b. \A i \in 1 .. n : \A x \in X[i - 1] : ProbeStep(x, probe(hash[k], i - 1, S.capacity)) \in X[i] /\ i - 1 \in 0 .. n
  BY <1>a
<1> HIDE DEF n
<1>0. \A i \in 1 .. n : \A x \in X[i - 1] : step[<<x, i>>] = ProbeStep(x, probe(hash[k], i - 1, S.capacity))
  <2>1. \A i \in 1 .. n : \A x \in X[i - 1] : x \in U
    BY <1>b
  <2> HIDE DEF U
  <2> QED
    BY <2>1
<1> HIDE DEF step
<1>1. \A i \in 1 .. n : \A x \in X[i - 1] : step[<<x, i>>] \in X[i]
  BY <1>b, <1>0
<1>2. PICK f : Iterates(f, n, S, step) /\ Stays(f, n, X)
  BY <1>1, <1>a, Iteration
<1> USE DEF Iterates, Stays
<1>3. ASSUME NEW i \in 0 .. n PROVE f[i] = IF i = 0 THEN S ELSE ProbeStep(f[i - 1], probe(hash[k], i - 1, S.capacity))
  <2>1. CASE i = 0
    BY <2>1, <1>2
  <2>2. CASE i # 0
    <3>1. i \in 1 .. n /\ i - 1 \in 0 .. n
      BY <2>2, <1>a
    <3>2. f[i - 1] \in X[i - 1]
      BY <3>1, <1>2
    <3> QED
      BY <3>1, <3>2, <1>0, <1>2, <2>2
  <2> QED
    BY <2>1, <2>2
<1>4. Eq(f)
  <2>1. f = [i \in 0 .. n |-> f[i]]
    BY <1>2
  <2> QED
    BY <1>3, <2>1
<1>5. PICK after : after = (CHOOSE g : Eq(g)) /\ Probed(S, k) = after[n]
  BY Zenon DEF Probed, n
<1>6. Eq(after)
  <2> HIDE DEF Eq
  <2> QED
    BY <1>4, <1>5
<1>7. after[0] = S
  BY <1>6, <1>a
<1>8. \A i \in 1 .. n : after[i] = ProbeStep(after[i - 1], probe(hash[k], i - 1, S.capacity))
  BY <1>6, <1>a
<1>9. \A i \in 1 .. n : after[i - 1] \in X[i - 1] => after[i] \in X[i]
  BY <1>8, <1>b
<1>10. Stays(after, n, X)
  <2>1. after[0] \in X[0]
    BY <1>7
  <2> HIDE DEF Eq, Stays
  <2> QED
    BY <1>a, <2>1, <1>9, Along
<1>11. ProbeRun(after, S, k)
  <2> HIDE DEF Eq
  <2> QED
    BY <1>5, <1>7, <1>8 DEF ProbeRun, n
<1> QED
  BY <1>10, <1>11 DEF n

(* The loop of shi_delete that compacts the bucket. *)
CompactRun(f, S) ==
  /\ f[0] = S
  /\ \A i \in 1 .. S.capacity : f[i] = CompactStep(f[i - 1])
  /\ Compacted(S) = f[S.capacity]

(* So is that of Compacted, *)
LEMMA CompactedRun ==
  ASSUME NEW X, NEW S, S.capacity \in Nat, S \in X[0],
         \A i \in 1 .. S.capacity : \A x \in X[i - 1] : CompactStep(x) \in X[i]
  PROVE  \E f : CompactRun(f, S) /\ Stays(f, S.capacity, X)
<1> DEFINE n == S.capacity
           U == UNION {X[i] : i \in 0 .. n}
           step == [p \in U \X (1 .. n) |-> CompactStep(p[1])]
           Eq(g) == g = [i \in 0 .. n |-> IF i = 0 THEN S ELSE CompactStep(g[i - 1])]
<1>a. n \in Nat
  OBVIOUS
<1>b. \A i \in 1 .. n : \A x \in X[i - 1] : CompactStep(x) \in X[i] /\ i - 1 \in 0 .. n
  BY <1>a
<1> HIDE DEF n
<1>0. \A i \in 1 .. n : \A x \in X[i - 1] : step[<<x, i>>] = CompactStep(x)
  <2>1. \A i \in 1 .. n : \A x \in X[i - 1] : x \in U
    BY <1>b
  <2> HIDE DEF U
  <2> QED
    BY <2>1
<1> HIDE DEF step
<1>1. \A i \in 1 .. n : \A x \in X[i - 1] : step[<<x, i>>] \in X[i]
  BY <1>b, <1>0
<1>2. PICK f : Iterates(f, n, S, step) /\ Stays(f, n, X)
  BY <1>1, <1>a, Iteration
<1> USE DEF Iterates, Stays
<1>3. ASSUME NEW i \in 0 .. n PROVE f[i] = IF i = 0 THEN S ELSE CompactStep(f[i - 1])
  <2>1. CASE i = 0
    BY <2>1, <1>2
  <2>2. CASE i # 0
    <3>1. i \in 1 .. n /\ i - 1 \in 0 .. n
      BY <2>2, <1>a
    <3>2. f[i - 1] \in X[i - 1]
      BY <3>1, <1>2
    <3> QED
      BY <3>1, <3>2, <1>0, <1>2, <2>2
  <2> QED
    BY <2>1, <2>2
<1>4. Eq(f)
  <2>1. f = [i \in 0 .. n |-> f[i]]
    BY <1>2
  <2> QED
    BY <1>3, <2>1
<1>5. PICK after : after = (CHOOSE g : Eq(g)) /\ Compacted(S) = after[n]
  BY Zenon DEF Compacted, n
<1>6. Eq(after)
  <2> HIDE DEF Eq
  <2> QED
    BY <1>4, <1>5
<1>7. after[0] = S
  BY <1>6, <1>a
<1>8. \A i \in 1 .. n : after[i] = CompactStep(after[i - 1])
  BY <1>6, <1>a
<1>9. \A i \in 1 .. n : after[i - 1] \in X[i - 1] => after[i] \in X[i]
  BY <1>8, <1>b
<1>10. Stays(after, n, X)
  <2>1. after[0] \in X[0]
    BY <1>7
  <2> HIDE DEF Eq, Stays
  <2> QED
    BY <1>a, <2>1, <1>9, Along
<1>11. CompactRun(after, S)
  <2> HIDE DEF Eq
  <2> QED
    BY <1>5, <1>7, <1>8 DEF CompactRun, n
<1> QED
  BY <1>10, <1>11 DEF n

(* The loop of shi_rehash over the entries, largest key first. *)
LayoutRun(f, E, c) ==
  /\ f[0] = EmptyTable
  /\ \A i \in 1 .. (MaxKey + 1) : f[i] = ReinsertStep(f[i - 1], E, MaxKey + 1 - i, c)
  /\ Layout(E, c) = f[(MaxKey + 1)]

(* that of Layout, *)
LEMMA LayoutsRun ==
  ASSUME NEW X, NEW E, NEW c, (MaxKey + 1) \in Nat, EmptyTable \in X[0],
         \A i \in 1 .. (MaxKey + 1) : \A x \in X[i - 1] : ReinsertStep(x, E, MaxKey + 1 - i, c) \in X[i]
  PROVE  \E f : LayoutRun(f, E, c) /\ Stays(f, (MaxKey + 1), X)
<1> DEFINE n == (MaxKey + 1)
           U == UNION {X[i] : i \in 0 .. n}
           step == [p \in U \X (1 .. n) |-> ReinsertStep(p[1], E, MaxKey + 1 - p[2], c)]
           Eq(g) == g = [i \in 0 .. n |-> IF i = 0 THEN EmptyTable ELSE ReinsertStep(g[i - 1], E, MaxKey + 1 - i, c)]
<1>a. n \in Nat
  OBVIOUS
<1>b. \A i \in 1 .. n : \A x \in X[i - 1] : ReinsertStep(x, E, MaxKey + 1 - i, c) \in X[i] /\ i - 1 \in 0 .. n
  BY <1>a
<1> HIDE DEF n
<1>0. \A i \in 1 .. n : \A x \in X[i - 1] : step[<<x, i>>] = ReinsertStep(x, E, MaxKey + 1 - i, c)
  <2>1. \A i \in 1 .. n : \A x \in X[i - 1] : x \in U
    BY <1>b
  <2> HIDE DEF U
  <2> QED
    BY <2>1
<1> HIDE DEF step
<1>1. \A i \in 1 .. n : \A x \in X[i - 1] : step[<<x, i>>] \in X[i]
  BY <1>b, <1>0
<1>2. PICK f : Iterates(f, n, EmptyTable, step) /\ Stays(f, n, X)
  BY <1>1, <1>a, Iteration
<1> USE DEF Iterates, Stays
<1>3. ASSUME NEW i \in 0 .. n PROVE f[i] = IF i = 0 THEN EmptyTable ELSE ReinsertStep(f[i - 1], E, MaxKey + 1 - i, c)
  <2>1. CASE i = 0
    BY <2>1, <1>2
  <2>2. CASE i # 0
    <3>1. i \in 1 .. n /\ i - 1 \in 0 .. n
      BY <2>2, <1>a
    <3>2. f[i - 1] \in X[i - 1]
      BY <3>1, <1>2
    <3> QED
      BY <3>1, <3>2, <1>0, <1>2, <2>2
  <2> QED
    BY <2>1, <2>2
<1>4. Eq(f)
  <2>1. f = [i \in 0 .. n |-> f[i]]
    BY <1>2
  <2> QED
    BY <1>3, <2>1
<1>5. PICK after : after = (CHOOSE g : Eq(g)) /\ Layout(E, c) = after[n]
  BY Zenon DEF Layout, n
<1>6. Eq(after)
  <2> HIDE DEF Eq
  <2> QED
    BY <1>4, <1>5
<1>7. after[0] = EmptyTable
  BY <1>6, <1>a
<1>8. \A i \in 1 .. n : after[i] = ReinsertStep(after[i - 1], E, MaxKey + 1 - i, c)
  BY <1>6, <1>a
<1>9. \A i \in 1 .. n : after[i - 1] \in X[i - 1] => after[i] \in X[i]
  BY <1>8, <1>b
<1>10. Stays(after, n, X)
  <2>1. after[0] \in X[0]
    BY <1>7
  <2> HIDE DEF Eq, Stays
  <2> QED
    BY <1>a, <2>1, <1>9, Along
<1>11. LayoutRun(after, E, c)
  <2> HIDE DEF Eq
  <2> QED
    BY <1>5, <1>7, <1>8 DEF LayoutRun, n
<1> QED
  BY <1>10, <1>11 DEF n

(* The loop of compute_resize_capacity. *)
GrowRun(f, c, used) ==
  /\ f[0] = c
  /\ \A i \in 1 .. MaxCapacity : f[i] = GrowStep(f[i - 1], used)
  /\ compute_resize_capacity(c, used) = f[MaxCapacity]

(* that of compute_resize_capacity *)
LEMMA GrownRun ==
  ASSUME NEW X, NEW c, NEW used, MaxCapacity \in Nat, c \in X[0],
         \A i \in 1 .. MaxCapacity : \A x \in X[i - 1] : GrowStep(x, used) \in X[i]
  PROVE  \E f : GrowRun(f, c, used) /\ Stays(f, MaxCapacity, X)
<1> DEFINE n == MaxCapacity
           U == UNION {X[i] : i \in 0 .. n}
           step == [p \in U \X (1 .. n) |-> GrowStep(p[1], used)]
           Eq(g) == g = [i \in 0 .. n |-> IF i = 0 THEN c ELSE GrowStep(g[i - 1], used)]
<1>a. n \in Nat
  OBVIOUS
<1>b. \A i \in 1 .. n : \A x \in X[i - 1] : GrowStep(x, used) \in X[i] /\ i - 1 \in 0 .. n
  BY <1>a
<1> HIDE DEF n
<1>0. \A i \in 1 .. n : \A x \in X[i - 1] : step[<<x, i>>] = GrowStep(x, used)
  <2>1. \A i \in 1 .. n : \A x \in X[i - 1] : x \in U
    BY <1>b
  <2> HIDE DEF U
  <2> QED
    BY <2>1
<1> HIDE DEF step
<1>1. \A i \in 1 .. n : \A x \in X[i - 1] : step[<<x, i>>] \in X[i]
  BY <1>b, <1>0
<1>2. PICK f : Iterates(f, n, c, step) /\ Stays(f, n, X)
  BY <1>1, <1>a, Iteration
<1> USE DEF Iterates, Stays
<1>3. ASSUME NEW i \in 0 .. n PROVE f[i] = IF i = 0 THEN c ELSE GrowStep(f[i - 1], used)
  <2>1. CASE i = 0
    BY <2>1, <1>2
  <2>2. CASE i # 0
    <3>1. i \in 1 .. n /\ i - 1 \in 0 .. n
      BY <2>2, <1>a
    <3>2. f[i - 1] \in X[i - 1]
      BY <3>1, <1>2
    <3> QED
      BY <3>1, <3>2, <1>0, <1>2, <2>2
  <2> QED
    BY <2>1, <2>2
<1>4. Eq(f)
  <2>1. f = [i \in 0 .. n |-> f[i]]
    BY <1>2
  <2> QED
    BY <1>3, <2>1
<1>5. PICK after : after = (CHOOSE g : Eq(g)) /\ compute_resize_capacity(c, used) = after[n]
  BY Zenon DEF compute_resize_capacity, n
<1>6. Eq(after)
  <2> HIDE DEF Eq
  <2> QED
    BY <1>4, <1>5
<1>7. after[0] = c
  BY <1>6, <1>a
<1>8. \A i \in 1 .. n : after[i] = GrowStep(after[i - 1], used)
  BY <1>6, <1>a
<1>9. \A i \in 1 .. n : after[i - 1] \in X[i - 1] => after[i] \in X[i]
  BY <1>8, <1>b
<1>10. Stays(after, n, X)
  <2>1. after[0] \in X[0]
    BY <1>7
  <2> HIDE DEF Eq, Stays
  <2> QED
    BY <1>a, <2>1, <1>9, Along
<1>11. GrowRun(after, c, used)
  <2> HIDE DEF Eq
  <2> QED
    BY <1>5, <1>7, <1>8 DEF GrowRun, n
<1> QED
  BY <1>10, <1>11 DEF n

(* The loop of canonicalize over the slots of the bucket S. *)
CanonRun(f, store, S) ==
  /\ f[0] = Cleared(store, S)
  /\ \A i \in 1 .. S.capacity : f[i] = Reinsert(store, S, f[i - 1], i - 1)
  /\ Canonicalize(store, S) = [f[S.capacity] EXCEPT !.rehashed = FALSE]

(* and that of Canonicalize. *)
LEMMA CanonicalRun ==
  ASSUME NEW X, NEW store, NEW S, S.rehashed, S.capacity \in Nat, Cleared(store, S) \in X[0],
         \A i \in 1 .. S.capacity : \A x \in X[i - 1] : Reinsert(store, S, x, i - 1) \in X[i]
  PROVE  \E f : CanonRun(f, store, S) /\ Stays(f, S.capacity, X)
<1> DEFINE n == S.capacity
           U == UNION {X[i] : i \in 0 .. n}
           step == [p \in U \X (1 .. n) |-> Reinsert(store, S, p[1], p[2] - 1)]
           Eq(g) == g = [i \in 0 .. n |-> IF i = 0 THEN Cleared(store, S) ELSE Reinsert(store, S, g[i - 1], i - 1)]
<1>a. n \in Nat
  OBVIOUS
<1>b. \A i \in 1 .. n : \A x \in X[i - 1] : Reinsert(store, S, x, i - 1) \in X[i] /\ i - 1 \in 0 .. n
  BY <1>a
<1> HIDE DEF n
<1>0. \A i \in 1 .. n : \A x \in X[i - 1] : step[<<x, i>>] = Reinsert(store, S, x, i - 1)
  <2>1. \A i \in 1 .. n : \A x \in X[i - 1] : x \in U
    BY <1>b
  <2> HIDE DEF U
  <2> QED
    BY <2>1
<1> HIDE DEF step
<1>1. \A i \in 1 .. n : \A x \in X[i - 1] : step[<<x, i>>] \in X[i]
  BY <1>b, <1>0
<1>2. PICK f : Iterates(f, n, Cleared(store, S), step) /\ Stays(f, n, X)
  BY <1>1, <1>a, Iteration
<1> USE DEF Iterates, Stays
<1>3. ASSUME NEW i \in 0 .. n PROVE f[i] = IF i = 0 THEN Cleared(store, S) ELSE Reinsert(store, S, f[i - 1], i - 1)
  <2>1. CASE i = 0
    BY <2>1, <1>2
  <2>2. CASE i # 0
    <3>1. i \in 1 .. n /\ i - 1 \in 0 .. n
      BY <2>2, <1>a
    <3>2. f[i - 1] \in X[i - 1]
      BY <3>1, <1>2
    <3> QED
      BY <3>1, <3>2, <1>0, <1>2, <2>2
  <2> QED
    BY <2>1, <2>2
<1>4. Eq(f)
  <2>1. f = [i \in 0 .. n |-> f[i]]
    BY <1>2
  <2> QED
    BY <1>3, <2>1
<1>5. PICK after : after = (CHOOSE g : Eq(g)) /\ Canonicalize(store, S) = [after[n] EXCEPT !.rehashed = FALSE]
  BY Zenon DEF Canonicalize, n
<1>6. Eq(after)
  <2> HIDE DEF Eq
  <2> QED
    BY <1>4, <1>5
<1>7. after[0] = Cleared(store, S)
  BY <1>6, <1>a
<1>8. \A i \in 1 .. n : after[i] = Reinsert(store, S, after[i - 1], i - 1)
  BY <1>6, <1>a
<1>9. \A i \in 1 .. n : after[i - 1] \in X[i - 1] => after[i] \in X[i]
  BY <1>8, <1>b
<1>10. Stays(after, n, X)
  <2>1. after[0] \in X[0]
    BY <1>7
  <2> HIDE DEF Eq, Stays
  <2> QED
    BY <1>a, <2>1, <1>9, Along
<1>11. CanonRun(after, store, S)
  <2> HIDE DEF Eq
  <2> QED
    BY <1>5, <1>7, <1>8 DEF CanonRun, n
<1> QED
  BY <1>10, <1>11 DEF n

(* There is a largest key, from which shi_rehash counts down. *)
LEMMA MaxKeyNat == MaxKey \in Nat
<1>1. \E m \in PlainKeys \cup {0} : \A k \in PlainKeys : k <= m
  BY KeysAssumption
<1>2. MaxKey \in PlainKeys \cup {0}
  BY <1>1 DEF MaxKey
<1> QED
  BY <1>2, KeysAssumption

(* shi_rehash leaves entries and empty slots. *)
LEMMA LayoutIsTable ==
  ASSUME NEW E, E \subseteq Entry, NEW c
  PROVE  Layout(E, c) \in Tables
<1>1. EmptyTable \in Tables
  BY DEF EmptyTable, Tables
<1>2. ASSUME NEW T \in Tables, NEW k PROVE ReinsertStep(T, E, k, c) \in Tables
  <2>1. (\E e \in E : e.key = k) => (CHOOSE e \in E : e.key = k) \in Entry
    OBVIOUS
  <2> QED
    BY <2>1 DEF ReinsertStep, Tables
<1>3. MaxKey + 1 \in Nat
  BY MaxKeyNat
<1> DEFINE X == [i \in 0 .. MaxKey + 1 |-> Tables]
<1>4. EmptyTable \in X[0] /\ \A i \in 1 .. MaxKey + 1 : \A x \in X[i - 1] : ReinsertStep(x, E, MaxKey + 1 - i, c) \in X[i]
  BY <1>1, <1>2, <1>3
<1>5. X[MaxKey + 1] = Tables /\ MaxKey + 1 \in 0 .. MaxKey + 1
  BY <1>3
<1> HIDE DEF X
<1>6. PICK f : LayoutRun(f, E, c) /\ Stays(f, MaxKey + 1, X)
  BY <1>3, <1>4, LayoutsRun
<1> QED
  BY <1>5, <1>6 DEF LayoutRun, Stays

(* compute_resize_capacity never shrinks a bucket. *)
LEMMA Grown ==
  ASSUME NEW c \in Nat, NEW used
  PROVE  compute_resize_capacity(c, used) \in Nat /\ compute_resize_capacity(c, used) >= c
<1> DEFINE D == {d \in Nat : d >= c}
           X == [i \in 0 .. MaxCapacity |-> D]
<1>1. c \in D
  OBVIOUS
<1>2. ASSUME NEW d \in D PROVE GrowStep(d, used) \in D
  BY DEF GrowStep, Multiplier
<1>3. compute_resize_capacity(c, used) \in D
  <2> HIDE DEF D
  <2>1. c \in X[0] /\ \A i \in 1 .. MaxCapacity : \A x \in X[i - 1] : GrowStep(x, used) \in X[i]
    BY <1>1, <1>2, CapacityAssumption
  <2>2. X[MaxCapacity] = D /\ MaxCapacity \in 0 .. MaxCapacity /\ MaxCapacity \in Nat
    BY CapacityAssumption
  <2> HIDE DEF X
  <2>3. PICK f : GrowRun(f, c, used) /\ Stays(f, MaxCapacity, X)
    BY <2>1, <2>2, GrownRun
  <2> QED
    BY <2>2, <2>3 DEF GrowRun, Stays
<1> QED
  BY <1>3

-------------------------------------------------------------------------------
(* What the recorder has read *)

(* A session over the full state, where nothing is unknown. *)
Session ==
  [slots : Tables, capacity : 1 .. MaxCapacity, cached : SUBSET (SlotId \cup {Meta}), delta : Int,
   rehashed : BOOLEAN, hand : Entry \cup {Empty}, gap : SlotId \cup {NoSlot}, failed : BOOLEAN]

(* It has cached C, and only slots of the bucket as large as it now is. *)
Recorded(C) ==
  {S \in Session : /\ C \subseteq S.cached
                   /\ S.cached \ {Meta} \subseteq 0 .. S.capacity - 1
                   /\ S.gap \in (0 .. S.capacity - 1) \cup {NoSlot}}

(* The same in a bucket of capacity n. *)
RecordedAt(C, n) == {S \in Recorded(C) : S.capacity = n}

(* The slots of a session. *)
LEMMA RecordedSlots ==
  ASSUME NEW C, NEW S \in Recorded(C)
  PROVE  /\ S.capacity \in 1 .. MaxCapacity /\ S.capacity \in Nat \ {0}
         /\ S \in RecordedAt(C, S.capacity)
         /\ \A s \in 0 .. S.capacity - 1 : s \in SlotId /\ S.slots[s] \in Entry \cup {Empty}
BY CapacityAssumption DEF Recorded, RecordedAt, Session, SlotId, Tables

(* A read of the metadata is cached, and nothing is forgotten. *)
LEMMA ReadMetaKeeps ==
  ASSUME NEW C, NEW n, NEW S \in RecordedAt(C, n)
  PROVE  ReadMeta(S) \in RecordedAt(C, n) /\ ReadMeta(S).hand = S.hand /\ Meta \in ReadMeta(S).cached
BY DEF ReadMeta, RecordedAt, Recorded, Session

(* A read of slots of the bucket is cached, and nothing is forgotten. *)
LEMMA ReadSlotsKeeps ==
  ASSUME NEW C, NEW n, NEW S \in RecordedAt(C, n), NEW R, R \subseteq 0 .. n - 1
  PROVE  ReadSlots(S, R) \in RecordedAt(C, n) /\ ReadSlots(S, R).hand = S.hand /\ R \subseteq ReadSlots(S, R).cached
<1>1. \A s \in 0 .. n - 1 : s \in SlotId
  BY RecordedSlots, CapacityAssumption DEF RecordedAt, Recorded, Session, SlotId
<1> QED
  BY <1>1 DEF ReadSlots, RecordedAt, Recorded, Session

(* update_value in the bucket keeps what was cached. *)
LEMMA PutKeeps ==
  ASSUME NEW C, NEW n, NEW S \in RecordedAt(C, n), NEW s \in 0 .. n - 1, NEW e \in Entry \cup {Empty}
  PROVE  Put(S, s, e) \in RecordedAt(C, n)
<1>1. s \in SlotId
  BY CapacityAssumption DEF RecordedAt, Recorded, Session, SlotId
<1> DEFINE d == S.delta + ((IF IsEntry(e) THEN 1 ELSE 0) - (IF IsEntry(S.slots[s]) THEN 1 ELSE 0))
           q == IF S.slots[s] = e THEN S.cached ELSE S.cached \cup {s}
<1>2. d \in Int
  BY DEF RecordedAt, Recorded, Session
<1>3. C \subseteq q /\ q \subseteq SlotId \cup {Meta} /\ q \ {Meta} \subseteq 0 .. n - 1
  BY <1>1 DEF RecordedAt, Recorded, Session
<1>4. [S.slots EXCEPT ![s] = e] \in Tables
  BY <1>1 DEF RecordedAt, Recorded, Session, Tables
<1>5. Put(S, s, e) = [S EXCEPT !.slots = [S.slots EXCEPT ![s] = e], !.cached = q, !.delta = d]
  BY DEF Put, RecordedAt, Recorded, Session
<1> HIDE DEF d, q
<1> QED
  BY <1>2, <1>3, <1>4, <1>5 DEF RecordedAt, Recorded, Session

(* The entry in hand says nothing about what was read. *)
LEMMA HandKeeps ==
  ASSUME NEW C, NEW n, NEW S \in RecordedAt(C, n), NEW e \in Entry \cup {Empty}
  PROVE  [S EXCEPT !.hand = e] \in RecordedAt(C, n)
BY DEF RecordedAt, Recorded, Session

(* Neither does the gap, which is in the bucket. *)
LEMMA GapKeeps ==
  ASSUME NEW C, NEW n, NEW S \in RecordedAt(C, n), NEW g \in (0 .. n - 1) \cup {NoSlot}
  PROVE  [S EXCEPT !.gap = g] \in RecordedAt(C, n)
BY CapacityAssumption DEF RecordedAt, Recorded, Session, SlotId

(* One probe of shi_upsert stays in the bucket. *)
LEMMA ProbeStepKeeps ==
  ASSUME NEW C, NEW n, NEW S \in RecordedAt(C, n), NEW s \in 0 .. n - 1
  PROVE  ProbeStep(S, s) \in RecordedAt(C, n)
<1> DEFINE R == ReadSlots(S, {s})
           old == S.slots[s]
<1>1. R \in RecordedAt(C, n)
  BY ReadSlotsKeeps
<1>2. old \in Entry \cup {Empty} /\ S.hand \in Entry \cup {Empty}
  BY CapacityAssumption DEF RecordedAt, Recorded, Session, SlotId, Tables
<1>3. Put(R, s, S.hand) \in RecordedAt(C, n)
  BY <1>1, <1>2, PutKeeps
<1>4. \A e \in Entry \cup {Empty} : [Put(R, s, S.hand) EXCEPT !.hand = e] \in RecordedAt(C, n)
  BY <1>3, HandKeeps
<1> HIDE DEF R
<1>5. ProbeStep(S, s) \in {S, R, [Put(R, s, S.hand) EXCEPT !.hand = Empty], [Put(R, s, S.hand) EXCEPT !.hand = old]}
  BY DEF ProbeStep, R
<1> QED
  BY <1>1, <1>2, <1>4, <1>5

(* So does its loop. *)
LEMMA ProbedKeeps ==
  ASSUME NEW C, NEW n, NEW S \in RecordedAt(C, n), NEW k, hash[k] \in Nat
  PROVE  Probed(S, k) \in RecordedAt(C, n)
<1>1. S.capacity = n /\ n \in Nat \ {0} /\ S \in Recorded(C)
  BY RecordedSlots DEF RecordedAt
<1>2. ASSUME NEW T \in RecordedAt(C, n), NEW i \in 1 .. S.capacity
      PROVE  ProbeStep(T, probe(hash[k], i - 1, S.capacity)) \in RecordedAt(C, n)
  <2>1. i - 1 \in 0 .. n - 1
    BY <1>1
  <2>2. probe(hash[k], i - 1, n) \in 0 .. n - 1
    BY <1>1, <2>1, ProbeValue
  <2> QED
    BY <1>1, <2>2, ProbeStepKeeps
<1> DEFINE X == [i \in 0 .. S.capacity |-> RecordedAt(C, n)]
<1>3. S \in X[0] /\ \A i \in 1 .. S.capacity : \A x \in X[i - 1] : ProbeStep(x, probe(hash[k], i - 1, S.capacity)) \in X[i]
  BY <1>1, <1>2
<1>4. X[S.capacity] = RecordedAt(C, n) /\ S.capacity \in 0 .. S.capacity /\ S.capacity \in Nat
  BY <1>1
<1> HIDE DEF X
<1>5. PICK f : ProbeRun(f, S, k) /\ Stays(f, S.capacity, X)
  BY <1>3, <1>4, ProbedRun
<1> QED
  BY <1>4, <1>5 DEF ProbeRun, Stays

(* One iteration of shi_delete stays in the bucket. *)
LEMMA CompactStepKeeps ==
  ASSUME NEW C, NEW n, NEW S \in RecordedAt(C, n)
  PROVE  CompactStep(S) \in RecordedAt(C, n)
<1> DEFINE stops == NextStops(S)
           path == Visited(S.gap, S.capacity, stops) \ {S.gap}
           R == ReadSlots(S, path)
           next == {s \in path \cap stops : S.slots[s] # Empty}
           from == CHOOSE s \in next : TRUE
<1>1. S.capacity = n /\ n \in Nat \ {0} /\ S \in Recorded(C) /\ \A s \in 0 .. n - 1 : S.slots[s] \in Entry \cup {Empty}
  BY RecordedSlots DEF RecordedAt
<1>2. path \subseteq 0 .. n - 1
  BY <1>1 DEF Visited
<1>3. R \in RecordedAt(C, n)
  <2> HIDE DEF path
  <2> QED
    BY <1>2, ReadSlotsKeeps
<1>4. CASE S.failed \/ S.gap = NoSlot
  BY <1>4 DEF CompactStep
<1>5. CASE ~ (S.failed \/ S.gap = NoSlot)
  <2>1. S.gap \in 0 .. n - 1
    BY <1>5, <1>1 DEF Recorded
  <2>2. Put(R, S.gap, Empty) \in RecordedAt(C, n)
    <3> HIDE DEF R
    <3> QED
      BY <2>1, <1>3, PutKeeps
  <2>3. [Put(R, S.gap, Empty) EXCEPT !.gap = NoSlot] \in RecordedAt(C, n)
    <3> HIDE DEF R
    <3> QED
      BY <2>2, GapKeeps
  <2>4. ASSUME next # {} PROVE [Put(R, S.gap, S.slots[from]) EXCEPT !.gap = from] \in RecordedAt(C, n)
    <3>1. from \in 0 .. n - 1
      <4>1. from \in next
        BY <2>4
      <4> QED
        BY <4>1, <1>2
    <3> HIDE DEF R, from
    <3>2. Put(R, S.gap, S.slots[from]) \in RecordedAt(C, n)
      BY <3>1, <1>1, <1>3, <2>1, PutKeeps
    <3> QED
      BY <3>1, <3>2, GapKeeps
  <2>5. CompactStep(S) = IF R.failed THEN R
                         ELSE IF next = {} THEN [Put(R, S.gap, Empty) EXCEPT !.gap = NoSlot]
                         ELSE [Put(R, S.gap, S.slots[from]) EXCEPT !.gap = from]
    BY <1>5 DEF CompactStep
  <2> HIDE DEF R, next, from
  <2> QED
    BY <1>3, <2>3, <2>4, <2>5
<1> QED
  BY <1>4, <1>5

(* So does its loop. *)
LEMMA CompactedKeeps ==
  ASSUME NEW C, NEW n, NEW S \in RecordedAt(C, n)
  PROVE  Compacted(S) \in RecordedAt(C, n)
<1>1. S.capacity \in Nat
  BY RecordedSlots DEF RecordedAt
<1> DEFINE X == [i \in 0 .. S.capacity |-> RecordedAt(C, n)]
<1>3. S \in X[0] /\ \A i \in 1 .. S.capacity : \A x \in X[i - 1] : CompactStep(x) \in X[i]
  BY <1>1, CompactStepKeeps
<1>4. X[S.capacity] = RecordedAt(C, n) /\ S.capacity \in 0 .. S.capacity
  BY <1>1
<1> HIDE DEF X
<1>5. PICK f : CompactRun(f, S) /\ Stays(f, S.capacity, X)
  BY <1>1, <1>3, <1>4, CompactedRun
<1> QED
  BY <1>4, <1>5 DEF CompactRun, Stays

(* A bucket that shi_rehash expands has all the slots that were cached     *)
(* before.                                                                 *)
LEMMA RehashKeeps ==
  ASSUME NEW C, NEW S \in Recorded(C), NEW store, NEW c \in Nat, c >= S.capacity
  PROVE  Rehash(store, S, c) \in Recorded(C)
<1> DEFINE n == S.capacity
           R == ReadSlots(S, 0 .. n - 1)
           new == Layout({S.slots[s] : s \in 0 .. n - 1} \ {Empty}, c)
           changed == {s \in 0 .. c - 1 : s >= n \/ new[s] # S.slots[s]}
           slots == [s \in SlotId |-> IF s \in changed THEN new[s] ELSE S.slots[s]]
<1>1. n \in 1 .. MaxCapacity /\ n \in Nat /\ S \in RecordedAt(C, n) /\ S \in Session
  BY RecordedSlots DEF Recorded
<1>2. R \in RecordedAt(C, n)
  BY <1>1, ReadSlotsKeeps
<1>3. new \in Tables
  BY LayoutIsTable, RecordedSlots
<1>4. [S EXCEPT !.failed = TRUE] \in Recorded(C)
  BY DEF Recorded, Session
<1>5. ASSUME c <= MaxCapacity
      PROVE  [R EXCEPT !.slots = slots, !.capacity = c, !.cached = @ \cup changed \cup {Meta}, !.rehashed = TRUE] \in Recorded(C)
  <2>1. slots \in Tables
    <3> HIDE DEF new, changed
    <3> QED
      BY <1>3, <1>1 DEF Tables, Session
  <2>2. changed \subseteq 0 .. c - 1 /\ changed \subseteq SlotId
    BY <1>5, CapacityAssumption DEF SlotId
  <2>3. c \in 1 .. MaxCapacity /\ 0 .. n - 1 \subseteq 0 .. c - 1
    BY <1>5, <1>1
  <2> HIDE DEF slots, changed, R, n
  <2> QED
    BY <1>1, <1>2, <2>1, <2>2, <2>3 DEF RecordedAt, Recorded, Session
<1>6. \/ Rehash(store, S, c) = [S EXCEPT !.failed = TRUE]
      \/ /\ ~ (c > MaxCapacity)
         /\ Rehash(store, S, c) = [R EXCEPT !.slots = slots, !.capacity = c, !.cached = @ \cup changed \cup {Meta}, !.rehashed = TRUE]
  BY Zenon DEF Rehash
<1>7. ~ (c > MaxCapacity) => c <= MaxCapacity
  BY CapacityAssumption
<1> HIDE DEF R, slots, changed
<1> QED
  BY <1>4, <1>5, <1>6, <1>7

(* One call of shi_upsert, the resize included. *)
LEMMA UpsertOnceKeeps ==
  ASSUME NEW C, NEW S \in Recorded(C), NEW store, store.fast = NoFast,
         hash \in [PlainKeys -> Nat], NEW e \in Entry
  PROVE  UpsertOnce(store, S, e) \in Recorded(C)
<1> DEFINE n == S.capacity
           M == ReadMeta([S EXCEPT !.hand = e])
           W == Probed(M, e.key)
<1>1. DirectFind(store, S, e.key) = {}
  BY DEF DirectFind, NoFast
<1>2. S \in RecordedAt(C, n)
  BY RecordedSlots
<1>3. M \in RecordedAt(C, n)
  BY <1>2, HandKeeps, ReadMetaKeeps
<1>4. e.key \in PlainKeys /\ hash[e.key] \in Nat
  BY DEF Entry
<1>5. W \in RecordedAt(C, n)
  <2> HIDE DEF M, n
  <2> QED
    BY <1>3, <1>4, ProbedKeeps
<1> HIDE DEF M, W, n
<1>6. M \in Recorded(C) /\ W \in Recorded(C) /\ W.capacity \in Nat
  BY <1>3, <1>5, RecordedSlots DEF RecordedAt
<1>7. \A used : Rehash(store, W, compute_resize_capacity(W.capacity, used)) \in Recorded(C)
  BY <1>6, Grown, RehashKeeps
<1>8. UpsertOnce(store, S, e) \in {M, W, Rehash(store, W, compute_resize_capacity(W.capacity, W.capacity)),
                                  Rehash(store, W, compute_resize_capacity(W.capacity, usage_count(store, W)))}
  <2> USE DEF M, W
  <2>1. UpsertOnce(store, S, e) =
          IF M.failed THEN M
          ELSE IF W.failed THEN W
          ELSE IF W.hand # Empty THEN Rehash(store, W, compute_resize_capacity(W.capacity, W.capacity))
          ELSE IF Resizes(store, S, W)
               THEN Rehash(store, W, compute_resize_capacity(W.capacity, usage_count(store, W)))
          ELSE W
    BY <1>1, Zenon DEF UpsertOnce
  <2> HIDE DEF M, W
  <2> QED
    BY <2>1
<1> QED
  BY <1>6, <1>7, <1>8

(* shi_upsert with the call for the entry that was left in hand. *)
LEMMA UpsertKeeps ==
  ASSUME NEW C, NEW S \in Recorded(C), NEW store, store.fast = NoFast,
         hash \in [PlainKeys -> Nat], NEW e \in Entry
  PROVE  ShiUpsert(store, S, e) \in Recorded(C)
<1> DEFINE U == UpsertOnce(store, S, e)
<1>1. U \in Recorded(C)
  BY UpsertOnceKeeps
<1> HIDE DEF U
<1>2. ASSUME U.hand # Empty PROVE UpsertOnce(store, U, U.hand) \in Recorded(C)
  <2>1. U.hand \in Entry
    BY <1>1, <1>2 DEF Recorded, Session
  <2> QED
    BY <2>1, <1>1, UpsertOnceKeeps
<1> QED
  BY <1>1, <1>2 DEF ShiUpsert, U

(* shi_search reads slots of the bucket. *)
LEMMA SearchWithin ==
  ASSUME NEW S, NEW k
  PROVE  SearchPath(S, k) \subseteq 0 .. S.capacity - 1 /\ Found(S, k) \subseteq SearchPath(S, k)
BY DEF SearchPath, Visited, Found

(* shi_delete. *)
LEMMA DeleteKeeps ==
  ASSUME NEW C, NEW S \in Recorded(C), NEW k
  PROVE  ShiDelete(S, k) \in Recorded(C)
<1> DEFINE n == S.capacity
           M == ReadMeta(S)
           R == ReadSlots(M, SearchPath(M, k))
           found == Found(M, k)
           g == CHOOSE s \in found : TRUE
<1>1. M \in RecordedAt(C, n) /\ M.capacity = n
  BY RecordedSlots, ReadMetaKeeps DEF RecordedAt
<1> HIDE DEF M, n
<1>2. R \in RecordedAt(C, n)
  BY <1>1, SearchWithin, ReadSlotsKeeps
<1> HIDE DEF R
<1>3. ASSUME found # {} PROVE Compacted([R EXCEPT !.gap = g]) \in RecordedAt(C, n)
  <2>1. g \in 0 .. n - 1
    BY <1>1, <1>3, SearchWithin
  <2> HIDE DEF g
  <2> QED
    BY <2>1, <1>2, GapKeeps, CompactedKeeps
<1>4. \/ ShiDelete(S, k) \in {M, R}
      \/ found # {} /\ ShiDelete(S, k) = Compacted([R EXCEPT !.gap = g])
  <2> USE DEF M, R
  <2>1. ShiDelete(S, k) = IF M.failed THEN M ELSE IF R.failed \/ found = {} THEN R ELSE Compacted([R EXCEPT !.gap = g])
    BY Zenon DEF ShiDelete
  <2> HIDE DEF M, R, found, g
  <2> QED
    BY <2>1
<1> QED
  BY <1>1, <1>2, <1>3, <1>4 DEF RecordedAt

(* What the recorder has cached stays cached in every update, and all of   *)
(* it are slots of the bucket as it then is.                               *)
LEMMA UpdateKeeps ==
  ASSUME NEW C, NEW S \in Recorded(C), NEW store, store.fast = NoFast,
         hash \in [PlainKeys -> Nat], NEW k \in PlainKeys, NEW v \in Values \cup {Empty}
  PROVE  UpdateOne(store, S, k, v) \in Recorded(C)
<1>1. CASE v = Empty
  BY <1>1, DeleteKeeps DEF UpdateOne
<1>2. CASE v # Empty
  <2>1. [key |-> k, val |-> v] \in Entry
    BY <1>2 DEF Entry
  <2> QED
    BY <1>2, <2>1, UpsertKeeps DEF UpdateOne
<1> QED
  BY <1>1, <1>2

-------------------------------------------------------------------------------
(* What the loops do to an ordered bucket *)

(* The plain keys that a table holds. *)
KeysIn(T) == {T[s].key : s \in Occupied(T)}

(* Each is the key of an entry of the table. *)
LEMMA KeysInTable ==
  ASSUME NEW T \in Tables
  PROVE  /\ KeysIn(T) \subseteq PlainKeys
         /\ \A s \in SlotId : T[s] # Empty => T[s].key \in KeysIn(T) /\ T[s] \in Entry
         /\ \A k \in KeysIn(T) : \E s \in SlotId : T[s] # Empty /\ T[s].key = k
BY DEF KeysIn, Occupied, Tables, Entry

(* The SaltValues that the operations move are never the empty slot. *)
LEMMA EntryFacts ==
  ASSUME NEW e \in Entry
  PROVE  e # Empty /\ e.key \in PlainKeys /\ e.key \in Nat
BY EmptyAssumption, KeysAssumption DEF Entry

(* An entry that goes into an empty slot adds its key, *)
LEMMA PutVacant ==
  ASSUME NEW T \in Tables, NEW p \in SlotId, NEW e \in Entry, T[p] = Empty
  PROVE  KeysIn([T EXCEPT ![p] = e]) = KeysIn(T) \cup {e.key}
<1> DEFINE U == [T EXCEPT ![p] = e]
<1>1. U[p] = e /\ e # Empty /\ \A s \in SlotId : s # p => U[s] = T[s]
  BY EntryFacts DEF Tables
<1> HIDE DEF U
<1>2. Occupied(U) = Occupied(T) \cup {p} /\ p \notin Occupied(T)
  BY <1>1 DEF Occupied
<1>3. \A s \in Occupied(T) : U[s] = T[s]
  BY <1>1 DEF Occupied
<1> QED
  BY <1>1, <1>2, <1>3 DEF KeysIn, U

(* and one that goes over another entry of an ordered bucket takes that    *)
(* key away.                                                               *)
LEMMA PutOver ==
  ASSUME NEW c \in 1 .. MaxCapacity, hash \in [PlainKeys -> Nat], NEW T \in Tables, Within(T, c), ShiOrdered(T, hash, c),
         NEW p \in SlotId, NEW e \in Entry, T[p] # Empty
  PROVE  KeysIn([T EXCEPT ![p] = e]) = (KeysIn(T) \ {T[p].key}) \cup {e.key}
<1> DEFINE U == [T EXCEPT ![p] = e]
<1>1. U[p] = e /\ e # Empty /\ \A s \in SlotId : s # p => U[s] = T[s]
  BY EntryFacts DEF Tables
<1> HIDE DEF U
<1>2. Occupied(U) = Occupied(T) /\ p \in Occupied(T)
  BY <1>1 DEF Occupied
<1>3. \A s \in Occupied(T) : s # p => U[s] = T[s] /\ T[s].key # T[p].key
  <2> SUFFICES ASSUME NEW s \in Occupied(T), s # p PROVE U[s] = T[s] /\ T[s].key # T[p].key
    OBVIOUS
  <2>1. T[s].key = T[p].key => s = p
    BY <1>2, OrderedEntriesUnique
  <2> QED
    BY <1>1, <2>1 DEF Occupied
<1>4. KeysIn(U) = {U[s].key : s \in Occupied(T)} /\ KeysIn(T) = {T[s].key : s \in Occupied(T)}
  BY <1>2 DEF KeysIn
<1> QED
  BY <1>1, <1>2, <1>3, <1>4 DEF U

(* What the loop of shi_upsert leaves alone. *)
Same(S, T) == T.capacity = S.capacity /\ T.gap = S.gap /\ T.rehashed = S.rehashed /\ ~ T.failed /\ S.cached \subseteq T.cached

(* What one probe of shi_upsert does on the full state: it fills an empty  *)
(* slot, replaces the value of its own key, displaces a smaller key or     *)
(* passes a larger one.                                                    *)
LEMMA ProbeCases ==
  ASSUME NEW S \in Session, ~ S.failed, S.hand # Empty, NEW s \in 0 .. S.capacity - 1
  PROVE  LET U == ProbeStep(S, s)
             old == S.slots[s]
         IN  /\ U \in Session /\ Same(S, U) /\ s \in U.cached
             /\ \/ /\ old = Empty /\ U.slots = [S.slots EXCEPT ![s] = S.hand] /\ U.hand = Empty /\ U.delta = S.delta + 1
                \/ /\ old # Empty /\ old.key = S.hand.key
                   /\ U.slots = [S.slots EXCEPT ![s] = S.hand] /\ U.hand = Empty /\ U.delta = S.delta
                \/ /\ old # Empty /\ old.key < S.hand.key
                   /\ U.slots = [S.slots EXCEPT ![s] = S.hand] /\ U.hand = old /\ U.delta = S.delta
                \/ /\ old # Empty /\ old.key # S.hand.key /\ ~ (old.key < S.hand.key)
                   /\ U.slots = S.slots /\ U.hand = S.hand /\ U.delta = S.delta
<1> DEFINE R == ReadSlots(S, {s})
           old == S.slots[s]
           P == Put(R, s, S.hand)
           U == ProbeStep(S, s)
<1>1. s \in SlotId /\ old \in Entry \cup {Empty} /\ old # Unknown /\ S.hand \in Entry /\ S.hand # Unknown
  BY CapacityAssumption, WitnessAssumption DEF Session, SlotId, Tables
<1>2. R = [S EXCEPT !.cached = @ \cup {s}, !.failed = FALSE]
  <2>1. (\E t \in {s} : S.slots[t] = Unknown) = FALSE
    BY <1>1
  <2> QED
    BY <2>1 DEF ReadSlots
<1>3. /\ R \in Session /\ Same(S, R) /\ s \in R.cached /\ R.slots = S.slots /\ R.hand = S.hand /\ R.delta = S.delta
  BY <1>1, <1>2 DEF Session, Same
<1> HIDE DEF R
<1>4. P = [R EXCEPT !.slots = [S.slots EXCEPT ![s] = S.hand],
                    !.cached = IF old = S.hand THEN @ ELSE @ \cup {s},
                    !.delta = S.delta + (1 - (IF old = Empty THEN 0 ELSE 1))]
  <2>1. IsEntry(S.hand) /\ (IsEntry(old) <=> old # Empty)
    BY <1>1 DEF IsEntry
  <2> QED
    BY <1>3, <2>1 DEF Put, Session
<1>5. \A e \in Entry \cup {Empty} : LET V == [P EXCEPT !.hand = e]
         IN  /\ V \in Session /\ Same(S, V) /\ s \in V.cached /\ V.slots = [S.slots EXCEPT ![s] = S.hand]
             /\ V.hand = e /\ V.delta = S.delta + (1 - (IF old = Empty THEN 0 ELSE 1))
  <2> SUFFICES ASSUME NEW e \in Entry \cup {Empty}
               PROVE  LET V == [P EXCEPT !.hand = e]
                      IN  /\ V \in Session /\ Same(S, V) /\ s \in V.cached /\ V.slots = [S.slots EXCEPT ![s] = S.hand]
                          /\ V.hand = e /\ V.delta = S.delta + (1 - (IF old = Empty THEN 0 ELSE 1))
    OBVIOUS
  <2> DEFINE d == S.delta + (1 - (IF old = Empty THEN 0 ELSE 1))
             T == [S.slots EXCEPT ![s] = S.hand]
             q == IF old = S.hand THEN R.cached ELSE R.cached \cup {s}
  <2>1. d \in Int /\ T \in Tables /\ R.cached \subseteq q /\ q \subseteq SlotId \cup {Meta}
    BY <1>1, <1>3 DEF Session, Tables
  <2>2. P = [R EXCEPT !.slots = T, !.cached = q, !.delta = d]
    BY <1>4, <1>3 DEF Session
  <2> HIDE DEF d, T, q, P
  <2>3. LET V == [P EXCEPT !.hand = e]
        IN  /\ V \in Session /\ Same(S, V) /\ s \in V.cached /\ V.slots = T /\ V.hand = e /\ V.delta = d
    BY <1>1, <1>3, <2>1, <2>2 DEF Session, Same
  <2> QED
    BY <2>3 DEF d, T
<1>6. U = IF old = Empty THEN [P EXCEPT !.hand = Empty]
          ELSE IF old.key = S.hand.key THEN [P EXCEPT !.hand = Empty]
          ELSE IF old.key < S.hand.key THEN [P EXCEPT !.hand = old] ELSE R
  <2>1. ~ R.failed
    BY <1>3 DEF Same
  <2> QED
    BY <2>1, Zenon DEF ProbeStep, R
<1>7. S.delta + (1 - 0) = S.delta + 1 /\ S.delta + (1 - 1) = S.delta
  BY DEF Session
<1> HIDE DEF P, U
<1>8. CASE old = Empty
  BY <1>5, <1>6, <1>7, <1>8 DEF U
<1>9. CASE old # Empty /\ old.key = S.hand.key
  BY <1>5, <1>6, <1>7, <1>9 DEF U
<1>10. CASE old # Empty /\ old.key # S.hand.key /\ old.key < S.hand.key
  BY <1>1, <1>5, <1>6, <1>7, <1>10 DEF U
<1>11. CASE old # Empty /\ old.key # S.hand.key /\ ~ (old.key < S.hand.key)
  BY <1>3, <1>6, <1>11 DEF U
<1> QED
  BY <1>8, <1>9, <1>10, <1>11

(* The loop of shi_upsert after i probes, for a key k that the bucket S    *)
(* does not have: the bucket is in order, and what is in hand belongs at   *)
(* the next slot or later.                                                 *)
Walking(S, k, i) ==
  {T \in Session :
     /\ Same(S, T)
     /\ ShiOrdered(T.slots, hash, S.capacity) /\ Within(T.slots, S.capacity)
     /\ \A s \in SlotId : S.slots[s] # Empty /\ S.slots[s].key > k => T.slots[s] = S.slots[s]
     /\ T.hand = Empty => KeysIn(T.slots) = KeysIn(S.slots) \cup {k} /\ T.delta = S.delta + 1
     /\ T.hand # Empty =>
          /\ T.hand.key <= k /\ T.hand.key \notin KeysIn(T.slots)
          /\ KeysIn(T.slots) \cup {T.hand.key} = KeysIn(S.slots) \cup {k}
          /\ T.delta = S.delta
          /\ i < S.capacity => Passed(T.slots, hash[T.hand.key], S.capacity, T.hand.key, probe(hash[k], i, S.capacity))
          /\ \A j \in 0 .. i - 1 : T.slots[probe(hash[k], j, S.capacity)] # Empty}

(* A write to a slot of the bucket stays within it. *)
LEMMA PutWithin ==
  ASSUME NEW c \in 1 .. MaxCapacity, NEW T \in Tables, Within(T, c), NEW p \in 0 .. c - 1, NEW e
  PROVE  Within([T EXCEPT ![p] = e], c)
BY CapacityAssumption DEF Within, Occupied, Tables, SlotId

(* Passed depends on the slots before only. *)
LEMMA PassedSame ==
  ASSUME NEW c \in 1 .. MaxCapacity, NEW h \in Nat, NEW T \in Tables, NEW p \in 0 .. c - 1, NEW e, NEW k,
         Passed(T, h, c, k, p)
  PROVE  Passed([T EXCEPT ![p] = e], h, c, k, p)
<1>1. p \notin Before(h, p, c) /\ \A t \in Before(h, p, c) : t \in SlotId
  BY BeforeIrreflexive, CapacityAssumption DEF Before, SlotId
<1> QED
  BY <1>1 DEF Passed, Larger, Tables

(* Every probe keeps that. *)
LEMMA WalkStep ==
  ASSUME NEW S \in Session, hash \in [PlainKeys -> Nat], NEW k \in PlainKeys,
         NEW i \in 1 .. S.capacity, NEW T \in Walking(S, k, i - 1)
  PROVE  ProbeStep(T, probe(hash[k], i - 1, S.capacity)) \in Walking(S, k, i)
<1> DEFINE c == S.capacity
           h == hash[k]
           p == probe(h, i - 1, c)
           U == ProbeStep(T, p)
           old == T.slots[p]
<1>1. c \in 1 .. MaxCapacity /\ c \in Nat \ {0} /\ h \in Nat /\ k \in Nat /\ i - 1 \in 0 .. c - 1 /\ i \in Nat
  BY CapacityAssumption, KeysAssumption DEF Session
<1>2. p \in 0 .. c - 1 /\ p \in SlotId
  <2>1. p \in 0 .. c - 1
    BY <1>1, ProbeValue
  <2> QED
    BY <2>1, <1>1, CapacityAssumption DEF SlotId
<1>3. T \in Session /\ Same(S, T) /\ T.slots \in Tables /\ T.capacity = c /\ T.delta \in Int /\ S.delta \in Int
  BY DEF Walking, Session, Same
<1>4. CASE T.hand = Empty
  <2>1. U = T
    BY <1>4 DEF ProbeStep
  <2> QED
    BY <2>1, <1>4 DEF Walking
<1>5. CASE T.hand # Empty
  <2> DEFINE g == T.hand
             V == [T.slots EXCEPT ![p] = g]
             Q(W) == /\ ShiOrdered(W, hash, c) /\ Within(W, c)
                     /\ \A s \in SlotId : S.slots[s] # Empty /\ S.slots[s].key > k => W[s] = S.slots[s]
  <2>1. g \in Entry /\ g.key \in Nat /\ g.key \in PlainKeys /\ hash[g.key] \in Nat /\ g # Empty
    BY <1>3, <1>5, EntryFacts DEF Session
  <2>2. /\ ShiOrdered(T.slots, hash, c) /\ Within(T.slots, c) /\ Q(T.slots)
        /\ g.key <= k /\ g.key \notin KeysIn(T.slots)
        /\ KeysIn(T.slots) \cup {g.key} = KeysIn(S.slots) \cup {k}
        /\ T.delta = S.delta
        /\ Passed(T.slots, hash[g.key], c, g.key, p)
        /\ \A j \in 0 .. i - 1 - 1 : T.slots[probe(h, j, c)] # Empty
    BY <1>1, <1>5 DEF Walking
  <2>3. old \in Entry \cup {Empty} /\ (old # Empty => old \in Entry /\ old.key \in Nat /\ old.key \in PlainKeys /\ hash[old.key] \in Nat /\ old.key \in KeysIn(T.slots))
    BY <1>2, <1>3, EntryFacts, KeysInTable DEF Tables
  <2>4. /\ U \in Session /\ Same(T, U)
        /\ \/ old = Empty /\ U.slots = V /\ U.hand = Empty /\ U.delta = T.delta + 1
           \/ old # Empty /\ old.key = g.key /\ U.slots = V /\ U.hand = Empty /\ U.delta = T.delta
           \/ old # Empty /\ old.key < g.key /\ U.slots = V /\ U.hand = old /\ U.delta = T.delta
           \/ /\ old # Empty /\ old.key # g.key /\ ~ (old.key < g.key)
              /\ U.slots = T.slots /\ U.hand = g /\ U.delta = T.delta
    BY <1>2, <1>3, <1>5, ProbeCases DEF Same
  <2>5. Same(S, U)
    BY <1>3, <2>4 DEF Same
  <2> HIDE DEF U, V
  <2>6. V \in Tables /\ V[p] = g /\ \A s \in SlotId : s # p => V[s] = T.slots[s]
    BY <1>2, <1>3, <2>1 DEF V, Tables
  <2>7. ASSUME old = Empty \/ old.key < g.key PROVE Q(V)
    <3>1. ShiOrdered(V, hash, c)
      BY <1>1, <1>2, <1>3, <2>1, <2>2, <2>3, <2>7, PutKeepsOrder DEF V
    <3>2. Within(V, c)
      BY <1>1, <1>2, <1>3, <2>2, PutWithin DEF V
    <3>3. ASSUME NEW s \in SlotId, S.slots[s] # Empty, S.slots[s].key > k PROVE V[s] = S.slots[s]
      <4>1. T.slots[s] = S.slots[s] /\ S.slots[s].key \in Nat
        BY <2>2, <3>3, EntryFacts DEF Session, Tables
      <4>2. s # p
        BY <4>1, <2>7, <3>3, <2>1, <2>2, <1>1
      <4> QED
        BY <4>1, <4>2, <2>6
    <3> QED
      BY <3>1, <3>2, <3>3
  <2>8. CASE old = Empty
    <3>1. U.slots = V /\ U.hand = Empty /\ U.delta = S.delta + 1
      BY <2>2, <2>4, <2>8
    <3>2. KeysIn(V) = KeysIn(T.slots) \cup {g.key}
      BY <1>2, <1>3, <2>1, <2>8, PutVacant DEF V
    <3> QED
      BY <2>2, <2>4, <2>5, <2>7, <2>8, <3>1, <3>2 DEF Walking, U
  <2>9. CASE old # Empty /\ old.key = g.key
    BY <2>2, <2>3, <2>9
  <2>10. CASE old # Empty /\ old.key < g.key
    <3>1. U.slots = V /\ U.hand = old /\ U.delta = S.delta
      BY <2>1, <2>2, <2>3, <2>4, <2>10
    <3>2. KeysIn(V) = (KeysIn(T.slots) \ {old.key}) \cup {g.key}
      BY <1>1, <1>2, <1>3, <2>1, <2>2, <2>10, PutOver DEF V
    <3>3. /\ old.key <= k /\ old.key \notin KeysIn(V)
          /\ KeysIn(V) \cup {old.key} = KeysIn(S.slots) \cup {k}
      BY <3>2, <2>1, <2>2, <2>3, <2>10, <1>1
    <3>4. Passed(T.slots, hash[old.key], c, old.key, p)
      BY <2>2, <2>10, <1>2 DEF ShiOrdered
    <3>5. Passed(V, hash[old.key], c, old.key, p)
      BY <3>4, <1>1, <1>2, <1>3, <2>3, <2>10, PassedSame DEF V
    <3>6. Larger(V, p, old.key)
      BY <2>1, <2>3, <2>6, <2>10 DEF Larger
    <3>7. Passed(V, hash[old.key], c, old.key, NextSlot(p, c))
      BY <3>5, <3>6, <1>1, <1>2, <2>3, <2>10, PassNext
    <3>8. i < c => probe(h, i, c) = NextSlot(p, c)
      <4>1. i - 1 + 1 = i /\ i - 1 \in Nat
        BY <1>1
      <4> QED
        BY <4>1, <1>1, ProbeNext
    <3>9. \A j \in 0 .. i - 1 : V[probe(h, j, c)] # Empty
      <4> SUFFICES ASSUME NEW j \in 0 .. i - 1 PROVE V[probe(h, j, c)] # Empty
        OBVIOUS
      <4>1. j \in 0 .. c - 1
        BY <1>1
      <4>2. probe(h, j, c) \in SlotId
        <5>1. probe(h, j, c) \in 0 .. c - 1
          BY <4>1, <1>1, ProbeValue
        <5> QED
          BY <5>1, <1>1, CapacityAssumption DEF SlotId
      <4>3. probe(h, j, c) = p \/ T.slots[probe(h, j, c)] # Empty
        BY <1>1, <2>2
      <4> QED
        BY <4>2, <4>3, <2>1, <2>6
    <3> QED
      BY <2>2, <2>3, <2>4, <2>5, <2>7, <2>10, <3>1, <3>3, <3>7, <3>8, <3>9 DEF Walking, U
  <2>11. CASE old # Empty /\ old.key # g.key /\ ~ (old.key < g.key)
    <3>1. U.slots = T.slots /\ U.hand = g /\ U.delta = S.delta
      BY <2>1, <2>2, <2>3, <2>4, <2>11
    <3>6. Larger(T.slots, p, g.key)
      BY <2>1, <2>3, <2>11 DEF Larger
    <3>7. Passed(T.slots, hash[g.key], c, g.key, NextSlot(p, c))
      BY <3>6, <1>1, <1>2, <2>1, <2>2, PassNext
    <3>8. i < c => probe(h, i, c) = NextSlot(p, c)
      <4>1. i - 1 + 1 = i /\ i - 1 \in Nat
        BY <1>1
      <4> QED
        BY <4>1, <1>1, ProbeNext
    <3>9. \A j \in 0 .. i - 1 : T.slots[probe(h, j, c)] # Empty
      BY <1>1, <2>2, <2>11
    <3> QED
      BY <2>1, <2>2, <2>4, <2>5, <3>1, <3>7, <3>8, <3>9 DEF Walking, U
  <2> QED
    BY <2>3, <2>8, <2>9, <2>10, <2>11
<1> QED
  BY <1>4, <1>5

(* The probe sequence reaches every slot. *)
LEMMA ProbeReaches ==
  ASSUME NEW c \in Nat \ {0}, NEW h \in Nat, NEW t \in 0 .. c - 1
  PROVE  \E j \in 0 .. c - 1 : probe(h, j, c) = t
<1> DEFINE f == h % c
           j == IF t >= f THEN t - f ELSE t + c - f
<1>1. f \in 0 .. c - 1
  BY ModRange
<1>2. j \in 0 .. c - 1 /\ (IF f + j < c THEN f + j ELSE f + j - c) = t
  <2> HIDE DEF f
  <2> QED
    BY <1>1
<1>3. probe(h, j, c) = IF f + j < c THEN f + j ELSE f + j - c
  <2> HIDE DEF j
  <2> QED
    BY <1>2, ProbeValue
<1> HIDE DEF j, f
<1> QED
  BY <1>2, <1>3

(* The loop of shi_upsert for a key that the bucket does not have: it is   *)
(* inserted, or the bucket is full and an entry is left in hand.           *)
LEMMA ProbedAbsent ==
  ASSUME NEW S \in Session, hash \in [PlainKeys -> Nat], ~ S.failed,
         ShiOrdered(S.slots, hash, S.capacity), Within(S.slots, S.capacity),
         S.hand \in Entry, S.hand.key \notin KeysIn(S.slots)
  PROVE  LET W == Probed(S, S.hand.key)
         IN  /\ W \in Walking(S, S.hand.key, S.capacity)
             /\ W.hand # Empty => \A t \in 0 .. S.capacity - 1 : W.slots[t] # Empty
<1> DEFINE c == S.capacity
           k == S.hand.key
           X == [i \in 0 .. c |-> Walking(S, k, i)]
<1>1. c \in Nat \ {0} /\ k \in PlainKeys /\ k \in Nat /\ hash[k] \in Nat /\ S.hand # Empty
  BY EntryFacts DEF Session
<1>2. S \in Walking(S, k, 0)
  <2>1. Passed(S.slots, hash[k], c, k, probe(hash[k], 0, c))
    BY <1>1, PassFirst
  <2> QED
    BY <1>1, <2>1 DEF Walking, Same
<1>3. S \in X[0] /\ \A i \in 1 .. c : \A x \in X[i - 1] : ProbeStep(x, probe(hash[k], i - 1, c)) \in X[i]
  BY <1>1, <1>2, WalkStep
<1>4. X[c] = Walking(S, k, c) /\ c \in 0 .. c /\ c \in Nat
  BY <1>1
<1>5. Probed(S, k) \in Walking(S, k, c)
  <2> HIDE DEF X, c
  <2> USE DEF c
  <2>1. PICK f : ProbeRun(f, S, k) /\ Stays(f, S.capacity, X)
    BY <1>3, <1>4, ProbedRun
  <2> QED
    BY <1>4, <2>1 DEF ProbeRun, Stays
<1> DEFINE W == Probed(S, k)
<1>6. ASSUME W.hand # Empty, NEW t \in 0 .. c - 1 PROVE W.slots[t] # Empty
  <2>1. PICK j \in 0 .. c - 1 : probe(hash[k], j, c) = t
    BY <1>1, ProbeReaches
  <2>2. \A i \in 0 .. c - 1 : W.slots[probe(hash[k], i, c)] # Empty
    BY <1>5, <1>6 DEF Walking
  <2> QED
    BY <2>1, <2>2
<1> QED
  BY <1>5, <1>6

(* What one iteration of the compaction does: the entry that ShiNext names *)
(* goes into the gap, or the gap stays empty.                              *)
LEMMA CompactCases ==
  ASSUME NEW S \in Session, ~ S.failed, S.gap \in 0 .. S.capacity - 1, S.slots[S.gap] # Empty
  PROVE  LET U == CompactStep(S)
             N == ShiNext(S.slots, hash, S.capacity, S.gap)
         IN  /\ U \in Session /\ U.capacity = S.capacity /\ U.hand = S.hand /\ U.rehashed = S.rehashed
             /\ ~ U.failed /\ S.cached \subseteq U.cached
             /\ \/ /\ N = {} /\ U.slots = [S.slots EXCEPT ![S.gap] = Empty] /\ U.gap = NoSlot /\ U.delta = S.delta - 1
                \/ \E n \in N : U.slots = [S.slots EXCEPT ![S.gap] = S.slots[n]] /\ U.gap = n /\ U.delta = S.delta
<1> DEFINE g == S.gap
           c == S.capacity
           T == S.slots
           stops == NextStops(S)
           path == Visited(g, c, stops) \ {g}
           R == ReadSlots(S, path)
           next == {s \in path \cap stops : T[s] # Empty}
           from == CHOOSE s \in next : TRUE
           N == ShiNext(T, hash, c, g)
           U == CompactStep(S)
           Z(e, h, d) == [S EXCEPT !.slots = [T EXCEPT ![g] = e],
                                   !.cached = IF T[g] = e THEN @ \cup path ELSE (@ \cup path) \cup {g},
                                   !.delta = d, !.gap = h, !.failed = FALSE]
<1>1. /\ c \in Nat \ {0} /\ g \in SlotId /\ T \in Tables /\ (\A s \in 0 .. c - 1 : s \in SlotId)
      /\ \A s \in SlotId : T[s] \in Entry \cup {Empty} /\ T[s] # Unknown /\ (IsEntry(T[s]) <=> T[s] # Empty)
  BY CapacityAssumption, WitnessAssumption DEF Session, SlotId, Tables, IsEntry
<1>2. stops = {s \in (0 .. c - 1) \ {g} : T[s] # Empty => Suitable(T, hash, c, g, s)}
  BY <1>1 DEF NextStops
<1>3. path \subseteq 0 .. c - 1 /\ path \subseteq SlotId
  BY <1>1 DEF Visited
<1>4. next = N
  <2>1. ASSUME NEW s \in next PROVE s \in N
    <3>1. s \in 0 .. c - 1 /\ s # g /\ T[s] # Empty /\ Suitable(T, hash, c, g, s) /\ Before(g, s, c) \cap stops = {}
      BY <1>2 DEF Visited
    <3>2. \A t \in Before(g, s, c) : t # g => T[t] # Empty /\ ~ Suitable(T, hash, c, g, t)
      BY <3>1, <1>2 DEF Before
    <3> QED
      BY <3>1, <3>2 DEF ShiNext
  <2>2. ASSUME NEW s \in N PROVE s \in next
    <3>1. /\ s \in 0 .. c - 1 /\ s # g /\ T[s] # Empty /\ Suitable(T, hash, c, g, s)
          /\ \A t \in Before(g, s, c) : t # g => T[t] # Empty /\ ~ Suitable(T, hash, c, g, t)
      BY DEF ShiNext
    <3>2. s \in stops /\ Before(g, s, c) \cap stops = {}
      BY <3>1, <1>2
    <3> HIDE DEF stops
    <3> QED
      BY <3>1, <3>2 DEF Visited
  <2> QED
    BY <2>1, <2>2
<1>5. R = [S EXCEPT !.cached = @ \cup path, !.failed = FALSE]
  <2>1. (\E s \in path : S.slots[s] = Unknown) = FALSE
    BY <1>1, <1>3
  <2> HIDE DEF path
  <2> QED
    BY <2>1 DEF ReadSlots
<1> HIDE DEF path, R, N, stops
<1>6. ~ R.failed
  BY <1>5 DEF Session
<1>7. g # NoSlot
  BY DEF NoSlot
<1>8. U = IF next = {} THEN [Put(R, g, Empty) EXCEPT !.gap = NoSlot] ELSE [Put(R, g, T[from]) EXCEPT !.gap = from]
  BY <1>6, <1>7, Zenon DEF CompactStep, path, stops, R
<1> HIDE DEF U, from, next
<1>9. ASSUME NEW e \in Entry \cup {Empty}, NEW h \in SlotId \cup {NoSlot}, NEW d \in Int,
             d = S.delta + ((IF e = Empty THEN 0 ELSE 1) - 1)
      PROVE  /\ [Put(R, g, e) EXCEPT !.gap = h] = Z(e, h, d) /\ Z(e, h, d) \in Session
             /\ S.cached \subseteq Z(e, h, d).cached
  <2>1. IsEntry(T[g]) /\ (IsEntry(e) <=> e # Empty)
    BY <1>1, WitnessAssumption DEF IsEntry
  <2>2. R.slots = T /\ R.delta = S.delta /\ R.cached = S.cached \cup path /\ R.gap = g
    BY <1>5 DEF Session
  <2>3. Put(R, g, e) = [R EXCEPT !.slots = [T EXCEPT ![g] = e],
                    !.cached = IF T[g] = e THEN @ ELSE @ \cup {g}, !.delta = d]
    <3>1. Put(R, g, e) = [R EXCEPT !.slots[g] = e,
            !.cached = IF R.slots[g] = e THEN @ ELSE @ \cup {g},
            !.delta = @ + ((IF IsEntry(e) THEN 1 ELSE 0) - (IF IsEntry(R.slots[g]) THEN 1 ELSE 0))]
      BY DEF Put
    <3>2. R.delta + ((IF IsEntry(e) THEN 1 ELSE 0) - (IF IsEntry(R.slots[g]) THEN 1 ELSE 0)) = d
      BY <1>9, <2>1, <2>2
    <3> QED
      BY <3>1, <3>2, <2>2, <1>5 DEF Session
  <2>4. [Put(R, g, e) EXCEPT !.gap = h] = Z(e, h, d)
    BY <2>3, <1>5 DEF Session
  <2> DEFINE V == [T EXCEPT ![g] = e]
             q == IF T[g] = e THEN S.cached \cup path ELSE (S.cached \cup path) \cup {g}
  <2>5. V \in Tables /\ q \subseteq SlotId \cup {Meta} /\ S.cached \subseteq q
    BY <1>1, <1>3 DEF Tables, Session
  <2>6. Z(e, h, d) = [S EXCEPT !.slots = V, !.cached = q, !.delta = d, !.gap = h, !.failed = FALSE]
    BY DEF Session
  <2> HIDE DEF V, q, Z
  <2>7. Z(e, h, d) \in Session /\ S.cached \subseteq Z(e, h, d).cached
    BY <2>5, <2>6 DEF Session
  <2> QED
    BY <2>4, <2>7
<1>10. CASE N = {}
  <2>1. U = Z(Empty, NoSlot, S.delta - 1) /\ Z(Empty, NoSlot, S.delta - 1) \in Session
        /\ S.cached \subseteq Z(Empty, NoSlot, S.delta - 1).cached
    <3>1. S.delta - 1 = S.delta + ((IF Empty = Empty THEN 0 ELSE 1) - 1) /\ S.delta - 1 \in Int
      BY DEF Session
    <3> HIDE DEF Z
    <3> QED
      BY <1>4, <1>8, <1>9, <1>10, <3>1
  <2> QED
    BY <2>1, <1>10 DEF Session, U, N
<1>11. CASE N # {}
  <2>1. from \in N /\ from \in SlotId /\ T[from] # Empty /\ T[from] \in Entry
    <3>1. from \in N
      BY <1>4, <1>11 DEF from
    <3> QED
      BY <3>1, <1>1 DEF N, ShiNext
  <2>2. U = Z(T[from], from, S.delta) /\ Z(T[from], from, S.delta) \in Session
        /\ S.cached \subseteq Z(T[from], from, S.delta).cached
    <3>1. S.delta = S.delta + ((IF T[from] = Empty THEN 0 ELSE 1) - 1) /\ S.delta \in Int
      BY <2>1 DEF Session
    <3> HIDE DEF Z
    <3> QED
      BY <1>4, <1>8, <1>9, <1>11, <2>1, <3>1
  <2> QED
    BY <2>1, <2>2 DEF Session, U, N
<1> QED
  BY <1>10, <1>11

(* Every slot that an entry apart from the one at g probed past holds a    *)
(* larger key, slot g included.                                            *)
OrderedAround(T, c, g) ==
  \A s \in 0 .. c - 1 : s # g /\ T[s] # Empty => Passed(T, hash[T[s].key], c, T[s].key, s)

(* The entries that the compaction may still move. *)
SmallerKeys(T, c, g) == {s \in 0 .. c - 1 : s # g /\ T[s] # Empty /\ T[s].key < T[g].key}

(* The keys of the table without the slot g. *)
KeysAround(T, g) == {T[s].key : s \in Occupied(T) \ {g}}

(* The loop of shi_delete after i iterations, from a state S with the      *)
(* entry to delete at the gap.                                             *)
Compacting(S, i) ==
  {T \in Session :
     /\ T.capacity = S.capacity /\ T.hand = S.hand /\ T.rehashed = S.rehashed /\ ~ T.failed /\ S.cached \subseteq T.cached
     /\ Within(T.slots, S.capacity)
     /\ \A s \in SlotId : S.slots[s] # Empty /\ S.slots[s].key > S.slots[S.gap].key => T.slots[s] = S.slots[s]
     /\ T.gap = NoSlot =>
          /\ ShiOrdered(T.slots, hash, S.capacity)
          /\ KeysIn(T.slots) = KeysAround(S.slots, S.gap)
          /\ T.delta = S.delta - 1
     /\ T.gap # NoSlot =>
          /\ T.gap \in 0 .. S.capacity - 1 /\ T.slots[T.gap] # Empty
          /\ T.slots[T.gap].key <= S.slots[S.gap].key
          /\ OrderedAround(T.slots, S.capacity, T.gap)
          /\ KeysAround(T.slots, T.gap) = KeysAround(S.slots, S.gap)
          /\ Cardinality(SmallerKeys(T.slots, S.capacity, T.gap)) <= S.capacity - 1 - i
          /\ T.delta = S.delta}

(* They are finitely many. *)
LEMMA SmallerFinite ==
  ASSUME NEW c \in Nat, NEW T, NEW g
  PROVE  IsFiniteSet(SmallerKeys(T, c, g)) /\ Cardinality(SmallerKeys(T, c, g)) \in Nat
<1>1. SmallerKeys(T, c, g) \subseteq 0 .. c - 1
  BY DEF SmallerKeys
<1>2. IsFiniteSet(0 .. c - 1)
  BY FS_Interval
<1> QED
  BY <1>1, <1>2, FS_Subset, FS_CardinalityType

(* A move keeps the order around the new gap, and smaller keys only are    *)
(* left to move.                                                           *)
LEMMA MoveAround ==
  ASSUME NEW c \in 1 .. MaxCapacity, hash \in [PlainKeys -> Nat], NEW T \in Tables,
         NEW g \in 0 .. c - 1, T[g] # Empty, OrderedAround(T, c, g), NEW n \in ShiNext(T, hash, c, g)
  PROVE  LET V == [T EXCEPT ![g] = T[n]]
         IN  /\ n \in 0 .. c - 1 /\ n # g /\ T[n] # Empty /\ V[n] = T[n] /\ T[n].key < T[g].key
             /\ OrderedAround(V, c, n)
             /\ KeysAround(V, n) = KeysAround(T, g)
             /\ Cardinality(SmallerKeys(V, c, n)) <= Cardinality(SmallerKeys(T, c, g)) - 1
<1> DEFINE V == [T EXCEPT ![g] = T[n]]
<1>1. /\ n \in 0 .. c - 1 /\ n # g /\ T[n] # Empty /\ Suitable(T, hash, c, g, n)
  BY DEF ShiNext
<1>2. c \in Nat \ {0} /\ g \in SlotId /\ n \in SlotId /\ (\A s \in 0 .. c - 1 : s \in SlotId)
  BY <1>1, CapacityAssumption DEF SlotId
<1>3. /\ T[n] \in Entry /\ T[n].key \in Nat /\ T[n].key \in PlainKeys /\ hash[T[n].key] \in Nat
      /\ T[g] \in Entry /\ T[g].key \in Nat
  BY <1>1, <1>2, EntryFacts DEF Tables
<1>4. V \in Tables /\ V[g] = T[n] /\ V[n] = T[n] /\ \A s \in SlotId : s # g => V[s] = T[s]
  BY <1>1, <1>2, <1>3 DEF Tables
<1>5. g \in Before(hash[T[n].key], n, c) /\ ~ (n \in Before(hash[T[n].key], g, c))
  <2>1. rank(hash[T[n].key], n, c) \in Int /\ rank(hash[T[n].key], g, c) \in Int
    BY <1>1, <1>2, <1>3, RankRange
  <2> QED
    BY <1>1, <2>1 DEF Suitable, Before
<1>6. T[n].key < T[g].key
  <2>1. Larger(T, g, T[n].key)
    BY <1>1, <1>5 DEF OrderedAround, Passed
  <2> QED
    BY <2>1, <1>3 DEF Larger
<1>7. OrderedAround(V, c, n)
  <2>0. ShiOrderedExcept(T, hash, c, g)
    BY DEF OrderedAround, ShiOrderedExcept, Passed
  <2>1. ShiOrderedExcept(V, hash, c, n)
    BY <2>0, CompactKeepsOrder
  <2> SUFFICES ASSUME NEW s \in 0 .. c - 1, s # n, V[s] # Empty, NEW t \in Before(hash[V[s].key], s, c)
               PROVE  Larger(V, t, V[s].key)
    BY DEF OrderedAround, Passed
  <2>2. CASE t # n
    BY <2>1, <2>2 DEF ShiOrderedExcept
  <2>3. CASE t = n /\ s = g
    BY <2>3, <1>4, <1>5
  <2>4. CASE t = n /\ s # g
    <3>1. V[s] = T[s]
      BY <2>4, <1>2, <1>4
    <3>2. Larger(T, n, T[s].key)
      BY <3>1, <2>4 DEF OrderedAround, Passed
    <3> QED
      BY <3>1, <3>2, <2>4, <1>4 DEF Larger
  <2> QED
    BY <2>2, <2>3, <2>4
<1> HIDE DEF V
<1>8. KeysAround(V, n) = KeysAround(T, g)
  <2>1. Occupied(V) = Occupied(T) /\ n \in Occupied(T) /\ g \in Occupied(T)
    BY <1>1, <1>2, <1>4 DEF Occupied
  <2>2. \A s \in Occupied(T) \ {n} : s = g \/ V[s] = T[s]
    BY <1>4 DEF Occupied
  <2>3. \A s \in Occupied(T) \ {g} : s = n \/ V[s] = T[s]
    BY <1>4 DEF Occupied
  <2>4. ASSUME NEW k \in KeysAround(V, n) PROVE k \in KeysAround(T, g)
    <3>1. PICK s \in Occupied(T) \ {n} : k = V[s].key
      BY <2>1 DEF KeysAround
    <3>2. CASE s = g
      BY <3>1, <3>2, <1>1, <1>4, <2>1 DEF KeysAround
    <3>3. CASE s # g
      BY <3>1, <3>3, <2>2 DEF KeysAround
    <3> QED
      BY <3>2, <3>3
  <2>5. ASSUME NEW k \in KeysAround(T, g) PROVE k \in KeysAround(V, n)
    <3>1. PICK s \in Occupied(T) \ {g} : k = T[s].key
      BY DEF KeysAround
    <3>2. CASE s = n
      BY <3>1, <3>2, <1>1, <1>4, <2>1 DEF KeysAround
    <3>3. CASE s # n
      BY <3>1, <3>3, <2>1, <2>3 DEF KeysAround
    <3> QED
      BY <3>2, <3>3
  <2> QED
    BY <2>4, <2>5
<1>9. Cardinality(SmallerKeys(V, c, n)) <= Cardinality(SmallerKeys(T, c, g)) - 1
  <2> DEFINE A == SmallerKeys(V, c, n)
             B == SmallerKeys(T, c, g)
  <2>1. n \in B /\ n \notin A
    BY <1>1, <1>6 DEF SmallerKeys
  <2>2. ASSUME NEW s \in A PROVE s \in B
    <3>1. s \in 0 .. c - 1 /\ s # n /\ V[s] # Empty /\ V[s].key < V[n].key
      BY DEF SmallerKeys
    <3>2. s # g
      BY <3>1, <1>3, <1>4
    <3>3. V[s] = T[s] /\ T[s].key \in Nat
      BY <3>1, <3>2, <1>2, <1>4, EntryFacts DEF Tables
    <3> QED
      BY <3>1, <3>2, <3>3, <1>3, <1>4, <1>6 DEF SmallerKeys
  <2>3. IsFiniteSet(B) /\ Cardinality(B) \in Nat /\ IsFiniteSet(A) /\ Cardinality(A) \in Nat
    BY <1>2, SmallerFinite
  <2> HIDE DEF A, B
  <2>4. A \subseteq B \ {n} /\ IsFiniteSet(B \ {n}) /\ Cardinality(B \ {n}) = Cardinality(B) - 1
    BY <2>1, <2>2, <2>3, FS_RemoveElement
  <2>5. Cardinality(A) <= Cardinality(B \ {n})
    BY <2>4, FS_Subset
  <2> QED
    BY <2>3, <2>4, <2>5 DEF A, B
<1> QED
  BY <1>1, <1>4, <1>6, <1>7, <1>8, <1>9 DEF V

(* Every iteration keeps that. *)
LEMMA CompactingStep ==
  ASSUME NEW S \in Session, hash \in [PlainKeys -> Nat], S.gap \in 0 .. S.capacity - 1, S.slots[S.gap] # Empty,
         NEW i \in 1 .. S.capacity, NEW T \in Compacting(S, i - 1)
  PROVE  CompactStep(T) \in Compacting(S, i)
<1> DEFINE c == S.capacity
           g == T.gap
           U == CompactStep(T)
           N == ShiNext(T.slots, hash, c, g)
           k == S.slots[S.gap].key
<1>1. c \in 1 .. MaxCapacity /\ c \in Nat \ {0} /\ i \in Nat /\ (\A s \in 0 .. c - 1 : s \in SlotId)
  BY CapacityAssumption DEF Session, SlotId
<1>2. T \in Session /\ T.slots \in Tables /\ T.capacity = c /\ ~ T.failed /\ S.slots \in Tables /\ T.delta \in Int
  BY DEF Compacting, Session
<1>3. k \in Nat /\ \A s \in SlotId : S.slots[s] # Empty => S.slots[s].key \in Nat
  BY <1>1, <1>2, EntryFacts DEF Tables
<1>4. CASE g = NoSlot
  <2>1. U = T
    BY <1>4 DEF CompactStep
  <2> QED
    BY <2>1, <1>4 DEF Compacting
<1>5. CASE g # NoSlot
  <2>1. /\ Within(T.slots, c)
        /\ \A s \in SlotId : S.slots[s] # Empty /\ S.slots[s].key > k => T.slots[s] = S.slots[s]
        /\ T.gap \in 0 .. c - 1 /\ T.slots[T.gap] # Empty
        /\ T.slots[T.gap].key <= k
        /\ OrderedAround(T.slots, c, T.gap)
        /\ KeysAround(T.slots, T.gap) = KeysAround(S.slots, S.gap)
        /\ Cardinality(SmallerKeys(T.slots, c, T.gap)) <= c - 1 - (i - 1)
        /\ T.delta = S.delta
        /\ T.hand = S.hand /\ T.rehashed = S.rehashed /\ S.cached \subseteq T.cached
    BY <1>5 DEF Compacting
  <2>2. g \in SlotId /\ T.slots[g].key \in Nat
    BY <1>1, <1>2, <2>1, EntryFacts DEF Tables
  <2>3. /\ U \in Session /\ U.capacity = c /\ U.hand = S.hand /\ U.rehashed = S.rehashed
        /\ ~ U.failed /\ S.cached \subseteq U.cached
        /\ \/ /\ N = {} /\ U.slots = [T.slots EXCEPT ![g] = Empty] /\ U.gap = NoSlot /\ U.delta = S.delta - 1
           \/ \E n \in N : U.slots = [T.slots EXCEPT ![g] = T.slots[n]] /\ U.gap = n /\ U.delta = S.delta
    BY <1>2, <2>1, CompactCases
  <2> HIDE DEF U
  <2>4. ASSUME NEW e, NEW s \in SlotId, S.slots[s] # Empty, S.slots[s].key > k
        PROVE  [T.slots EXCEPT ![g] = e][s] = S.slots[s]
    <3>1. T.slots[s] = S.slots[s] /\ s # g
      BY <2>1, <2>2, <2>4, <1>3
    <3> QED
      BY <3>1, <1>2 DEF Tables
  <2>5. \A e : Within([T.slots EXCEPT ![g] = e], c)
    BY <1>1, <1>2, <2>1, PutWithin
  <2>6. CASE N = {} /\ U.slots = [T.slots EXCEPT ![g] = Empty] /\ U.gap = NoSlot /\ U.delta = S.delta - 1
    <3>1. ShiOrdered(U.slots, hash, c)
      <4>1. ShiOrderedExcept(T.slots, hash, c, g)
        BY <2>1 DEF OrderedAround, ShiOrderedExcept, Passed
      <4>2. ShiNext(T.slots, hash, c, g) = {}
        BY <2>6
      <4>3. T.slots \in Tables /\ g \in 0 .. c - 1 /\ c \in 1 .. MaxCapacity
        BY <1>1, <1>2, <2>1
      <4> HIDE DEF c, g
      <4>4. ShiOrdered([T.slots EXCEPT ![g] = Empty], hash, c)
        BY <4>1, <4>2, <4>3, CompactEndRestoresOrder
      <4> QED
        BY <4>4, <2>6
    <3>2. KeysIn(U.slots) = KeysAround(T.slots, g)
      <4> DEFINE V == [T.slots EXCEPT ![g] = Empty]
      <4>1. V[g] = Empty /\ \A s \in SlotId : s # g => V[s] = T.slots[s]
        BY <1>2, <2>2 DEF Tables
      <4> HIDE DEF V
      <4>2. Occupied(V) = Occupied(T.slots) \ {g} /\ \A s \in Occupied(V) : V[s] = T.slots[s]
        BY <4>1 DEF Occupied
      <4> QED
        BY <4>2, <2>6 DEF KeysIn, KeysAround, V
    <3>3. Within(U.slots, c) /\ \A s \in SlotId : S.slots[s] # Empty /\ S.slots[s].key > k => U.slots[s] = S.slots[s]
      <4> DEFINE V == [T.slots EXCEPT ![g] = Empty]
      <4>1. Within(V, c) /\ \A s \in SlotId : S.slots[s] # Empty /\ S.slots[s].key > k => V[s] = S.slots[s]
        BY <2>4, <2>5
      <4>2. U.slots = V
        BY <2>6
      <4> HIDE DEF V
      <4> QED
        BY <4>1, <4>2
    <3>4. U \in Compacting(S, i)
      BY <2>1, <2>3, <2>6, <3>1, <3>2, <3>3 DEF Compacting
    <3> QED
      BY <3>4 DEF U
  <2>7. ASSUME NEW n \in N, U.slots = [T.slots EXCEPT ![g] = T.slots[n]], U.gap = n, U.delta = S.delta
        PROVE  U \in Compacting(S, i)
    <3>1. /\ n \in 0 .. c - 1 /\ n # g /\ T.slots[n] # Empty /\ U.slots[n] = T.slots[n] /\ T.slots[n].key < T.slots[g].key
          /\ OrderedAround(U.slots, c, n)
          /\ KeysAround(U.slots, n) = KeysAround(T.slots, g)
          /\ Cardinality(SmallerKeys(U.slots, c, n)) <= Cardinality(SmallerKeys(T.slots, c, g)) - 1
      <4> DEFINE V == [T.slots EXCEPT ![g] = T.slots[n]]
      <4>1. /\ n \in 0 .. c - 1 /\ n # g /\ T.slots[n] # Empty /\ V[n] = T.slots[n] /\ T.slots[n].key < T.slots[g].key
            /\ OrderedAround(V, c, n)
            /\ KeysAround(V, n) = KeysAround(T.slots, g)
            /\ Cardinality(SmallerKeys(V, c, n)) <= Cardinality(SmallerKeys(T.slots, c, g)) - 1
        BY <1>1, <1>2, <2>1, MoveAround
      <4>2. U.slots = V
        BY <2>7
      <4> HIDE DEF V
      <4> QED
        BY <4>1, <4>2
    <3>2. T.slots[n].key \in Nat
      BY <1>1, <1>2, <3>1, EntryFacts DEF Tables
    <3>3. Cardinality(SmallerKeys(T.slots, c, g)) \in Nat /\ Cardinality(SmallerKeys(U.slots, c, n)) \in Nat
      BY <1>1, SmallerFinite
    <3>4. Cardinality(SmallerKeys(U.slots, c, n)) <= c - 1 - i
      BY <2>1, <3>1, <3>3, <1>1
    <3>5. T.slots[n].key <= k /\ n # NoSlot
      BY <3>1, <3>2, <2>1, <2>2, <1>3 DEF NoSlot
    <3>6. Within(U.slots, c) /\ \A s \in SlotId : S.slots[s] # Empty /\ S.slots[s].key > k => U.slots[s] = S.slots[s]
      BY <2>4, <2>5, <2>7
    <3> QED
      BY <2>1, <2>3, <2>7, <3>1, <3>4, <3>5, <3>6 DEF Compacting
  <2> QED
    BY <2>3, <2>6, <2>7 DEF U
<1> QED
  BY <1>4, <1>5

(* The loop of shi_delete ends with the key gone, the bucket in order, and *)
(* every larger key where it was.                                          *)
LEMMA CompactedResult ==
  ASSUME NEW S \in Session, hash \in [PlainKeys -> Nat], ~ S.failed,
         ShiOrdered(S.slots, hash, S.capacity), Within(S.slots, S.capacity),
         S.gap \in 0 .. S.capacity - 1, S.slots[S.gap] # Empty
  PROVE  LET W == Compacted(S)
         IN  /\ W \in Session /\ W.capacity = S.capacity /\ W.hand = S.hand /\ W.rehashed = S.rehashed
             /\ ~ W.failed /\ S.cached \subseteq W.cached /\ W.gap = NoSlot
             /\ ShiOrdered(W.slots, hash, S.capacity) /\ Within(W.slots, S.capacity)
             /\ KeysIn(W.slots) = KeysIn(S.slots) \ {S.slots[S.gap].key} /\ W.delta = S.delta - 1
             /\ \A s \in SlotId : S.slots[s] # Empty /\ S.slots[s].key > S.slots[S.gap].key => W.slots[s] = S.slots[s]
<1> DEFINE c == S.capacity
           g == S.gap
           X == [i \in 0 .. c |-> Compacting(S, i)]
<1>1. c \in 1 .. MaxCapacity /\ c \in Nat \ {0} /\ (\A s \in 0 .. c - 1 : s \in SlotId) /\ S.slots \in Tables
  BY CapacityAssumption DEF Session, SlotId
<1>2. S \in Compacting(S, 0)
  <2>1. g # NoSlot /\ S.slots[g].key \in Nat
    BY <1>1, EntryFacts DEF NoSlot, Tables
  <2>2. OrderedAround(S.slots, c, g)
    BY DEF ShiOrdered, OrderedAround
  <2>3. Cardinality(SmallerKeys(S.slots, c, g)) <= c - 1 - 0
    <3>1. SmallerKeys(S.slots, c, g) \subseteq (0 .. c - 1) \ {g}
      BY DEF SmallerKeys
    <3>2. IsFiniteSet(0 .. c - 1) /\ Cardinality(0 .. c - 1) = c
      BY <1>1, FS_Interval
    <3>3. IsFiniteSet((0 .. c - 1) \ {g}) /\ Cardinality((0 .. c - 1) \ {g}) = c - 1
      BY <3>2, FS_RemoveElement
    <3>4. Cardinality(SmallerKeys(S.slots, c, g)) <= c - 1
      BY <3>1, <3>3, FS_Subset
    <3>5. c - 1 - 0 = c - 1
      BY <1>1
    <3> QED
      BY <3>4, <3>5
  <2> QED
    BY <2>1, <2>2, <2>3 DEF Compacting
<1>3. S \in X[0] /\ \A i \in 1 .. c : \A x \in X[i - 1] : CompactStep(x) \in X[i]
  BY <1>1, <1>2, CompactingStep
<1>4. X[c] = Compacting(S, c) /\ c \in 0 .. c /\ c \in Nat
  BY <1>1
<1> DEFINE W == Compacted(S)
<1>5. W \in Compacting(S, c)
  <2> HIDE DEF X, c, W
  <2> USE DEF c
  <2>1. PICK f : CompactRun(f, S) /\ Stays(f, S.capacity, X)
    BY <1>3, <1>4, CompactedRun
  <2> QED
    BY <1>4, <2>1 DEF CompactRun, Stays, W
<1> HIDE DEF W
<1>6. W.gap = NoSlot
  <2> SUFFICES ASSUME W.gap # NoSlot PROVE FALSE
    OBVIOUS
  <2>1. Cardinality(SmallerKeys(W.slots, c, W.gap)) <= c - 1 - c
    BY <1>5 DEF Compacting
  <2>2. Cardinality(SmallerKeys(W.slots, c, W.gap)) \in Nat
    BY <1>1, SmallerFinite
  <2> QED
    BY <2>1, <2>2, <1>1
<1>7. KeysAround(S.slots, g) = KeysIn(S.slots) \ {S.slots[g].key}
  <2>1. g \in Occupied(S.slots)
    BY <1>1 DEF Occupied
  <2>2. \A s \in Occupied(S.slots) : S.slots[s].key = S.slots[g].key => s = g
    BY <1>1, <2>1, OrderedEntriesUnique
  <2> QED
    BY <2>1, <2>2 DEF KeysAround, KeysIn
<1> QED
  BY <1>5, <1>6, <1>7 DEF Compacting, W

(* No key is in two entries of E. *)
OneEach(E) == E \subseteq Entry /\ \A d, e \in E : d.key = e.key => d = e

(* The entries of an ordered bucket, as shi_rehash collects them. *)
LEMMA ContentsOneEach ==
  ASSUME NEW c \in 1 .. MaxCapacity, hash \in [PlainKeys -> Nat], NEW T \in Tables, Within(T, c), ShiOrdered(T, hash, c)
  PROVE  /\ OneEach(Contents(T)) /\ KeysIn(T) = {e.key : e \in Contents(T)}
         /\ Contents(T) = {T[s] : s \in 0 .. c - 1} \ {Empty}
         /\ Cardinality(Occupied(T)) <= c
<1>1. /\ Occupied(T) \subseteq 0 .. c - 1
      /\ \A s \in Occupied(T) : T[s] \in Entry /\ T[s] # Empty
      /\ \A s \in 0 .. c - 1 : s \in SlotId
  BY OccupiedWithin
<1>2. \A s, t \in Occupied(T) : T[s].key = T[t].key => s = t
  BY OrderedEntriesUnique
<1>3. OneEach(Contents(T)) /\ KeysIn(T) = {e.key : e \in Contents(T)}
  BY <1>1, <1>2 DEF OneEach, Contents, KeysIn
<1>4. Contents(T) = {T[s] : s \in 0 .. c - 1} \ {Empty}
  BY <1>1 DEF Contents, Occupied
<1>5. Cardinality(Occupied(T)) <= c
  <2>1. IsFiniteSet(0 .. c - 1) /\ Cardinality(0 .. c - 1) = c
    BY FS_Interval
  <2> QED
    BY <1>1, <2>1, FS_Subset
<1> QED
  BY <1>3, <1>4, <1>5

(* The reinsertion of shi_rehash after the keys of at least m. *)
Laid(E, c, m) ==
  {T \in Tables : /\ ShiOrdered(T, hash, c) /\ Within(T, c)
                  /\ Contents(T) = {e \in E : e.key >= m}}

(* The next key is reinserted in order. *)
LEMMA LaidStep ==
  ASSUME NEW c \in 1 .. MaxCapacity, hash \in [PlainKeys -> Nat], NEW B, OneEach(Contents(B)), Cardinality(Occupied(B)) <= c,
         NEW k \in Nat, NEW T \in Laid(Contents(B), c, k + 1)
  PROVE  ReinsertStep(T, Contents(B), k, c) \in Laid(Contents(B), c, k)
<1> DEFINE E == Contents(B)
           U == ReinsertStep(T, E, k, c)
<1>1. T \in Tables /\ ShiOrdered(T, hash, c) /\ Within(T, c) /\ Contents(T) = {e \in E : e.key >= k + 1}
  BY DEF Laid
<1>2. \A e \in E : e \in Entry /\ e.key \in Nat /\ e.key \in PlainKeys /\ e # Empty
  BY EntryFacts DEF OneEach
<1>3. CASE ~ \E e \in E : e.key = k
  <2>1. U = T
    BY <1>1, <1>3 DEF ReinsertStep, Tables
  <2>2. Contents(T) = {e \in E : e.key >= k}
    BY <1>1, <1>2, <1>3
  <2> QED
    BY <2>1, <2>2, <1>1 DEF Laid
<1>4. CASE \E e \in E : e.key = k
  <2>1. PICK e \in E : e.key = k
    BY <1>4
  <2>2. (CHOOSE x \in E : x.key = k) = e
    BY <2>1 DEF OneEach
  <2>3. e \notin Contents(T) /\ Contents(T) \subseteq E /\ hash[k] \in Nat
    BY <1>1, <1>2, <2>1
  <2>4. FirstVacant(T, hash[k], c) # {}
    BY <1>1, <2>1, <2>3, RoomToReinsert
  <2>5. PICK s \in FirstVacant(T, hash[k], c) : TRUE
    BY <2>4
  <2>6. FirstVacant(T, hash[k], c) = {s}
    BY <2>3, <2>5, FirstVacantUnique
  <2>7. s \in 0 .. c - 1 /\ s \in SlotId /\ T[s] = Empty /\ \A t \in Before(hash[k], s, c) : T[t] # Empty
    BY <2>5, CapacityAssumption DEF FirstVacant, SlotId
  <2> DEFINE V == [T EXCEPT ![s] = e]
  <2>8. U = V
    <3>1. U = [t \in SlotId |-> IF t \in {s} THEN e ELSE T[t]]
      BY <1>4, <2>2, <2>6 DEF ReinsertStep
    <3> QED
      BY <3>1, <1>1, <2>7 DEF Tables
  <2>9. V \in Tables /\ V[s] = e /\ \A t \in SlotId : t # s => V[t] = T[t]
    BY <1>1, <1>2, <2>1, <2>7 DEF Tables
  <2>10. Passed(T, hash[e.key], c, e.key, s)
    <3> SUFFICES ASSUME NEW t \in Before(hash[k], s, c) PROVE Larger(T, t, k)
      BY <2>1 DEF Passed
    <3>1. T[t] # Empty /\ t \in SlotId
      BY <2>7, CapacityAssumption DEF Before, SlotId
    <3>2. T[t] \in Contents(T)
      BY <3>1 DEF Contents, Occupied
    <3> QED
      BY <3>1, <3>2, <1>1, <1>2 DEF Larger
  <2>11. ShiOrdered(V, hash, c)
    BY <1>1, <1>2, <2>1, <2>7, <2>10, PutKeepsOrder
  <2>12. Within(V, c)
    BY <1>1, <2>7, PutWithin
  <2> HIDE DEF V
  <2>13. Contents(V) = Contents(T) \cup {e}
    <3>1. Occupied(V) = Occupied(T) \cup {s} /\ s \notin Occupied(T)
      BY <1>2, <2>1, <2>7, <2>9 DEF Occupied
    <3>2. \A t \in Occupied(T) : V[t] = T[t]
      BY <2>7, <2>9 DEF Occupied
    <3> QED
      BY <3>1, <3>2, <2>9 DEF Contents
  <2>14. Contents(V) = {x \in E : x.key >= k}
    <3>1. \A x \in E : x.key >= k <=> x.key >= k + 1 \/ x = e
      BY <1>2, <2>1 DEF OneEach
    <3> QED
      BY <3>1, <2>1, <2>13, <1>1
  <2> QED
    BY <2>8, <2>9, <2>11, <2>12, <2>14 DEF Laid
<1> QED
  BY <1>3, <1>4

(* shi_rehash lays out all the entries, in order. *)
LEMMA LayoutResult ==
  ASSUME NEW c \in 1 .. MaxCapacity, hash \in [PlainKeys -> Nat], NEW B, OneEach(Contents(B)), Cardinality(Occupied(B)) <= c
  PROVE  LET L == Layout(Contents(B), c)
         IN  L \in Tables /\ ShiOrdered(L, hash, c) /\ Within(L, c) /\ Contents(L) = Contents(B)
<1> DEFINE E == Contents(B)
           n == MaxKey + 1
           X == [i \in 0 .. n |-> Laid(E, c, n - i)]
<1>1. n \in Nat /\ n - 0 = n /\ n - n = 0 /\ n \in 0 .. n /\ 0 \in 0 .. n
  BY MaxKeyNat
<1>2. \A e \in E : e.key \in Nat /\ ~ (e.key >= n) /\ e.key >= 0
  <2>1. \A e \in E : e.key \in Nat /\ e.key \in PlainKeys
    BY EntryFacts DEF OneEach
  <2>2. \A k \in PlainKeys : k <= MaxKey
    BY KeysAssumption DEF MaxKey
  <2> QED
    BY <2>1, <2>2, MaxKeyNat
<1>3. EmptyTable \in Laid(E, c, n)
  <2>1. EmptyTable \in Tables /\ (\A s \in 0 .. c - 1 : EmptyTable[s] = Empty) /\ Occupied(EmptyTable) = {}
    BY CapacityAssumption DEF EmptyTable, Tables, Occupied, SlotId
  <2>2. ShiOrdered(EmptyTable, hash, c) /\ Within(EmptyTable, c) /\ Contents(EmptyTable) = {}
    BY <2>1 DEF ShiOrdered, Within, Contents
  <2> QED
    BY <2>1, <2>2, <1>2 DEF Laid
<1>4. X[0] = Laid(E, c, n) /\ X[n] = Laid(E, c, 0)
  BY <1>1
<1>5. ASSUME NEW i \in 1 .. n, NEW T \in X[i - 1] PROVE ReinsertStep(T, E, n - i, c) \in X[i]
  <2>1. n - i \in Nat /\ n - (i - 1) = n - i + 1 /\ i \in 0 .. n /\ i - 1 \in 0 .. n
    BY <1>1
  <2>2. T \in Laid(E, c, n - i + 1) /\ X[i] = Laid(E, c, n - i)
    BY <1>5, <2>1
  <2> QED
    BY <2>1, <2>2, LaidStep
<1>6. Layout(E, c) \in Laid(E, c, 0)
  <2>0. ASSUME NEW i \in 1 .. MaxKey + 1, NEW T \in X[i - 1] PROVE ReinsertStep(T, E, MaxKey + 1 - i, c) \in X[i]
    <3>1. MaxKey + 1 - i = n - i
      BY MaxKeyNat
    <3> QED
      BY <1>5, <2>0, <3>1
  <2> HIDE DEF X
  <2>1. PICK f : LayoutRun(f, E, c) /\ Stays(f, MaxKey + 1, X)
    BY <1>1, <1>3, <1>4, <2>0, LayoutsRun
  <2> QED
    BY <1>1, <1>4, <2>1 DEF LayoutRun, Stays
<1>7. {e \in E : e.key >= 0} = E
  BY <1>2
<1> QED
  BY <1>6, <1>7 DEF Laid

(* Rehash to grow: refused beyond the largest capacity, otherwise the same *)
(* entries in order, and every slot of the bucket is cached.               *)
LEMMA RehashResult ==
  ASSUME NEW S \in Session, hash \in [PlainKeys -> Nat], ~ S.failed,
         ShiOrdered(S.slots, hash, S.capacity), Within(S.slots, S.capacity),
         NEW store, UsageKnown(store), NEW c \in Nat, c >= S.capacity
  PROVE  LET R == Rehash(store, S, c)
         IN  /\ c > MaxCapacity => R.failed
             /\ c <= MaxCapacity =>
                  /\ R \in Session /\ ~ R.failed /\ R.capacity = c /\ R.hand = S.hand /\ R.gap = S.gap
                  /\ R.delta = S.delta /\ R.rehashed /\ S.cached \cup {Meta} \cup (0 .. c - 1) \subseteq R.cached
                  /\ ShiOrdered(R.slots, hash, c) /\ Within(R.slots, c) /\ Contents(R.slots) = Contents(S.slots)
<1> DEFINE T == S.slots
           n == S.capacity
           R == ReadSlots(S, 0 .. n - 1)
           E == {T[s] : s \in 0 .. n - 1} \ {Empty}
           new == Layout(E, c)
           changed == {s \in 0 .. c - 1 : s >= n \/ new[s] # T[s]}
           V == [s \in SlotId |-> IF s \in changed THEN new[s] ELSE T[s]]
           q == ((S.cached \cup (0 .. n - 1)) \cup changed) \cup {Meta}
           U == Rehash(store, S, c)
<1>1. n \in 1 .. MaxCapacity /\ n \in Nat \ {0} /\ T \in Tables /\ \A s \in 0 .. n - 1 : s \in SlotId /\ T[s] # Unknown
  BY CapacityAssumption, WitnessAssumption DEF Session, SlotId, Tables
<1>2. R = [S EXCEPT !.cached = @ \cup (0 .. n - 1), !.failed = FALSE]
  <2>1. (\E s \in 0 .. n - 1 : S.slots[s] = Unknown) = FALSE
    BY <1>1
  <2> QED
    BY <2>1 DEF ReadSlots
<1>3. ~ R.failed
  BY <1>2 DEF Session
<1>4. CASE c > MaxCapacity
  <2>1. U = [S EXCEPT !.failed = TRUE]
    BY <1>4 DEF Rehash
  <2>2. ~ (c <= MaxCapacity) /\ U.failed
    BY <1>4, <2>1, CapacityAssumption DEF Session
  <2> QED
    BY <2>2
<1>5. CASE c <= MaxCapacity
  <2>1. c \in 1 .. MaxCapacity /\ ~ (c > MaxCapacity) /\ \A s \in 0 .. c - 1 : s \in SlotId
    BY <1>1, <1>5, CapacityAssumption DEF SlotId
  <2>2. OneEach(Contents(T)) /\ Contents(T) = E /\ Cardinality(Occupied(T)) <= n
    BY <1>1, ContentsOneEach
  <2>3. Cardinality(Occupied(T)) <= c
    BY <2>2, <1>1, OccupiedFinite
  <2>4. new \in Tables /\ ShiOrdered(new, hash, c) /\ Within(new, c) /\ Contents(new) = E
    <3> HIDE DEF T, E
    <3> QED
      BY <2>1, <2>2, <2>3, LayoutResult
  <2> HIDE DEF new
  <2>5. V = new
    <3>1. ASSUME NEW s \in SlotId PROVE V[s] = new[s]
      <4>1. CASE s < c
        <5>1. s \in 0 .. c - 1 /\ s \in 0 .. MaxCapacity - 1
          BY <4>1, <2>1, CapacityAssumption DEF SlotId
        <5> QED
          BY <5>1
      <4>2. CASE ~ (s < c)
        <5>1. ~ (s < n) /\ s \notin changed
          BY <4>2, <1>1, <2>1, CapacityAssumption DEF SlotId
        <5>2. T[s] = Empty /\ new[s] = Empty
          BY <5>1, <4>2, <2>4 DEF Within, Occupied
        <5> QED
          BY <5>1, <5>2
      <4> QED
        BY <4>1, <4>2
    <3> HIDE DEF changed
    <3> QED
      BY <3>1, <2>4 DEF Tables
  <2>6. U = [R EXCEPT !.slots = V, !.capacity = c, !.cached = (@ \cup changed) \cup {Meta}, !.rehashed = TRUE]
    BY <2>1, <1>3, Zenon DEF Rehash, new
  <2>7. q \subseteq SlotId \cup {Meta} /\ (S.cached \cup {Meta} \cup (0 .. c - 1)) \subseteq q
    <3>1. changed \subseteq SlotId /\ 0 .. n - 1 \subseteq SlotId /\ S.cached \subseteq SlotId \cup {Meta}
      BY <1>1, <2>1 DEF Session
    <3>2. \A s \in 0 .. c - 1 : s \in 0 .. n - 1 \/ s \in changed
      BY <1>1, <2>1
    <3> QED
      BY <3>1, <3>2
  <2> HIDE DEF changed, V
  <2>8. U = [S EXCEPT !.slots = new, !.capacity = c, !.cached = q, !.rehashed = TRUE, !.failed = FALSE]
    BY <2>5, <2>6, <1>2 DEF Session
  <2> HIDE DEF q
  <2>9. U \in Session /\ ~ U.failed /\ U.capacity = c /\ U.hand = S.hand /\ U.gap = S.gap
        /\ U.delta = S.delta /\ U.rehashed /\ U.cached = q /\ U.slots = new
    BY <2>8, <2>4, <2>7, <2>1 DEF Session
  <2> QED
    BY <2>1, <2>2, <2>4, <2>7, <2>9
<1>6. c > MaxCapacity \/ c <= MaxCapacity
  BY CapacityAssumption
<1> QED
  BY <1>4, <1>5, <1>6

(* The capacities that doubling makes of b *)
Reach(b) == {n \in Nat : \A Z \in SUBSET Nat : b \in Z /\ (\A z \in Z : 2 * z \in Z) => n \in Z}

(* Every set with b that doubling does not leave has them all, *)
LEMMA ReachInto ==
  ASSUME NEW b \in Nat, NEW Z, Z \subseteq Nat, b \in Z, \A z \in Z : 2 * z \in Z
  PROVE  Reach(b) \subseteq Z
BY DEF Reach

(* and they are such a set. *)
LEMMA ReachClosed ==
  ASSUME NEW b \in Nat
  PROVE  b \in Reach(b) /\ \A n \in Reach(b) : 2 * n \in Reach(b) /\ n \in Nat
<1>1. ASSUME NEW n \in Reach(b) PROVE 2 * n \in Reach(b)
  <2>1. n \in Nat /\ 2 * n \in Nat
    BY DEF Reach
  <2>2. ASSUME NEW Z \in SUBSET Nat, b \in Z, \A z \in Z : 2 * z \in Z PROVE 2 * n \in Z
    BY <2>2 DEF Reach
  <2> QED
    BY <2>1, <2>2 DEF Reach
<1> QED
  BY <1>1 DEF Reach

(* From one reachable capacity to the next it is a doubling. *)
LEMMA ReachGaps ==
  ASSUME NEW b \in Nat
  PROVE  \A d, C \in Reach(b) : C <= d \/ C >= 2 * d
<1> DEFINE Z == {d \in Reach(b) : \A C \in Reach(b) : C <= d \/ C >= 2 * d}
<1>0. b \in Reach(b) /\ \A n \in Reach(b) : 2 * n \in Reach(b) /\ n \in Nat
  BY ReachClosed
<1>1. \A C \in Reach(b) : C >= b
  <2> DEFINE Y == {n \in Nat : n >= b}
  <2>1. Reach(b) \subseteq Y
    <3>1. Y \subseteq Nat /\ b \in Y /\ \A z \in Y : 2 * z \in Y
      OBVIOUS
    <3> HIDE DEF Y
    <3> QED
      BY <3>1, ReachInto
  <2> QED
    BY <2>1
<1>2. \A C \in Reach(b) : C <= b \/ C >= 2 * b
  <2> DEFINE Y == {n \in Nat : n = b \/ n >= 2 * b}
  <2>1. Reach(b) \subseteq Y
    <3>1. Y \subseteq Nat /\ b \in Y /\ \A z \in Y : 2 * z \in Y
      OBVIOUS
    <3> HIDE DEF Y
    <3> QED
      BY <3>1, ReachInto
  <2> QED
    BY <2>1
<1>3. ASSUME NEW d \in Z PROVE 2 * d \in Z
  <2> DEFINE Y == {C \in Reach(b) : C <= d \/ C = 2 * d \/ C >= 2 * (2 * d)}
  <2>1. d \in Nat /\ 2 * d \in Reach(b) /\ d \in Reach(b) /\ \A C \in Reach(b) : C <= d \/ C >= 2 * d
    BY <1>0
  <2>2. Y \subseteq Nat /\ b \in Y
    BY <1>0, <1>1, <2>1
  <2>3. ASSUME NEW z \in Y PROVE 2 * z \in Y
    <3>1. 2 * z \in Reach(b) /\ z \in Nat
      BY <1>0
    <3>2. 2 * z <= d \/ 2 * z >= 2 * d
      BY <3>1, <2>1
    <3> QED
      BY <3>1, <3>2, <2>1
  <2>4. Reach(b) \subseteq Y
    <3> HIDE DEF Y
    <3> QED
      BY <2>2, <2>3, ReachInto
  <2>5. \A C \in Reach(b) : C <= 2 * d \/ C >= 2 * (2 * d)
    BY <2>1, <2>4, <1>0
  <2> QED
    BY <2>1, <2>5
<1>4. Reach(b) \subseteq Z
  <2>1. Z \subseteq Nat /\ b \in Z
    BY <1>0, <1>2
  <2> HIDE DEF Z
  <2> QED
    BY <2>1, <1>3, ReachInto
<1> QED
  BY <1>4

(* compute_resize_capacity ends with a capacity that the load factor       *)
(* allows, unless that is larger than any bucket may be.                   *)
LEMMA GrownEnough ==
  ASSUME NEW b \in Nat, NEW c \in Reach(b), c > 0, NEW used \in Nat
  PROVE  LET r == compute_resize_capacity(c, used)
         IN  r \in Reach(b) /\ r \in Nat /\ r >= c /\ (r <= MaxCapacity => used * 100 <= r * LoadFactorPct)
<1> DEFINE D(i) == {d \in Reach(b) : d \in Nat /\ d >= c /\ (used * 100 <= d * LoadFactorPct \/ d > i)}
           X == [i \in 0 .. MaxCapacity |-> D(i)]
<1>0. /\ c \in Nat /\ MaxCapacity \in Nat /\ LoadFactorPct \in Nat /\ used * 100 \in Nat
      /\ \A n \in Reach(b) : 2 * n \in Reach(b) /\ n \in Nat
  BY ReachClosed, CapacityAssumption, WitnessAssumption
<1>1. c \in D(0)
  BY <1>0
<1>2. ASSUME NEW i \in 1 .. MaxCapacity, NEW d \in D(i - 1) PROVE GrowStep(d, used) \in D(i)
  <2>1. d * LoadFactorPct \in Nat /\ d \in Nat /\ d >= c /\ d \in Reach(b) /\ (used * 100 <= d * LoadFactorPct \/ d > i - 1) /\ 2 * d \in Reach(b)
    BY <1>0
  <2>2. CASE used * 100 <= d * LoadFactorPct
    <3>1. GrowStep(d, used) = d
      BY <2>1, <2>2, <1>0 DEF GrowStep
    <3> QED
      BY <2>1, <2>2, <3>1
  <2>3. CASE ~ (used * 100 <= d * LoadFactorPct)
    <3>1. GrowStep(d, used) = 2 * d
      <4>1. used * 100 > d * LoadFactorPct
        BY <2>1, <2>3, <1>0
      <4>2. GrowStep(d, used) = d * 2
        BY <4>1 DEF GrowStep, Multiplier
      <4> QED
        BY <4>2, <2>1
    <3>2. 2 * d > i /\ 2 * d >= c /\ 2 * d \in Nat
      BY <2>1, <2>3, <1>0
    <3> QED
      BY <2>1, <3>1, <3>2
  <2> QED
    BY <2>2, <2>3
<1>3. X[0] = D(0) /\ X[MaxCapacity] = D(MaxCapacity) /\ \A i \in 1 .. MaxCapacity : X[i - 1] = D(i - 1) /\ X[i] = D(i)
  BY <1>0
<1>4. compute_resize_capacity(c, used) \in D(MaxCapacity)
  <2> HIDE DEF X, D
  <2>1. PICK f : GrowRun(f, c, used) /\ Stays(f, MaxCapacity, X)
    BY <1>0, <1>1, <1>2, <1>3, GrownRun
  <2> QED
    BY <1>0, <1>3, <2>1 DEF GrowRun, Stays
<1>5. PICK r : r = compute_resize_capacity(c, used)
  OBVIOUS
<1>6. r \in Reach(b) /\ r \in Nat /\ r >= c /\ (used * 100 <= r * LoadFactorPct \/ r > MaxCapacity)
  BY <1>4, <1>5
<1>7. r <= MaxCapacity => used * 100 <= r * LoadFactorPct
  <2> DEFINE x == r * LoadFactorPct
             y == used * 100
  <2>1. y <= x \/ r > MaxCapacity
    BY <1>6
  <2> HIDE DEF x, y
  <2>2. r <= MaxCapacity => y <= x
    BY <1>0, <1>6, <2>1
  <2> QED
    BY <2>2 DEF x, y
<1> QED
  BY <1>5, <1>6, <1>7

(* It does not grow beyond a reachable capacity that is allowed. *)
LEMMA GrownNoMore ==
  ASSUME NEW b \in Nat, NEW c \in Reach(b), NEW C \in Reach(b), c <= C, NEW used \in Nat, used * 100 <= C * LoadFactorPct
  PROVE  compute_resize_capacity(c, used) <= C
<1> DEFINE D == {d \in Reach(b) : d <= C}
           X == [i \in 0 .. MaxCapacity |-> D]
<1>0. /\ c \in Nat /\ C \in Nat /\ MaxCapacity \in Nat /\ LoadFactorPct \in Nat /\ used * 100 \in Nat
      /\ \A n \in Reach(b) : 2 * n \in Reach(b) /\ n \in Nat
  BY ReachClosed, CapacityAssumption, WitnessAssumption
<1>1. c \in D
  BY <1>0
<1>2. ASSUME NEW d \in D PROVE GrowStep(d, used) \in D
  <2>1. d * LoadFactorPct \in Nat /\ d \in Nat /\ d <= C /\ d \in Reach(b) /\ 2 * d \in Reach(b)
    BY <1>0
  <2>2. CASE used * 100 > d * LoadFactorPct
    <3>1. GrowStep(d, used) = d * 2
      BY <2>2 DEF GrowStep, Multiplier
    <3>2. d # C
      BY <2>1, <2>2, <1>0
    <3>3. C >= 2 * d
      BY <3>2, <2>1, <1>0, ReachGaps
    <3> QED
      BY <3>1, <3>3, <2>1, <1>0
  <2>3. CASE ~ (used * 100 > d * LoadFactorPct)
    BY <2>1, <2>3 DEF GrowStep
  <2> QED
    BY <2>2, <2>3
<1>3. \A i \in 0 .. MaxCapacity : X[i] = D
  OBVIOUS
<1>4. compute_resize_capacity(c, used) \in D
  <2>1. \A i \in 1 .. MaxCapacity : i - 1 \in 0 .. MaxCapacity /\ i \in 0 .. MaxCapacity
    BY <1>0
  <2>2. 0 \in 0 .. MaxCapacity /\ MaxCapacity \in 0 .. MaxCapacity
    BY <1>0
  <2> HIDE DEF X, D
  <2>3. PICK f : GrowRun(f, c, used) /\ Stays(f, MaxCapacity, X)
    <3>1. c \in X[0] /\ \A i \in 1 .. MaxCapacity : \A x \in X[i - 1] : GrowStep(x, used) \in X[i]
      BY <1>1, <1>2, <1>3, <2>1, <2>2
    <3> QED
      BY <1>0, <3>1, GrownRun
  <2> QED
    BY <1>3, <2>2, <2>3 DEF GrowRun, Stays
<1> QED
  BY <1>4

-------------------------------------------------------------------------------
(* The full state *)

(* The full state is an ordered bucket without a lookup table. *)
BaseOk ==
  /\ hash \in [PlainKeys -> Nat]
  /\ base.slots \in Tables /\ base.capacity \in 1 .. MaxCapacity /\ base.fast = NoFast
  /\ ShiOrdered(base.slots, hash, base.capacity) /\ Within(base.slots, base.capacity)

(* What recorder.plain_value reads for the keys that it does not find. *)
Needed(l) == UNION {{Meta} \cup SearchPath(NewState(base), k) : k \in {j \in l : Stored(j) = {}}}

(* Each key of the lookup table names the witnessed slot that holds it. *)
Points(fast, keys) ==
  \A k \in DOMAIN fast : /\ k \in PlainKeys /\ fast[k] \in keys /\ fast[k] \in 0 .. base.capacity - 1
                         /\ base.slots[fast[k]] # Empty /\ base.slots[fast[k]].key = k

(* w has the slots `keys`, which are enough to answer the lookups l. *)
Tells(w, keys, l) ==
  /\ keys \subseteq (0 .. base.capacity - 1) \cup {Meta}
  /\ w = SaltWitness(keys, w.fast)
  /\ Points(w.fast, keys)
  /\ \A k \in l : Stored(k) # {} => k \in DOMAIN w.fast
  /\ Needed(l) \subseteq keys

(* While Witness::create runs. *)
Recording ==
  /\ updates \in Batches
  /\ lookups \subseteq PlainKeys
  /\ todo \subseteq DOMAIN updates
  /\ DOMAIN direct \subseteq PlainKeys
  /\ \A k \in DOMAIN direct : direct[k] \in Stored(k)
  /\ \A k \in lookups : Stored(k) # {} => k \in DOMAIN direct
  /\ Pushed(direct) \subseteq chosen /\ chosen \subseteq Pushed(direct) \cup {Meta}
  /\ recorder \in Recorded(Needed(lookups))

(* The inductive invariant of both theorems. *)
WInv ==
  /\ BaseOk
  /\ pc \in {"idle", "record", "send", "replay", "done"}
  /\ pc = "idle" => recorder = NewState(base)
  /\ pc = "record" => Recording
  /\ Witnessed => lookups \subseteq PlainKeys /\ \E keys \in SUBSET (SlotId \cup {Meta}) : Tells(witness, keys, lookups)

(* A walk reaches one of its stops first. *)
LEMMA FirstStop ==
  ASSUME NEW c \in Nat \ {0}, NEW h \in Nat, NEW A, A \subseteq 0 .. c - 1, A # {}
  PROVE  \E t \in A : Before(h, t, c) \cap A = {}
<1> DEFINE D == {rank(h, t, c) : t \in A}
<1>0. \A t \in A : rank(h, t, c) \in Nat
  BY RankRange
<1>1. D \subseteq Nat /\ D # {}
  BY <1>0
<1>2. PICK d \in D : \A x \in D : d <= x
  <2> HIDE DEF D
  <2> QED
    BY <1>1, LeastElement
<1>3. PICK t \in A : d = rank(h, t, c)
  BY <1>2
<1>4. ASSUME NEW s \in A PROVE s \notin Before(h, t, c)
  <2>1. rank(h, s, c) \in D /\ d <= rank(h, s, c)
    BY <1>2
  <2>2. rank(h, s, c) \in Int /\ rank(h, t, c) \in Int
    BY RankRange
  <2> QED
    BY <2>1, <2>2, <1>3 DEF Before
<1> QED
  BY <1>4

(* What comes before an earlier slot comes before a later one. *)
LEMMA BeforeTransitive ==
  ASSUME NEW c \in Nat \ {0}, NEW h \in Nat, NEW s \in 0 .. c - 1, NEW t \in Before(h, s, c)
  PROVE  Before(h, t, c) \subseteq Before(h, s, c)
<1>1. \A u \in 0 .. c - 1 : rank(h, u, c) \in Int
  BY RankRange
<1> QED
  BY <1>1 DEF Before

(* What a new session reads and which of its reads fail. *)
LEMMA FreshState ==
  ASSUME NEW store
  PROVE  /\ NewState(store).slots = store.slots /\ NewState(store).capacity = store.capacity
         /\ ReadMeta(NewState(store)).failed = (store.capacity = Unknown)
         /\ \A R : ReadSlots(NewState(store), R).failed = \E s \in R : store.slots[s] = Unknown
BY DEF NewState, ReadMeta, ReadSlots

(* Nothing of the full state is unknown. *)
LEMMA BaseFacts ==
  ASSUME BaseOk
  PROVE  /\ base.fast = NoFast /\ base.capacity \in Nat \ {0} /\ base.capacity # Unknown
         /\ \A s \in 0 .. base.capacity - 1 : s \in SlotId
         /\ \A s \in SlotId : /\ base.slots[s] \in Entry \cup {Empty}
                              /\ base.slots[s] # Unknown
                              /\ base.slots[s] # Empty => base.slots[s].key \in PlainKeys /\ base.slots[s].key \in Nat
<1>1. base.fast = NoFast /\ base.capacity \in 1 .. MaxCapacity /\ base.slots \in Tables
  BY DEF BaseOk
<1>2. base.capacity \in Nat \ {0} /\ base.capacity # Unknown /\ \A s \in 0 .. base.capacity - 1 : s \in SlotId
  BY <1>1, WitnessAssumption, CapacityAssumption DEF SlotId
<1>3. ASSUME NEW s \in SlotId
      PROVE  /\ base.slots[s] \in Entry \cup {Empty} /\ base.slots[s] # Unknown
             /\ base.slots[s] # Empty => base.slots[s].key \in PlainKeys /\ base.slots[s].key \in Nat
  <2>1. base.slots[s] \in Entry \cup {Empty}
    BY <1>1 DEF Tables
  <2>2. base.slots[s] # Unknown
    BY <2>1, WitnessAssumption
  <2> QED
    BY <2>1, <2>2, KeysAssumption DEF Entry
<1> QED
  BY <1>1, <1>2, <1>3

(* In the ordered bucket the search for the key of an entry finds it. *)
LEMMA BaseFound ==
  ASSUME BaseOk, NEW s \in 0 .. base.capacity - 1, base.slots[s] # Empty
  PROVE  Stored(base.slots[s].key) = {s}
<1> DEFINE c == base.capacity
           k == base.slots[s].key
           S == NewState(base)
<1>1. c \in Nat \ {0} /\ s \in SlotId /\ k \in PlainKeys /\ k \in Nat /\ hash[k] \in Nat
  BY BaseFacts DEF BaseOk
<1>2. S.slots = base.slots /\ S.capacity = c
  BY FreshState
<1>3. \A t \in 0 .. c - 1 : t \in SlotId /\ base.slots[t] # Unknown /\ (base.slots[t] # Empty => base.slots[t].key \in Nat)
  BY BaseFacts
<1>4. \A t \in Before(hash[k], s, c) : t \in 0 .. c - 1 /\ base.slots[t] # Empty /\ base.slots[t].key > k
  BY DEF BaseOk, ShiOrdered, Passed, Larger, Before
<1> HIDE DEF S, c, k
<1>5. Before(hash[k], s, c) \cap SearchStops(S, k) = {}
  <2> SUFFICES ASSUME NEW t \in Before(hash[k], s, c), t \in SearchStops(S, k) PROVE FALSE
    OBVIOUS
  <2>1. base.slots[t] # Unknown /\ base.slots[t] # Empty /\ base.slots[t].key > k /\ base.slots[t].key \in Nat
    BY <1>3, <1>4
  <2>2. base.slots[t].key <= k
    BY <2>1, <1>2 DEF SearchStops, IsEntry
  <2> QED
    BY <2>1, <2>2, <1>1
<1>6. s \in SearchPath(S, k)
  BY <1>2, <1>5 DEF SearchPath, Visited, c
<1>7. s \in Found(S, k)
  BY <1>6, <1>2, <1>3 DEF Found, IsEntry, k, c
<1>8. ASSUME NEW t \in Found(S, k) PROVE t = s
  <2>1. t \in 0 .. c - 1 /\ base.slots[t] # Empty /\ base.slots[t].key = k
    BY <1>2 DEF Found, SearchPath, Visited, IsEntry
  <2>2. ShiOrderedExcept(base.slots, hash, c, -1) /\ s # -1 /\ t # -1
    BY <2>1, <1>1, OrderedIsOrderedExcept DEF BaseOk, c
  <2>3. c \in 1 .. MaxCapacity /\ base.slots \in Tables /\ hash \in [PlainKeys -> Nat] /\ s \in 0 .. c - 1
    BY DEF BaseOk, c
  <2> QED
    BY <2>1, <2>2, <2>3, OrderedKeysUnique DEF k
<1>9. Found(S, k) = {s}
  BY <1>7, <1>8
<1> QED
  BY <1>9 DEF Stored, S, k

(* plain_value of the full state. *)
LEMMA BaseFind ==
  ASSUME BaseOk, NEW k
  PROVE  /\ Stored(k) = {} => Find(base, k) = Empty
         /\ \A s : Stored(k) = {s} => Find(base, k) = base.slots[s]
<1> DEFINE S == NewState(base)
<1>1. DirectFind(base, S, k) = {}
  BY BaseFacts DEF DirectFind, NoFast
<1>2. ~ ReadMeta(S).failed
  BY BaseFacts, FreshState
<1>3. ~ ReadSlots(S, SearchPath(S, k)).failed
  <2>1. SearchPath(S, k) \subseteq 0 .. base.capacity - 1
    BY FreshState, SearchWithin
  <2> QED
    BY <2>1, BaseFacts, FreshState
<1>4. S.slots = base.slots
  BY FreshState
<1> HIDE DEF S
<1>5. Find(base, k) = IF Found(S, k) = {} THEN Empty ELSE S.slots[CHOOSE s \in Found(S, k) : TRUE]
  BY <1>1, <1>2, <1>3, Zenon DEF Find, S
<1> QED
  BY <1>4, <1>5 DEF Stored, S

-------------------------------------------------------------------------------
(* The calls, on a session over the full state *)

(* The entries of the bucket, counted by their keys. *)
Count(S) == Cardinality(KeysIn(S.slots))
(* bucket_used_slots of the full state. *)
BaseCount == Cardinality(Occupied(base.slots))

(* A session over the full state, between the steps of a call *)
Sound(S) ==
  /\ S \in Session /\ ~ S.failed /\ S.gap = NoSlot
  /\ ShiOrdered(S.slots, hash, S.capacity) /\ Within(S.slots, S.capacity)
  /\ Count(S) = BaseCount + S.delta
  /\ S.capacity \in Reach(base.capacity)
  /\ S.rehashed => {Meta} \cup (0 .. S.capacity - 1) \subseteq S.cached

(* The load factor allows the entries of the bucket. *)
Fits(S) == Count(S) * 100 <= S.capacity * LoadFactorPct

(* and between two calls. *)
Ready(S) == Sound(S) /\ S.hand = Empty /\ (S.rehashed => Fits(S))

(* The entries with keys larger than k are where they were. *)
Unmoved(S, U, k) == \A s \in SlotId : S.slots[s] # Empty /\ S.slots[s].key > k => U.slots[s] = S.slots[s]

(* usage_count over the full state is known and right. *)
LEMMA BaseCounted ==
  ASSUME BaseOk
  PROVE  /\ UsageKnown(base)
         /\ base.capacity \in Nat \ {0}
         /\ \A S : usage_count(base, S) = BaseCount + S.delta
         /\ \A S, k : DirectFind(base, S, k) = {}
         /\ BaseCount \in Nat
<1>1. base.capacity \in Nat \ {0} /\ \A s \in 0 .. base.capacity - 1 : s \in SlotId /\ base.slots[s] \in Entry \cup {Empty}
  BY CapacityAssumption DEF BaseOk, Tables, SlotId
<1>2. UsageKnown(base)
  <2>1. base.capacity # Unknown
    BY WitnessAssumption DEF BaseOk
  <2> QED
    BY <1>1, <2>1, WitnessAssumption DEF UsageKnown
<1>3. {s \in 0 .. base.capacity - 1 : IsEntry(base.slots[s])} = Occupied(base.slots)
  <2>1. Occupied(base.slots) \subseteq 0 .. base.capacity - 1
    BY OccupiedWithin DEF BaseOk
  <2> QED
    BY <1>1, <2>1, WitnessAssumption DEF IsEntry, Occupied
<1>4. \A S : usage_count(base, S) = BaseCount + S.delta
  BY <1>3 DEF usage_count, BaseCount
<1>5. \A S, k : DirectFind(base, S, k) = {}
  <2>1. DOMAIN base.fast = {}
    BY DEF BaseOk, NoFast
  <2> QED
    BY <2>1 DEF DirectFind
<1> QED
  BY <1>1, <1>2, <1>4, <1>5, OccupiedFinite DEF BaseCount

(* An ordered bucket has as many keys as entries, and a full one as many   *)
(* as slots.                                                               *)
LEMMA KeysCount ==
  ASSUME NEW c \in 1 .. MaxCapacity, hash \in [PlainKeys -> Nat], NEW T \in Tables, Within(T, c), ShiOrdered(T, hash, c)
  PROVE  /\ IsFiniteSet(KeysIn(T)) /\ Cardinality(KeysIn(T)) \in Nat
         /\ Cardinality(KeysIn(T)) = Cardinality(Occupied(T))
         /\ Cardinality(KeysIn(T)) <= c
         /\ (\A s \in 0 .. c - 1 : T[s] # Empty) => Cardinality(KeysIn(T)) = c
<1> DEFINE f == [s \in Occupied(T) |-> T[s].key]
<1>1. IsFiniteSet(Occupied(T)) /\ Cardinality(Occupied(T)) \in Nat
  BY OccupiedFinite
<1>2. \A s, t \in Occupied(T) : T[s].key = T[t].key => s = t
  BY OrderedEntriesUnique
<1>3. f \in Bijection(Occupied(T), KeysIn(T))
  BY <1>2 DEF Bijection, Injection, Surjection, IsInjective, KeysIn
<1>4. ExistsBijection(Occupied(T), KeysIn(T))
  BY <1>3 DEF ExistsBijection
<1>5. IsFiniteSet(KeysIn(T)) /\ Cardinality(KeysIn(T)) = Cardinality(Occupied(T))
  BY <1>1, <1>4, FS_Bijection
<1>6. Cardinality(Occupied(T)) <= c
  BY ContentsOneEach
<1>7. ASSUME \A s \in 0 .. c - 1 : T[s] # Empty PROVE Cardinality(Occupied(T)) = c
  <2>1. Occupied(T) = 0 .. c - 1
    BY <1>7, OccupiedWithin DEF Occupied
  <2> QED
    BY <2>1, FS_Interval
<1> QED
  BY <1>1, <1>5, <1>6, <1>7

(* The start of shi_upsert, after the metadata are read *)
LEMMA WithHand ==
  ASSUME NEW S \in Session, NEW e \in Entry
  PROVE  LET M == ReadMeta([S EXCEPT !.hand = e])
         IN  /\ M \in Session /\ ~ M.failed /\ M.hand = e /\ M.slots = S.slots /\ M.capacity = S.capacity
             /\ M.delta = S.delta /\ M.rehashed = S.rehashed /\ M.gap = S.gap /\ S.cached \subseteq M.cached
<1>1. (S.capacity = Unknown) = FALSE
  BY WitnessAssumption DEF Session
<1> QED
  BY <1>1 DEF ReadMeta, Session

(* A capacity that the load factor allows for n entries has more than n    *)
(* slots.                                                                  *)
LEMMA GrowthIsReal ==
  ASSUME NEW n \in Nat, n > 0, NEW r \in Nat, NEW L \in 1 .. 99, n * 100 <= r * L
  PROVE  r > n
<1>1. r * L <= r * 99
  BY Z3
<1> QED
  BY <1>1

(* The test of the resize, which divides, against that of                  *)
(* compute_resize_capacity, which multiplies.                              *)
LEMMA DivBound ==
  ASSUME NEW u \in Nat, NEW x \in Nat, ~ (u > x \div 100)
  PROVE  u * 100 <= x
BY Z3

(* What the loop and the resize of one call of shi_upsert give, for a key  *)
(* that is not there.                                                      *)
UpsertedOnce(S, k, U) ==
  /\ Sound(U) /\ S.cached \subseteq U.cached /\ (S.rehashed => U.rehashed)
  /\ U.hand = Empty => /\ KeysIn(U.slots) = KeysIn(S.slots) \cup {k} /\ Fits(U)
                       /\ ~ U.rehashed => U.capacity = S.capacity /\ Unmoved(S, U, k)
  /\ U.hand # Empty => /\ U.rehashed /\ U.hand.key \notin KeysIn(U.slots)
                       /\ KeysIn(U.slots) \cup {U.hand.key} = KeysIn(S.slots) \cup {k}
                       /\ U.capacity > Count(U) /\ Count(U) = Count(S) /\ Count(S) = S.capacity

(* shi_upsert does not expand the bucket beyond a capacity C that has room *)
(* for the new key, and does not panic if C is allowed.                    *)
NoPanic(S, U) ==
  \A C \in Reach(base.capacity) :
    C <= MaxCapacity /\ S.capacity <= C /\ (Count(S) + 1) * 100 <= C * LoadFactorPct => ~ U.failed /\ U.capacity <= C

(* One call of shi_upsert, the resize included. *)
LEMMA UpsertOnceAbsent ==
  ASSUME BaseOk, NEW S, Sound(S), NEW e \in Entry, e.key \notin KeysIn(S.slots)
  PROVE  LET U == UpsertOnce(base, S, e)
         IN  (U.failed \/ UpsertedOnce(S, e.key, U)) /\ NoPanic(S, U)
<1> DEFINE c == S.capacity
           k == e.key
           M == ReadMeta([S EXCEPT !.hand = e])
           W == Probed(M, k)
           U == UpsertOnce(base, S, e)
           b == base.capacity
<1>1. /\ S \in Session /\ S.slots \in Tables /\ c \in 1 .. MaxCapacity /\ c \in Nat \ {0} /\ S.delta \in Int
      /\ c \in Reach(b) /\ b \in Nat /\ hash \in [PlainKeys -> Nat] /\ LoadFactorPct \in 1 .. 99 /\ LoadFactorPct \in Nat /\ MaxCapacity \in Nat
  BY BaseCounted, CapacityAssumption, WitnessAssumption DEF Sound, Session, BaseOk
<1>2. /\ M \in Session /\ ~ M.failed /\ M.hand = e /\ M.slots = S.slots /\ M.capacity = c
      /\ M.delta = S.delta /\ M.rehashed = S.rehashed /\ M.gap = S.gap /\ S.cached \subseteq M.cached
  BY <1>1, WithHand
<1> HIDE DEF M
<1>3. W \in Walking(M, k, c) /\ (W.hand # Empty => \A t \in 0 .. c - 1 : W.slots[t] # Empty)
  BY <1>1, <1>2, ProbedAbsent DEF Sound
<1> HIDE DEF W
<1>4. /\ W \in Session /\ W.capacity = c /\ W.gap = NoSlot /\ W.rehashed = S.rehashed /\ ~ W.failed /\ S.cached \subseteq W.cached
      /\ ShiOrdered(W.slots, hash, c) /\ Within(W.slots, c) /\ W.slots \in Tables /\ W.delta \in Int /\ W.hand \in Entry \cup {Empty}
  BY <1>1, <1>2, <1>3 DEF Walking, Same, Sound, Session
<1>5. Unmoved(S, W, k)
  BY <1>2, <1>3 DEF Walking, Unmoved
<1>6. /\ W.hand = Empty => KeysIn(W.slots) = KeysIn(S.slots) \cup {k} /\ W.delta = S.delta + 1
      /\ W.hand # Empty => /\ W.hand.key \notin KeysIn(W.slots) /\ W.delta = S.delta
                           /\ KeysIn(W.slots) \cup {W.hand.key} = KeysIn(S.slots) \cup {k}
  BY <1>2, <1>3 DEF Walking
<1>7. /\ IsFiniteSet(KeysIn(S.slots)) /\ Count(S) \in Nat
      /\ IsFiniteSet(KeysIn(W.slots)) /\ Count(W) \in Nat
      /\ W.hand # Empty => Count(W) = c
      /\ Count(S) = BaseCount + S.delta /\ BaseCount \in Nat
  BY <1>1, <1>3, <1>4, KeysCount, BaseCounted DEF Sound, Count
<1>8. Cardinality(KeysIn(S.slots) \cup {k}) = Count(S) + 1
  BY <1>7, FS_AddElement DEF Count
<1>9. Count(W) = BaseCount + W.delta /\ (W.hand = Empty => Count(W) = Count(S) + 1) /\ (W.hand # Empty => Count(W) = Count(S))
  <2>1. CASE W.hand = Empty
    BY <2>1, <1>1, <1>6, <1>7, <1>8 DEF Count
  <2>2. CASE W.hand # Empty
    <3>1. Cardinality(KeysIn(W.slots) \cup {W.hand.key}) = Count(W) + 1
      BY <2>2, <1>6, <1>7, FS_AddElement DEF Count
    <3>2. Count(W) + 1 = Count(S) + 1
      BY <2>2, <3>1, <1>6, <1>8
    <3>3. Count(W) = Count(S)
      BY <3>2, <1>7
    <3>4. W.delta = S.delta
      BY <2>2, <1>6
    <3> QED
      BY <2>2, <3>3, <3>4, <1>7
  <2> QED
    BY <2>1, <2>2
<1>10. U = IF W.hand # Empty THEN Rehash(base, W, compute_resize_capacity(W.capacity, W.capacity))
           ELSE IF Resizes(base, S, W) THEN Rehash(base, W, compute_resize_capacity(W.capacity, usage_count(base, W)))
           ELSE W
  <2>1. DirectFind(base, S, e.key) = {}
    BY BaseCounted
  <2> QED
    BY <2>1, <1>2, <1>4, Zenon DEF UpsertOnce, M, W
<1> HIDE DEF U
<1>11. ASSUME NEW used \in Nat, used <= Count(S) + 1, U = Rehash(base, W, compute_resize_capacity(W.capacity, used))
       PROVE  /\ NoPanic(S, U)
              /\ U.failed \/ /\ Sound(U) /\ S.cached \subseteq U.cached /\ U.rehashed /\ U.hand = W.hand
                             /\ KeysIn(U.slots) = KeysIn(W.slots) /\ used * 100 <= U.capacity * LoadFactorPct
  <2> DEFINE r == compute_resize_capacity(c, used)
  <2>1. r \in Reach(b) /\ r \in Nat /\ r >= c /\ (r <= MaxCapacity => used * 100 <= r * LoadFactorPct)
    BY <1>1, GrownEnough
  <2>2. /\ r > MaxCapacity => U.failed
        /\ r <= MaxCapacity =>
             /\ U \in Session /\ ~ U.failed /\ U.capacity = r /\ U.hand = W.hand /\ U.gap = W.gap
             /\ U.delta = W.delta /\ U.rehashed /\ W.cached \cup {Meta} \cup (0 .. r - 1) \subseteq U.cached
             /\ ShiOrdered(U.slots, hash, r) /\ Within(U.slots, r) /\ Contents(U.slots) = Contents(W.slots)
    <3> HIDE DEF r
    <3>1. U = Rehash(base, W, r) /\ UsageKnown(base)
      BY <1>4, <1>11, BaseCounted DEF r
    <3> QED
      BY <1>1, <1>4, <2>1, <3>1, RehashResult
  <2>3. NoPanic(S, U)
    <3> SUFFICES ASSUME NEW C \in Reach(b), C <= MaxCapacity, c <= C, (Count(S) + 1) * 100 <= C * LoadFactorPct
                 PROVE  ~ U.failed /\ U.capacity <= C
      BY DEF NoPanic
    <3>0. C \in Nat
      BY <1>1, ReachClosed
    <3>1. C \in Nat /\ C * LoadFactorPct \in Nat
      BY <1>1, <3>0
    <3>2. used * 100 <= C * LoadFactorPct
      <4> DEFINE x == C * LoadFactorPct
      <4>1. x \in Nat /\ (Count(S) + 1) * 100 <= x
        BY <3>1
      <4> HIDE DEF x
      <4>2. used * 100 <= x
        BY <4>1, <1>7, <1>11
      <4> QED
        BY <4>2 DEF x
    <3>3. r <= C
      BY <1>1, <3>2, GrownNoMore
    <3> HIDE DEF r
    <3>4. r <= MaxCapacity
      BY <3>1, <3>3, <2>1, <1>1
    <3> QED
      BY <3>3, <3>4, <2>2
  <2>4. ASSUME ~ U.failed
        PROVE  /\ Sound(U) /\ S.cached \subseteq U.cached /\ U.rehashed /\ U.hand = W.hand
               /\ KeysIn(U.slots) = KeysIn(W.slots) /\ used * 100 <= U.capacity * LoadFactorPct
    <3> HIDE DEF r
    <3>1. r <= MaxCapacity
      BY <2>1, <2>2, <2>4, <1>1
    <3>2. r \in 1 .. MaxCapacity
      BY <3>1, <2>1, <1>1
    <3>3. U.slots \in Tables
      BY <2>2, <3>1 DEF Session
    <3>4. KeysIn(U.slots) = KeysIn(W.slots)
      <4>1. KeysIn(U.slots) = {x.key : x \in Contents(U.slots)}
        BY <1>1, <2>2, <3>1, <3>2, <3>3, ContentsOneEach
      <4>2. KeysIn(W.slots) = {x.key : x \in Contents(W.slots)}
        BY <1>1, <1>4, ContentsOneEach
      <4> QED
        BY <4>1, <4>2, <2>2, <3>1
    <3>5. Count(U) = BaseCount + U.delta
      BY <3>4, <1>9, <2>2, <3>1 DEF Count
    <3>6. Sound(U)
      BY <2>1, <2>2, <3>1, <3>5, <1>4 DEF Sound
    <3> QED
      BY <3>1, <3>4, <3>6, <1>4, <2>1, <2>2
  <2> QED
    BY <2>3, <2>4
<1>12. CASE W.hand # Empty
  <2>1. U = Rehash(base, W, compute_resize_capacity(W.capacity, c)) /\ c <= Count(S) + 1 /\ c \in Nat /\ Count(S) = c
    BY <1>1, <1>4, <1>7, <1>9, <1>10, <1>12
  <2>2. /\ NoPanic(S, U)
        /\ U.failed \/ /\ Sound(U) /\ S.cached \subseteq U.cached /\ U.rehashed /\ U.hand = W.hand
                       /\ KeysIn(U.slots) = KeysIn(W.slots) /\ c * 100 <= U.capacity * LoadFactorPct
    BY <2>1, <1>11
  <2>3. ASSUME ~ U.failed PROVE UpsertedOnce(S, k, U)
    <3>1. U.capacity \in Nat
      BY <2>2, <2>3, CapacityAssumption DEF Sound, Session
    <3>2. U.capacity > c
      BY <3>1, <2>2, <2>3, <1>1, GrowthIsReal
    <3>3. Count(U) = Count(S)
      BY <2>2, <2>3, <1>9, <1>12 DEF Count
    <3> QED
      BY <2>1, <2>2, <2>3, <3>2, <3>3, <1>6, <1>12 DEF UpsertedOnce
  <2> QED
    BY <2>2, <2>3 DEF U
<1>13. CASE W.hand = Empty /\ Resizes(base, S, W)
  <2>1. usage_count(base, W) = Count(W) /\ Count(W) = Count(S) + 1
    BY <1>9, <1>13, BaseCounted
  <2>2. U = Rehash(base, W, compute_resize_capacity(W.capacity, Count(W))) /\ Count(W) <= Count(S) + 1 /\ Count(W) \in Nat
    BY <1>7, <1>10, <1>13, <2>1
  <2>3. /\ NoPanic(S, U)
        /\ U.failed \/ /\ Sound(U) /\ S.cached \subseteq U.cached /\ U.rehashed /\ U.hand = W.hand
                       /\ KeysIn(U.slots) = KeysIn(W.slots) /\ Count(W) * 100 <= U.capacity * LoadFactorPct
    BY <2>2, <1>11
  <2>4. ASSUME ~ U.failed PROVE UpsertedOnce(S, k, U)
    <3>1. Count(U) = Count(W) /\ KeysIn(U.slots) = KeysIn(S.slots) \cup {k}
      BY <2>3, <2>4, <1>6, <1>13 DEF Count
    <3>2. Fits(U)
      BY <3>1, <2>3, <2>4 DEF Fits
    <3> QED
      BY <2>3, <2>4, <3>1, <3>2, <1>13 DEF UpsertedOnce
  <2> QED
    BY <2>3, <2>4 DEF U
<1>14. CASE W.hand = Empty /\ ~ Resizes(base, S, W)
  <2>1. U = W
    BY <1>10, <1>14
  <2>2. usage_count(base, W) = Count(W) /\ Count(W) = Count(S) + 1 /\ W.delta > S.delta
    BY <1>1, <1>6, <1>9, <1>14, BaseCounted
  <2>3. ~ (Count(W) > (c * LoadFactorPct) \div 100)
    BY <1>4, <1>14, <2>2, BaseCounted DEF Resizes
  <2>4. Fits(W)
    <3>1. c * LoadFactorPct \in Nat
      BY <1>1
    <3>2. Count(W) * 100 <= c * LoadFactorPct
      BY <2>3, <3>1, <1>7, DivBound
    <3> QED
      BY <3>2, <1>4 DEF Fits
  <2>5. Sound(W)
    <3>1. W.rehashed => {Meta} \cup (0 .. c - 1) \subseteq W.cached
      BY <1>4 DEF Sound
    <3> QED
      BY <3>1, <1>1, <1>4, <1>9 DEF Sound
  <2>6. UpsertedOnce(S, k, W)
    BY <1>4, <1>5, <1>6, <1>14, <2>4, <2>5 DEF UpsertedOnce
  <2>7. NoPanic(S, W)
    BY <1>4 DEF NoPanic
  <2> QED
    BY <2>1, <2>6, <2>7 DEF U
<1> QED
  BY <1>12, <1>13, <1>14

(* What shi_upsert does for a key that is not there. *)
Upserted(S, k, U) ==
  /\ Ready(U) /\ S.cached \subseteq U.cached /\ (S.rehashed => U.rehashed)
  /\ KeysIn(U.slots) = KeysIn(S.slots) \cup {k}
  /\ ~ U.rehashed => U.capacity = S.capacity /\ Unmoved(S, U, k)

(* shi_upsert for a key that is not there inserts it, or panics because no *)
(* allowed capacity has room.                                              *)
LEMMA UpsertAbsent ==
  ASSUME BaseOk, NEW S, Ready(S), NEW e \in Entry, e.key \notin KeysIn(S.slots)
  PROVE  LET U == ShiUpsert(base, S, e)
         IN  (U.failed \/ Upserted(S, e.key, U)) /\ NoPanic(S, U)
<1> DEFINE k == e.key
           T == UpsertOnce(base, S, e)
           U == ShiUpsert(base, S, e)
           V == UpsertOnce(base, T, T.hand)
<1>1. Sound(S)
  BY DEF Ready
<1>2. (T.failed \/ UpsertedOnce(S, k, T)) /\ NoPanic(S, T)
  BY <1>1, UpsertOnceAbsent
<1>3. U = IF T.failed \/ T.hand = Empty THEN T ELSE V
  BY Zenon DEF ShiUpsert
<1> HIDE DEF T, U
<1>4. CASE T.failed
  BY <1>2, <1>3, <1>4 DEF U
<1>5. CASE ~ T.failed /\ T.hand = Empty
  <2>1. Upserted(S, k, T)
    BY <1>2, <1>5 DEF UpsertedOnce, Upserted, Ready
  <2> QED
    BY <1>2, <1>3, <1>5, <2>1 DEF U
<1>6. CASE ~ T.failed /\ T.hand # Empty
  <2>1. /\ Sound(T) /\ T.rehashed /\ T.hand.key \notin KeysIn(T.slots) /\ S.cached \subseteq T.cached
        /\ KeysIn(T.slots) \cup {T.hand.key} = KeysIn(S.slots) \cup {k}
        /\ T.capacity > Count(T) /\ Count(T) = Count(S)
    BY <1>2, <1>6 DEF UpsertedOnce
  <2>2. T.hand \in Entry /\ T.capacity \in Nat
    BY <1>6, <2>1, CapacityAssumption DEF Sound, Session
  <2>3. (V.failed \/ UpsertedOnce(T, T.hand.key, V)) /\ NoPanic(T, V)
    BY <2>1, <2>2, UpsertOnceAbsent
  <2> HIDE DEF V
  <2>4. ASSUME ~ V.failed PROVE Upserted(S, k, V)
    <3>1. V.hand = Empty
      BY <2>1, <2>2, <2>3, <2>4 DEF UpsertedOnce
    <3> QED
      BY <2>1, <2>3, <2>4, <3>1 DEF UpsertedOnce, Upserted, Ready
  <2>5. NoPanic(S, V)
    BY <1>2, <1>6, <2>1, <2>3 DEF NoPanic
  <2> QED
    BY <1>3, <1>6, <2>3, <2>4, <2>5 DEF U
<1> QED
  BY <1>4, <1>5, <1>6

(* What shi_delete does. *)
Deleted(S, k, U) ==
  /\ Ready(U) /\ S.cached \subseteq U.cached /\ U.rehashed = S.rehashed /\ U.capacity = S.capacity
  /\ KeysIn(U.slots) \subseteq KeysIn(S.slots) /\ KeysIn(S.slots) \ {k} \subseteq KeysIn(U.slots)
  /\ Unmoved(S, U, k)

(* The search of shi_delete, over the full state *)
LEMMA SearchRead ==
  ASSUME NEW S \in Session, NEW k
  PROVE  LET M == ReadMeta(S)
             R == ReadSlots(M, SearchPath(M, k))
         IN  /\ ~ M.failed /\ M.slots = S.slots /\ M.capacity = S.capacity
             /\ R = [S EXCEPT !.cached = (@ \cup {Meta}) \cup SearchPath(S, k), !.failed = FALSE]
             /\ SearchPath(M, k) = SearchPath(S, k) /\ Found(M, k) = Found(S, k)
             /\ SearchPath(S, k) \subseteq SlotId /\ R \in Session
<1> DEFINE M == ReadMeta(S)
<1>1. (S.capacity = Unknown) = FALSE
  BY WitnessAssumption DEF Session
<1>2. M = [S EXCEPT !.cached = @ \cup {Meta}, !.failed = FALSE]
  BY <1>1 DEF ReadMeta
<1>3. M.slots = S.slots /\ M.capacity = S.capacity /\ ~ M.failed /\ M.cached = S.cached \cup {Meta}
  BY <1>2 DEF Session
<1>4. SearchPath(M, k) = SearchPath(S, k) /\ Found(M, k) = Found(S, k)
  BY <1>3 DEF SearchPath, Found, SearchStops
<1>5. SearchPath(S, k) \subseteq 0 .. S.capacity - 1
  BY SearchWithin
<1>6. \A s \in SearchPath(S, k) : s \in SlotId /\ S.slots[s] # Unknown
  BY <1>5, CapacityAssumption, WitnessAssumption DEF Session, Tables, SlotId
<1> DEFINE P == SearchPath(S, k)
           q == (S.cached \cup {Meta}) \cup P
           R == ReadSlots(M, P)
<1> HIDE DEF P, M
<1>7. (\E s \in P : M.slots[s] = Unknown) = FALSE
  BY <1>3, <1>6 DEF P
<1>8. R = [M EXCEPT !.cached = @ \cup P, !.failed = FALSE]
  BY <1>7 DEF ReadSlots
<1>9. R = [S EXCEPT !.cached = q, !.failed = FALSE]
  BY <1>8, <1>2 DEF Session
<1>10. q \subseteq SlotId \cup {Meta}
  BY <1>6 DEF P, Session
<1>11. R \in Session
  <2> HIDE DEF q, R
  <2> QED
    BY <1>9, <1>10 DEF Session
<1> QED
  BY <1>3, <1>4, <1>6, <1>9, <1>11 DEF P, M

(* shi_delete never fails on the full state. *)
LEMMA DeleteResult ==
  ASSUME BaseOk, NEW S, Ready(S), NEW k
  PROVE  Deleted(S, k, ShiDelete(S, k))
<1> DEFINE M == ReadMeta(S)
           R == ReadSlots(M, SearchPath(M, k))
           found == Found(M, k)
           g == CHOOSE s \in found : TRUE
           V == [R EXCEPT !.gap = g]
           U == ShiDelete(S, k)
           c == S.capacity
<1>1. /\ S \in Session /\ S.slots \in Tables /\ c \in 1 .. MaxCapacity /\ S.delta \in Int /\ hash \in [PlainKeys -> Nat]
      /\ LoadFactorPct \in Nat /\ c \in Nat
  BY CapacityAssumption, WitnessAssumption DEF Ready, Sound, Session, BaseOk
<1>2. /\ ~ M.failed /\ M.slots = S.slots /\ M.capacity = c
      /\ R = [S EXCEPT !.cached = (@ \cup {Meta}) \cup SearchPath(S, k), !.failed = FALSE]
      /\ found = Found(S, k) /\ R \in Session
  BY <1>1, SearchRead
<1>3. /\ ~ R.failed /\ R.slots = S.slots /\ R.capacity = c /\ R.hand = S.hand /\ R.delta = S.delta /\ R.rehashed = S.rehashed
      /\ R.gap = S.gap /\ S.cached \subseteq R.cached
  BY <1>1, <1>2 DEF Session
<1> HIDE DEF M, R
<1>4. U = IF found = {} THEN R ELSE Compacted(V)
  <2>1. U = IF M.failed THEN M ELSE IF R.failed \/ found = {} THEN R ELSE Compacted(V)
    BY Zenon DEF ShiDelete, M, R
  <2> HIDE DEF U, found, V
  <2> QED
    BY <2>1, <1>2, <1>3
<1>5. Count(S) = BaseCount + S.delta /\ Count(S) \in Nat /\ IsFiniteSet(KeysIn(S.slots)) /\ BaseCount \in Nat
  BY <1>1, KeysCount, BaseCounted DEF Ready, Sound, Count
<1> HIDE DEF U, found, V
<1>6. CASE found = {}
  <2>1. U = R
    BY <1>4, <1>6
  <2>2. Count(R) = Count(S)
    BY <1>3 DEF Count
  <2>3. Ready(R)
    BY <1>2, <1>3, <2>2 DEF Ready, Sound, Fits
  <2>4. Deleted(S, k, R)
    BY <1>3, <2>3 DEF Deleted, Unmoved
  <2> QED
    BY <2>1, <2>4 DEF U
<1>7. CASE found # {}
  <2>1. g \in Found(S, k)
    BY <1>2, <1>7
  <2>2. g \in 0 .. c - 1 /\ IsEntry(S.slots[g]) /\ S.slots[g].key = k
    BY <2>1, SearchWithin DEF Found
  <2> HIDE DEF g
  <2>3. g \in SlotId /\ S.slots[g] # Empty
    BY <2>2, <1>1, CapacityAssumption DEF SlotId, IsEntry
  <2>4. /\ V \in Session /\ ~ V.failed /\ V.slots = S.slots /\ V.capacity = c /\ V.hand = S.hand /\ V.delta = S.delta /\ V.rehashed = S.rehashed
        /\ V.gap = g /\ S.cached \subseteq V.cached
    BY <1>2, <1>3, <2>3 DEF V, Session
  <2>5. U = Compacted(V)
    BY <1>4, <1>7
  <2>6. /\ U \in Session /\ U.capacity = c /\ U.hand = S.hand /\ U.rehashed = S.rehashed
        /\ ~ U.failed /\ V.cached \subseteq U.cached /\ U.gap = NoSlot
        /\ ShiOrdered(U.slots, hash, c) /\ Within(U.slots, c)
        /\ KeysIn(U.slots) = KeysIn(S.slots) \ {k} /\ U.delta = S.delta - 1
        /\ \A s \in SlotId : S.slots[s] # Empty /\ S.slots[s].key > k => U.slots[s] = S.slots[s]
    BY <1>1, <2>2, <2>3, <2>4, <2>5, CompactedResult DEF Ready, Sound
  <2>7. k \in KeysIn(S.slots)
    BY <2>2, <2>3 DEF KeysIn, Occupied
  <2>8. Count(U) = Count(S) - 1
    BY <2>6, <2>7, <1>5, FS_RemoveElement DEF Count
  <2>9. Count(U) = BaseCount + U.delta
    <3>1. Count(S) - 1 = BaseCount + (S.delta - 1)
      BY <1>1, <1>5
    <3> QED
      BY <3>1, <2>6, <2>8
  <2>10. Fits(S) => Fits(U)
    <3> DEFINE x == c * LoadFactorPct
    <3>1. x \in Nat
      BY <1>1
    <3> HIDE DEF x
    <3>2. Count(S) * 100 <= x => Count(U) * 100 <= x
      BY <3>1, <2>8, <1>5
    <3> QED
      BY <3>2, <2>6 DEF Fits, x
  <2>11. Ready(U)
    BY <2>4, <2>6, <2>9, <2>10 DEF Ready, Sound
  <2>12. Deleted(S, k, U)
    BY <2>4, <2>6, <2>11 DEF Deleted, Unmoved
  <2> QED
    BY <2>12 DEF U
<1> QED
  BY <1>6, <1>7

(* The i-th probe has rank i. *)
LEMMA RankProbe ==
  ASSUME NEW c \in Nat \ {0}, NEW h \in Nat, NEW i \in 0 .. c - 1
  PROVE  rank(h, probe(h, i, c), c) = i
<1> DEFINE f == h % c
           p == probe(h, i, c)
<1>1. f \in 0 .. c - 1 /\ p = (IF f + i < c THEN f + i ELSE f + i - c) /\ p \in 0 .. c - 1
  BY ProbeValue
<1>2. rank(h, p, c) = IF p >= f THEN p - f ELSE p + c - f
  <2> HIDE DEF p
  <2> QED
    BY <1>1, RankValue
<1> HIDE DEF f, p
<1>3. (IF p >= f THEN p - f ELSE p + c - f) = i
  BY <1>1
<1> QED
  BY <1>2, <1>3 DEF p

(* The loop of shi_upsert after i probes, for a key that is at slot s. *)
Seeking(S, s, i) ==
  {T \in Session :
     /\ Same(S, T) /\ T.delta = S.delta
     /\ \/ T.hand = Empty /\ T.slots = [S.slots EXCEPT ![s] = S.hand]
        \/ T.hand = S.hand /\ T.slots = S.slots /\ i <= rank(hash[S.hand.key], s, S.capacity)}

(* Every probe before slot s passes a larger key. *)
LEMMA SeekStep ==
  ASSUME NEW S \in Session, hash \in [PlainKeys -> Nat], ShiOrdered(S.slots, hash, S.capacity),
         S.hand \in Entry, NEW s \in 0 .. S.capacity - 1, S.slots[s] # Empty, S.slots[s].key = S.hand.key,
         NEW i \in 1 .. S.capacity, NEW T \in Seeking(S, s, i - 1)
  PROVE  ProbeStep(T, probe(hash[S.hand.key], i - 1, S.capacity)) \in Seeking(S, s, i)
<1> DEFINE c == S.capacity
           k == S.hand.key
           h == hash[k]
           p == probe(h, i - 1, c)
           U == ProbeStep(T, p)
<1>1. /\ c \in 1 .. MaxCapacity /\ c \in Nat \ {0} /\ i - 1 \in 0 .. c - 1 /\ i \in Nat /\ S.slots \in Tables
      /\ S.hand # Empty /\ k \in PlainKeys /\ k \in Nat /\ h \in Nat /\ s \in SlotId
  BY CapacityAssumption, EntryFacts DEF Session, SlotId
<1>2. p \in 0 .. c - 1 /\ rank(h, p, c) = i - 1 /\ rank(h, s, c) \in 0 .. c - 1 /\ p \in SlotId
  <2>1. p \in 0 .. c - 1 /\ rank(h, p, c) = i - 1 /\ rank(h, s, c) \in 0 .. c - 1
    BY <1>1, ProbeValue, RankProbe, RankValue
  <2> QED
    BY <2>1, <1>1, CapacityAssumption DEF SlotId
<1>3. T \in Session /\ Same(S, T) /\ T.delta = S.delta /\ T.capacity = c /\ ~ T.failed /\ T.delta \in Int
  BY DEF Seeking, Same, Session
<1> HIDE DEF p
<1>4. CASE T.hand = Empty
  <2>1. U = T
    BY <1>4 DEF ProbeStep
  <2>2. T.hand # S.hand
    BY <1>4, <1>1
  <2> QED
    BY <2>1, <2>2, <1>4 DEF Seeking, p
<1>5. CASE T.hand # Empty
  <2>1. T.hand = S.hand /\ T.slots = S.slots /\ i - 1 <= rank(h, s, c)
    BY <1>5 DEF Seeking
  <2>2. LET old == T.slots[p]
        IN  /\ U \in Session /\ Same(T, U)
            /\ \/ /\ old = Empty /\ U.slots = [T.slots EXCEPT ![p] = T.hand] /\ U.hand = Empty /\ U.delta = T.delta + 1
               \/ /\ old # Empty /\ old.key = T.hand.key
                  /\ U.slots = [T.slots EXCEPT ![p] = T.hand] /\ U.hand = Empty /\ U.delta = T.delta
               \/ /\ old # Empty /\ old.key < T.hand.key
                  /\ U.slots = [T.slots EXCEPT ![p] = T.hand] /\ U.hand = old /\ U.delta = T.delta
               \/ /\ old # Empty /\ old.key # T.hand.key /\ ~ (old.key < T.hand.key)
                  /\ U.slots = T.slots /\ U.hand = T.hand /\ U.delta = T.delta
    BY <1>2, <1>3, <1>5, ProbeCases
  <2> HIDE DEF U
  <2>3. U \in Session /\ Same(S, U)
    BY <2>2, <1>3 DEF Same
  <2>4. CASE p = s
    <3>1. U.hand = Empty /\ U.slots = [S.slots EXCEPT ![s] = S.hand] /\ U.delta = S.delta
      BY <2>1, <2>2, <2>4, <1>1, <1>3
    <3>2. U \in Seeking(S, s, i)
      BY <2>3, <3>1 DEF Seeking
    <3> QED
      BY <3>2 DEF U, p
  <2>5. CASE p # s
    <3>1. rank(h, p, c) < rank(h, s, c)
      <4>1. rank(h, p, c) # rank(h, s, c)
        BY <2>5, <1>1, <1>2, RankInjective
      <4> QED
        BY <4>1, <2>1, <1>1, <1>2
    <3>2. p \in Before(h, s, c)
      BY <3>1, <1>2 DEF Before
    <3>3. Larger(S.slots, p, k)
      BY <3>2 DEF ShiOrdered, Passed
    <3>4. S.slots[p] # Empty /\ S.slots[p].key \in Nat /\ S.slots[p].key > k
      BY <3>3, <1>1, <1>2, EntryFacts DEF Larger, Tables
    <3>5. U.slots = S.slots /\ U.hand = S.hand /\ U.delta = S.delta
      BY <3>4, <2>1, <2>2, <1>1, <1>3
    <3>6. i <= rank(h, s, c)
      BY <3>1, <1>2, <1>1
    <3>7. U \in Seeking(S, s, i)
      BY <2>3, <3>5, <3>6 DEF Seeking
    <3> QED
      BY <3>7 DEF U, p
  <2> QED
    BY <2>4, <2>5
<1> QED
  BY <1>4, <1>5

(* The loop of shi_upsert for a key that is at slot s: it gets there. *)
LEMMA ProbedPresent ==
  ASSUME NEW S \in Session, hash \in [PlainKeys -> Nat], ~ S.failed, ShiOrdered(S.slots, hash, S.capacity),
         S.hand \in Entry, NEW s \in 0 .. S.capacity - 1, S.slots[s] # Empty, S.slots[s].key = S.hand.key
  PROVE  LET W == Probed(S, S.hand.key)
         IN  W \in Session /\ Same(S, W) /\ W.delta = S.delta /\ W.hand = Empty /\ W.slots = [S.slots EXCEPT ![s] = S.hand]
<1> DEFINE c == S.capacity
           k == S.hand.key
           X == [i \in 0 .. c |-> Seeking(S, s, i)]
<1>1. c \in Nat \ {0} /\ k \in PlainKeys /\ hash[k] \in Nat /\ rank(hash[k], s, c) \in 0 .. c - 1
  <2>1. c \in Nat \ {0} /\ k \in PlainKeys /\ hash[k] \in Nat
    BY EntryFacts DEF Session
  <2> QED
    BY <2>1, RankValue
<1>2. S \in Seeking(S, s, 0)
  BY <1>1 DEF Seeking, Same
<1>3. S \in X[0] /\ \A i \in 1 .. c : \A x \in X[i - 1] : ProbeStep(x, probe(hash[k], i - 1, c)) \in X[i]
  BY <1>1, <1>2, SeekStep
<1>4. X[c] = Seeking(S, s, c) /\ c \in 0 .. c /\ c \in Nat
  BY <1>1
<1>5. Probed(S, k) \in Seeking(S, s, c)
  <2> HIDE DEF X, c
  <2> USE DEF c
  <2>1. PICK f : ProbeRun(f, S, k) /\ Stays(f, S.capacity, X)
    BY <1>3, <1>4, ProbedRun
  <2> QED
    BY <1>4, <2>1 DEF ProbeRun, Stays
<1>6. ~ (c <= rank(hash[k], s, c))
  BY <1>1
<1> QED
  BY <1>5, <1>6 DEF Seeking

(* shi_upsert for a key that is at slot s: the value there is replaced, and that is all. *)
Replaced(S, s, e, U) ==
  /\ Ready(U) /\ U.slots = [S.slots EXCEPT ![s] = e] /\ KeysIn(U.slots) = KeysIn(S.slots)
  /\ U.capacity = S.capacity /\ U.delta = S.delta /\ U.rehashed = S.rehashed

(* That is what shi_upsert does. *)
LEMMA UpsertPresent ==
  ASSUME BaseOk, NEW S, Ready(S), NEW e \in Entry, NEW s \in 0 .. S.capacity - 1, S.slots[s] # Empty, S.slots[s].key = e.key
  PROVE  Replaced(S, s, e, ShiUpsert(base, S, e))
<1> DEFINE c == S.capacity
           k == e.key
           M == ReadMeta([S EXCEPT !.hand = e])
           W == Probed(M, k)
           T == UpsertOnce(base, S, e)
           U == ShiUpsert(base, S, e)
<1>1. /\ S \in Session /\ S.slots \in Tables /\ c \in 1 .. MaxCapacity /\ S.delta \in Int
      /\ hash \in [PlainKeys -> Nat] /\ s \in SlotId /\ S.gap = NoSlot
  BY CapacityAssumption DEF Ready, Sound, Session, BaseOk, SlotId
<1>2. /\ M \in Session /\ ~ M.failed /\ M.hand = e /\ M.slots = S.slots /\ M.capacity = c
      /\ M.delta = S.delta /\ M.rehashed = S.rehashed /\ M.gap = S.gap /\ S.cached \subseteq M.cached
  BY <1>1, WithHand
<1> HIDE DEF M
<1>3. W \in Session /\ Same(M, W) /\ W.delta = M.delta /\ W.hand = Empty /\ W.slots = [S.slots EXCEPT ![s] = e]
  BY <1>1, <1>2, ProbedPresent DEF Ready, Sound
<1> HIDE DEF W
<1>4. ~ W.failed /\ W.capacity = c /\ W.rehashed = S.rehashed /\ W.gap = NoSlot /\ S.cached \subseteq W.cached /\ W.delta = S.delta
  BY <1>1, <1>2, <1>3 DEF Same
<1>5. T = W
  <2>1. T = IF W.hand # Empty THEN Rehash(base, W, compute_resize_capacity(W.capacity, W.capacity))
           ELSE IF Resizes(base, S, W) THEN Rehash(base, W, compute_resize_capacity(W.capacity, usage_count(base, W)))
           ELSE W
    <3>1. DirectFind(base, S, e.key) = {}
      BY BaseCounted
    <3> QED
      BY <3>1, <1>2, <1>4, Zenon DEF UpsertOnce, M, W
  <2>2. ~ Resizes(base, S, W)
    BY <1>1, <1>4 DEF Resizes
  <2> HIDE DEF T
  <2> QED
    BY <2>1, <2>2, <1>3
<1>6. U = IF T.failed \/ T.hand = Empty THEN T ELSE UpsertOnce(base, T, T.hand)
  BY Zenon DEF ShiUpsert
<1> HIDE DEF T, U
<1>7. U = W
  BY <1>3, <1>5, <1>6
<1>8. KeysIn(W.slots) = KeysIn(S.slots)
  <2>1. KeysIn(W.slots) = (KeysIn(S.slots) \ {S.slots[s].key}) \cup {e.key}
    BY <1>1, <1>3, PutOver DEF Ready, Sound
  <2>2. e.key \in KeysIn(S.slots)
    BY <1>1 DEF KeysIn, Occupied
  <2> QED
    BY <2>1, <2>2
<1>9. ShiOrdered(W.slots, hash, c) /\ Within(W.slots, c)
  <2>1. Passed(S.slots, hash[e.key], c, e.key, s)
    BY DEF Ready, Sound, ShiOrdered
  <2>2. S.slots[s].key <= e.key
    BY EntryFacts
  <2>3. ShiOrdered(S.slots, hash, c) /\ Within(S.slots, c)
    BY DEF Ready, Sound
  <2>4. ShiOrdered([S.slots EXCEPT ![s] = e], hash, c)
    BY <1>1, <2>1, <2>2, <2>3, PutKeepsOrder
  <2>5. Within([S.slots EXCEPT ![s] = e], c)
    BY <1>1, <2>3, PutWithin
  <2> QED
    BY <1>3, <2>4, <2>5
<1>10. Count(W) = Count(S)
  BY <1>8 DEF Count
<1>11. Ready(W)
  BY <1>3, <1>4, <1>9, <1>10 DEF Ready, Sound, Fits
<1> QED
  BY <1>3, <1>4, <1>7, <1>8, <1>11 DEF Replaced, U

-------------------------------------------------------------------------------
(* What a witness tells *)

(* What Witness::create finds is the one slot with the key. *)
LEMMA StoredIs ==
  ASSUME BaseOk, NEW k, NEW s \in Stored(k)
  PROVE  /\ s \in 0 .. base.capacity - 1 /\ base.slots[s] # Empty /\ base.slots[s].key = k
         /\ Stored(k) = {s}
<1>1. s \in 0 .. base.capacity - 1 /\ base.slots[s] # Empty /\ base.slots[s].key = k
  BY FreshState DEF Stored, Found, SearchPath, Visited, IsEntry
<1> QED
  BY <1>1, BaseFound

(* A witness has what the full state has, or nothing. *)
LEMMA WitnessSlots ==
  ASSUME BaseOk, NEW w, NEW keys, NEW l, Tells(w, keys, l)
  PROVE  /\ \A s \in SlotId : w.slots[s] = IF s \in keys THEN base.slots[s] ELSE Unknown
         /\ \A s \in SlotId : w.slots[s] # Unknown => s \in 0 .. base.capacity - 1
         /\ w.capacity = IF Meta \in keys THEN base.capacity ELSE Unknown
<1>1. w.slots = [s \in SlotId |-> WitnessValue(keys, s)] /\ w.capacity = IF Meta \in keys THEN base.capacity ELSE Unknown
  BY DEF Tells, SaltWitness, Reader
<1>2. keys \subseteq (0 .. base.capacity - 1) \cup {Meta}
  BY DEF Tells
<1> QED
  BY <1>1, <1>2, WitnessAssumption DEF WitnessValue

(* The lookup table of a witness points to witnessed entries. *)
LEMMA DirectFound ==
  ASSUME BaseOk, NEW w, NEW keys, NEW l, Tells(w, keys, l), NEW k
  PROVE  /\ k \in DOMAIN w.fast => DirectFind(w, NewState(w), k) = {w.fast[k]}
         /\ k \notin DOMAIN w.fast => DirectFind(w, NewState(w), k) = {}
<1>1. NewState(w).slots = w.slots
  BY FreshState
<1>2. CASE k \in DOMAIN w.fast
  <2> DEFINE s == w.fast[k]
  <2>1. s \in keys /\ s \in 0 .. base.capacity - 1 /\ base.slots[s] # Empty /\ base.slots[s].key = k
    BY <1>2 DEF Tells, Points
  <2>2. s \in SlotId /\ base.slots[s] # Unknown
    BY <2>1, BaseFacts
  <2>3. w.slots[s] = base.slots[s]
    BY <2>1, <2>2, WitnessSlots
  <2> QED
    BY <1>1, <1>2, <2>1, <2>2, <2>3 DEF DirectFind, IsEntry
<1>3. CASE k \notin DOMAIN w.fast
  BY <1>3 DEF DirectFind
<1> QED
  BY <1>2, <1>3

(* shi_search on a witness goes no further than on the full state, and     *)
(* just as far when all that it reads is witnessed.                        *)
LEMMA PathSame ==
  ASSUME BaseOk, NEW w, NEW keys, NEW l, Tells(w, keys, l), NEW k \in PlainKeys, Meta \in keys
  PROVE  /\ SearchPath(NewState(w), k) \subseteq SearchPath(NewState(base), k)
         /\ (\A s \in SearchPath(NewState(w), k) : w.slots[s] # Unknown)
              => SearchPath(NewState(w), k) = SearchPath(NewState(base), k)
<1> DEFINE c == base.capacity
           h == hash[k]
           ws == SearchStops(NewState(w), k)
           bs == SearchStops(NewState(base), k)
<1>1. c \in Nat \ {0} /\ h \in Nat
  BY BaseFacts DEF BaseOk
<1>2. NewState(w).slots = w.slots /\ NewState(w).capacity = c /\ NewState(base).slots = base.slots /\ NewState(base).capacity = c
  BY FreshState, WitnessSlots
<1>3. SearchPath(NewState(w), k) = Visited(h, c, ws) /\ SearchPath(NewState(base), k) = Visited(h, c, bs)
  BY <1>2 DEF SearchPath
<1>4. \A t \in 0 .. c - 1 : w.slots[t] # Unknown => (t \in ws <=> t \in bs)
  <2> SUFFICES ASSUME NEW t \in 0 .. c - 1, w.slots[t] # Unknown PROVE t \in ws <=> t \in bs
    OBVIOUS
  <2>1. t \in SlotId
    BY BaseFacts
  <2>2. w.slots[t] = base.slots[t]
    BY <2>1, WitnessSlots
  <2> QED
    BY <1>2, <2>2 DEF SearchStops
<1>5. \A t \in 0 .. c - 1 : t \notin ws => w.slots[t] # Unknown
  BY <1>2 DEF SearchStops, IsEntry
<1>6. ws \subseteq 0 .. c - 1 /\ bs \subseteq 0 .. c - 1
  BY <1>2 DEF SearchStops
<1> HIDE DEF c, h, ws, bs
<1>7. Visited(h, c, ws) \subseteq Visited(h, c, bs)
  <2> SUFFICES ASSUME NEW s \in 0 .. c - 1, Before(h, s, c) \cap ws = {} PROVE Before(h, s, c) \cap bs = {}
    BY DEF Visited
  <2> SUFFICES ASSUME NEW t \in Before(h, s, c), t \in bs PROVE FALSE
    OBVIOUS
  <2>1. t \in 0 .. c - 1 /\ t \notin ws
    BY DEF Before
  <2> QED
    BY <2>1, <1>4, <1>5
<1>8. ASSUME \A s \in Visited(h, c, ws) : w.slots[s] # Unknown PROVE Visited(h, c, bs) \subseteq Visited(h, c, ws)
  <2> SUFFICES ASSUME NEW s \in 0 .. c - 1, Before(h, s, c) \cap bs = {}, Before(h, s, c) \cap ws # {} PROVE FALSE
    BY DEF Visited
  <2>1. PICK t \in Before(h, s, c) \cap ws : Before(h, t, c) \cap (Before(h, s, c) \cap ws) = {}
    <3> DEFINE A == Before(h, s, c) \cap ws
    <3>1. A \subseteq 0 .. c - 1 /\ A # {}
      BY <1>6
    <3> HIDE DEF A
    <3>2. \E t \in A : Before(h, t, c) \cap A = {}
      BY <1>1, <3>1, FirstStop
    <3> QED
      BY <3>2 DEF A
  <2>2. Before(h, t, c) \subseteq Before(h, s, c)
    BY <1>1, <2>1, BeforeTransitive
  <2>3. t \in 0 .. c - 1 /\ Before(h, t, c) \cap ws = {}
    BY <2>1, <2>2, <1>6
  <2>4. w.slots[t] # Unknown
    BY <2>3, <1>8 DEF Visited
  <2>5. t \in bs
    BY <2>1, <2>3, <2>4, <1>4
  <2> QED
    BY <2>1, <2>5
<1> QED
  BY <1>3, <1>7, <1>8

(* plain_value of a witness is that of the full state, or an error for a   *)
(* key that was not looked up.                                             *)
LEMMA WitnessFind ==
  ASSUME BaseOk, NEW w, NEW keys, NEW l, Tells(w, keys, l), NEW k \in PlainKeys
  PROVE  Find(w, k) \in {Find(base, k)} \cup (IF k \in l THEN {} ELSE {Unknown})
<1> DEFINE S == NewState(w)
           there == DirectFind(w, S, k)
           path == SearchPath(S, k)
<1>1. CASE k \in DOMAIN w.fast
  <2> DEFINE s == w.fast[k]
  <2>1. s \in keys /\ s \in 0 .. base.capacity - 1 /\ base.slots[s] # Empty /\ base.slots[s].key = k
    BY <1>1 DEF Tells, Points
  <2>2. Stored(k) = {s}
    BY <2>1, BaseFound
  <2>3. there = {s} /\ S.slots = w.slots
    BY <1>1, DirectFound, FreshState
  <2>4. w.slots[s] = base.slots[s]
    BY <2>1, BaseFacts, WitnessSlots
  <2> HIDE DEF there, S
  <2>5. Find(w, k) = S.slots[CHOOSE t \in there : TRUE]
    BY <2>3, Zenon DEF Find, S, there
  <2> QED
    BY <2>2, <2>3, <2>4, <2>5, BaseFind
<1>2. CASE k \notin DOMAIN w.fast
  <2>1. there = {}
    BY <1>2, DirectFound
  <2>2. k \in l => Stored(k) = {} /\ Meta \in keys /\ SearchPath(NewState(base), k) \subseteq keys
    BY <1>2 DEF Tells, Needed
  <2>3. S.slots = w.slots /\ (ReadMeta(S).failed <=> w.capacity = Unknown) /\ (ReadSlots(S, path).failed <=> \E s \in path : w.slots[s] = Unknown)
    BY FreshState
  <2> DEFINE bad == w.capacity = Unknown \/ \E s \in path : w.slots[s] = Unknown
  <2>4. Find(w, k) = IF bad THEN Unknown
                     ELSE IF Found(S, k) = {} THEN Empty ELSE S.slots[CHOOSE s \in Found(S, k) : TRUE]
    <3> HIDE DEF path, S, there
    <3>1. Find(w, k) = IF there # {} THEN S.slots[CHOOSE s \in there : TRUE]
                       ELSE IF ReadMeta(S).failed \/ ReadSlots(S, path).failed THEN Unknown
                       ELSE IF Found(S, k) = {} THEN Empty ELSE S.slots[CHOOSE s \in Found(S, k) : TRUE]
      BY Zenon DEF Find, S, there, path
    <3>2. bad <=> (ReadMeta(S).failed \/ ReadSlots(S, path).failed)
      BY <2>3
    <3> HIDE DEF bad
    <3> QED
      BY <2>1, <3>1, <3>2
  <2>5. CASE bad
    <3>1. ASSUME k \in l PROVE FALSE
      <4>1. Meta \in keys /\ w.capacity # Unknown
        BY <3>1, <2>2, WitnessSlots, BaseFacts
      <4>2. PICK s \in path : w.slots[s] = Unknown
        BY <4>1, <2>5
      <4>3. s \in SearchPath(NewState(base), k) /\ s \in keys
        BY <4>1, <4>2, <3>1, <2>2, PathSame
      <4>4. s \in SlotId /\ base.slots[s] # Unknown
        BY <4>3, SearchWithin, FreshState, BaseFacts
      <4> QED
        BY <4>2, <4>3, <4>4, WitnessSlots
    <3> QED
      BY <3>1, <2>4, <2>5
  <2>6. CASE ~ bad
    <3>1. Meta \in keys
      BY <2>6, WitnessSlots
    <3>2. path = SearchPath(NewState(base), k)
      BY <2>6, <3>1, PathSame
    <3>3. \A s \in path : s \in SlotId /\ w.slots[s] = base.slots[s]
      <4>1. path \subseteq 0 .. base.capacity - 1
        BY <3>2, SearchWithin, FreshState
      <4> HIDE DEF path
      <4>2. path \subseteq SlotId
        BY <4>1, BaseFacts
      <4> QED
        BY <4>2, <2>6, WitnessSlots
    <3>4. Found(S, k) = Stored(k)
      <4>1. NewState(base).slots = base.slots
        BY FreshState
      <4> HIDE DEF path, S, bad
      <4>2. Found(S, k) = {s \in path : IsEntry(w.slots[s]) /\ w.slots[s].key = k}
        BY <2>3 DEF Found, path
      <4>3. Stored(k) = {s \in path : IsEntry(base.slots[s]) /\ base.slots[s].key = k}
        BY <3>2, <4>1 DEF Found, Stored
      <4> QED
        BY <3>3, <4>2, <4>3
    <3>5. CASE Stored(k) = {}
      BY <3>4, <3>5, <2>4, <2>6, BaseFind
    <3>6. CASE Stored(k) # {}
      <4>1. PICK s \in Stored(k) : TRUE
        BY <3>6
      <4>2. Stored(k) = {s} /\ s \in path
        BY <4>1, <3>2, StoredIs, SearchWithin DEF Stored
      <4>3. Find(base, k) = base.slots[s]
        BY <4>2, BaseFind
      <4>4. Find(w, k) = w.slots[s]
        <5> HIDE DEF bad, S, path
        <5> QED
          BY <2>3, <2>4, <2>6, <3>4, <4>2
      <4> QED
        BY <4>2, <4>3, <4>4, <3>3
    <3> QED
      BY <3>5, <3>6
  <2> QED
    BY <2>5, <2>6
<1> QED
  BY <1>1, <1>2

-------------------------------------------------------------------------------
(* The invariant *)

(* A new recorder. *)
LEMMA NewRecorder ==
  ASSUME BaseOk
  PROVE  NewState(base) \in RecordedAt({}, base.capacity)
BY CapacityAssumption DEF BaseOk, NewState, RecordedAt, Recorded, Session, NoSlot

(* recorder.plain_value caches the whole search for each key that it does  *)
(* not find.                                                               *)
LEMMA AbsenceKeeps ==
  ASSUME BaseOk, NEW l
  PROVE  Absence(NewState(base), {k \in l : Stored(k) = {}}) \in Recorded(Needed(l))
<1> DEFINE S == NewState(base)
           K == {k \in l : Stored(k) = {}}
           P == UNION {SearchPath(S, k) : k \in K}
           n == base.capacity
<1>1. S \in RecordedAt({}, n)
  BY NewRecorder
<1>2. CASE K = {}
  <2>1. Needed(l) = {}
    BY <1>2 DEF Needed
  <2> QED
    BY <1>1, <1>2, <2>1 DEF Absence, RecordedAt
<1>3. CASE K # {}
  <2>1. P \subseteq 0 .. n - 1
    <3>1. \A k : SearchPath(S, k) \subseteq 0 .. n - 1
      BY SearchWithin, FreshState
    <3> QED
      BY <3>1
  <2>2. Needed(l) = {Meta} \cup P
    BY <1>3 DEF Needed
  <2>3. Absence(S, K) = ReadSlots(ReadMeta(S), P)
    BY <1>3, Zenon DEF Absence
  <2> HIDE DEF K, P, S, n
  <2>4. ReadMeta(S) \in RecordedAt({}, n) /\ Meta \in ReadMeta(S).cached
    BY <1>1, ReadMetaKeeps
  <2>5. ReadMeta(S) \in RecordedAt({Meta}, n)
    BY <2>4 DEF RecordedAt, Recorded
  <2>6. ReadSlots(ReadMeta(S), P) \in RecordedAt({Meta}, n) /\ P \subseteq ReadSlots(ReadMeta(S), P).cached
    BY <2>5, <2>1, ReadSlotsKeeps
  <2>7. ReadSlots(ReadMeta(S), P) \in Recorded({Meta} \cup P)
    BY <2>6 DEF RecordedAt, Recorded
  <2> QED
    BY <2>2, <2>3, <2>7 DEF S, K
<1> QED
  BY <1>2, <1>3

(* The bucket before the block. *)
LEMMA PlacedTable ==
  ASSUME NEW K, K \subseteq PlainKeys, NEW at
  PROVE  Placed(K, at) \in Tables
<1>1. ASSUME NEW s \in SlotId, \E k \in K : at[k] = s
      PROVE  [key |-> CHOOSE k \in K : at[k] = s, val |-> InitValue] \in Entry
  <2>1. (CHOOSE k \in K : at[k] = s) \in PlainKeys
    BY <1>1
  <2> QED
    BY <2>1, WitnessAssumption DEF Entry
<1> QED
  BY <1>1 DEF Placed, Tables

(* WInv holds before the block. *)
LEMMA InitInv == Init => WInv
<1> SUFFICES ASSUME Init PROVE WInv
  OBVIOUS
<1>1. PICK K \in SUBSET PlainKeys, c \in InitCapacities : \E at \in [K -> 0 .. c - 1] :
        ShiOrdered(Placed(K, at), hash, c) /\ base = Reader(Placed(K, at), c, NoFast)
  BY DEF Init
<1>2. PICK at \in [K -> 0 .. c - 1] : ShiOrdered(Placed(K, at), hash, c) /\ base = Reader(Placed(K, at), c, NoFast)
  BY <1>1
<1>3. Placed(K, at) \in Tables /\ c \in 1 .. MaxCapacity /\ hash \in [PlainKeys -> Nat]
  BY PlacedTable, WitnessAssumption DEF Init
<1>4. base.slots = Placed(K, at) /\ base.capacity = c
  BY <1>2 DEF Reader
<1>5. BaseOk
  <2>1. Within(Placed(K, at), c)
    <3> SUFFICES ASSUME NEW s \in SlotId, Placed(K, at)[s] # Empty PROVE s < c
      BY DEF Within, Occupied
    <3>1. PICK k \in K : at[k] = s
      BY DEF Placed
    <3> QED
      BY <3>1, <1>3
  <2> QED
    BY <1>2, <1>3, <1>4, <2>1 DEF BaseOk, Reader
<1>6. pc = "idle" /\ recorder = NewState(base)
  BY DEF Init
<1> QED
  BY <1>5, <1>6 DEF WInv, Witnessed

(* The full state does not change. *)
LEMMA StoredSame ==
  ASSUME UNCHANGED <<hash, base>>
  PROVE  /\ BaseOk' <=> BaseOk
         /\ \A k : Stored(k)' = Stored(k)
         /\ NewState(base)' = NewState(base)
         /\ \A l : Needed(l)' = Needed(l)
         /\ \A w, keys, l : Tells(w, keys, l)' <=> Tells(w, keys, l)
<1>1. NewState(base)' = NewState(base)
  BY DEF NewState
<1>2. \A k : SearchPath(NewState(base), k)' = SearchPath(NewState(base), k)
  BY <1>1 DEF SearchPath, SearchStops
<1>3. \A k : Stored(k)' = Stored(k)
  BY <1>1 DEF Stored, Found, SearchPath, SearchStops, NewState
<1>4. \A l : Needed(l)' = Needed(l)
  BY <1>2, <1>3 DEF Needed
<1>5. BaseOk' <=> BaseOk
  BY DEF BaseOk
<1>6. \A w, keys, l : Tells(w, keys, l)' <=> Tells(w, keys, l)
  BY <1>3, <1>4 DEF Tells, Points, SaltWitness, WitnessValue
<1> QED
  BY <1>1, <1>3, <1>4, <1>5, <1>6

(* Witness::create up to recorder.update. *)
LEMMA CreateStep ==
  ASSUME WInv, NEW b \in SUBSET {Meta}, NEW l \in SUBSET PlainKeys, NEW u \in Batches, Create(b, l, u)
  PROVE  WInv'
<1> DEFINE there == {k \in l : Stored(k) # {}} \cup InPlace(u)
<1>1. BaseOk /\ recorder = NewState(base) /\ UNCHANGED <<hash, base>> /\ pc' = "record"
  BY DEF WInv, Create
<1>2. direct' = [k \in there |-> CHOOSE s \in Stored(k) : TRUE] /\ chosen' = Pushed(direct') \cup b
  BY Zenon DEF Create
<1>3. lookups' = l /\ updates' = u /\ todo' \subseteq DOMAIN u
  BY DEF Create
<1>4. \A k \in there : Stored(k) # {} /\ k \in PlainKeys
  BY DEF InPlace, Batches
<1>5. recorder' \in Recorded(Needed(l))
  BY <1>1, AbsenceKeeps DEF Create
<1>6. DOMAIN direct' = there /\ \A k \in there : direct'[k] \in Stored(k)
  <2> HIDE DEF there
  <2> QED
    BY <1>2, <1>4
<1>7. \A k \in l : Stored(k) # {} => k \in there
  OBVIOUS
<1> HIDE DEF there
<1>8. /\ \A k : Stored(k)' = Stored(k)
      /\ Needed(lookups)' = Needed(l)
  <2>1. Needed(l)' = Needed(l)
    BY <1>1, StoredSame
  <2> QED
    BY <1>1, <1>3, <2>1, StoredSame
<1>9. Recording'
  <2>1. Pushed(direct)' = Pushed(direct')
    BY DEF Pushed
  <2> QED
    BY <1>2, <1>3, <1>4, <1>5, <1>6, <1>7, <1>8, <2>1 DEF Recording
<1>10. BaseOk'
  BY <1>1, StoredSame
<1> QED
  BY <1>1, <1>9, <1>10 DEF WInv, Witnessed

(* recorder.update of one key. *)
LEMMA RecordStep ==
  ASSUME WInv, NEW k \in PlainKeys, Record(k)
  PROVE  WInv'
<1>1. /\ BaseOk /\ UNCHANGED <<hash, base, lookups, updates, direct, chosen>> /\ pc = "record" /\ pc' = "record"
      /\ Recording
  BY DEF WInv, Record
<1>2. updates[k] \in Values \cup {Empty}
  <2>1. k \in DOMAIN updates
    BY <1>1 DEF Record, IsFirst, Recording
  <2> QED
    BY <1>1, <2>1, WitnessAssumption DEF Recording, Batches
<1>3. recorder' \in Recorded(Needed(lookups))
  <2>1. base.fast = NoFast /\ hash \in [PlainKeys -> Nat]
    BY <1>1, BaseFacts DEF BaseOk
  <2>2. recorder \in Recorded(Needed(lookups)) /\ recorder' = UpdateOne(base, recorder, k, updates[k])
    BY <1>1 DEF Recording, Record
  <2> QED
    BY <1>2, <2>1, <2>2, UpdateKeeps
<1>4. (\A j : Stored(j)' = Stored(j)) /\ Needed(lookups)' = Needed(lookups) /\ BaseOk'
  <2>1. \A l : Needed(l)' = Needed(l)
    BY <1>1, StoredSame
  <2>2. Needed(lookups)' = Needed(lookups)
    BY <1>1 DEF Needed, Stored, Found, SearchPath, SearchStops, NewState
  <2> QED
    BY <1>1, <2>2, StoredSame
<1>5. todo' \subseteq todo
  BY DEF Record
<1>6. Recording'
  BY <1>1, <1>3, <1>4, <1>5 DEF Recording, Pushed
<1> QED
  BY <1>1, <1>4, <1>6 DEF WInv, Witnessed

(* What a witness tells depends on the full state and the lookups alone. *)
LEMMA TellsSame ==
  ASSUME UNCHANGED <<hash, base, lookups>>, NEW K, Tells(witness', K, lookups)
  PROVE  Tells(witness, K, lookups)'
<1>1. Needed(lookups)' = Needed(lookups)
  BY DEF Needed, Stored, Found, SearchPath, SearchStops, NewState
<1>2. \A k : Stored(k)' = Stored(k)
  BY StoredSame
<1>3. SaltWitness(K, witness.fast)' = SaltWitness(K, witness'.fast)
  BY DEF SaltWitness, WitnessValue
<1>4. Points(witness.fast, K)' <=> Points(witness'.fast, K)
  BY DEF Points
<1> QED
  BY <1>1, <1>2, <1>3, <1>4 DEF Tells

(* The slots that Witness::create puts into the witness. *)
LEMMA AssembleStep ==
  ASSUME WInv, Assemble
  PROVE  WInv'
<1> DEFINE keys == chosen \cup Kept
           c == base.capacity
<1>1. /\ BaseOk /\ UNCHANGED <<hash, base, lookups>> /\ pc' = "send" /\ Recording
      /\ witness' = SaltWitness(keys, direct)
  BY DEF WInv, Assemble
<1>2. \A k \in DOMAIN direct : k \in PlainKeys /\ direct[k] \in 0 .. c - 1 /\ base.slots[direct[k]] # Empty /\ base.slots[direct[k]].key = k
  BY <1>1, StoredIs DEF Recording
<1>3. Pushed(direct) \subseteq 0 .. c - 1 /\ \A k \in DOMAIN direct : direct[k] \in keys
  BY <1>1, <1>2 DEF Pushed, Recording
<1>4. Kept \subseteq (0 .. c - 1) \cup {Meta}
  <2> SUFFICES ASSUME NEW key \in recorder.cached, key # Meta, recorder.capacity # c => key < c PROVE key \in 0 .. c - 1
    BY DEF Kept
  <2>1. key \in 0 .. recorder.capacity - 1 /\ recorder.capacity \in Nat
    BY <1>1, RecordedSlots DEF Recording, Recorded
  <2> QED
    BY <2>1, <1>1, BaseFacts
<1>5. keys \subseteq (0 .. c - 1) \cup {Meta}
  BY <1>1, <1>3, <1>4 DEF Recording
<1>6. Needed(lookups) \subseteq keys
  <2>1. Needed(lookups) \subseteq recorder.cached
    BY <1>1 DEF Recording, Recorded
  <2>2. Needed(lookups) \subseteq (0 .. c - 1) \cup {Meta}
    <3>1. \A k : SearchPath(NewState(base), k) \subseteq 0 .. c - 1
      BY SearchWithin, FreshState
    <3> QED
      BY <3>1 DEF Needed
  <2>3. c \in Nat
    BY <1>1, BaseFacts
  <2> QED
    BY <2>1, <2>2, <2>3 DEF Kept
<1>7. SaltWitness(keys, direct).fast = direct
  BY DEF SaltWitness, Reader
<1> HIDE DEF keys
<1>8. Tells(witness', keys, lookups)
  BY <1>1, <1>2, <1>3, <1>5, <1>6, <1>7 DEF Tells, Points, Recording
<1>9. keys \in SUBSET (SlotId \cup {Meta})
  BY <1>5, <1>1, BaseFacts
<1>10. PICK K \in SUBSET (SlotId \cup {Meta}) : Tells(witness', K, lookups)
  BY <1>8, <1>9
<1>11. Tells(witness, K, lookups)'
  BY <1>1, <1>10, TellsSame
<1>12. BaseOk' /\ lookups' \subseteq PlainKeys
  BY <1>1, StoredSame DEF Recording
<1> QED
  BY <1>1, <1>11, <1>12 DEF WInv

(* The lookup table that Witness::from rebuilds points to witnessed        *)
(* entries too, and has every key that was found.                          *)
LEMMA RebuiltTells ==
  ASSUME BaseOk, NEW w, NEW K, NEW l, Tells(w, K, l)
  PROVE  Tells([w EXCEPT !.fast = Rebuilt(w.slots)], K, l)
<1> DEFINE fast == Rebuilt(w.slots)
           v == [w EXCEPT !.fast = fast]
           entries == {s \in SlotId : IsEntry(w.slots[s])}
<1>1. fast = [k \in {w.slots[s].key : s \in entries} |-> CHOOSE s \in entries : w.slots[s].key = k]
  BY Zenon DEF Rebuilt
<1>2. \A s \in entries : s \in SlotId /\ s \in K /\ s \in 0 .. base.capacity - 1 /\ w.slots[s] = base.slots[s] /\ base.slots[s] # Empty /\ base.slots[s].key \in PlainKeys
  BY WitnessSlots, BaseFacts DEF IsEntry
<1>3. \A k \in DOMAIN fast : fast[k] \in entries /\ w.slots[fast[k]].key = k
  <2> HIDE DEF entries, fast
  <2> QED
    BY <1>1
<1>4. ASSUME NEW k \in l, Stored(k) # {} PROVE k \in DOMAIN fast
  <2>1. k \in DOMAIN w.fast
    BY <1>4 DEF Tells
  <2> DEFINE s == w.fast[k]
  <2>2. s \in K /\ s \in 0 .. base.capacity - 1 /\ base.slots[s] # Empty /\ base.slots[s].key = k
    BY <2>1 DEF Tells, Points
  <2>3. s \in entries /\ w.slots[s].key = k
    BY <2>2, WitnessSlots, BaseFacts DEF IsEntry
  <2> HIDE DEF entries, fast, s
  <2> QED
    BY <1>1, <2>3
<1>5. v = SaltWitness(K, fast) /\ v.fast = fast
  <2>1. w = SaltWitness(K, w.fast)
    BY DEF Tells
  <2> HIDE DEF fast
  <2> QED
    BY <2>1 DEF SaltWitness, Reader
<1>6. Points(fast, K)
  <2> HIDE DEF fast, entries
  <2> QED
    BY <1>2, <1>3 DEF Points
<1> HIDE DEF v, fast
<1>7. Tells(v, K, l)
  BY <1>4, <1>5, <1>6 DEF Tells
<1> QED
  BY <1>7 DEF v, fast

(* Witness::from, or the witness as created. *)
LEMMA ReceiveStep ==
  ASSUME WInv, NEW fast \in {witness.fast, Rebuilt(witness.slots)}, Receive(fast)
  PROVE  WInv'
<1>1. /\ BaseOk /\ UNCHANGED <<hash, base, lookups>> /\ pc' = "replay" /\ witness' = [witness EXCEPT !.fast = fast]
      /\ lookups \subseteq PlainKeys
  BY DEF WInv, Receive, Witnessed
<1>2. PICK K \in SUBSET (SlotId \cup {Meta}) : Tells(witness, K, lookups)
  BY DEF WInv, Receive, Witnessed
<1>3. Tells(witness', K, lookups)
  <2>1. CASE fast = witness.fast
    <3>1. witness = SaltWitness(K, witness.fast)
      BY <1>2 DEF Tells
    <3>2. witness' = witness
      BY <1>1, <2>1, <3>1 DEF SaltWitness, Reader
    <3> QED
      BY <3>2, <1>2
  <2>2. CASE fast = Rebuilt(witness.slots)
    BY <1>1, <1>2, <2>2, RebuiltTells
  <2> QED
    BY <2>1, <2>2
<1>4. Tells(witness, K, lookups)'
  BY <1>1, <1>3, TellsSame
<1>5. BaseOk'
  BY <1>1, StoredSame
<1> QED
  BY <1>1, <1>4, <1>5 DEF WInv

(* The replay does not change the witness. *)
LEMMA OtherStep ==
  ASSUME WInv, (\E k \in PlainKeys : Replay(k)) \/ Finish
  PROVE  WInv'
<1>1. /\ BaseOk /\ UNCHANGED <<hash, base, lookups, witness>> /\ pc' \in {"replay", "done"}
      /\ lookups \subseteq PlainKeys /\ Witnessed
  BY DEF WInv, Replay, Finish, Witnessed
<1>2. PICK K \in SUBSET (SlotId \cup {Meta}) : Tells(witness, K, lookups)
  BY <1>1 DEF WInv
<1>3. Tells(witness', K, lookups)
  BY <1>1, <1>2
<1>4. Tells(witness, K, lookups)'
  BY <1>1, <1>3, TellsSame
<1>5. BaseOk'
  BY <1>1, StoredSame
<1> QED
  BY <1>1, <1>4, <1>5 DEF WInv

(* Nothing changes. *)
LEMMA StutterStep ==
  ASSUME WInv, UNCHANGED vars
  PROVE  WInv'
<1>1. /\ BaseOk /\ UNCHANGED <<hash, base, lookups, updates, pc, todo, direct, chosen, recorder, witness>>
  BY DEF WInv, vars
<1>2. BaseOk'
  BY <1>1, StoredSame
<1>3. (pc = "idle")' => (recorder = NewState(base))'
  BY <1>1, StoredSame DEF WInv
<1>4. Needed(lookups)' = Needed(lookups) /\ \A k : Stored(k)' = Stored(k)
  BY <1>1, StoredSame DEF Needed, Stored, Found, SearchPath, SearchStops, NewState
<1>5. (pc = "record")' => Recording'
  BY <1>1, <1>4 DEF WInv, Recording, Pushed
<1>6. ASSUME Witnessed PROVE lookups' \subseteq PlainKeys /\ \E K \in SUBSET (SlotId \cup {Meta}) : Tells(witness, K, lookups)'
  <2>1. PICK K \in SUBSET (SlotId \cup {Meta}) : Tells(witness, K, lookups)
    BY <1>6 DEF WInv
  <2>2. Tells(witness', K, lookups)
    BY <1>1, <2>1
  <2>3. Tells(witness, K, lookups)'
    BY <1>1, <2>2, TellsSame
  <2> QED
    BY <1>1, <1>6, <2>3 DEF WInv
<1> QED
  BY <1>1, <1>2, <1>3, <1>5, <1>6 DEF WInv, Witnessed

(* Every step keeps WInv. *)
LEMMA StepInv == WInv /\ [Next]_vars => WInv'
<1> SUFFICES ASSUME WInv, [Next]_vars PROVE WInv'
  OBVIOUS
<1>1. CASE \E b \in SUBSET {Meta}, l \in SUBSET PlainKeys, u \in Batches : Create(b, l, u)
  BY <1>1, CreateStep
<1>2. CASE \E k \in PlainKeys : Record(k)
  BY <1>2, RecordStep
<1>3. CASE Assemble
  BY <1>3, AssembleStep
<1>4. CASE \E fast \in {witness.fast, Rebuilt(witness.slots)} : Receive(fast)
  BY <1>4, ReceiveStep
<1>5. CASE (\E k \in PlainKeys : Replay(k)) \/ Finish
  BY <1>5, OtherStep
<1>6. CASE UNCHANGED vars
  BY <1>6, StutterStep
<1> QED
  BY <1>1, <1>2, <1>3, <1>4, <1>5, <1>6 DEF Next

(* WInv says enough for both properties. *)
LEMMA InvSuffices == WInv => LookupsRight /\ WitnessAccepted
<1> SUFFICES ASSUME WInv, Witnessed
             PROVE  /\ \A k \in PlainKeys : Find(witness, k) \in {Find(base, k)} \cup (IF k \in lookups THEN {} ELSE {Unknown})
                    /\ \A s \in SlotId : witness.slots[s] # Unknown => s < base.capacity
                    /\ \A k \in DOMAIN witness.fast : DirectFind(witness, NewState(witness), k) = {witness.fast[k]}
  BY Zenon DEF LookupsRight, WitnessAccepted
<1>1. BaseOk
  BY DEF WInv
<1>2. PICK K \in SUBSET (SlotId \cup {Meta}) : Tells(witness, K, lookups)
  BY DEF WInv
<1>3. \A k \in PlainKeys : Find(witness, k) \in {Find(base, k)} \cup (IF k \in lookups THEN {} ELSE {Unknown})
  BY <1>1, <1>2, WitnessFind
<1>4. ASSUME NEW s \in SlotId, witness.slots[s] # Unknown PROVE s < base.capacity
  <2>1. s \in 0 .. base.capacity - 1 /\ base.capacity \in Nat
    BY <1>1, <1>2, <1>4, WitnessSlots, BaseFacts
  <2> QED
    BY <2>1
<1>5. \A k \in DOMAIN witness.fast : DirectFind(witness, NewState(witness), k) = {witness.fast[k]}
  BY <1>1, <1>2, DirectFound
<1> QED
  BY <1>3, <1>4, <1>5

(* A validator with the witness alone answers every lookup of the block as *)
(* the full state does (plain_value of Witness, salt/src/proof/witness.rs),*)
(* for the keys that are not stored too, and what the witness leaves out   *)
(* is an error, never an absence: for any keys, hashes, capacities and any *)
(* updates that the recorder ran in between.                               *)
THEOREM LookupsAreRight == Spec => []LookupsRight
BY InitInv, StepInv, InvSuffices, PTL DEF Spec

(* No slot beyond the capacity that the bucket had is in the witness,      *)
(* although the recorder may have expanded the bucket, and every key of    *)
(* the lookup table, as created or as rebuilt, is at the slot that the     *)
(* table names: what SaltProof::create and Witness::verify check.          *)
THEOREM WitnessIsAccepted == Spec => []WitnessAccepted
BY InitInv, StepInv, InvSuffices, PTL DEF Spec
===============================================================================
