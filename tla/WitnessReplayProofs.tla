-------------------------- MODULE WitnessReplayProofs --------------------------
(***************************************************************************)
(* Proofs about Witness: that a block can be run on the witness alone, and *)
(* that it ends as on the full state, for every set of keys, hash function,*)
(* capacity, load factor and block.                                        *)
(*                                                                         *)
(* Three sessions run the same calls: the recorder of Witness::create,     *)
(* which skips the updates in place; the session over the full state; and  *)
(* the validator's, over the witness.  The first two are twins, which      *)
(* differ in values only (Twin), and no operation looks at a value; so     *)
(* what the recorder read is what the session over the full state reads.   *)
(* The third sees the second through what the recorder read (View).        *)
(***************************************************************************)
EXTENDS WitnessProofs

-------------------------------------------------------------------------------
(* Sessions over a witness *)

(* A session over a store that may lack slots or metadata *)
Partial ==
  [slots : [SlotId -> Entry \cup {Empty, Unknown}], capacity : (1 .. MaxCapacity) \cup {Unknown},
   cached : SUBSET (SlotId \cup {Meta}), delta : Int,
   rehashed : BOOLEAN, hand : Entry \cup {Empty}, gap : SlotId \cup {NoSlot}, failed : BOOLEAN]

(* A session over the full state is one. *)
LEMMA SessionPartial == Session \subseteq Partial
BY DEF Session, Partial, Tables

(* What a slot adds to the count of bucket_used_slots_delta. *)
One(v) == IF IsEntry(v) THEN 1 ELSE 0

(* An entry adds one. *)
LEMMA OneValue ==
  /\ One(Empty) = 0
  /\ \A e \in Entry : One(e) = 1 /\ e # Unknown
BY WitnessAssumption, EmptyAssumption DEF One, IsEntry

(* The fields of a session after update_value *)
LEMMA PutFields ==
  ASSUME NEW S \in Partial, NEW s \in SlotId, NEW e \in Entry \cup {Empty}
  PROVE  LET U == Put(S, s, e)
         IN  /\ U \in Partial /\ U.slots = [S.slots EXCEPT ![s] = e] /\ U.delta = S.delta + (One(e) - One(S.slots[s]))
             /\ U.capacity = S.capacity /\ U.rehashed = S.rehashed /\ U.hand = S.hand /\ U.gap = S.gap /\ U.failed = S.failed
             /\ S.cached \subseteq U.cached
<1> DEFINE d == S.delta + (One(e) - One(S.slots[s]))
           T == [S.slots EXCEPT ![s] = e]
           q == IF S.slots[s] = e THEN S.cached ELSE S.cached \cup {s}
<1>1. d \in Int /\ q \subseteq SlotId \cup {Meta} /\ S.cached \subseteq q
  BY DEF Partial, One
<1>2. T \in [SlotId -> Entry \cup {Empty, Unknown}]
  <2>1. S.slots \in [SlotId -> Entry \cup {Empty, Unknown}]
    BY DEF Partial
  <2> QED
    BY <2>1
<1>3. Put(S, s, e) = [S EXCEPT !.slots = T, !.cached = q, !.delta = d]
  BY DEF Put, Partial, One
<1> HIDE DEF d, T, q
<1>4. LET U == Put(S, s, e)
      IN  /\ U \in Partial /\ U.slots = T /\ U.delta = d
          /\ U.capacity = S.capacity /\ U.rehashed = S.rehashed /\ U.hand = S.hand /\ U.gap = S.gap /\ U.failed = S.failed
          /\ U.cached = q
  BY <1>1, <1>2, <1>3 DEF Partial
<1> QED
  BY <1>1, <1>4 DEF T, d

(* and after reads that succeed. *)
LEMMA ReadFields ==
  ASSUME NEW S \in Partial, NEW R, R \subseteq SlotId, \A s \in R : S.slots[s] # Unknown
  PROVE  LET U == ReadSlots(S, R)
         IN  /\ U \in Partial /\ ~ U.failed /\ U.cached = S.cached \cup R /\ U.slots = S.slots /\ U.delta = S.delta
             /\ U.capacity = S.capacity /\ U.rehashed = S.rehashed /\ U.hand = S.hand /\ U.gap = S.gap
<1> DEFINE q == S.cached \cup R
<1>1. (\E s \in R : S.slots[s] = Unknown) = FALSE
  OBVIOUS
<1>2. ReadSlots(S, R) = [S EXCEPT !.cached = q, !.failed = FALSE]
  BY <1>1 DEF ReadSlots
<1>3. q \subseteq SlotId \cup {Meta}
  BY DEF Partial
<1> HIDE DEF q
<1> QED
  BY <1>2, <1>3 DEF Partial, q

(* The metadata, *)
LEMMA MetaFields ==
  ASSUME NEW S \in Partial, S.capacity # Unknown
  PROVE  LET U == ReadMeta(S)
         IN  /\ U \in Partial /\ ~ U.failed /\ U.cached = S.cached \cup {Meta} /\ U.slots = S.slots /\ U.delta = S.delta
             /\ U.capacity = S.capacity /\ U.rehashed = S.rehashed /\ U.hand = S.hand /\ U.gap = S.gap
<1>1. (S.capacity = Unknown) = FALSE
  OBVIOUS
<1>2. ReadMeta(S) = [S EXCEPT !.cached = @ \cup {Meta}, !.failed = FALSE]
  BY <1>1 DEF ReadMeta
<1> QED
  BY <1>2 DEF Partial

(* the entry in hand *)
LEMMA HandFields ==
  ASSUME NEW S \in Partial, NEW e \in Entry \cup {Empty}
  PROVE  LET U == [S EXCEPT !.hand = e]
         IN  /\ U \in Partial /\ U.failed = S.failed /\ U.cached = S.cached /\ U.slots = S.slots /\ U.delta = S.delta
             /\ U.capacity = S.capacity /\ U.rehashed = S.rehashed /\ U.hand = e /\ U.gap = S.gap
BY DEF Partial

(* and the gap. *)
LEMMA GapFields ==
  ASSUME NEW S \in Partial, NEW g \in SlotId \cup {NoSlot}
  PROVE  LET U == [S EXCEPT !.gap = g]
         IN  /\ U \in Partial /\ U.failed = S.failed /\ U.cached = S.cached /\ U.slots = S.slots /\ U.delta = S.delta
             /\ U.capacity = S.capacity /\ U.rehashed = S.rehashed /\ U.hand = S.hand /\ U.gap = g
BY DEF Partial

(* One probe of a known slot *)
LEMMA ProbeFields ==
  ASSUME NEW S \in Partial, ~ S.failed, S.hand # Empty, NEW s \in SlotId, S.slots[s] # Unknown
  PROVE  LET U == ProbeStep(S, s)
             old == S.slots[s]
             stays == old # Empty /\ old.key # S.hand.key /\ ~ (old.key < S.hand.key)
         IN  /\ U \in Partial /\ ~ U.failed /\ U.capacity = S.capacity /\ U.gap = S.gap /\ U.rehashed = S.rehashed
             /\ S.cached \cup {s} \subseteq U.cached
             /\ U.slots = IF stays THEN S.slots ELSE [S.slots EXCEPT ![s] = S.hand]
             /\ U.hand = IF stays THEN S.hand ELSE IF old = Empty \/ old.key = S.hand.key THEN Empty ELSE old
             /\ U.delta = IF old = Empty THEN S.delta + 1 ELSE S.delta
<1> DEFINE R == ReadSlots(S, {s})
           old == S.slots[s]
           V == Put(R, s, S.hand)
           U == ProbeStep(S, s)
           stays == old # Empty /\ old.key # S.hand.key /\ ~ (old.key < S.hand.key)
<1>1. S.hand \in Entry /\ old \in Entry \cup {Empty} /\ S.delta \in Int
  BY DEF Partial
<1>2. /\ R \in Partial /\ ~ R.failed /\ R.cached = S.cached \cup {s} /\ R.slots = S.slots /\ R.delta = S.delta
      /\ R.capacity = S.capacity /\ R.rehashed = S.rehashed /\ R.hand = S.hand /\ R.gap = S.gap
  BY ReadFields
<1> HIDE DEF R
<1>3. /\ V \in Partial /\ V.slots = [S.slots EXCEPT ![s] = S.hand] /\ V.delta = S.delta + (One(S.hand) - One(old))
      /\ V.capacity = S.capacity /\ V.rehashed = S.rehashed /\ V.gap = S.gap /\ ~ V.failed
      /\ S.cached \cup {s} \subseteq V.cached
  BY <1>1, <1>2, PutFields
<1>4. V.delta = IF old = Empty THEN S.delta + 1 ELSE S.delta
  BY <1>1, <1>3, OneValue
<1> HIDE DEF V
<1>5. U = IF old = Empty THEN [V EXCEPT !.hand = Empty]
          ELSE IF old.key = S.hand.key THEN [V EXCEPT !.hand = Empty]
          ELSE IF old.key < S.hand.key THEN [V EXCEPT !.hand = old] ELSE R
  BY <1>2, Zenon DEF ProbeStep, R, V
<1> HIDE DEF U
<1>6. CASE stays
  <2>1. U = R
    BY <1>5, <1>6
  <2> QED
    BY <2>1, <1>2, <1>6 DEF U
<1>7. CASE ~ stays
  <2> DEFINE e == IF old = Empty \/ old.key = S.hand.key THEN Empty ELSE old
  <2>1. U = [V EXCEPT !.hand = e] /\ e \in Entry \cup {Empty}
    BY <1>1, <1>5, <1>7
  <2> HIDE DEF e
  <2>2. /\ U \in Partial /\ U.failed = V.failed /\ U.cached = V.cached /\ U.slots = V.slots /\ U.delta = V.delta
        /\ U.capacity = V.capacity /\ U.rehashed = V.rehashed /\ U.hand = e /\ U.gap = V.gap
    BY <2>1, <1>3, HandFields
  <2> QED
    BY <2>2, <1>3, <1>4, <1>7 DEF U, e
<1> QED
  BY <1>6, <1>7

(* The slots that shi_next reads. *)
Path(S) == Visited(S.gap, S.capacity, NextStops(S)) \ {S.gap}
(* The entry that shi_next names, if any. *)
Nexts(S) == {s \in Path(S) \cap NextStops(S) : S.slots[s] # Empty}

(* One iteration of the compaction, with all the slots that it reads       *)
(* known.                                                                  *)
LEMMA CompactFields ==
  ASSUME NEW S \in Partial, ~ S.failed, S.capacity \in 1 .. MaxCapacity, S.gap \in SlotId, S.slots[S.gap] \in Entry,
         \A s \in Path(S) : S.slots[s] # Unknown
  PROVE  LET U == CompactStep(S)
             from == CHOOSE s \in Nexts(S) : TRUE
         IN  /\ U \in Partial /\ ~ U.failed /\ U.capacity = S.capacity /\ U.hand = S.hand /\ U.rehashed = S.rehashed
             /\ S.cached \cup Path(S) \subseteq U.cached
             /\ U.gap = IF Nexts(S) = {} THEN NoSlot ELSE from
             /\ U.slots = [S.slots EXCEPT ![S.gap] = IF Nexts(S) = {} THEN Empty ELSE S.slots[from]]
             /\ U.delta = IF Nexts(S) = {} THEN S.delta - 1 ELSE S.delta
             /\ Nexts(S) # {} => from \in Path(S) /\ S.slots[from] \in Entry
<1> DEFINE R == ReadSlots(S, Path(S))
           from == CHOOSE s \in Nexts(S) : TRUE
           g == S.gap
           e == IF Nexts(S) = {} THEN Empty ELSE S.slots[from]
           h == IF Nexts(S) = {} THEN NoSlot ELSE from
           V == Put(R, g, e)
           U == CompactStep(S)
<1>1. Path(S) \subseteq SlotId
  BY CapacityAssumption DEF Path, Visited, SlotId
<1>2. /\ R \in Partial /\ ~ R.failed /\ R.cached = S.cached \cup Path(S) /\ R.slots = S.slots /\ R.delta = S.delta
      /\ R.capacity = S.capacity /\ R.rehashed = S.rehashed /\ R.hand = S.hand /\ R.gap = S.gap
  BY <1>1, ReadFields
<1>3. Nexts(S) # {} => from \in Path(S) /\ S.slots[from] \in Entry /\ from \in SlotId
  <2> SUFFICES ASSUME Nexts(S) # {} PROVE from \in Path(S) /\ S.slots[from] \in Entry /\ from \in SlotId
    OBVIOUS
  <2>1. from \in Nexts(S)
    OBVIOUS
  <2> HIDE DEF from
  <2>2. from \in Path(S) /\ S.slots[from] # Empty
    BY <2>1 DEF Nexts
  <2> QED
    BY <2>2, <1>1 DEF Partial
<1>4. e \in Entry \cup {Empty} /\ h \in SlotId \cup {NoSlot}
  BY <1>3
<1>5. U = [V EXCEPT !.gap = h]
  <2>1. S.gap # NoSlot
    BY CapacityAssumption DEF SlotId, NoSlot
  <2>2. U = IF Nexts(S) = {} THEN [Put(R, g, Empty) EXCEPT !.gap = NoSlot] ELSE [Put(R, g, S.slots[from]) EXCEPT !.gap = from]
    BY <1>2, <2>1, Zenon DEF CompactStep, Path, Nexts
  <2> HIDE DEF from, U, R
  <2> QED
    BY <2>2
<1> HIDE DEF R
<1>6. /\ V \in Partial /\ V.slots = [S.slots EXCEPT ![g] = e] /\ V.delta = S.delta + (One(e) - One(S.slots[g]))
      /\ V.capacity = S.capacity /\ V.rehashed = S.rehashed /\ V.hand = S.hand /\ ~ V.failed
      /\ S.cached \cup Path(S) \subseteq V.cached
  <2> HIDE DEF e
  <2> QED
    BY <1>2, <1>4, PutFields
<1>7. V.delta = IF Nexts(S) = {} THEN S.delta - 1 ELSE S.delta
  <2>1. One(S.slots[g]) = 1 /\ One(e) = (IF Nexts(S) = {} THEN 0 ELSE 1) /\ S.delta \in Int
    BY <1>3, OneValue DEF Partial
  <2> HIDE DEF e, V
  <2> QED
    BY <2>1, <1>6
<1> HIDE DEF V
<1>8. /\ U \in Partial /\ U.failed = V.failed /\ U.cached = V.cached /\ U.slots = V.slots /\ U.delta = V.delta
      /\ U.capacity = V.capacity /\ U.rehashed = V.rehashed /\ U.hand = V.hand /\ U.gap = h
  <2> HIDE DEF h, U
  <2> QED
    BY <1>4, <1>5, <1>6, GapFields
<1> HIDE DEF U
<1> QED
  BY <1>3, <1>6, <1>7, <1>8 DEF U

-------------------------------------------------------------------------------
(* Three sessions *)

(* Up to its value the same *)
Alike(u, v) == (u = Empty <=> v = Empty) /\ (u # Empty => u.key = v.key)

(* Two sessions over the full state that differ in values only *)
Twin(A, F) ==
  /\ A \in Session /\ F \in Session /\ ~ A.failed /\ ~ F.failed
  /\ A.capacity = F.capacity /\ A.gap = F.gap /\ A.delta = F.delta /\ A.rehashed = F.rehashed
  /\ Alike(A.hand, F.hand)
  /\ \A s \in SlotId : Alike(A.slots[s], F.slots[s])

(* P is the session F as a validator sees it who knows K: what it does not *)
(* know is as it was before the block.                                     *)
View(K, F, P) ==
  /\ P \in Partial /\ F \in Session /\ ~ P.failed /\ ~ F.failed
  /\ P.gap = F.gap /\ P.delta = F.delta /\ P.rehashed = F.rehashed /\ P.hand = F.hand
  /\ \A s \in SlotId : \/ P.slots[s] = F.slots[s]
                       \/ P.slots[s] = Unknown /\ F.slots[s] = base.slots[s] /\ (s < F.capacity => s \notin K)
  /\ \/ P.capacity = F.capacity
     \/ P.capacity = Unknown /\ F.capacity = base.capacity /\ Meta \notin K
  /\ P.gap # NoSlot => P.slots[P.gap] # Unknown

(* Nothing of a session over the full state is unknown. *)
LEMMA KnownFacts ==
  ASSUME NEW F \in Session
  PROVE  /\ F.capacity \in 1 .. MaxCapacity /\ F.capacity \in Nat \ {0} /\ F.slots \in Tables
         /\ \A s \in 0 .. F.capacity - 1 : s \in SlotId /\ s < F.capacity
         /\ \A s \in SlotId : F.slots[s] \in Entry \cup {Empty} /\ F.slots[s] # Unknown
         /\ F.capacity # Unknown /\ Unknown \notin Entry \cup {Empty}
BY CapacityAssumption, WitnessAssumption DEF Session, SlotId, Tables

(* One probe does not look at the values. *)
LEMMA TwinProbe ==
  ASSUME NEW A, NEW F, Twin(A, F), NEW s \in 0 .. A.capacity - 1
  PROVE  Twin(ProbeStep(A, s), ProbeStep(F, s))
<1>0. /\ A \in Session /\ F \in Session /\ ~ A.failed /\ ~ F.failed /\ s \in SlotId /\ s \in 0 .. F.capacity - 1
      /\ A.slots[s] \in Entry \cup {Empty} /\ A.slots[s] # Unknown /\ F.slots[s] \in Entry \cup {Empty} /\ F.slots[s] # Unknown
      /\ A.slots \in Tables /\ F.slots \in Tables /\ A \in Partial /\ F \in Partial
      /\ A.hand \in Entry \cup {Empty} /\ F.hand \in Entry \cup {Empty}
      /\ (A.hand = Empty <=> F.hand = Empty)
  BY KnownFacts, SessionPartial DEF Twin, Session, Alike
<1>1. CASE A.hand = Empty
  <2>1. ProbeStep(A, s) = A /\ ProbeStep(F, s) = F
    BY <1>0, <1>1 DEF ProbeStep
  <2> QED
    BY <2>1
<1>2. CASE A.hand # Empty
  <2> DEFINE stays(S) == S.slots[s] # Empty /\ S.slots[s].key # S.hand.key /\ ~ (S.slots[s].key < S.hand.key)
             U == ProbeStep(A, s)
             V == ProbeStep(F, s)
  <2>1. stays(A) <=> stays(F)
    BY <1>0, <1>2 DEF Twin, Alike
  <2>2. U \in Session /\ V \in Session
    BY <1>0, <1>2, ProbeCases
  <2>3. /\ ~ U.failed /\ U.capacity = A.capacity /\ U.gap = A.gap /\ U.rehashed = A.rehashed
        /\ U.slots = IF stays(A) THEN A.slots ELSE [A.slots EXCEPT ![s] = A.hand]
        /\ U.hand = IF stays(A) THEN A.hand ELSE IF A.slots[s] = Empty \/ A.slots[s].key = A.hand.key THEN Empty ELSE A.slots[s]
        /\ U.delta = IF A.slots[s] = Empty THEN A.delta + 1 ELSE A.delta
    BY <1>0, <1>2, ProbeFields
  <2>4. /\ ~ V.failed /\ V.capacity = F.capacity /\ V.gap = F.gap /\ V.rehashed = F.rehashed
        /\ V.slots = IF stays(F) THEN F.slots ELSE [F.slots EXCEPT ![s] = F.hand]
        /\ V.hand = IF stays(F) THEN F.hand ELSE IF F.slots[s] = Empty \/ F.slots[s].key = F.hand.key THEN Empty ELSE F.slots[s]
        /\ V.delta = IF F.slots[s] = Empty THEN F.delta + 1 ELSE F.delta
    BY <1>0, <1>2, ProbeFields
  <2> HIDE DEF U, V
  <2>5. Alike(A.slots[s], F.slots[s]) /\ Alike(A.hand, F.hand) /\ A.delta = F.delta
    BY <1>0 DEF Twin
  <2>6. Alike(U.hand, V.hand) /\ U.delta = V.delta
    BY <2>1, <2>3, <2>4, <2>5 DEF Alike
  <2>7. ASSUME NEW t \in SlotId PROVE Alike(U.slots[t], V.slots[t])
    <3>1. Alike(A.slots[t], F.slots[t])
      BY DEF Twin
    <3>2. CASE stays(A)
      BY <3>1, <3>2, <2>1, <2>3, <2>4
    <3>3. CASE ~ stays(A)
      <4>1. U.slots[t] = (IF t = s THEN A.hand ELSE A.slots[t]) /\ V.slots[t] = (IF t = s THEN F.hand ELSE F.slots[t])
        BY <3>3, <2>1, <2>3, <2>4, <1>0 DEF Tables
      <4> QED
        BY <4>1, <3>1, <2>5
    <3> QED
      BY <3>2, <3>3
  <2>8. A.capacity = F.capacity /\ A.gap = F.gap /\ A.rehashed = F.rehashed
    BY DEF Twin
  <2>9. Twin(U, V)
    BY <2>2, <2>3, <2>4, <2>6, <2>7, <2>8 DEF Twin
  <2> QED
    BY <2>9 DEF U, V
<1> QED
  BY <1>1, <1>2

(* One probe over the witness, of a slot that is known because the         *)
(* recorder read it.                                                       *)
LEMMA ViewProbe ==
  ASSUME NEW K, NEW F, NEW P, View(K, F, P), NEW s \in 0 .. F.capacity - 1, F.hand # Empty => s \in K
  PROVE  View(K, ProbeStep(F, s), ProbeStep(P, s)) /\ ProbeStep(F, s).capacity = F.capacity /\ ProbeStep(P, s).capacity = P.capacity
<1>0. /\ F \in Session /\ P \in Partial /\ ~ P.failed /\ ~ F.failed /\ s \in SlotId /\ s < F.capacity /\ F \in Partial
      /\ F.slots[s] \in Entry \cup {Empty} /\ F.slots[s] # Unknown /\ F.slots \in Tables /\ P.hand = F.hand
      /\ P.slots \in [SlotId -> Entry \cup {Empty, Unknown}]
  BY KnownFacts, SessionPartial DEF View, Partial
<1>1. CASE F.hand = Empty
  <2>1. ProbeStep(F, s) = F /\ ProbeStep(P, s) = P
    BY <1>0, <1>1 DEF ProbeStep
  <2> QED
    BY <2>1
<1>2. CASE F.hand # Empty
  <2> DEFINE stays == F.slots[s] # Empty /\ F.slots[s].key # F.hand.key /\ ~ (F.slots[s].key < F.hand.key)
             U == ProbeStep(F, s)
             V == ProbeStep(P, s)
             h == IF stays THEN F.hand ELSE IF F.slots[s] = Empty \/ F.slots[s].key = F.hand.key THEN Empty ELSE F.slots[s]
             d == IF F.slots[s] = Empty THEN F.delta + 1 ELSE F.delta
  <2>1. P.slots[s] = F.slots[s] /\ P.delta = F.delta /\ P.gap = F.gap /\ P.rehashed = F.rehashed
    BY <1>0, <1>2 DEF View
  <2>2. U \in Session
    BY <1>0, <1>2, ProbeCases
  <2>3. /\ ~ U.failed /\ U.capacity = F.capacity /\ U.gap = F.gap /\ U.rehashed = F.rehashed
        /\ U.slots = IF stays THEN F.slots ELSE [F.slots EXCEPT ![s] = F.hand]
        /\ U.hand = h /\ U.delta = d
    BY <1>0, <1>2, ProbeFields
  <2>4. /\ V \in Partial /\ ~ V.failed /\ V.capacity = P.capacity /\ V.gap = F.gap /\ V.rehashed = F.rehashed
        /\ V.slots = IF stays THEN P.slots ELSE [P.slots EXCEPT ![s] = F.hand]
        /\ V.hand = h /\ V.delta = d
    <3>1. P.slots[s] # Unknown /\ P.hand # Empty
      BY <1>0, <1>2, <2>1
    <3> QED
      BY <1>0, <3>1, <2>1, ProbeFields
  <2> HIDE DEF U, V, h, d
  <2>5. ASSUME NEW t \in SlotId
        PROVE  /\ \/ V.slots[t] = U.slots[t]
                  \/ V.slots[t] = Unknown /\ U.slots[t] = base.slots[t] /\ (t < F.capacity => t \notin K)
               /\ V.slots[t] = Unknown => P.slots[t] = Unknown
    <3>1. \/ P.slots[t] = F.slots[t]
          \/ P.slots[t] = Unknown /\ F.slots[t] = base.slots[t] /\ (t < F.capacity => t \notin K)
      BY DEF View
    <3>2. CASE stays
      BY <3>1, <3>2, <2>3, <2>4
    <3>3. CASE ~ stays
      <4>1. U.slots[t] = (IF t = s THEN F.hand ELSE F.slots[t]) /\ V.slots[t] = (IF t = s THEN F.hand ELSE P.slots[t])
        BY <3>3, <2>3, <2>4, <1>0 DEF Tables
      <4>2. F.hand # Unknown
        BY <1>0, KnownFacts DEF Session
      <4> QED
        BY <4>1, <4>2, <3>1
    <3> QED
      BY <3>2, <3>3
  <2>6. \/ P.capacity = F.capacity
        \/ P.capacity = Unknown /\ F.capacity = base.capacity /\ Meta \notin K
    BY DEF View
  <2>7. P.gap # NoSlot => P.slots[P.gap] # Unknown /\ P.gap \in SlotId
    BY <1>0 DEF View, Partial
  <2>8. View(K, U, V)
    BY <2>1, <2>2, <2>3, <2>4, <2>5, <2>6, <2>7 DEF View
  <2> QED
    BY <2>3, <2>4, <2>8 DEF U, V
<1> QED
  BY <1>1, <1>2

(* One probe over the full state caches the slot, unless the loop has      *)
(* returned.                                                               *)
LEMMA ProbeSession ==
  ASSUME NEW S \in Session, ~ S.failed, NEW s \in 0 .. S.capacity - 1
  PROVE  LET U == ProbeStep(S, s)
         IN  U \in Session /\ ~ U.failed /\ U.capacity = S.capacity /\ S.cached \subseteq U.cached /\ (S.hand # Empty => s \in U.cached)
<1>1. CASE S.hand = Empty
  BY <1>1 DEF ProbeStep
<1>2. CASE S.hand # Empty
  BY <1>2, ProbeCases DEF Same
<1> QED
  BY <1>1, <1>2

(* The loop of shi_upsert over the full state, with and without the        *)
(* updates in place, and over the witness.                                 *)
LEMMA ThreeProbed ==
  ASSUME hash \in [PlainKeys -> Nat], NEW k \in PlainKeys, NEW K, NEW A, NEW F, NEW P,
         Twin(A, F), View(K, F, P), P.capacity = F.capacity, Probed(A, k).cached \subseteq K
  PROVE  /\ Twin(Probed(A, k), Probed(F, k)) /\ View(K, Probed(F, k), Probed(P, k))
         /\ Probed(P, k).capacity = F.capacity /\ Probed(F, k).capacity = F.capacity
<1> DEFINE c == F.capacity
           p(i) == probe(hash[k], i - 1, c)
           X == [i \in 0 .. c |-> {T \in Session : ~ T.failed /\ T.capacity = c}]
<1>1. c \in Nat \ {0} /\ A.capacity = c /\ P.capacity = c /\ A \in Session /\ F \in Session /\ P \in Partial /\ ~ A.failed
  BY KnownFacts DEF Twin, View
<1>2. \A i \in 1 .. c : p(i) \in 0 .. c - 1 /\ i \in 0 .. c /\ i - 1 \in 0 .. c
  <2> SUFFICES ASSUME NEW i \in 1 .. c PROVE p(i) \in 0 .. c - 1 /\ i \in 0 .. c /\ i - 1 \in 0 .. c
    OBVIOUS
  <2>1. i - 1 \in 0 .. c - 1 /\ hash[k] \in Nat /\ i \in 0 .. c /\ i - 1 \in 0 .. c
    BY <1>1
  <2> QED
    BY <2>1, <1>1, ProbeValue
<1>3. 0 \in 0 .. c /\ c \in 0 .. c /\ c \in Nat
  BY <1>1
<1> HIDE DEF c
<1> USE DEF p
<1>4. PICK f : ProbeRun(f, A, k) /\ Stays(f, c, X)
  <2>1. A \in X[0] /\ \A i \in 1 .. c : \A x \in X[i - 1] : ProbeStep(x, p(i)) \in X[i]
    BY <1>1, <1>2, <1>3, ProbeSession
  <2> HIDE DEF X
  <2> QED
    BY <1>1, <1>3, <2>1, ProbedRun
<1>5. /\ f[0] = A /\ Probed(A, k) = f[c]
      /\ \A i \in 0 .. c : f[i] \in Session /\ ~ f[i].failed /\ f[i].capacity = c
      /\ \A i \in 1 .. c : f[i] = ProbeStep(f[i - 1], p(i))
  BY <1>1, <1>4 DEF ProbeRun, Stays
<1>6. \A i \in 1 .. c : f[i - 1].cached \subseteq f[i].cached /\ (f[i - 1].hand # Empty => p(i) \in f[i].cached)
  <2> SUFFICES ASSUME NEW i \in 1 .. c PROVE f[i - 1].cached \subseteq f[i].cached /\ (f[i - 1].hand # Empty => p(i) \in f[i].cached)
    OBVIOUS
  <2>1. f[i - 1] \in Session /\ ~ f[i - 1].failed /\ f[i - 1].capacity = c /\ f[i] = ProbeStep(f[i - 1], p(i)) /\ p(i) \in 0 .. c - 1
    BY <1>2, <1>5
  <2> HIDE DEF p
  <2> QED
    BY <2>1, ProbeSession
<1>7. \A i \in 0 .. c : f[i].cached \subseteq K
  <2> DEFINE g == [i \in 0 .. c |-> f[i].cached]
  <2>1. \A i \in 1 .. c : g[i - 1] \subseteq g[i]
    BY <1>2, <1>6
  <2>2. \A i \in 0 .. c : g[i] \subseteq g[c]
    <3> HIDE DEF g
    <3> QED
      BY <1>3, <2>1, Climbs
  <2>3. g[c] \subseteq K
    BY <1>3, <1>5
  <2>4. \A i \in 0 .. c : g[i] = f[i].cached
    OBVIOUS
  <2> HIDE DEF g
  <2> QED
    BY <2>2, <2>3, <2>4
<1> DEFINE Y == [i \in 0 .. c |-> {T \in Session : Twin(f[i], T)}]
<1>8. PICK g : ProbeRun(g, F, k) /\ Stays(g, c, Y)
  <2>1. F \in Y[0] /\ \A i \in 1 .. c : \A x \in Y[i - 1] : ProbeStep(x, p(i)) \in Y[i]
    <3>1. F \in Y[0]
      BY <1>1, <1>3, <1>5
    <3>2. ASSUME NEW i \in 1 .. c, NEW x \in Y[i - 1] PROVE ProbeStep(x, p(i)) \in Y[i]
      <4>1. Twin(f[i - 1], x)
        BY <1>2, <3>2
      <4>2. Twin(f[i], ProbeStep(x, p(i)))
        <5>1. p(i) \in 0 .. f[i - 1].capacity - 1 /\ f[i] = ProbeStep(f[i - 1], p(i))
          BY <1>2, <1>5
        <5> HIDE DEF p
        <5> QED
          BY <5>1, <4>1, TwinProbe
      <4>3. ProbeStep(x, p(i)) \in Session
        BY <4>2 DEF Twin
      <4> QED
        BY <1>2, <4>2, <4>3
    <3> QED
      BY <3>1, <3>2
  <2> HIDE DEF Y
  <2> QED
    BY <1>1, <1>3, <2>1, ProbedRun DEF c
<1>9. /\ g[0] = F /\ Probed(F, k) = g[c]
      /\ \A i \in 0 .. c : Twin(f[i], g[i])
      /\ \A i \in 1 .. c : g[i] = ProbeStep(g[i - 1], p(i))
  BY <1>8 DEF ProbeRun, Stays, c
<1> DEFINE Z == [i \in 0 .. c |-> {T \in Partial : View(K, g[i], T) /\ T.capacity = c}]
<1>10. PICK h : ProbeRun(h, P, k) /\ Stays(h, c, Z)
  <2>1. P \in Z[0] /\ \A i \in 1 .. c : \A x \in Z[i - 1] : ProbeStep(x, p(i)) \in Z[i]
    <3>1. P \in Z[0]
      BY <1>1, <1>3, <1>9
    <3>2. ASSUME NEW i \in 1 .. c, NEW x \in Z[i - 1] PROVE ProbeStep(x, p(i)) \in Z[i]
      <4>1. View(K, g[i - 1], x) /\ x.capacity = c
        BY <1>2, <3>2
      <4>2. Twin(f[i - 1], g[i - 1]) /\ f[i - 1].capacity = c /\ f[i].cached \subseteq K
        BY <1>2, <1>5, <1>7, <1>9
      <4>3. g[i - 1].capacity = c /\ (g[i - 1].hand # Empty => f[i - 1].hand # Empty)
        BY <4>2 DEF Twin, Alike
      <4>4. View(K, g[i], ProbeStep(x, p(i))) /\ ProbeStep(x, p(i)).capacity = c
        <5>1. p(i) \in 0 .. g[i - 1].capacity - 1 /\ g[i] = ProbeStep(g[i - 1], p(i))
          BY <1>2, <1>9, <4>3
        <5>2. g[i - 1].hand # Empty => p(i) \in K
          BY <1>6, <4>2, <4>3
        <5> HIDE DEF p
        <5> QED
          BY <5>1, <5>2, <4>1, ViewProbe
      <4>5. ProbeStep(x, p(i)) \in Partial
        BY <4>4 DEF View
      <4> QED
        BY <1>2, <4>4, <4>5
    <3> QED
      BY <3>1, <3>2
  <2> HIDE DEF Z
  <2> QED
    BY <1>1, <1>3, <2>1, ProbedRun DEF c
<1>11. Probed(P, k) = h[c] /\ View(K, g[c], h[c]) /\ h[c].capacity = c
  BY <1>1, <1>3, <1>10 DEF ProbeRun, Stays
<1>12. Twin(f[c], g[c]) /\ g[c].capacity = c
  BY <1>3, <1>5, <1>9 DEF Twin
<1> QED
  BY <1>5, <1>9, <1>11, <1>12 DEF c

(* A loop that stops earlier only where the other one never comes reads the same. *)
LEMMA VisitedSame ==
  ASSUME NEW h \in Nat, NEW c \in Nat \ {0}, NEW D, NEW E, D \subseteq E, \A s \in Visited(h, c, D) : s \in E => s \in D
  PROVE  Visited(h, c, E) = Visited(h, c, D)
<1>1. ASSUME NEW s \in Visited(h, c, E) PROVE s \in Visited(h, c, D)
  BY DEF Visited
<1>2. ASSUME NEW s \in Visited(h, c, D) PROVE s \in Visited(h, c, E)
  <2>1. s \in 0 .. c - 1 /\ Before(h, s, c) \cap D = {}
    BY DEF Visited
  <2>2. ASSUME NEW t \in Before(h, s, c), t \in E PROVE FALSE
    <3>1. t \in 0 .. c - 1 /\ Before(h, t, c) \subseteq Before(h, s, c)
      <4>1. \A x : x \in Before(h, t, c) => x \in Before(h, s, c)
        <5> SUFFICES ASSUME NEW x, x \in Before(h, t, c) PROVE x \in Before(h, s, c)
          OBVIOUS
        <5> DEFINE rx == rank(h, x, c)
                   rt == rank(h, t, c)
                   rs == rank(h, s, c)
        <5>1. x \in 0 .. c - 1 /\ rx < rt /\ rt < rs
          BY DEF Before
        <5>a. rx \in Int /\ rt \in Int /\ rs \in Int
          <6>1. t \in 0 .. c - 1
            BY DEF Before
          <6> QED
            BY <2>1, <5>1, <6>1, RankRange
        <5>2. rx < rs
          <6> HIDE DEF rx, rt, rs
          <6> QED
            BY <5>1, <5>a
        <5> QED
          BY <5>1, <5>2 DEF Before
      <4> QED
        BY <4>1 DEF Before
    <3>2. t \in Visited(h, c, D)
      BY <3>1, <2>1 DEF Visited
    <3> QED
      BY <3>2, <2>1, <2>2
  <2> QED
    BY <2>1, <2>2 DEF Visited
<1> QED
  BY <1>1, <1>2

(* shi_next does not look at the values, *)
LEMMA TwinNext ==
  ASSUME NEW A, NEW F, Twin(A, F), A.gap \in SlotId
  PROVE  Path(A) = Path(F) /\ Nexts(A) = Nexts(F) /\ Path(F) \subseteq SlotId /\ Path(F) \subseteq 0 .. F.capacity - 1
<1>1. /\ A.capacity = F.capacity /\ A.gap = F.gap /\ \A s \in 0 .. F.capacity - 1 : s \in SlotId
      /\ \A s \in SlotId : A.slots[s] # Unknown /\ F.slots[s] # Unknown
      /\ \A s \in SlotId : Alike(A.slots[s], F.slots[s])
  BY KnownFacts DEF Twin
<1>2. \A s \in SlotId : (IsEntry(A.slots[s]) <=> IsEntry(F.slots[s])) /\ (IsEntry(A.slots[s]) => A.slots[s].key = F.slots[s].key)
  BY <1>1 DEF IsEntry, Alike
<1>3. \A s \in SlotId : IsEntry(A.slots[s]) =>
        (Suitable(A.slots, hash, A.capacity, A.gap, s) <=> Suitable(F.slots, hash, F.capacity, F.gap, s))
  BY <1>1, <1>2 DEF Suitable
<1>4. NextStops(A) = NextStops(F)
  BY <1>1, <1>2, <1>3 DEF NextStops
<1>5. Path(A) = Path(F) /\ Path(F) \subseteq 0 .. F.capacity - 1
  BY <1>1, <1>4 DEF Path, Visited
<1>6. Nexts(A) = Nexts(F)
  BY <1>1, <1>4, <1>5 DEF Nexts, Alike
<1> QED
  BY <1>1, <1>5, <1>6

(* and neither does the move into the gap. *)
LEMMA TwinCompact ==
  ASSUME NEW A, NEW F, Twin(A, F), A.gap = NoSlot \/ (A.gap \in 0 .. A.capacity - 1 /\ A.slots[A.gap] # Empty)
  PROVE  /\ Twin(CompactStep(A), CompactStep(F))
         /\ A.gap # NoSlot => Path(F) \subseteq CompactStep(A).cached
<1>0. A \in Session /\ F \in Session /\ ~ A.failed /\ ~ F.failed /\ A.gap = F.gap /\ A.capacity = F.capacity
  BY DEF Twin
<1>1. CASE A.gap = NoSlot
  <2>1. CompactStep(A) = A /\ CompactStep(F) = F
    BY <1>0, <1>1 DEF CompactStep
  <2> QED
    BY <2>1, <1>1
<1>2. CASE A.gap # NoSlot
  <2> DEFINE U == CompactStep(A)
             V == CompactStep(F)
             g == F.gap
             N == Nexts(F)
             from == CHOOSE s \in N : TRUE
  <2>1. /\ g \in SlotId /\ g \in 0 .. F.capacity - 1 /\ A.slots[g] \in Entry /\ F.slots[g] \in Entry /\ F.slots[g] # Empty
        /\ A \in Partial /\ F \in Partial /\ A.slots \in Tables /\ F.slots \in Tables /\ A.capacity \in 1 .. MaxCapacity
    BY <1>0, <1>2, KnownFacts, SessionPartial DEF Twin, Alike
  <2>2. Path(A) = Path(F) /\ Nexts(A) = N /\ Path(F) \subseteq SlotId
    BY <1>0, <2>1, TwinNext
  <2>3. U \in Session /\ V \in Session
    BY <1>0, <1>2, <2>1, CompactCases
  <2>4. (\A s \in Path(A) : A.slots[s] # Unknown) /\ (\A s \in Path(F) : F.slots[s] # Unknown)
    BY <1>0, <2>2, KnownFacts
  <2>5. /\ ~ U.failed /\ U.capacity = A.capacity /\ U.hand = A.hand /\ U.rehashed = A.rehashed
        /\ A.cached \cup Path(A) \subseteq U.cached
        /\ U.gap = IF N = {} THEN NoSlot ELSE from
        /\ U.slots = [A.slots EXCEPT ![g] = IF N = {} THEN Empty ELSE A.slots[from]]
        /\ U.delta = IF N = {} THEN A.delta - 1 ELSE A.delta
        /\ N # {} => from \in Path(A)
    <3> DEFINE a == CHOOSE s \in Nexts(A) : TRUE
    <3>1. A.gap = g /\ A.gap \in SlotId /\ A.slots[A.gap] \in Entry
      BY <1>0, <2>1
    <3>2. /\ ~ U.failed /\ U.capacity = A.capacity /\ U.hand = A.hand /\ U.rehashed = A.rehashed
          /\ A.cached \cup Path(A) \subseteq U.cached
          /\ U.gap = IF Nexts(A) = {} THEN NoSlot ELSE a
          /\ U.slots = [A.slots EXCEPT ![A.gap] = IF Nexts(A) = {} THEN Empty ELSE A.slots[a]]
          /\ U.delta = IF Nexts(A) = {} THEN A.delta - 1 ELSE A.delta
          /\ Nexts(A) # {} => a \in Path(A)
      BY <1>0, <3>1, <2>1, <2>4, CompactFields
    <3>3. a = from
      BY <2>2
    <3> HIDE DEF a, from, U, N, g
    <3> QED
      BY <3>1, <3>2, <3>3, <2>2
  <2>6. /\ ~ V.failed /\ V.capacity = F.capacity /\ V.hand = F.hand /\ V.rehashed = F.rehashed
        /\ V.gap = IF N = {} THEN NoSlot ELSE from
        /\ V.slots = [F.slots EXCEPT ![g] = IF N = {} THEN Empty ELSE F.slots[from]]
        /\ V.delta = IF N = {} THEN F.delta - 1 ELSE F.delta
    BY <1>0, <2>1, <2>2, <2>4, CompactFields
  <2> HIDE DEF U, V, from, N
  <2>7. ASSUME NEW t \in SlotId PROVE Alike(U.slots[t], V.slots[t])
    <3>1. \A s \in SlotId : Alike(A.slots[s], F.slots[s])
      BY DEF Twin
    <3>2. U.slots[t] = (IF t = g THEN (IF N = {} THEN Empty ELSE A.slots[from]) ELSE A.slots[t])
      BY <2>5, <2>1 DEF Tables
    <3>3. V.slots[t] = (IF t = g THEN (IF N = {} THEN Empty ELSE F.slots[from]) ELSE F.slots[t])
      BY <2>6, <2>1 DEF Tables
    <3>4. Alike(Empty, Empty)
      BY DEF Alike
    <3>5. N # {} => from \in SlotId
      BY <2>2, <2>5
    <3> QED
      BY <3>1, <3>2, <3>3, <3>4, <3>5
  <2>8. A.delta = F.delta /\ A.rehashed = F.rehashed /\ Alike(A.hand, F.hand)
    BY DEF Twin
  <2>9. Twin(U, V)
    BY <1>0, <2>3, <2>5, <2>6, <2>7, <2>8 DEF Twin
  <2> QED
    BY <2>2, <2>5, <2>9 DEF U, V
<1> QED
  BY <1>1, <1>2

(* shi_next over the witness reads and finds the same when the recorder    *)
(* read it,                                                                *)
LEMMA ViewNext ==
  ASSUME NEW K, NEW F, NEW P, View(K, F, P), P.capacity = F.capacity, F.gap \in SlotId, Path(F) \subseteq K
  PROVE  Path(P) = Path(F) /\ Nexts(P) = Nexts(F) /\ \A s \in Path(F) : P.slots[s] = F.slots[s]
<1>1. /\ F \in Session /\ P.gap = F.gap /\ (\A s \in 0 .. F.capacity - 1 : s \in SlotId /\ s < F.capacity)
      /\ F.capacity \in Nat \ {0} /\ F.gap \in Nat
      /\ \A s \in SlotId : F.slots[s] # Unknown
  BY KnownFacts, CapacityAssumption DEF View, SlotId
<1>2. \A s \in SlotId : P.slots[s] = F.slots[s] \/ (P.slots[s] = Unknown /\ (s < F.capacity => s \notin K))
  BY DEF View
<1>3. \A s \in Path(F) : P.slots[s] = F.slots[s]
  <2>1. Path(F) \subseteq 0 .. F.capacity - 1
    BY DEF Path, Visited
  <2> QED
    BY <1>1, <1>2, <2>1
<1>4. ASSUME NEW s \in 0 .. F.capacity - 1, P.slots[s] = F.slots[s]
      PROVE  s \in NextStops(P) <=> s \in NextStops(F)
  BY <1>1, <1>4 DEF NextStops, Suitable
<1>5. NextStops(F) \subseteq NextStops(P)
  <2> SUFFICES ASSUME NEW s \in NextStops(F) PROVE s \in NextStops(P)
    OBVIOUS
  <2>1. s \in 0 .. F.capacity - 1 /\ s # F.gap
    BY DEF NextStops
  <2>2. CASE P.slots[s] = F.slots[s]
    BY <2>1, <2>2, <1>4
  <2>3. CASE P.slots[s] # F.slots[s]
    <3>1. ~ IsEntry(P.slots[s])
      BY <2>1, <2>3, <1>1, <1>2 DEF IsEntry
    <3> QED
      BY <2>1, <3>1, <1>1 DEF NextStops
  <2> QED
    BY <2>2, <2>3
<1>6. \A s \in Visited(F.gap, F.capacity, NextStops(F)) : s \in NextStops(P) => s \in NextStops(F)
  <2> SUFFICES ASSUME NEW s \in Visited(F.gap, F.capacity, NextStops(F)), s \in NextStops(P) PROVE s \in NextStops(F)
    OBVIOUS
  <2>1. s # F.gap /\ s \in 0 .. F.capacity - 1
    BY <1>1 DEF NextStops
  <2>2. s \in Path(F)
    BY <2>1 DEF Path
  <2> QED
    BY <2>1, <2>2, <1>3, <1>4
<1>7. Path(P) = Path(F)
  <2>1. Visited(F.gap, F.capacity, NextStops(P)) = Visited(F.gap, F.capacity, NextStops(F))
    BY <1>1, <1>5, <1>6, VisitedSame
  <2> QED
    BY <2>1, <1>1 DEF Path
<1>8. Nexts(P) = Nexts(F)
  <2>1. \A s \in Path(F) : s \in NextStops(P) <=> s \in NextStops(F)
    BY <1>3, <1>4 DEF Path, Visited
  <2> QED
    BY <2>1, <1>3, <1>7 DEF Nexts
<1> QED
  BY <1>3, <1>7, <1>8

(* and the gap is filled with the same entry. *)
LEMMA ViewCompact ==
  ASSUME NEW K, NEW F, NEW P, View(K, F, P), P.capacity = F.capacity,
         F.gap = NoSlot \/ (F.gap \in 0 .. F.capacity - 1 /\ F.slots[F.gap] # Empty /\ Path(F) \subseteq K)
  PROVE  View(K, CompactStep(F), CompactStep(P)) /\ CompactStep(F).capacity = F.capacity /\ CompactStep(P).capacity = F.capacity
<1>0. /\ F \in Session /\ P \in Partial /\ ~ P.failed /\ ~ F.failed /\ F \in Partial /\ P.gap = F.gap
      /\ F.slots \in Tables /\ P.hand = F.hand /\ P.delta = F.delta /\ P.rehashed = F.rehashed
      /\ P.slots \in [SlotId -> Entry \cup {Empty, Unknown}] /\ F.capacity \in 1 .. MaxCapacity
  BY KnownFacts, SessionPartial DEF View, Partial
<1>1. CASE F.gap = NoSlot
  <2>1. CompactStep(P) = P /\ CompactStep(F) = F
    BY <1>0, <1>1 DEF CompactStep
  <2> QED
    BY <2>1
<1>2. CASE F.gap # NoSlot
  <2> DEFINE U == CompactStep(F)
             V == CompactStep(P)
             g == F.gap
             N == Nexts(F)
             from == CHOOSE s \in N : TRUE
             e == IF N = {} THEN Empty ELSE F.slots[from]
             d == IF N = {} THEN F.delta - 1 ELSE F.delta
             h == IF N = {} THEN NoSlot ELSE from
  <2>1. /\ g \in SlotId /\ g \in 0 .. F.capacity - 1 /\ F.slots[g] \in Entry /\ P.slots[g] = F.slots[g] /\ F.slots[g] # Empty
    BY <1>0, <1>2, KnownFacts DEF View
  <2>2. Path(P) = Path(F) /\ Nexts(P) = N /\ (\A s \in Path(F) : P.slots[s] = F.slots[s]) /\ Path(F) \subseteq SlotId
    BY <1>0, <1>2, <2>1, ViewNext, KnownFacts DEF Path, Visited
  <2>3. U \in Session
    BY <1>0, <1>2, <2>1, CompactCases
  <2>4. (\A s \in Path(F) : F.slots[s] # Unknown) /\ (\A s \in Path(P) : P.slots[s] # Unknown)
    BY <1>0, <2>2, KnownFacts
  <2>5. /\ ~ U.failed /\ U.capacity = F.capacity /\ U.hand = F.hand /\ U.rehashed = F.rehashed
        /\ U.gap = h /\ U.slots = [F.slots EXCEPT ![g] = e] /\ U.delta = d
        /\ N # {} => from \in Path(F) /\ F.slots[from] \in Entry
    BY <1>0, <2>1, <2>2, <2>4, CompactFields
  <2>6. /\ V \in Partial /\ ~ V.failed /\ V.capacity = F.capacity /\ V.hand = F.hand /\ V.rehashed = F.rehashed
        /\ V.gap = h /\ V.slots = [P.slots EXCEPT ![g] = IF N = {} THEN Empty ELSE P.slots[from]] /\ V.delta = d
    BY <1>0, <2>1, <2>2, <2>4, CompactFields
  <2>7. V.slots = [P.slots EXCEPT ![g] = e] /\ e # Unknown
    BY <2>2, <2>5, <2>6, WitnessAssumption
  <2>8. h # NoSlot => h \in Path(F) /\ h \in SlotId
    BY <2>2, <2>5
  <2> HIDE DEF U, V, e, d, h, N
  <2>9. ASSUME NEW t \in SlotId
        PROVE  /\ \/ V.slots[t] = U.slots[t]
                  \/ V.slots[t] = Unknown /\ U.slots[t] = base.slots[t] /\ (t < F.capacity => t \notin K)
               /\ V.slots[t] = Unknown => P.slots[t] = Unknown
    <3>1. \/ P.slots[t] = F.slots[t]
          \/ P.slots[t] = Unknown /\ F.slots[t] = base.slots[t] /\ (t < F.capacity => t \notin K)
      BY DEF View
    <3>2. U.slots[t] = (IF t = g THEN e ELSE F.slots[t]) /\ V.slots[t] = (IF t = g THEN e ELSE P.slots[t])
      BY <2>5, <2>7, <2>1, <1>0 DEF Tables
    <3> QED
      BY <3>1, <3>2, <2>7
  <2>10. V.gap # NoSlot => V.slots[V.gap] # Unknown
    BY <2>2, <2>4, <2>6, <2>8, <2>9
  <2>11. View(K, U, V)
    BY <1>0, <2>3, <2>5, <2>6, <2>9, <2>10 DEF View
  <2> QED
    BY <2>5, <2>6, <2>11 DEF U, V
<1> QED
  BY <1>1, <1>2

(* The entry at the gap is one that was deleted or has just been moved. *)
GapOK(S) == S.gap = NoSlot \/ (S.gap \in 0 .. S.capacity - 1 /\ S.slots[S.gap] # Empty)

(* One iteration of the compaction over the full state caches what         *)
(* shi_next read.                                                          *)
LEMMA CompactSession ==
  ASSUME NEW S \in Session, ~ S.failed, GapOK(S)
  PROVE  LET U == CompactStep(S)
         IN  /\ U \in Session /\ ~ U.failed /\ GapOK(U) /\ U.capacity = S.capacity /\ S.cached \subseteq U.cached
             /\ S.gap # NoSlot => Path(S) \subseteq U.cached
<1> DEFINE U == CompactStep(S)
<1>1. CASE S.gap = NoSlot
  <2>1. U = S
    BY <1>1 DEF CompactStep
  <2> QED
    BY <2>1, <1>1
<1>2. CASE S.gap # NoSlot
  <2> DEFINE N == Nexts(S)
             from == CHOOSE s \in N : TRUE
             g == S.gap
  <2>1. /\ g \in 0 .. S.capacity - 1 /\ S.slots[g] # Empty /\ g \in SlotId /\ S.slots[g] \in Entry /\ S \in Partial
        /\ S.slots \in Tables /\ S.capacity \in 1 .. MaxCapacity
    BY <1>2, KnownFacts, SessionPartial DEF GapOK
  <2>2. Path(S) \subseteq SlotId /\ Path(S) \subseteq 0 .. S.capacity - 1 /\ g \notin Path(S)
    BY KnownFacts DEF Path, Visited
  <2>3. \A s \in Path(S) : S.slots[s] # Unknown
    BY <2>2, KnownFacts
  <2>4. U \in Session
    BY <2>1, CompactCases
  <2>5. /\ ~ U.failed /\ U.capacity = S.capacity /\ S.cached \cup Path(S) \subseteq U.cached
        /\ U.gap = IF N = {} THEN NoSlot ELSE from
        /\ U.slots = [S.slots EXCEPT ![g] = IF N = {} THEN Empty ELSE S.slots[from]]
        /\ N # {} => from \in Path(S) /\ S.slots[from] \in Entry
    BY <2>1, <2>3, CompactFields
  <2> HIDE DEF U, N, from, g
  <2>6. GapOK(U)
    <3>1. CASE N = {}
      BY <3>1, <2>5 DEF GapOK
    <3>2. CASE N # {}
      <4>1. from \in 0 .. S.capacity - 1 /\ from \in SlotId /\ from # g /\ S.slots[from] # Empty
        BY <3>2, <2>2, <2>5, EmptyAssumption
      <4>2. U.slots[from] = S.slots[from]
        BY <4>1, <2>1, <2>5 DEF Tables
      <4> QED
        BY <3>2, <4>1, <4>2, <2>5 DEF GapOK
    <3> QED
      BY <3>1, <3>2
  <2> QED
    BY <2>4, <2>5, <2>6 DEF U
<1> QED
  BY <1>1, <1>2

(* The loop of shi_delete over the full state, with and without the        *)
(* updates in place, and over the witness.                                 *)
LEMMA ThreeCompacted ==
  ASSUME NEW K, NEW A, NEW F, NEW P,
         Twin(A, F), View(K, F, P), P.capacity = F.capacity, GapOK(A), Compacted(A).cached \subseteq K
  PROVE  /\ Twin(Compacted(A), Compacted(F)) /\ View(K, Compacted(F), Compacted(P))
         /\ Compacted(P).capacity = F.capacity /\ Compacted(F).capacity = F.capacity
<1> DEFINE c == F.capacity
           X == [i \in 0 .. c |-> {T \in Session : ~ T.failed /\ T.capacity = c /\ GapOK(T)}]
<1>1. c \in Nat \ {0} /\ A.capacity = c /\ P.capacity = c /\ A \in Session /\ F \in Session /\ P \in Partial /\ ~ A.failed
  BY KnownFacts DEF Twin, View
<1>2. \A i \in 1 .. c : i \in 0 .. c /\ i - 1 \in 0 .. c
  BY <1>1
<1>3. 0 \in 0 .. c /\ c \in 0 .. c /\ c \in Nat
  BY <1>1
<1> HIDE DEF c
<1>4. PICK f : CompactRun(f, A) /\ Stays(f, c, X)
  <2>1. A \in X[0] /\ \A i \in 1 .. c : \A x \in X[i - 1] : CompactStep(x) \in X[i]
    BY <1>1, <1>2, <1>3, CompactSession
  <2> HIDE DEF X
  <2> QED
    BY <1>1, <1>3, <2>1, CompactedRun
<1>5. /\ f[0] = A /\ Compacted(A) = f[c]
      /\ \A i \in 0 .. c : f[i] \in Session /\ ~ f[i].failed /\ f[i].capacity = c /\ GapOK(f[i])
      /\ \A i \in 1 .. c : f[i] = CompactStep(f[i - 1])
  BY <1>1, <1>4 DEF CompactRun, Stays
<1>6. \A i \in 1 .. c : f[i - 1].cached \subseteq f[i].cached /\ (f[i - 1].gap # NoSlot => Path(f[i - 1]) \subseteq f[i].cached)
  <2> SUFFICES ASSUME NEW i \in 1 .. c
               PROVE f[i - 1].cached \subseteq f[i].cached /\ (f[i - 1].gap # NoSlot => Path(f[i - 1]) \subseteq f[i].cached)
    OBVIOUS
  <2>1. f[i - 1] \in Session /\ ~ f[i - 1].failed /\ GapOK(f[i - 1]) /\ f[i] = CompactStep(f[i - 1])
    BY <1>2, <1>5
  <2> QED
    BY <2>1, CompactSession
<1>7. \A i \in 0 .. c : f[i].cached \subseteq K
  <2> DEFINE g == [i \in 0 .. c |-> f[i].cached]
  <2>1. \A i \in 1 .. c : g[i - 1] \subseteq g[i]
    BY <1>2, <1>6
  <2>2. \A i \in 0 .. c : g[i] \subseteq g[c]
    <3> HIDE DEF g
    <3> QED
      BY <1>3, <2>1, Climbs
  <2>3. g[c] \subseteq K
    BY <1>3, <1>5
  <2>4. \A i \in 0 .. c : g[i] = f[i].cached
    OBVIOUS
  <2> HIDE DEF g
  <2> QED
    BY <2>2, <2>3, <2>4
<1> DEFINE Y == [i \in 0 .. c |-> {T \in Session : Twin(f[i], T)}]
<1>8. PICK g : CompactRun(g, F) /\ Stays(g, c, Y)
  <2>1. F \in Y[0] /\ \A i \in 1 .. c : \A x \in Y[i - 1] : CompactStep(x) \in Y[i]
    <3>1. F \in Y[0]
      BY <1>1, <1>3, <1>5
    <3>2. ASSUME NEW i \in 1 .. c, NEW x \in Y[i - 1] PROVE CompactStep(x) \in Y[i]
      <4>1. Twin(f[i - 1], x) /\ GapOK(f[i - 1]) /\ f[i] = CompactStep(f[i - 1])
        BY <1>2, <1>5, <3>2
      <4>2. Twin(f[i], CompactStep(x))
        <5> DEFINE a == f[i - 1]
        <5>1. Twin(a, x) /\ (a.gap = NoSlot \/ (a.gap \in 0 .. a.capacity - 1 /\ a.slots[a.gap] # Empty)) /\ f[i] = CompactStep(a)
          BY <4>1 DEF GapOK
        <5> HIDE DEF a
        <5>2. Twin(CompactStep(a), CompactStep(x))
          BY <5>1, TwinCompact
        <5> QED
          BY <5>1, <5>2
      <4>3. CompactStep(x) \in Session
        BY <4>2 DEF Twin
      <4> QED
        BY <1>2, <4>2, <4>3
    <3> QED
      BY <3>1, <3>2
  <2> HIDE DEF Y
  <2> QED
    BY <1>1, <1>3, <2>1, CompactedRun DEF c
<1>9. /\ g[0] = F /\ Compacted(F) = g[c]
      /\ \A i \in 0 .. c : Twin(f[i], g[i])
      /\ \A i \in 1 .. c : g[i] = CompactStep(g[i - 1])
  BY <1>8 DEF CompactRun, Stays, c
<1> DEFINE Z == [i \in 0 .. c |-> {T \in Partial : View(K, g[i], T) /\ T.capacity = c}]
<1>10. PICK h : CompactRun(h, P) /\ Stays(h, c, Z)
  <2>1. P \in Z[0] /\ \A i \in 1 .. c : \A x \in Z[i - 1] : CompactStep(x) \in Z[i]
    <3>1. P \in Z[0]
      BY <1>1, <1>3, <1>9
    <3>2. ASSUME NEW i \in 1 .. c, NEW x \in Z[i - 1] PROVE CompactStep(x) \in Z[i]
      <4>1. View(K, g[i - 1], x) /\ x.capacity = c
        BY <1>2, <3>2
      <4>2. Twin(f[i - 1], g[i - 1]) /\ f[i - 1].capacity = c /\ f[i].cached \subseteq K /\ GapOK(f[i - 1]) /\ f[i - 1] \in Session
        BY <1>2, <1>5, <1>7, <1>9
      <4>3. g[i - 1].capacity = c /\ g[i - 1].gap = f[i - 1].gap /\ g[i - 1] \in Session
        BY <4>2 DEF Twin
      <4>4. g[i - 1].gap = NoSlot \/ (g[i - 1].gap \in 0 .. g[i - 1].capacity - 1 /\ g[i - 1].slots[g[i - 1].gap] # Empty)
        BY <4>2, <4>3, KnownFacts DEF GapOK, Twin, Alike
      <4>5. g[i - 1].gap # NoSlot => Path(g[i - 1]) \subseteq K
        <5> SUFFICES ASSUME g[i - 1].gap # NoSlot PROVE Path(g[i - 1]) \subseteq K
          OBVIOUS
        <5>1. f[i - 1].gap \in SlotId
          BY <4>2, <4>3, KnownFacts DEF GapOK
        <5>2. Path(f[i - 1]) = Path(g[i - 1])
          BY <5>1, <4>2, TwinNext
        <5> QED
          BY <5>2, <4>2, <4>3, <1>6
      <4>6. View(K, g[i], CompactStep(x)) /\ CompactStep(x).capacity = c
        <5>1. g[i] = CompactStep(g[i - 1])
          BY <1>9
        <5>2. View(K, CompactStep(g[i - 1]), CompactStep(x)) /\ CompactStep(x).capacity = g[i - 1].capacity
          <6> DEFINE y == g[i - 1]
          <6>1. View(K, y, x) /\ x.capacity = y.capacity
            BY <4>1, <4>3
          <6>2. y.gap = NoSlot \/ (y.gap \in 0 .. y.capacity - 1 /\ y.slots[y.gap] # Empty /\ Path(y) \subseteq K)
            BY <4>4, <4>5
          <6> HIDE DEF y
          <6>3. View(K, CompactStep(y), CompactStep(x)) /\ CompactStep(x).capacity = y.capacity
            BY <6>1, <6>2, ViewCompact
          <6> QED
            BY <6>3 DEF y
        <5> QED
          BY <5>1, <5>2, <4>3
      <4>7. CompactStep(x) \in Partial
        BY <4>6 DEF View
      <4> QED
        BY <1>2, <4>6, <4>7
    <3> QED
      BY <3>1, <3>2
  <2> HIDE DEF Z
  <2> QED
    BY <1>1, <1>3, <2>1, CompactedRun DEF c
<1>11. Compacted(P) = h[c] /\ View(K, g[c], h[c]) /\ h[c].capacity = c
  BY <1>1, <1>3, <1>10 DEF CompactRun, Stays
<1>12. Twin(f[c], g[c]) /\ g[c].capacity = c
  BY <1>3, <1>5, <1>9 DEF Twin
<1> QED
  BY <1>5, <1>9, <1>11, <1>12 DEF c

(* Only the cache differs. *)
Reads(S, U) ==
  /\ U.slots = S.slots /\ U.capacity = S.capacity /\ U.delta = S.delta /\ U.rehashed = S.rehashed
  /\ U.hand = S.hand /\ U.gap = S.gap /\ ~ U.failed

(* A read changes nothing that the twins compare, *)
LEMMA TwinReads ==
  ASSUME NEW A, NEW F, Twin(A, F), NEW U \in Session, NEW V \in Session, Reads(A, U), Reads(F, V)
  PROVE  Twin(U, V)
BY DEF Twin, Reads

(* nor what the validator sees. *)
LEMMA ViewReads ==
  ASSUME NEW K, NEW F, NEW P, View(K, F, P), NEW U \in Session, NEW V \in Partial, Reads(F, U), Reads(P, V)
  PROVE  View(K, U, V)
BY DEF View, Reads

(* shi_search does not look at the values. *)
LEMMA TwinSearch ==
  ASSUME NEW A, NEW F, Twin(A, F), NEW k \in PlainKeys
  PROVE  SearchPath(A, k) = SearchPath(F, k) /\ Found(A, k) = Found(F, k)
<1>1. /\ A.capacity = F.capacity /\ \A s \in 0 .. F.capacity - 1 : s \in SlotId
      /\ \A s \in SlotId : A.slots[s] # Unknown /\ F.slots[s] # Unknown
      /\ \A s \in SlotId : Alike(A.slots[s], F.slots[s])
  BY KnownFacts DEF Twin
<1>2. \A s \in SlotId : (IsEntry(A.slots[s]) <=> IsEntry(F.slots[s])) /\ (IsEntry(A.slots[s]) => A.slots[s].key = F.slots[s].key)
  BY <1>1 DEF IsEntry, Alike
<1>3. SearchStops(A, k) = SearchStops(F, k)
  BY <1>1, <1>2 DEF SearchStops
<1>4. SearchPath(A, k) = SearchPath(F, k)
  BY <1>1, <1>3 DEF SearchPath
<1>5. SearchPath(F, k) \subseteq 0 .. F.capacity - 1
  BY SearchWithin
<1> QED
  BY <1>1, <1>2, <1>4, <1>5 DEF Found

(* shi_search over the witness reads and finds the same when the recorder  *)
(* read it.                                                                *)
LEMMA ViewSearch ==
  ASSUME NEW K, NEW F, NEW P, View(K, F, P), P.capacity = F.capacity, hash \in [PlainKeys -> Nat],
         NEW k \in PlainKeys, SearchPath(F, k) \subseteq K
  PROVE  /\ SearchPath(P, k) = SearchPath(F, k) /\ Found(P, k) = Found(F, k)
         /\ \A s \in SearchPath(F, k) : P.slots[s] = F.slots[s] /\ P.slots[s] # Unknown
<1>1. /\ F \in Session /\ (\A s \in 0 .. F.capacity - 1 : s \in SlotId /\ s < F.capacity)
      /\ F.capacity \in Nat \ {0} /\ hash[k] \in Nat /\ \A s \in SlotId : F.slots[s] # Unknown
  BY KnownFacts DEF View
<1>2. \A s \in SlotId : P.slots[s] = F.slots[s] \/ (P.slots[s] = Unknown /\ (s < F.capacity => s \notin K))
  BY DEF View
<1>3. SearchPath(F, k) \subseteq 0 .. F.capacity - 1
  BY SearchWithin
<1>4. \A s \in SearchPath(F, k) : P.slots[s] = F.slots[s] /\ P.slots[s] # Unknown
  BY <1>1, <1>2, <1>3
<1>5. ASSUME NEW s \in 0 .. F.capacity - 1, P.slots[s] = F.slots[s]
      PROVE  s \in SearchStops(P, k) <=> s \in SearchStops(F, k)
  BY <1>5 DEF SearchStops
<1>6. SearchStops(F, k) \subseteq SearchStops(P, k)
  <2> SUFFICES ASSUME NEW s \in SearchStops(F, k) PROVE s \in SearchStops(P, k)
    OBVIOUS
  <2>1. s \in 0 .. F.capacity - 1
    BY DEF SearchStops
  <2>2. CASE P.slots[s] = F.slots[s]
    BY <2>1, <2>2, <1>5
  <2>3. CASE P.slots[s] # F.slots[s]
    <3>1. ~ IsEntry(P.slots[s])
      BY <2>1, <2>3, <1>1, <1>2 DEF IsEntry
    <3> QED
      BY <2>1, <3>1 DEF SearchStops
  <2> QED
    BY <2>2, <2>3
<1>7. \A s \in Visited(hash[k], F.capacity, SearchStops(F, k)) : s \in SearchStops(P, k) => s \in SearchStops(F, k)
  BY <1>3, <1>4, <1>5 DEF SearchPath
<1>8. Visited(hash[k], F.capacity, SearchStops(P, k)) = Visited(hash[k], F.capacity, SearchStops(F, k))
  BY <1>1, <1>6, <1>7, VisitedSame
<1>9. SearchPath(P, k) = SearchPath(F, k)
  BY <1>8 DEF SearchPath
<1> QED
  BY <1>4, <1>9 DEF Found

(* The search of shi_delete by a validator who knows what it reads *)
LEMMA SearchKnown ==
  ASSUME NEW S \in Partial, S.capacity # Unknown, NEW k, SearchPath(S, k) \subseteq SlotId, \A s \in SearchPath(S, k) : S.slots[s] # Unknown
  PROVE  LET M == ReadMeta(S)
             R == ReadSlots(M, SearchPath(M, k))
         IN  /\ ~ M.failed /\ R \in Partial /\ Reads(S, R) /\ Found(M, k) = Found(S, k)
             /\ R.cached = S.cached \cup {Meta} \cup SearchPath(S, k)
<1> DEFINE M == ReadMeta(S)
           R == ReadSlots(M, SearchPath(M, k))
<1>1. /\ M \in Partial /\ ~ M.failed /\ M.slots = S.slots /\ M.capacity = S.capacity /\ M.cached = S.cached \cup {Meta}
      /\ M.delta = S.delta /\ M.rehashed = S.rehashed /\ M.hand = S.hand /\ M.gap = S.gap
  BY MetaFields
<1> HIDE DEF M
<1>2. SearchPath(M, k) = SearchPath(S, k) /\ Found(M, k) = Found(S, k)
  BY <1>1 DEF SearchPath, Found, SearchStops
<1>3. /\ R \in Partial /\ ~ R.failed /\ R.cached = M.cached \cup SearchPath(S, k) /\ R.slots = M.slots /\ R.delta = M.delta
      /\ R.capacity = M.capacity /\ R.rehashed = M.rehashed /\ R.hand = M.hand /\ R.gap = M.gap
  BY <1>1, <1>2, ReadFields
<1> HIDE DEF R
<1> QED
  BY <1>1, <1>2, <1>3 DEF Reads, M, R

(* shi_delete over the full state, with and without the updates in place,  *)
(* and over the witness                                                    *)
LEMMA ThreeDelete ==
  ASSUME BaseOk, NEW K, NEW A, NEW F, NEW P, Twin(A, F), View(K, F, P), Ready(A), NEW k \in PlainKeys,
         ShiDelete(A, k).cached \subseteq K
  PROVE  Twin(ShiDelete(A, k), ShiDelete(F, k)) /\ View(K, ShiDelete(F, k), ShiDelete(P, k))
<1> DEFINE M(S) == ReadMeta(S)
           R(S) == ReadSlots(M(S), SearchPath(M(S), k))
           found == Found(F, k)
           g == CHOOSE s \in found : TRUE
           V(S) == [R(S) EXCEPT !.gap = g]
<1>1. /\ A \in Session /\ F \in Session /\ A \in Partial /\ F \in Partial /\ P \in Partial /\ A.capacity = F.capacity
      /\ A.slots \in Tables /\ F.slots \in Tables /\ A.capacity # Unknown /\ F.capacity # Unknown
      /\ hash \in [PlainKeys -> Nat] /\ \A s \in SlotId : A.slots[s] # Unknown /\ F.slots[s] # Unknown
  BY KnownFacts, SessionPartial DEF Twin, View, BaseOk
<1>2. /\ SearchPath(A, k) = SearchPath(F, k) /\ Found(A, k) = found
      /\ SearchPath(F, k) \subseteq SlotId /\ SearchPath(F, k) \subseteq 0 .. F.capacity - 1 /\ found \subseteq SearchPath(F, k)
  BY <1>1, TwinSearch, SearchWithin, KnownFacts
<1>3. /\ ~ M(A).failed /\ R(A) \in Session /\ Reads(A, R(A)) /\ Found(M(A), k) = found
      /\ R(A).cached = A.cached \cup {Meta} \cup SearchPath(F, k)
  BY <1>1, <1>2, SearchKnown, SearchRead
<1>4. ~ M(F).failed /\ R(F) \in Session /\ Reads(F, R(F)) /\ Found(M(F), k) = found
  BY <1>1, <1>2, SearchKnown, SearchRead
<1>5. ASSUME NEW S, ~ M(S).failed, ~ R(S).failed, Found(M(S), k) = found
      PROVE  ShiDelete(S, k) = IF found = {} THEN R(S) ELSE Compacted(V(S))
  <2> DEFINE fd == Found(M(S), k)
             v == [R(S) EXCEPT !.gap = CHOOSE s \in fd : TRUE]
  <2>1. ShiDelete(S, k) = IF M(S).failed THEN M(S) ELSE IF R(S).failed \/ fd = {} THEN R(S) ELSE Compacted(v)
    BY Zenon DEF ShiDelete
  <2>2. v = V(S)
    BY <1>5
  <2> HIDE DEF M, R, V, v, found
  <2> QED
    BY <1>5, <2>1, <2>2
<1>6. ShiDelete(A, k) = (IF found = {} THEN R(A) ELSE Compacted(V(A))) /\ ShiDelete(F, k) = (IF found = {} THEN R(F) ELSE Compacted(V(F)))
  <2>1. ~ R(A).failed /\ ~ R(F).failed
    BY <1>3, <1>4 DEF Reads
  <2> HIDE DEF M, R, V, found
  <2> QED
    BY <2>1, <1>3, <1>4, <1>5
<1>7. found # {} => /\ g \in SearchPath(F, k) /\ g \in 0 .. F.capacity - 1 /\ g \in SlotId
                    /\ F.slots[g] # Empty /\ A.slots[g] # Empty
  <2>1. found # {} => g \in found
    OBVIOUS
  <2>2. \A s \in found : F.slots[s] # Empty /\ A.slots[s] # Empty
    BY <1>2 DEF Found, IsEntry
  <2> HIDE DEF g, found
  <2> QED
    BY <2>1, <2>2, <1>2
<1>8. found # {} => /\ V(A) \in Session /\ V(A).slots = A.slots /\ V(A).capacity = A.capacity /\ V(A).delta = A.delta
                    /\ V(A).rehashed = A.rehashed /\ V(A).hand = A.hand /\ V(A).gap = g /\ ~ V(A).failed /\ V(A).cached = R(A).cached
  <2> HIDE DEF M, R, found, g
  <2> QED
    BY <1>3, <1>7 DEF Reads, Session
<1>9. found # {} => /\ V(F) \in Session /\ V(F).slots = F.slots /\ V(F).capacity = F.capacity /\ V(F).delta = F.delta
                    /\ V(F).rehashed = F.rehashed /\ V(F).hand = F.hand /\ V(F).gap = g /\ ~ V(F).failed
  <2> HIDE DEF M, R, found, g
  <2> QED
    BY <1>4, <1>7 DEF Reads, Session
<1>10. R(A).cached \subseteq ShiDelete(A, k).cached
  <2>1. CASE found = {}
    BY <2>1, <1>6
  <2>2. CASE found # {}
    <3>1. V(A).cached \subseteq Compacted(V(A)).cached
      <4> DEFINE v == V(A)
      <4>1. /\ v \in Session /\ ~ v.failed /\ ShiOrdered(v.slots, hash, v.capacity) /\ Within(v.slots, v.capacity)
            /\ v.gap \in 0 .. v.capacity - 1 /\ v.slots[v.gap] # Empty
        <5> HIDE DEF V, found, g
        <5> QED
          BY <1>1, <1>7, <1>8, <2>2 DEF Ready, Sound
      <4> HIDE DEF v
      <4>2. v.cached \subseteq Compacted(v).cached
        BY <4>1, <1>1, CompactedResult
      <4> QED
        BY <4>2 DEF v
    <3> HIDE DEF V, R, found, g
    <3> QED
      BY <3>1, <2>2, <1>6, <1>8
  <2> QED
    BY <2>1, <2>2
<1>11. Meta \in K /\ SearchPath(F, k) \subseteq K
  BY <1>3, <1>10
<1>12. P.capacity = F.capacity
  BY <1>11 DEF View
<1>13. /\ SearchPath(P, k) = SearchPath(F, k) /\ Found(P, k) = found
       /\ \A s \in SearchPath(F, k) : P.slots[s] = F.slots[s] /\ P.slots[s] # Unknown
  BY <1>1, <1>11, <1>12, ViewSearch
<1>14. ~ M(P).failed /\ R(P) \in Partial /\ Reads(P, R(P)) /\ Found(M(P), k) = found
  BY <1>1, <1>2, <1>12, <1>13, SearchKnown
<1>15. ShiDelete(P, k) = IF found = {} THEN R(P) ELSE Compacted(V(P))
  <2>1. ~ R(P).failed
    BY <1>14 DEF Reads
  <2> HIDE DEF M, R, V, found
  <2> QED
    BY <2>1, <1>14, <1>5
<1>16. found # {} => /\ V(P) \in Partial /\ V(P).slots = P.slots /\ V(P).capacity = P.capacity /\ V(P).delta = P.delta
                     /\ V(P).rehashed = P.rehashed /\ V(P).hand = P.hand /\ V(P).gap = g /\ ~ V(P).failed
  <2> HIDE DEF M, R, found, g
  <2> QED
    BY <1>14, <1>7 DEF Reads, Partial
<1> HIDE DEF M, R, V, found, g
<1>17. CASE found = {}
  <2>1. Twin(R(A), R(F))
    BY <1>3, <1>4, TwinReads
  <2>2. View(K, R(F), R(P))
    BY <1>4, <1>14, ViewReads
  <2> QED
    BY <1>17, <2>1, <2>2, <1>6, <1>15
<1>18. CASE found # {}
  <2>1. Twin(V(A), V(F))
    BY <1>8, <1>9, <1>18 DEF Twin
  <2>2. View(K, V(F), V(P)) /\ V(P).capacity = V(F).capacity
    <3>1. P.slots[g] # Unknown
      BY <1>7, <1>13, <1>18
    <3> QED
      BY <1>9, <1>12, <1>16, <1>18, <3>1 DEF View
  <2>3. GapOK(V(A))
    BY <1>1, <1>7, <1>8, <1>18 DEF GapOK
  <2>4. Compacted(V(A)).cached \subseteq K
    BY <1>6, <1>18
  <2>5. Twin(Compacted(V(A)), Compacted(V(F))) /\ View(K, Compacted(V(F)), Compacted(V(P)))
    BY <2>1, <2>2, <2>3, <2>4, ThreeCompacted
  <2> QED
    BY <2>5, <1>6, <1>15, <1>18
<1> QED
  BY <1>17, <1>18

(* Tables that differ in values only *)
AlikeTables(T, V) == \A s \in SlotId : Alike(T[s], V[s])

(* The entries E and G have the same keys. *)
SameKeys(E, G) == E \subseteq Entry /\ G \subseteq Entry /\ \A k : (\E e \in E : e.key = k) <=> (\E e \in G : e.key = k)

(* The reinsertion of one key looks at the keys only. *)
LEMMA ReinsertAlike ==
  ASSUME NEW c \in 1 .. MaxCapacity, NEW E, NEW G, SameKeys(E, G), NEW T \in Tables, NEW V \in Tables, AlikeTables(T, V), NEW k
  PROVE  /\ ReinsertStep(T, E, k, c) \in Tables /\ ReinsertStep(V, G, k, c) \in Tables
         /\ AlikeTables(ReinsertStep(T, E, k, c), ReinsertStep(V, G, k, c))
<1> DEFINE e == CHOOSE x \in E : x.key = k
           g == CHOOSE x \in G : x.key = k
           D == IF \E x \in E : x.key = k THEN FirstVacant(T, hash[k], c) ELSE {}
           U == ReinsertStep(T, E, k, c)
           W == ReinsertStep(V, G, k, c)
<1>1. \A s \in 0 .. c - 1 : s \in SlotId
  BY CapacityAssumption DEF SlotId
<1>2. FirstVacant(T, hash[k], c) = FirstVacant(V, hash[k], c)
  <2>1. \A s \in 0 .. c - 1 : T[s] = Empty <=> V[s] = Empty
    BY <1>1 DEF AlikeTables, Alike
  <2>2. \A s : Before(hash[k], s, c) \subseteq 0 .. c - 1
    BY DEF Before
  <2> QED
    BY <2>1, <2>2 DEF FirstVacant
<1>3. D # {} => e \in E /\ e.key = k /\ g \in G /\ g.key = k /\ e \in Entry /\ g \in Entry
  BY DEF SameKeys
<1>4. U = [s \in SlotId |-> IF s \in D THEN e ELSE T[s]]
  BY DEF ReinsertStep
<1>5. W = [s \in SlotId |-> IF s \in D THEN g ELSE V[s]]
  <2>1. D = IF \E x \in G : x.key = k THEN FirstVacant(V, hash[k], c) ELSE {}
    BY <1>2 DEF SameKeys
  <2> QED
    BY <2>1 DEF ReinsertStep
<1> HIDE DEF U, W, D, e, g
<1>6. U \in Tables /\ W \in Tables
  BY <1>3, <1>4, <1>5 DEF Tables
<1>7. ASSUME NEW s \in SlotId PROVE Alike(U[s], W[s])
  <2>1. CASE s \in D
    <3>1. U[s] = e /\ W[s] = g
      BY <2>1, <1>4, <1>5
    <3> QED
      BY <2>1, <3>1, <1>3, EmptyAssumption DEF Alike
  <2>2. CASE s \notin D
    <3>1. U[s] = T[s] /\ W[s] = V[s]
      BY <2>2, <1>4, <1>5
    <3> QED
      BY <3>1 DEF AlikeTables
  <2> QED
    BY <2>1, <2>2
<1> QED
  BY <1>6, <1>7 DEF AlikeTables, U, W

(* shi_rehash does not look at the values. *)
LEMMA LayoutAlike ==
  ASSUME NEW c \in 1 .. MaxCapacity, NEW E, NEW G, SameKeys(E, G)
  PROVE  AlikeTables(Layout(E, c), Layout(G, c)) /\ Layout(E, c) \in Tables /\ Layout(G, c) \in Tables
<1> DEFINE n == MaxKey + 1
           X == [i \in 0 .. n |-> Tables]
<1>1. n \in Nat /\ n \in 0 .. n /\ 0 \in 0 .. n /\ \A i \in 1 .. n : i \in 0 .. n /\ i - 1 \in 0 .. n
  BY MaxKeyNat
<1>2. EmptyTable \in Tables /\ AlikeTables(EmptyTable, EmptyTable)
  BY DEF EmptyTable, Tables, AlikeTables, Alike
<1>3. PICK f : LayoutRun(f, E, c) /\ Stays(f, n, X)
  <2>1. SameKeys(E, E) /\ \A T : AlikeTables(T, T)
    BY DEF SameKeys, AlikeTables, Alike
  <2>2. EmptyTable \in X[0] /\ \A i \in 1 .. n : \A x \in X[i - 1] : ReinsertStep(x, E, MaxKey + 1 - i, c) \in X[i]
    BY <1>1, <1>2, <2>1, ReinsertAlike
  <2> HIDE DEF X
  <2> QED
    BY <1>1, <2>2, LayoutsRun
<1>4. /\ f[0] = EmptyTable /\ Layout(E, c) = f[n] /\ \A i \in 0 .. n : f[i] \in Tables
      /\ \A i \in 1 .. n : f[i] = ReinsertStep(f[i - 1], E, MaxKey + 1 - i, c)
  BY <1>3 DEF LayoutRun, Stays
<1> DEFINE Y == [i \in 0 .. n |-> {T \in Tables : AlikeTables(f[i], T)}]
<1>5. PICK g : LayoutRun(g, G, c) /\ Stays(g, n, Y)
  <2>1. EmptyTable \in Y[0]
    BY <1>1, <1>2, <1>4
  <2>2. ASSUME NEW i \in 1 .. n, NEW x \in Y[i - 1] PROVE ReinsertStep(x, G, MaxKey + 1 - i, c) \in Y[i]
    <3> DEFINE k == MaxKey + 1 - i
    <3>1. f[i - 1] \in Tables /\ x \in Tables /\ AlikeTables(f[i - 1], x) /\ f[i] = ReinsertStep(f[i - 1], E, k, c) /\ i \in 0 .. n
      BY <1>1, <1>4, <2>2
    <3> HIDE DEF k
    <3>2. ReinsertStep(x, G, k, c) \in Tables /\ AlikeTables(f[i], ReinsertStep(x, G, k, c))
      BY <3>1, ReinsertAlike
    <3>3. ReinsertStep(x, G, k, c) \in Y[i]
      BY <3>1, <3>2
    <3> QED
      BY <3>3 DEF k
  <2> HIDE DEF Y
  <2> QED
    BY <1>1, <2>1, <2>2, LayoutsRun
<1>6. Layout(G, c) = g[n] /\ g[n] \in Y[n]
  BY <1>1, <1>5 DEF LayoutRun, Stays
<1> QED
  BY <1>1, <1>4, <1>6

(* The entries that shi_rehash collects. *)
Entries(S) == {S.slots[s] : s \in 0 .. S.capacity - 1} \ {Empty}

(* shi_rehash of a bucket that is known *)
LEMMA RehashFields ==
  ASSUME NEW S \in Partial, NEW n \in 1 .. MaxCapacity, S.capacity = n, \A s \in 0 .. n - 1 : S.slots[s] # Unknown,
         NEW store, UsageKnown(store), NEW c \in 1 .. MaxCapacity, c >= n
  PROVE  LET U == Rehash(store, S, c)
         IN  /\ U \in Partial /\ ~ U.failed /\ U.capacity = c /\ U.hand = S.hand /\ U.gap = S.gap /\ U.delta = S.delta /\ U.rehashed
             /\ \A s \in SlotId : U.slots[s] = IF s < c THEN Layout(Entries(S), c)[s] ELSE S.slots[s]
             /\ Entries(S) \subseteq Entry
             /\ S.cached \cup {Meta} \cup (0 .. c - 1) \subseteq U.cached
<1> DEFINE T == S.slots
           R == ReadSlots(S, 0 .. n - 1)
           E == {S.slots[s] : s \in 0 .. S.capacity - 1} \ {Empty}
           new == Layout(E, c)
           changed == {s \in 0 .. c - 1 : s >= n \/ new[s] # T[s]}
           V == [s \in SlotId |-> IF s \in changed THEN new[s] ELSE T[s]]
           q == ((S.cached \cup (0 .. n - 1)) \cup changed) \cup {Meta}
           U == Rehash(store, S, c)
<1>1. /\ (\A s \in 0 .. n - 1 : s \in SlotId) /\ (\A s \in 0 .. c - 1 : s \in SlotId) /\ T \in [SlotId -> Entry \cup {Empty, Unknown}]
      /\ n \in Nat \ {0} /\ c \in Nat
  BY CapacityAssumption DEF Partial, SlotId
<1>2. /\ R \in Partial /\ ~ R.failed /\ R.cached = S.cached \cup (0 .. n - 1) /\ R.slots = S.slots /\ R.delta = S.delta
      /\ R.capacity = S.capacity /\ R.rehashed = S.rehashed /\ R.hand = S.hand /\ R.gap = S.gap
  BY <1>1, ReadFields
<1>3. E \subseteq Entry /\ Entries(S) = E
  BY <1>1 DEF Entries
<1>4. new \in Tables
  BY <1>3, LayoutIsTable
<1>5. ~ (c > MaxCapacity)
  BY CapacityAssumption
<1>6. U = [R EXCEPT !.slots = V, !.capacity = c, !.cached = (@ \cup changed) \cup {Meta}, !.rehashed = TRUE]
  <2> DEFINE R0 == ReadSlots(S, 0 .. S.capacity - 1)
             ch0 == {s \in 0 .. c - 1 : s >= S.capacity \/ new[s] # S.slots[s]}
  <2>1. R0 = R /\ ch0 = changed
    OBVIOUS
  <2>2. ~ R0.failed
    BY <1>2
  <2>3. U = [R0 EXCEPT !.slots = [s \in SlotId |-> IF s \in ch0 THEN new[s] ELSE S.slots[s]],
                       !.capacity = c, !.cached = (@ \cup ch0) \cup {Meta}, !.rehashed = TRUE]
    BY <1>5, <2>2, Zenon DEF Rehash
  <2> HIDE DEF R0, ch0, changed, R, U
  <2> QED
    BY <2>1, <2>3
<1> HIDE DEF new, E, R
<1>7. \A s \in SlotId : V[s] = IF s < c THEN new[s] ELSE T[s]
  <2> SUFFICES ASSUME NEW s \in SlotId PROVE V[s] = IF s < c THEN new[s] ELSE T[s]
    OBVIOUS
  <2>0. s \in Nat
    BY CapacityAssumption DEF SlotId
  <2>1. CASE s < c
    <3>1. s \in 0 .. c - 1
      BY <2>0, <2>1, <1>1
    <3> QED
      BY <3>1, <2>1
  <2>2. CASE ~ (s < c)
    <3>1. s \notin changed
      BY <2>2, <2>0, <1>1
    <3> HIDE DEF changed
    <3> QED
      BY <3>1, <2>2
  <2> QED
    BY <2>1, <2>2
<1>8. V \in [SlotId -> Entry \cup {Empty, Unknown}]
  BY <1>1, <1>4 DEF Tables
<1>9. q \subseteq SlotId \cup {Meta} /\ (S.cached \cup {Meta} \cup (0 .. c - 1)) \subseteq q
  <2>1. changed \subseteq SlotId /\ 0 .. n - 1 \subseteq SlotId /\ S.cached \subseteq SlotId \cup {Meta}
    BY <1>1 DEF Partial
  <2>2. \A s \in 0 .. c - 1 : s \in 0 .. n - 1 \/ s \in changed
    BY <1>1
  <2> QED
    BY <2>1, <2>2
<1> HIDE DEF V
<1>10. U = [R EXCEPT !.slots = V, !.capacity = c, !.cached = q, !.rehashed = TRUE]
  BY <1>2, <1>6 DEF Partial
<1> HIDE DEF q, U, changed
<1>11. /\ U \in Partial /\ ~ U.failed /\ U.capacity = c /\ U.hand = S.hand /\ U.gap = S.gap /\ U.delta = S.delta /\ U.rehashed
       /\ U.slots = V /\ U.cached = q
  BY <1>2, <1>8, <1>9, <1>10 DEF Partial
<1> QED
  BY <1>3, <1>7, <1>9, <1>11 DEF U, new

(* A session that knows everything is one over the full state. *)
LEMMA PartialSession ==
  ASSUME NEW S \in Partial, S.capacity \in 1 .. MaxCapacity, \A s \in SlotId : S.slots[s] \in Entry \cup {Empty}
  PROVE  S \in Session
BY DEF Partial, Session, Tables

(* shi_rehash over the full state, with and without the updates in place,  *)
(* and over the witness, which has all the slots then                      *)
LEMMA ThreeRehash ==
  ASSUME NEW K, NEW A, NEW F, NEW P, Twin(A, F), View(K, F, P), P.capacity = F.capacity, 0 .. F.capacity - 1 \subseteq K,
         F.gap = NoSlot, UsageKnown(base), NEW store, UsageKnown(store), NEW c \in 1 .. MaxCapacity, c >= F.capacity
  PROVE  Twin(Rehash(base, A, c), Rehash(base, F, c)) /\ View(K, Rehash(base, F, c), Rehash(store, P, c)) /\ Rehash(store, P, c).capacity = c
<1> DEFINE n == F.capacity
           U == Rehash(base, A, c)
           V == Rehash(base, F, c)
           W == Rehash(store, P, c)
<1>1. /\ A \in Session /\ F \in Session /\ A \in Partial /\ F \in Partial /\ P \in Partial /\ A.capacity = n /\ n \in 1 .. MaxCapacity
      /\ (\A s \in SlotId : A.slots[s] \in Entry \cup {Empty} /\ F.slots[s] \in Entry \cup {Empty})
      /\ (\A s \in SlotId : A.slots[s] # Unknown /\ F.slots[s] # Unknown) /\ c \in Nat /\ n \in Nat
      /\ (\A s \in 0 .. n - 1 : s \in SlotId /\ s < n)
  BY KnownFacts, SessionPartial, CapacityAssumption DEF Twin, View
<1>2. \A s \in 0 .. n - 1 : P.slots[s] = F.slots[s] /\ P.slots[s] # Unknown
  BY <1>1 DEF View
<1>3. Entries(P) = Entries(F)
  BY <1>2 DEF Entries
<1>4. /\ U \in Partial /\ ~ U.failed /\ U.capacity = c /\ U.hand = A.hand /\ U.gap = A.gap /\ U.delta = A.delta /\ U.rehashed
      /\ \A s \in SlotId : U.slots[s] = IF s < c THEN Layout(Entries(A), c)[s] ELSE A.slots[s]
      /\ Entries(A) \subseteq Entry
  BY <1>1, RehashFields
<1>5. /\ V \in Partial /\ ~ V.failed /\ V.capacity = c /\ V.hand = F.hand /\ V.gap = F.gap /\ V.delta = F.delta /\ V.rehashed
      /\ \A s \in SlotId : V.slots[s] = IF s < c THEN Layout(Entries(F), c)[s] ELSE F.slots[s]
      /\ Entries(F) \subseteq Entry
  BY <1>1, RehashFields
<1>6. /\ W \in Partial /\ ~ W.failed /\ W.capacity = c /\ W.hand = P.hand /\ W.gap = P.gap /\ W.delta = P.delta /\ W.rehashed
      /\ \A s \in SlotId : W.slots[s] = IF s < c THEN Layout(Entries(F), c)[s] ELSE P.slots[s]
  BY <1>1, <1>2, <1>3, RehashFields
<1>7. SameKeys(Entries(A), Entries(F))
  <2>1. \A s \in 0 .. n - 1 : Alike(A.slots[s], F.slots[s])
    BY <1>1 DEF Twin
  <2>2. ASSUME NEW k PROVE (\E e \in Entries(A) : e.key = k) <=> (\E e \in Entries(F) : e.key = k)
    BY <2>1, <1>1 DEF Entries, Alike
  <2> QED
    BY <2>2, <1>4, <1>5 DEF SameKeys
<1>8. AlikeTables(Layout(Entries(A), c), Layout(Entries(F), c)) /\ Layout(Entries(A), c) \in Tables /\ Layout(Entries(F), c) \in Tables
  BY <1>7, LayoutAlike
<1> DEFINE L == Layout(Entries(A), c)
           N == Layout(Entries(F), c)
<1> HIDE DEF U, V, W, L, N
<1>9. \A s \in SlotId : L[s] \in Entry \cup {Empty} /\ N[s] \in Entry \cup {Empty} /\ Alike(L[s], N[s])
  BY <1>8 DEF AlikeTables, Tables, L, N
<1>10. U \in Session /\ V \in Session
  <2>1. \A s \in SlotId : U.slots[s] \in Entry \cup {Empty}
    BY <1>1, <1>4, <1>9 DEF L
  <2>2. \A s \in SlotId : V.slots[s] \in Entry \cup {Empty}
    BY <1>1, <1>5, <1>9 DEF N
  <2> QED
    BY <2>1, <2>2, <1>4, <1>5, PartialSession
<1>11. \A s \in SlotId : Alike(U.slots[s], V.slots[s])
  <2>1. \A s \in SlotId : Alike(A.slots[s], F.slots[s])
    BY DEF Twin
  <2> QED
    BY <2>1, <1>4, <1>5, <1>9 DEF L, N
<1>12. Twin(U, V)
  <2>1. A.gap = F.gap /\ A.delta = F.delta /\ Alike(A.hand, F.hand)
    BY DEF Twin
  <2>2. U.rehashed = V.rehashed
    BY <1>4, <1>5, <1>10 DEF Session
  <2> QED
    BY <2>1, <2>2, <1>4, <1>5, <1>10, <1>11 DEF Twin
<1>13. \A s \in SlotId : \/ W.slots[s] = V.slots[s]
                         \/ W.slots[s] = Unknown /\ V.slots[s] = base.slots[s] /\ (s < c => s \notin K)
  <2> SUFFICES ASSUME NEW s \in SlotId
               PROVE  \/ W.slots[s] = V.slots[s]
                      \/ W.slots[s] = Unknown /\ V.slots[s] = base.slots[s] /\ (s < c => s \notin K)
    OBVIOUS
  <2>1. CASE s < c
    BY <2>1, <1>5, <1>6
  <2>2. CASE ~ (s < c)
    <3>1. W.slots[s] = P.slots[s] /\ V.slots[s] = F.slots[s]
      BY <2>2, <1>5, <1>6
    <3> QED
      BY <2>2, <3>1 DEF View
  <2> QED
    BY <2>1, <2>2
<1>14. View(K, V, W)
  <2>1. P.gap = NoSlot /\ P.delta = F.delta /\ P.hand = F.hand
    BY DEF View
  <2>2. V.rehashed = W.rehashed
    BY <1>5, <1>6 DEF Partial
  <2> QED
    BY <2>1, <2>2, <1>5, <1>6, <1>10, <1>13 DEF View
<1> QED
  BY <1>6, <1>12, <1>14 DEF U, V, W

-------------------------------------------------------------------------------
(* shi_upsert and canonicalize on the three *)

(* What a witness w that has the keys K tells of the bucket before the block *)
Holds(K, w) ==
  /\ w.capacity \in {base.capacity, Unknown} /\ (Meta \in K => w.capacity = base.capacity)
  /\ \A s \in SlotId : w.slots[s] \in {base.slots[s], Unknown} /\ (s < base.capacity /\ s \in K => w.slots[s] = base.slots[s])
  /\ \A k \in DOMAIN w.fast : w.fast[k] \in SlotId

(* With the usage known it is the right one, *)
LEMMA UsageAgrees ==
  ASSUME BaseOk, NEW K, NEW w, Holds(K, w)
  PROVE  /\ UsageKnown(w) => \A S : usage_count(w, S) = usage_count(base, S)
         /\ {Meta} \cup (0 .. base.capacity - 1) \subseteq K => UsageKnown(w)
<1>1. /\ base.capacity \in 1 .. MaxCapacity /\ (\A s \in 0 .. base.capacity - 1 : s \in SlotId /\ s < base.capacity)
      /\ base.capacity # Unknown /\ \A s \in SlotId : base.slots[s] # Unknown
  BY CapacityAssumption, WitnessAssumption DEF BaseOk, SlotId, Tables
<1>2. ASSUME UsageKnown(w), NEW S PROVE usage_count(w, S) = usage_count(base, S)
  <2>1. w.capacity = base.capacity
    BY <1>2 DEF UsageKnown, Holds
  <2>2. \A s \in 0 .. base.capacity - 1 : w.slots[s] = base.slots[s]
    BY <1>1, <1>2, <2>1 DEF UsageKnown, Holds
  <2>3. {s \in 0 .. w.capacity - 1 : IsEntry(w.slots[s])} = {s \in 0 .. base.capacity - 1 : IsEntry(base.slots[s])}
    BY <2>1, <2>2
  <2> QED
    BY <2>3 DEF usage_count
<1>3. ASSUME {Meta} \cup (0 .. base.capacity - 1) \subseteq K PROVE UsageKnown(w)
  BY <1>1, <1>3 DEF UsageKnown, Holds
<1> QED
  BY <1>2, <1>3

(* and the lookup table does not find a key that is not there. *)
LEMMA NotFound ==
  ASSUME NEW K, NEW w, Holds(K, w), NEW F, NEW P, View(K, F, P), NEW k, k \notin KeysIn(F.slots)
  PROVE  DirectFind(w, P, k) = {}
<1> SUFFICES ASSUME NEW s \in DirectFind(w, P, k) PROVE FALSE
  OBVIOUS
<1>1. s \in SlotId /\ P.slots[s] # Unknown /\ P.slots[s] # Empty /\ P.slots[s].key = k
  BY DEF DirectFind, Holds, IsEntry
<1>2. F.slots[s] # Empty /\ F.slots[s].key = k
  BY <1>1 DEF View
<1> QED
  BY <1>1, <1>2 DEF KeysIn, Occupied

(* The loop of shi_upsert over the full state never fails. *)
LEMMA ProbedSession ==
  ASSUME NEW S \in Session, ~ S.failed, NEW k, hash[k] \in Nat
  PROVE  LET W == Probed(S, k)
         IN  W \in Session /\ ~ W.failed /\ W.capacity = S.capacity /\ W.gap = S.gap /\ S.cached \subseteq W.cached
<1> DEFINE c == S.capacity
           D == {T \in Session : ~ T.failed /\ T.capacity = c /\ T.gap = S.gap /\ S.cached \subseteq T.cached}
           X == [i \in 0 .. c |-> D]
<1>1. c \in Nat \ {0} /\ 0 \in 0 .. c /\ c \in 0 .. c /\ \A i \in 1 .. c : i \in 0 .. c /\ i - 1 \in 0 .. c /\ i - 1 \in 0 .. c - 1
  BY KnownFacts
<1>2. ASSUME NEW i \in 1 .. c, NEW x \in D PROVE ProbeStep(x, probe(hash[k], i - 1, c)) \in D
  <2> DEFINE p == probe(hash[k], i - 1, c)
  <2>1. p \in 0 .. c - 1
    BY <1>1, ProbeValue
  <2> HIDE DEF p
  <2>2. CASE x.hand = Empty
    <3>1. ProbeStep(x, p) = x
      BY <2>2 DEF ProbeStep
    <3> QED
      BY <3>1 DEF p
  <2>3. CASE x.hand # Empty
    <3>1. ProbeStep(x, p) \in Session /\ Same(x, ProbeStep(x, p))
      BY <2>1, <2>3, ProbeCases
    <3> QED
      BY <3>1 DEF Same, p
  <2> QED
    BY <2>2, <2>3
<1>3. S \in X[0] /\ \A i \in 1 .. c : \A x \in X[i - 1] : ProbeStep(x, probe(hash[k], i - 1, c)) \in X[i]
  <2>1. S \in D
    OBVIOUS
  <2> HIDE DEF D
  <2> QED
    BY <1>1, <1>2, <2>1
<1>4. X[c] = D
  BY <1>1
<1>5. Probed(S, k) \in D
  <2> HIDE DEF X, D
  <2>1. PICK f : ProbeRun(f, S, k) /\ Stays(f, S.capacity, X)
    BY <1>1, <1>3, ProbedRun
  <2> QED
    BY <1>1, <1>4, <2>1 DEF ProbeRun, Stays
<1> QED
  BY <1>5

(* The first step of a call of shi_upsert reads the metadata, *)
Started(S, e) == ReadMeta([S EXCEPT !.hand = e])
(* then the loop runs, *)
Walked(S, e) == Probed(Started(S, e), e.key)
(* and then the bucket is resized, or not. *)
Settled(store, S, W) ==
  IF W.hand # Empty THEN Rehash(store, W, compute_resize_capacity(W.capacity, W.capacity))
  ELSE IF Resizes(store, S, W) THEN Rehash(store, W, compute_resize_capacity(W.capacity, usage_count(store, W)))
  ELSE W

(* These are the steps of a call that the lookup table does not answer. *)
LEMMA OnceCases ==
  ASSUME NEW store, NEW S, NEW e, DirectFind(store, S, e.key) = {}, ~ Started(S, e).failed, ~ Walked(S, e).failed
  PROVE  UpsertOnce(store, S, e) = Settled(store, S, Walked(S, e))
BY Zenon DEF UpsertOnce, Started, Walked, Settled

(* The fields of a session after the first one. *)
LEMMA StartedFields ==
  ASSUME NEW S \in Partial, S.capacity # Unknown, NEW e \in Entry
  PROVE  LET U == Started(S, e)
         IN  /\ U \in Partial /\ ~ U.failed /\ U.cached = S.cached \cup {Meta} /\ U.slots = S.slots /\ U.delta = S.delta
             /\ U.capacity = S.capacity /\ U.rehashed = S.rehashed /\ U.hand = e /\ U.gap = S.gap
<1> DEFINE H == [S EXCEPT !.hand = e]
<1>1. /\ H \in Partial /\ H.cached = S.cached /\ H.slots = S.slots /\ H.delta = S.delta
      /\ H.capacity = S.capacity /\ H.rehashed = S.rehashed /\ H.hand = e /\ H.gap = S.gap
  BY HandFields
<1> HIDE DEF H
<1>2. LET U == ReadMeta(H)
      IN  /\ U \in Partial /\ ~ U.failed /\ U.cached = H.cached \cup {Meta} /\ U.slots = H.slots /\ U.delta = H.delta
          /\ U.capacity = H.capacity /\ U.rehashed = H.rehashed /\ U.hand = H.hand /\ U.gap = H.gap
  BY <1>1, MetaFields
<1>3. Started(S, e) = ReadMeta(H)
  BY DEF Started, H
<1> QED
  BY <1>1, <1>2, <1>3

(* The loop of shi_upsert, with the metadata *)
LEMMA ThreeWalked ==
  ASSUME hash \in [PlainKeys -> Nat], NEW K, NEW A, NEW F, NEW P, Twin(A, F), View(K, F, P),
         NEW d \in Entry, NEW e \in Entry, d.key = e.key, Walked(A, d).cached \subseteq K
  PROVE  /\ Twin(Walked(A, d), Walked(F, e)) /\ View(K, Walked(F, e), Walked(P, e)) /\ P.capacity = F.capacity
         /\ Walked(P, e).capacity = F.capacity /\ Walked(F, e).capacity = F.capacity /\ Walked(F, e).gap = F.gap
         /\ ~ Started(A, d).failed /\ ~ Started(F, e).failed /\ ~ Started(P, e).failed
<1> DEFINE k == e.key
           M == Started(A, d)
           N == Started(F, e)
           O == Started(P, e)
<1>1. /\ A \in Session /\ F \in Session /\ A \in Partial /\ F \in Partial /\ P \in Partial /\ A.capacity = F.capacity
      /\ A.capacity # Unknown /\ F.capacity # Unknown /\ k \in PlainKeys /\ hash[k] \in Nat /\ d # Empty /\ e # Empty
  BY KnownFacts, SessionPartial, EntryFacts DEF Twin, View
<1>2. /\ ~ M.failed /\ M.cached = A.cached \cup {Meta} /\ M.slots = A.slots /\ M.delta = A.delta
      /\ M.capacity = A.capacity /\ M.rehashed = A.rehashed /\ M.hand = d /\ M.gap = A.gap
  BY <1>1, StartedFields
<1>3. /\ ~ N.failed /\ N.slots = F.slots /\ N.delta = F.delta
      /\ N.capacity = F.capacity /\ N.rehashed = F.rehashed /\ N.hand = e /\ N.gap = F.gap
  BY <1>1, StartedFields
<1>4. M \in Session /\ N \in Session
  BY <1>1, WithHand DEF Started
<1> HIDE DEF M, N
<1>5. Twin(M, N)
  BY <1>1, <1>2, <1>3, <1>4 DEF Twin, Alike
<1>6. Walked(A, d) = Probed(M, k) /\ Walked(F, e) = Probed(N, k) /\ Walked(P, e) = Probed(O, k)
  BY DEF Walked, M, N
<1>7. Meta \in K
  <2>1. M.cached \subseteq Probed(M, k).cached
    BY <1>1, <1>2, <1>4, ProbedSession
  <2> QED
    BY <2>1, <1>2, <1>6
<1>8. P.capacity = F.capacity
  BY <1>7 DEF View
<1>9. /\ O \in Partial /\ ~ O.failed /\ O.slots = P.slots /\ O.delta = P.delta
      /\ O.capacity = P.capacity /\ O.rehashed = P.rehashed /\ O.hand = e /\ O.gap = P.gap
  BY <1>1, <1>8, StartedFields
<1> HIDE DEF O
<1>10. View(K, N, O) /\ O.capacity = N.capacity
  BY <1>3, <1>4, <1>8, <1>9 DEF View
<1>11. /\ Twin(Probed(M, k), Probed(N, k)) /\ View(K, Probed(N, k), Probed(O, k))
       /\ Probed(O, k).capacity = N.capacity /\ Probed(N, k).capacity = N.capacity
  BY <1>1, <1>5, <1>6, <1>10, ThreeProbed
<1>12. Probed(N, k).gap = N.gap
  BY <1>1, <1>3, <1>4, ProbedSession
<1> QED
  BY <1>2, <1>3, <1>6, <1>8, <1>9, <1>11, <1>12 DEF M, N, O

(* Doubling does not shrink. *)
LEMMA ReachLarger ==
  ASSUME NEW b \in Nat
  PROVE  \A n \in Reach(b) : n \in Nat /\ b <= n
<1> DEFINE Z == {n \in Nat : b <= n}
<1>1. Z \subseteq Nat /\ b \in Z /\ \A z \in Z : 2 * z \in Z
  OBVIOUS
<1>2. Reach(b) \subseteq Z
  <2> HIDE DEF Z
  <2> QED
    BY <1>1, ReachInto
<1> QED
  BY <1>2

(* Twins have the same keys. *)
LEMMA TwinKeys ==
  ASSUME NEW A, NEW F, Twin(A, F)
  PROVE  KeysIn(A.slots) = KeysIn(F.slots)
<1>1. \A s \in SlotId : Alike(A.slots[s], F.slots[s])
  BY DEF Twin
<1>2. Occupied(A.slots) = Occupied(F.slots)
  BY <1>1 DEF Occupied, Alike
<1>3. \A s \in Occupied(F.slots) : A.slots[s].key = F.slots[s].key
  BY <1>1 DEF Occupied, Alike
<1> QED
  BY <1>2, <1>3 DEF KeysIn

(* The resize at the end of a call, when it is made, has all the slots cached. *)
LEMMA RehashCached ==
  ASSUME NEW S \in Session, NEW used, ~ Rehash(base, S, compute_resize_capacity(S.capacity, used)).failed, UsageKnown(base)
  PROVE  LET r == compute_resize_capacity(S.capacity, used)
         IN  r \in 1 .. MaxCapacity /\ r >= S.capacity /\ S.cached \cup {Meta} \cup (0 .. r - 1) \subseteq Rehash(base, S, r).cached
<1> DEFINE r == compute_resize_capacity(S.capacity, used)
           n == S.capacity
<1>1. n \in 1 .. MaxCapacity /\ n \in Nat \ {0} /\ S \in Partial /\ \A s \in 0 .. n - 1 : S.slots[s] # Unknown
  BY KnownFacts, SessionPartial
<1>2. r \in Nat /\ r >= n
  BY <1>1, Grown
<1> HIDE DEF r
<1>3. r <= MaxCapacity
  <2> SUFFICES ASSUME ~ (r <= MaxCapacity) PROVE FALSE
    OBVIOUS
  <2>1. r > MaxCapacity
    BY <1>2, CapacityAssumption
  <2>2. Rehash(base, S, r) = [S EXCEPT !.failed = TRUE]
    BY <2>1 DEF Rehash
  <2>3. Rehash(base, S, r).failed
    BY <2>2 DEF Session
  <2> QED
    BY <2>3 DEF r
<1>4. r \in 1 .. MaxCapacity
  BY <1>1, <1>2, <1>3, CapacityAssumption
<1>5. S.cached \cup {Meta} \cup (0 .. r - 1) \subseteq Rehash(base, S, r).cached
  BY <1>1, <1>2, <1>4, RehashFields
<1> QED
  BY <1>2, <1>4, <1>5 DEF r

(* One call of shi_upsert for a key that is not there, over the full       *)
(* state, with and without the updates in place, and over the witness      *)
LEMMA ThreeOnce ==
  ASSUME BaseOk, NEW K, NEW w, Holds(K, w), NEW A, NEW F, NEW P, Twin(A, F), View(K, F, P),
         F.gap = NoSlot, base.capacity <= F.capacity, NEW d \in Entry, NEW e \in Entry, d.key = e.key, e.key \notin KeysIn(F.slots),
         ~ UpsertOnce(base, A, d).failed, UpsertOnce(base, A, d).cached \subseteq K
  PROVE  Twin(UpsertOnce(base, A, d), UpsertOnce(base, F, e)) /\ View(K, UpsertOnce(base, F, e), UpsertOnce(w, P, e))
<1> DEFINE c == F.capacity
           X == Walked(A, d)
           Y == Walked(F, e)
           Z == Walked(P, e)
           U == UpsertOnce(base, A, d)
<1>1. /\ A \in Session /\ F \in Session /\ A.capacity = c /\ c \in 1 .. MaxCapacity /\ c \in Nat \ {0} /\ hash \in [PlainKeys -> Nat]
      /\ d.key \in PlainKeys /\ A.delta = F.delta /\ P.delta = F.delta /\ UsageKnown(base) /\ base.capacity \in Nat
      /\ (\A S, k : DirectFind(base, S, k) = {}) /\ \A S : usage_count(base, S) = BaseCount + S.delta
  BY KnownFacts, EntryFacts, BaseCounted DEF Twin, View, BaseOk
<1>2. /\ ~ Started(A, d).failed /\ X \in Session /\ ~ X.failed /\ X.capacity = c
  <2> DEFINE M == Started(A, d)
  <2>1. M \in Session /\ ~ M.failed /\ M.capacity = A.capacity
    BY <1>1, WithHand DEF Started
  <2> HIDE DEF M
  <2>2. Probed(M, d.key) \in Session /\ ~ Probed(M, d.key).failed /\ Probed(M, d.key).capacity = A.capacity
    BY <1>1, <2>1, ProbedSession
  <2> QED
    BY <1>1, <2>1, <2>2 DEF Walked, M
<1>3. U = Settled(base, A, X)
  BY <1>1, <1>2, OnceCases
<1> DEFINE r == compute_resize_capacity(c, IF X.hand # Empty THEN c ELSE usage_count(base, X))
           grows == X.hand # Empty \/ Resizes(base, A, X)
<1>4. U = IF grows THEN Rehash(base, X, r) ELSE X
  <2> HIDE DEF X, U, c
  <2> QED
    BY <1>2, <1>3 DEF Settled
<1> HIDE DEF U, X, Y, Z, r, grows
<1>5. ASSUME grows
      PROVE  r \in 1 .. MaxCapacity /\ r >= c /\ X.cached \cup {Meta} \cup (0 .. r - 1) \subseteq U.cached
  <2> DEFINE used == IF X.hand # Empty THEN c ELSE usage_count(base, X)
  <2>1. r = compute_resize_capacity(X.capacity, used)
    BY <1>2 DEF r
  <2> HIDE DEF used
  <2>2. ~ Rehash(base, X, compute_resize_capacity(X.capacity, used)).failed
    BY <2>1, <1>4, <1>5 DEF U
  <2>3. r \in 1 .. MaxCapacity /\ r >= X.capacity /\ X.cached \cup {Meta} \cup (0 .. r - 1) \subseteq Rehash(base, X, r).cached
    BY <2>1, <2>2, <1>1, <1>2, RehashCached
  <2> QED
    BY <2>3, <1>2, <1>4, <1>5
<1>6. X.cached \subseteq K
  <2>1. X.cached \subseteq U.cached
    BY <1>4, <1>5
  <2> QED
    BY <2>1 DEF U
<1>7. /\ Twin(X, Y) /\ View(K, Y, Z) /\ P.capacity = c
      /\ Z.capacity = c /\ Y.capacity = c /\ Y.gap = NoSlot
      /\ ~ Started(F, e).failed /\ ~ Started(P, e).failed
  BY <1>1, <1>6, ThreeWalked DEF X, Y, Z
<1>8. ~ Y.failed /\ ~ Z.failed /\ (X.hand = Empty <=> Y.hand = Empty) /\ Z.hand = Y.hand /\ X.delta = Y.delta /\ Z.delta = Y.delta
  BY <1>7 DEF Twin, View, Alike
<1>9. UpsertOnce(base, F, e) = Settled(base, F, Y)
  BY <1>1, <1>7, <1>8, OnceCases DEF Y
<1>10. UpsertOnce(w, P, e) = Settled(w, P, Z)
  <2>1. DirectFind(w, P, e.key) = {}
    BY NotFound
  <2> QED
    BY <2>1, <1>7, <1>8, OnceCases DEF Z
<1>11. Resizes(base, F, Y) <=> Resizes(base, A, X)
  <2>1. usage_count(base, Y) = usage_count(base, X)
    BY <1>1, <1>8
  <2> QED
    BY <2>1, <1>1, <1>2, <1>7, <1>8 DEF Resizes
<1>12. UpsertOnce(base, F, e) = IF grows THEN Rehash(base, Y, r) ELSE Y
  <2>1. usage_count(base, Y) = usage_count(base, X)
    BY <1>1, <1>8
  <2> QED
    BY <2>1, <1>7, <1>8, <1>9, <1>11 DEF Settled, grows, r
<1>13. ASSUME grows PROVE UsageKnown(w)
  <2>1. {Meta} \cup (0 .. r - 1) \subseteq K
    BY <1>5, <1>13 DEF U
  <2>2. 0 .. base.capacity - 1 \subseteq 0 .. r - 1
    <3>1. r \in Nat /\ base.capacity <= r
      BY <1>1, <1>5, <1>13
    <3> QED
      BY <3>1, <1>1
  <2>3. {Meta} \cup (0 .. base.capacity - 1) \subseteq K
    BY <2>1, <2>2
  <2> QED
    BY <2>3, UsageAgrees
<1>14. UpsertOnce(w, P, e) = IF grows THEN Rehash(w, Z, r) ELSE Z
  <2>1. UsageKnown(w) => usage_count(w, Z) = usage_count(base, X)
    BY <1>1, <1>8, UsageAgrees
  <2>2. Resizes(w, P, Z) <=> UsageKnown(w) /\ Resizes(base, A, X)
    BY <2>1, <1>1, <1>2, <1>7, <1>8 DEF Resizes
  <2>3. X.hand = Empty => (Resizes(w, P, Z) <=> Resizes(base, A, X))
    BY <2>2, <1>13 DEF grows
  <2> QED
    BY <2>1, <2>3, <1>7, <1>8, <1>10, <1>13 DEF Settled, grows, r
<1>15. CASE grows
  <2>1. 0 .. c - 1 \subseteq K
    <3>1. 0 .. r - 1 \subseteq K /\ r \in Nat /\ r >= c
      BY <1>5, <1>15 DEF U
    <3>2. 0 .. c - 1 \subseteq 0 .. r - 1
      BY <3>1, <1>1
    <3> QED
      BY <3>1, <3>2
  <2>2. Twin(Rehash(base, X, r), Rehash(base, Y, r)) /\ View(K, Rehash(base, Y, r), Rehash(w, Z, r))
    BY <2>1, <1>1, <1>5, <1>7, <1>13, <1>15, ThreeRehash
  <2> QED
    BY <2>2, <1>4, <1>12, <1>14, <1>15 DEF U
<1>16. CASE ~ grows
  BY <1>4, <1>7, <1>12, <1>14, <1>16 DEF U
<1> QED
  BY <1>15, <1>16

(* shi_upsert for a key that is not there *)
LEMMA ThreeUpsert ==
  ASSUME BaseOk, NEW K, NEW w, Holds(K, w), NEW A, NEW F, NEW P, Twin(A, F), View(K, F, P), Ready(A), Ready(F),
         NEW d \in Entry, NEW e \in Entry, d.key = e.key, e.key \notin KeysIn(F.slots),
         ~ ShiUpsert(base, A, d).failed, ShiUpsert(base, A, d).cached \subseteq K
  PROVE  Twin(ShiUpsert(base, A, d), ShiUpsert(base, F, e)) /\ View(K, ShiUpsert(base, F, e), ShiUpsert(w, P, e))
<1> DEFINE X == UpsertOnce(base, A, d)
           Y == UpsertOnce(base, F, e)
           Z == UpsertOnce(w, P, e)
           U == ShiUpsert(base, A, d)
<1>1. Sound(A) /\ Sound(F) /\ F.gap = NoSlot /\ base.capacity \in Nat /\ F.capacity \in Reach(base.capacity)
  BY BaseCounted DEF Ready, Sound
<1>2. base.capacity <= F.capacity
  BY <1>1, ReachLarger
<1>3. d.key \notin KeysIn(A.slots)
  BY TwinKeys
<1>4. U = IF X.failed \/ X.hand = Empty THEN X ELSE UpsertOnce(base, X, X.hand)
  BY Zenon DEF ShiUpsert
<1>5. ShiUpsert(base, F, e) = IF Y.failed \/ Y.hand = Empty THEN Y ELSE UpsertOnce(base, Y, Y.hand)
  BY Zenon DEF ShiUpsert
<1>6. ShiUpsert(w, P, e) = IF Z.failed \/ Z.hand = Empty THEN Z ELSE UpsertOnce(w, Z, Z.hand)
  BY Zenon DEF ShiUpsert
<1>7. (X.failed \/ UpsertedOnce(A, d.key, X)) /\ (Y.failed \/ UpsertedOnce(F, e.key, Y))
  BY <1>1, <1>3, UpsertOnceAbsent
<1>8. ASSUME ~ X.failed, X.cached \subseteq K PROVE Twin(X, Y) /\ View(K, Y, Z)
  BY <1>1, <1>2, <1>8, ThreeOnce
<1> HIDE DEF X, Y, Z
<1>9. ~ X.failed
  BY <1>4
<1>10. UpsertedOnce(A, d.key, X)
  BY <1>7, <1>9
<1>11. CASE X.hand = Empty
  <2>1. Twin(X, Y) /\ View(K, Y, Z)
    BY <1>4, <1>8, <1>9, <1>11
  <2>2. Y.hand = Empty /\ Z.hand = Empty
    BY <2>1, <1>11 DEF Twin, View, Alike
  <2> QED
    BY <2>1, <2>2, <1>4, <1>5, <1>6, <1>11
<1>12. CASE X.hand # Empty
  <2> DEFINE V == UpsertOnce(base, X, X.hand)
  <2>1. U = V
    BY <1>4, <1>9, <1>12
  <2>2. Sound(X) /\ X.hand.key \notin KeysIn(X.slots) /\ X.hand \in Entry
    BY <1>10, <1>12 DEF UpsertedOnce, Sound, Session
  <2>3. V.failed \/ UpsertedOnce(X, X.hand.key, V)
    BY <2>2, UpsertOnceAbsent
  <2> HIDE DEF V
  <2>4. ~ V.failed /\ X.cached \subseteq V.cached /\ V.cached \subseteq K
    BY <2>1, <2>3 DEF UpsertedOnce
  <2>5. Twin(X, Y) /\ View(K, Y, Z)
    BY <2>4, <1>8, <1>9
  <2>6. Y.hand # Empty /\ Z.hand = Y.hand /\ X.hand.key = Y.hand.key /\ ~ Y.failed /\ ~ Z.failed
    BY <2>5, <1>12 DEF Twin, View, Alike
  <2>7. Sound(Y) /\ Y.hand.key \notin KeysIn(Y.slots) /\ Y.hand \in Entry
    BY <2>6, <1>7 DEF UpsertedOnce, Sound, Session
  <2>8. Y.gap = NoSlot /\ base.capacity <= Y.capacity
    BY <2>7, <1>1, ReachLarger DEF Sound
  <2>9. Twin(V, UpsertOnce(base, Y, Y.hand)) /\ View(K, UpsertOnce(base, Y, Y.hand), UpsertOnce(w, Z, Y.hand))
    BY <2>2, <2>4, <2>5, <2>6, <2>7, <2>8, ThreeOnce DEF V
  <2> QED
    BY <2>1, <2>6, <2>9, <1>5, <1>6
<1> QED
  BY <1>11, <1>12

(* A session is its own twin. *)
LEMMA TwinSelf ==
  ASSUME NEW F \in Session, ~ F.failed
  PROVE  Twin(F, F)
BY DEF Twin, Alike

(* Who sees with more known sees with less known. *)
LEMMA ViewLess ==
  ASSUME NEW K, NEW D, NEW F, NEW P, View(K \cup D, F, P)
  PROVE  View(K, F, P)
BY DEF View

(* All the keys of the bucket. *)
All == SlotId \cup {Meta}

(* A bucket of which all the slots are known *)
LEMMA ViewAll ==
  ASSUME NEW K, NEW F, NEW P, View(K, F, P), {Meta} \cup (0 .. F.capacity - 1) \subseteq K
  PROVE  View(K \cup All, F, P) /\ P.capacity = F.capacity
<1>1. P.capacity = F.capacity
  BY DEF View
<1>2. \A s \in SlotId : s < F.capacity => s \in K
  <2>1. F.capacity \in Nat
    BY KnownFacts DEF View
  <2>2. \A s \in SlotId : s < F.capacity => s \in 0 .. F.capacity - 1
    BY <2>1, CapacityAssumption DEF SlotId
  <2> QED
    BY <2>2
<1>3. \A s \in SlotId : \/ P.slots[s] = F.slots[s]
                        \/ P.slots[s] = Unknown /\ F.slots[s] = base.slots[s] /\ (s < F.capacity => s \notin K \cup All)
  BY <1>2 DEF View
<1> QED
  BY <1>1, <1>3 DEF View

(* A session caches no others. *)
LEMMA CachedAll ==
  ASSUME NEW S \in Session
  PROVE  S.cached \subseteq All
BY DEF Session, All

(* shi_upsert for a key that is at slot s *)
LEMMA ThreePresent ==
  ASSUME BaseOk, NEW K, NEW w, Holds(K, w), NEW A, NEW F, NEW P, Twin(A, F), View(K, F, P), Ready(A), Ready(F),
         NEW e \in Entry, NEW s \in 0 .. F.capacity - 1, F.slots[s] # Empty, F.slots[s].key = e.key,
         DirectFind(w, P, e.key) # {} \/ {Meta} \cup (0 .. F.capacity - 1) \subseteq K
  PROVE  Twin(A, ShiUpsert(base, F, e)) /\ View(K, ShiUpsert(base, F, e), ShiUpsert(w, P, e))
<1> DEFINE k == e.key
           c == F.capacity
           V == ShiUpsert(base, F, e)
           T == UpsertOnce(w, P, e)
           U == ShiUpsert(w, P, e)
           D == DirectFind(w, P, k)
<1>1. /\ A \in Session /\ F \in Session /\ P \in Partial /\ F \in Partial /\ F.slots \in Tables /\ s \in SlotId /\ c \in 1 .. MaxCapacity /\ k \in PlainKeys
      /\ hash \in [PlainKeys -> Nat] /\ ShiOrdered(F.slots, hash, c) /\ Within(F.slots, c) /\ ~ F.failed /\ ~ P.failed
      /\ F.delta \in Int /\ P.delta = F.delta /\ P.gap = NoSlot /\ F.gap = NoSlot /\ e # Empty /\ e # Unknown
      /\ P.slots \in [SlotId -> Entry \cup {Empty, Unknown}] /\ A.hand = Empty /\ A.gap = NoSlot /\ F.hand = Empty
  BY KnownFacts, SessionPartial, EntryFacts, WitnessAssumption DEF Twin, View, Ready, Sound,
     BaseOk, Session, Partial
<1>2. Replaced(F, s, e, V)
  BY UpsertPresent
<1>3. U = IF T.failed \/ T.hand = Empty THEN T ELSE UpsertOnce(w, T, T.hand)
  BY Zenon DEF ShiUpsert
<1> HIDE DEF V
<1>4. /\ V \in Session /\ ~ V.failed /\ V.gap = NoSlot /\ V.hand = Empty /\ V.capacity = c /\ V.delta = F.delta /\ V.rehashed = F.rehashed
      /\ \A t \in SlotId : V.slots[t] = IF t = s THEN e ELSE F.slots[t]
  BY <1>1, <1>2 DEF Replaced, Ready, Sound, Tables
<1>5. Twin(A, V)
  <2>1. \A t \in SlotId : Alike(A.slots[t], V.slots[t])
    BY <1>1, <1>4 DEF Twin, Alike
  <2>2. Alike(A.hand, V.hand)
    BY <1>1, <1>4 DEF Alike
  <2> QED
    BY <1>1, <1>4, <2>1, <2>2 DEF Twin
<1>6. CASE D # {}
  <2> DEFINE t == CHOOSE x \in D : TRUE
             Q == Put(P, s, e)
  <2>1. t = s /\ P.slots[s] # Unknown
    <3>1. t \in D
      BY <1>6
    <3> HIDE DEF t
    <3>2. t \in SlotId /\ P.slots[t] # Unknown /\ P.slots[t] # Empty /\ P.slots[t].key = k
      BY <3>1 DEF DirectFind, Holds, IsEntry
    <3>3. F.slots[t] # Empty /\ F.slots[t].key = k
      BY <3>2 DEF View
    <3>4. t \in Occupied(F.slots) /\ s \in Occupied(F.slots)
      BY <3>2, <3>3, <1>1 DEF Occupied
    <3> QED
      BY <1>1, <3>2, <3>3, <3>4, OrderedEntriesUnique
  <2>2. T = [Q EXCEPT !.hand = Empty]
    <3>1. T = [Put(P, t, e) EXCEPT !.hand = Empty]
      BY <1>6, Zenon DEF UpsertOnce
    <3> HIDE DEF T, t
    <3> QED
      BY <2>1, <3>1
  <2>3. P.slots[s] = F.slots[s] /\ One(P.slots[s]) = 1 /\ One(e) = 1
    BY <1>1, <2>1, OneValue DEF View, Tables
  <2>4. /\ Q \in Partial /\ Q.slots = [P.slots EXCEPT ![s] = e] /\ Q.delta = P.delta + (One(e) - One(P.slots[s]))
        /\ Q.capacity = P.capacity /\ Q.rehashed = P.rehashed /\ Q.gap = P.gap /\ Q.failed = P.failed
    <3>1. e \in Entry \cup {Empty}
      OBVIOUS
    <3> QED
      BY <3>1, <1>1, PutFields
  <2> HIDE DEF Q, T
  <2>5. Q.delta = F.delta
    BY <1>1, <2>3, <2>4
  <2>6. /\ T \in Partial /\ T.slots = Q.slots /\ T.delta = F.delta /\ T.capacity = P.capacity /\ T.rehashed = P.rehashed
        /\ T.hand = Empty /\ T.gap = NoSlot /\ ~ T.failed
    BY <1>1, <2>2, <2>4, <2>5, HandFields
  <2>7. \A x \in SlotId : T.slots[x] = IF x = s THEN e ELSE P.slots[x]
    BY <1>1, <2>4, <2>6
  <2>8. ASSUME NEW x \in SlotId
        PROVE  \/ T.slots[x] = V.slots[x]
               \/ T.slots[x] = Unknown /\ V.slots[x] = base.slots[x] /\ (x < V.capacity => x \notin K)
    <3>1. \/ P.slots[x] = F.slots[x]
          \/ P.slots[x] = Unknown /\ F.slots[x] = base.slots[x] /\ (x < F.capacity => x \notin K)
      BY DEF View
    <3> QED
      BY <3>1, <2>7, <1>4
  <2>9. \/ T.capacity = V.capacity
        \/ T.capacity = Unknown /\ V.capacity = base.capacity /\ Meta \notin K
    BY <2>6, <1>4 DEF View
  <2>10. T.rehashed = V.rehashed
    BY <2>6, <1>4 DEF View
  <2>11. View(K, V, T)
    BY <2>6, <2>8, <2>9, <2>10, <1>4 DEF View
  <2>12. U = T
    BY <1>3, <2>6
  <2> QED
    BY <2>11, <2>12, <1>5 DEF V
<1>7. CASE D = {}
  <2> DEFINE L == K \cup All
             Y == Walked(F, e)
             Z == Walked(P, e)
  <2>1. View(L, F, P) /\ P.capacity = F.capacity
    BY <1>7, ViewAll
  <2>2. /\ Y \in Session /\ Y.capacity = c /\ Y.hand = Empty /\ Y.delta = F.delta /\ ~ Y.failed
    <3> DEFINE M == ReadMeta([F EXCEPT !.hand = e])
    <3>1. /\ M \in Session /\ ~ M.failed /\ M.hand = e /\ M.slots = F.slots /\ M.capacity = c /\ M.delta = F.delta
      BY <1>1, WithHand
    <3> HIDE DEF M
    <3>2. LET W == Probed(M, k) IN W \in Session /\ Same(M, W) /\ W.delta = M.delta /\ W.hand = Empty
      <4>1. /\ M.hand \in Entry /\ s \in 0 .. M.capacity - 1 /\ M.slots[s] # Empty /\ M.slots[s].key = M.hand.key
            /\ ShiOrdered(M.slots, hash, M.capacity) /\ M.hand.key = k
        BY <1>1, <3>1
      <4>2. LET W == Probed(M, M.hand.key) IN W \in Session /\ Same(M, W) /\ W.delta = M.delta /\ W.hand = Empty
        BY <1>1, <3>1, <4>1, ProbedPresent
      <4> QED
        BY <4>1, <4>2
    <3>3. Y = Probed(M, k)
      BY DEF Walked, Started, M
    <3> QED
      BY <3>1, <3>2, <3>3 DEF Same
  <2>3. Twin(F, F) /\ Y.cached \subseteq L
    BY <1>1, <2>2, TwinSelf, CachedAll
  <2>4. /\ View(L, Y, Z) /\ Z.capacity = F.capacity /\ ~ Started(F, e).failed /\ ~ Started(P, e).failed
    <3> HIDE DEF L
    <3> QED
      BY <1>1, <2>1, <2>3, ThreeWalked
  <2> HIDE DEF Y, Z
  <2>5. Z.hand = Empty /\ Z.delta = F.delta /\ ~ Z.failed
    BY <2>2, <2>4 DEF View
  <2>6. View(K, Y, Z)
    BY <2>4, ViewLess
  <2>7. T = Z
    <3>1. T = Settled(w, P, Z)
      BY <1>7, <2>4, <2>5, OnceCases DEF Z
    <3>2. ~ Resizes(w, P, Z)
      BY <1>1, <2>5 DEF Resizes
    <3> QED
      BY <3>1, <3>2, <2>5 DEF Settled
  <2>8. V = Y
    <3>1. DirectFind(base, F, k) = {}
      BY BaseCounted
    <3>2. UpsertOnce(base, F, e) = Settled(base, F, Y)
      BY <3>1, <2>2, <2>4, OnceCases DEF Y
    <3>3. ~ Resizes(base, F, Y)
      BY <1>1, <2>2 DEF Resizes
    <3>4. UpsertOnce(base, F, e) = Y
      BY <3>2, <3>3, <2>2 DEF Settled
    <3>5. V = IF UpsertOnce(base, F, e).failed \/ UpsertOnce(base, F, e).hand = Empty THEN UpsertOnce(base, F, e)
              ELSE UpsertOnce(base, UpsertOnce(base, F, e), UpsertOnce(base, F, e).hand)
      BY Zenon DEF ShiUpsert, V
    <3> QED
      BY <3>4, <3>5, <2>2
  <2>9. U = Z
    <3> HIDE DEF T, U
    <3> QED
      BY <1>3, <2>5, <2>7
  <2> QED
    BY <2>6, <2>8, <2>9, <1>5 DEF V
<1> QED
  BY <1>6, <1>7

(* The fields of a bucket that canonicalize has emptied *)
Emptied(store, S, U) ==
  /\ U \in Partial /\ ~ U.failed /\ U.capacity = store.capacity /\ U.delta = S.delta - Cardinality(Occupants(S))
  /\ U.rehashed = S.rehashed /\ U.hand = S.hand /\ U.gap = S.gap
  /\ {Meta} \cup (0 .. S.capacity - 1) \subseteq U.cached
  /\ \A s \in SlotId : U.slots[s] = IF s \in Occupants(S) THEN Empty ELSE S.slots[s]

(* Those of Cleared, when all the slots are known. *)
LEMMA ClearedFields ==
  ASSUME NEW store, store.capacity \in 1 .. MaxCapacity, NEW S \in Partial, S.capacity \in 1 .. MaxCapacity,
         \A s \in 0 .. S.capacity - 1 : S.slots[s] # Unknown
  PROVE  Emptied(store, S, Cleared(store, S))
<1> DEFINE b == store.capacity
           c == S.capacity
           M == ReadMeta(S)
           R == ReadSlots(M, 0 .. S.capacity - 1)
           O == Occupants(S)
           V == [s \in SlotId |-> IF s \in O THEN Empty ELSE S.slots[s]]
           d == S.delta - Cardinality(O)
           U == Cleared(store, S)
<1>1. S.capacity # Unknown /\ b # Unknown /\ 0 .. c - 1 \subseteq SlotId /\ S.slots \in [SlotId -> Entry \cup {Empty, Unknown}] /\ S.delta \in Int
  BY WitnessAssumption, CapacityAssumption DEF SlotId, Partial
<1>2. /\ M \in Partial /\ ~ M.failed /\ M.cached = S.cached \cup {Meta} /\ M.slots = S.slots /\ M.delta = S.delta
      /\ M.capacity = S.capacity /\ M.rehashed = S.rehashed /\ M.hand = S.hand /\ M.gap = S.gap
  BY <1>1, MetaFields
<1> HIDE DEF M
<1>3. /\ R \in Partial /\ ~ R.failed /\ R.cached = M.cached \cup (0 .. c - 1) /\ R.slots = M.slots /\ R.delta = M.delta
      /\ R.capacity = M.capacity /\ R.rehashed = M.rehashed /\ R.hand = M.hand /\ R.gap = M.gap
  <2>1. R = ReadSlots(M, 0 .. c - 1)
    OBVIOUS
  <2> HIDE DEF R
  <2> QED
    BY <1>1, <1>2, <2>1, ReadFields
<1>4. d \in Int /\ V \in [SlotId -> Entry \cup {Empty, Unknown}]
  <2>1. IsFiniteSet(O)
    <3>1. O \subseteq 0 .. c - 1 /\ IsFiniteSet(0 .. c - 1)
      BY FS_Interval, CapacityAssumption DEF Occupants
    <3> QED
      BY <3>1, FS_Subset
  <2>2. Cardinality(O) \in Nat
    BY <2>1, FS_CardinalityType
  <2> QED
    BY <1>1, <2>2
<1>5. U = [R EXCEPT !.slots = V, !.capacity = store.capacity, !.delta = @ - Cardinality(O), !.failed = R.failed \/ store.capacity = Unknown]
  BY Zenon DEF Cleared, M
<1>6. (R.failed \/ store.capacity = Unknown) = FALSE
  BY <1>1, <1>3
<1> HIDE DEF R, V, U, O
<1>7. U = [R EXCEPT !.slots = V, !.capacity = b, !.delta = d, !.failed = FALSE]
  BY <1>2, <1>3, <1>5, <1>6 DEF Partial
<1> HIDE DEF d
<1>8. /\ U \in Partial /\ ~ U.failed /\ U.capacity = b /\ U.delta = d /\ U.slots = V
      /\ U.rehashed = R.rehashed /\ U.hand = R.hand /\ U.gap = R.gap /\ U.cached = R.cached
  BY <1>3, <1>4, <1>7 DEF Partial
<1> QED
  BY <1>2, <1>3, <1>8 DEF V, d, U, O, Emptied

(* canonicalize starts with an empty bucket that has room. *)
LEMMA ClearedReady ==
  ASSUME BaseOk, NEW F, Ready(F), F.rehashed
  PROVE  LET C == Cleared(base, F) IN Ready(C) /\ C.capacity = base.capacity /\ KeysIn(C.slots) = {} /\ C.rehashed
<1> DEFINE C == Cleared(base, F)
           b == base.capacity
           c == F.capacity
           O == Occupants(F)
<1>1. /\ F \in Session /\ F \in Partial /\ b \in 1 .. MaxCapacity /\ c \in 1 .. MaxCapacity /\ c \in Nat \ {0} /\ b \in Nat \ {0} /\ F.slots \in Tables
      /\ (\A s \in 0 .. c - 1 : s \in SlotId /\ s < c) /\ (\A s \in SlotId : F.slots[s] # Unknown) /\ F.delta \in Int /\ hash \in [PlainKeys -> Nat]
      /\ Within(F.slots, c) /\ ShiOrdered(F.slots, hash, c) /\ c \in Reach(b) /\ F.gap = NoSlot /\ F.hand = Empty
      /\ (\A s \in SlotId : F.slots[s] \in Entry \cup {Empty})
  BY KnownFacts, SessionPartial, CapacityAssumption DEF Ready, Sound, BaseOk, Session
<1>2. /\ C \in Partial /\ ~ C.failed /\ C.capacity = b /\ C.delta = F.delta - Cardinality(O)
      /\ C.rehashed = F.rehashed /\ C.hand = F.hand /\ C.gap = F.gap /\ {Meta} \cup (0 .. c - 1) \subseteq C.cached
      /\ \A s \in SlotId : C.slots[s] = IF s \in O THEN Empty ELSE F.slots[s]
  <2>1. (\A s \in 0 .. c - 1 : F.slots[s] # Unknown) /\ F.capacity = c /\ base.capacity = b
    BY <1>1
  <2>2. b \in 1 .. MaxCapacity /\ c \in 1 .. MaxCapacity /\ F \in Partial
    BY <1>1
  <2>3. Emptied(base, F, Cleared(base, F))
    BY <2>1, <2>2, ClearedFields
  <2> QED
    BY <2>3 DEF Emptied
<1>3. O = Occupied(F.slots)
  <2>1. \A s \in Occupied(F.slots) : s \in 0 .. c - 1
    BY <1>1, OccupiedWithin
  <2>2. Occupied(F.slots) \subseteq SlotId /\ \A s \in SlotId : s \in Occupied(F.slots) <=> F.slots[s] # Empty
    BY DEF Occupied
  <2> QED
    BY <2>1, <2>2, <1>1 DEF Occupants, IsEntry
<1> HIDE DEF C, O
<1>4. \A s \in SlotId : C.slots[s] = Empty
  BY <1>2, <1>3 DEF Occupied
<1>5. C \in Session
  BY <1>1, <1>2, <1>4, PartialSession
<1>6. Occupied(C.slots) = {} /\ KeysIn(C.slots) = {}
  BY <1>4 DEF Occupied, KeysIn
<1>7. ShiOrdered(C.slots, hash, b) /\ Within(C.slots, b)
  <2>1. \A s \in 0 .. b - 1 : C.slots[s] = Empty
    BY <1>1, <1>4, CapacityAssumption DEF SlotId
  <2> QED
    BY <2>1, <1>6 DEF ShiOrdered, Within
<1>8. Count(C) = 0
  BY <1>6, FS_EmptySet DEF Count
<1>9. Count(C) = BaseCount + C.delta
  <2>1. Count(F) = BaseCount + F.delta /\ Cardinality(O) = Count(F) /\ Count(F) \in Nat /\ BaseCount \in Nat
    BY <1>1, <1>3, KeysCount, BaseCounted DEF Ready, Sound, Count
  <2> QED
    BY <2>1, <1>1, <1>2, <1>8
<1>10. {Meta} \cup (0 .. b - 1) \subseteq C.cached
  <2>1. b <= c
    BY <1>1, ReachLarger
  <2>2. 0 .. b - 1 \subseteq 0 .. c - 1
    BY <2>1, <1>1
  <2> QED
    BY <2>2, <1>2
<1>11. Fits(C)
  <2>1. b * LoadFactorPct \in Nat
    BY <1>1, WitnessAssumption
  <2>2. 0 * 100 <= b * LoadFactorPct
    BY <2>1
  <2> QED
    BY <2>2, <1>2, <1>8 DEF Fits
<1>12. b \in Reach(b)
  BY <1>1, ReachClosed
<1> QED
  BY <1>1, <1>2, <1>5, <1>6, <1>7, <1>9, <1>10, <1>11, <1>12 DEF Ready, Sound, C

(* The keys of the slots before i *)
KeysBefore(F, i) == {F.slots[s].key : s \in {t \in Occupants(F) : t < i}}

(* canonicalize over the full state after i slots of S *)
Refilled(S, i) == {T \in Session : Ready(T) /\ T.capacity <= S.capacity /\ KeysIn(T.slots) = KeysBefore(S, i)}

(* The occupants of an ordered bucket are entries with different keys. *)
LEMMA OccupantsFacts ==
  ASSUME NEW S \in Session, hash \in [PlainKeys -> Nat], ShiOrdered(S.slots, hash, S.capacity), Within(S.slots, S.capacity)
  PROVE  /\ \A s \in Occupants(S) : s \in 0 .. S.capacity - 1 /\ s \in SlotId /\ S.slots[s] \in Entry /\ S.slots[s].key \in KeysIn(S.slots)
         /\ \A s, t \in Occupants(S) : S.slots[s].key = S.slots[t].key => s = t
<1>1. \A s \in Occupants(S) : s \in 0 .. S.capacity - 1 /\ s \in SlotId /\ S.slots[s] \in Entry /\ s \in Occupied(S.slots)
  BY KnownFacts DEF Occupants, IsEntry, Occupied
<1>2. \A s, t \in Occupants(S) : S.slots[s].key = S.slots[t].key => s = t
  BY <1>1, KnownFacts, OrderedEntriesUnique
<1> QED
  BY <1>1, <1>2 DEF KeysIn

(* The entry of the next slot is inserted again; the bucket does not grow  *)
(* beyond what it had.                                                     *)
LEMMA RefillStep ==
  ASSUME BaseOk, NEW S, Ready(S), S.rehashed, NEW i \in 1 .. S.capacity, NEW T \in Refilled(S, i - 1)
  PROVE  Reinsert(base, S, T, i - 1) \in Refilled(S, i)
<1> DEFINE c == S.capacity
           s == i - 1
           U == Reinsert(base, S, T, i - 1)
<1>1. /\ S \in Session /\ c \in 1 .. MaxCapacity /\ c \in Nat \ {0} /\ hash \in [PlainKeys -> Nat] /\ S.slots \in Tables
      /\ ShiOrdered(S.slots, hash, c) /\ Within(S.slots, c) /\ c \in Reach(base.capacity) /\ c <= MaxCapacity /\ Fits(S)
  BY KnownFacts, CapacityAssumption DEF Ready, Sound, BaseOk
<1>2. /\ \A t \in Occupants(S) : t \in 0 .. c - 1 /\ t \in SlotId /\ S.slots[t] \in Entry /\ S.slots[t].key \in KeysIn(S.slots)
      /\ \A x, y \in Occupants(S) : S.slots[x].key = S.slots[y].key => x = y
  BY <1>1, OccupantsFacts
<1>3. T \in Session /\ Ready(T) /\ T.capacity <= c /\ KeysIn(T.slots) = KeysBefore(S, s) /\ ~ T.failed /\ s \in Nat /\ i \in Nat
  BY <1>1 DEF Refilled, Ready, Sound
<1>4. {t \in Occupants(S) : t < i} = {t \in Occupants(S) : t < s} \cup {t \in Occupants(S) : t = s}
  <2>1. \A t \in Occupants(S) : t \in Nat /\ (t < i <=> t < s \/ t = s)
    BY <1>1, <1>2, <1>3
  <2> QED
    BY <2>1
<1>5. CASE s \notin Occupants(S)
  <2>1. U = T
    BY <1>5 DEF Reinsert
  <2>2. {t \in Occupants(S) : t = s} = {}
    BY <1>5
  <2>3. KeysBefore(S, i) = KeysBefore(S, s)
    BY <1>4, <2>2 DEF KeysBefore
  <2> QED
    BY <2>1, <2>3, <1>3 DEF Refilled
<1>6. CASE s \in Occupants(S)
  <2> DEFINE e == S.slots[s]
             V == ShiUpsert(base, T, e)
  <2>1. e \in Entry /\ e.key \in KeysIn(S.slots)
    BY <1>2, <1>6
  <2>2. U = V
    BY <1>3, <1>6 DEF Reinsert
  <2>3. e.key \notin KeysIn(T.slots)
    <3> SUFFICES ASSUME e.key \in KeysIn(T.slots) PROVE FALSE
      OBVIOUS
    <3>1. PICK t \in Occupants(S) : t < s /\ S.slots[t].key = e.key
      BY <1>3 DEF KeysBefore
    <3>2. t = s
      BY <3>1, <1>2, <1>6
    <3> QED
      BY <3>1, <3>2, <1>3
  <2> HIDE DEF e
  <2>4. (V.failed \/ Upserted(T, e.key, V)) /\ NoPanic(T, V)
    BY <1>3, <2>1, <2>3, UpsertAbsent
  <2> HIDE DEF V, U
  <2>5. KeysIn(T.slots) \cup {e.key} \subseteq KeysIn(S.slots)
    BY <1>2, <1>3, <2>1 DEF KeysBefore
  <2>6. (Count(T) + 1) * 100 <= c * LoadFactorPct
    <3>1. IsFiniteSet(KeysIn(S.slots)) /\ Count(S) \in Nat
      BY <1>1, KeysCount DEF Count
    <3>2. IsFiniteSet(KeysIn(T.slots)) /\ Count(T) \in Nat
      <4>1. T.capacity \in 1 .. MaxCapacity /\ T.slots \in Tables /\ Within(T.slots, T.capacity) /\ ShiOrdered(T.slots, hash, T.capacity)
        BY <1>3, KnownFacts DEF Ready, Sound
      <4> QED
        BY <4>1, <1>1, KeysCount DEF Count
    <3>3. Cardinality(KeysIn(T.slots) \cup {e.key}) = Count(T) + 1
      BY <2>3, <3>2, FS_AddElement DEF Count
    <3>4. Count(T) + 1 <= Count(S)
      BY <2>5, <3>1, <3>3, FS_Subset DEF Count
    <3> DEFINE x == c * LoadFactorPct
    <3>5. x \in Nat /\ Count(S) * 100 <= x
      BY <1>1, WitnessAssumption DEF Fits
    <3> HIDE DEF x
    <3>6. (Count(T) + 1) * 100 <= x
      BY <3>1, <3>2, <3>4, <3>5
    <3> QED
      BY <3>6 DEF x
  <2>7. ~ V.failed /\ V.capacity <= c
    BY <2>4, <2>6, <1>1, <1>3 DEF NoPanic
  <2>8. Ready(V) /\ KeysIn(V.slots) = KeysIn(T.slots) \cup {e.key}
    BY <2>4, <2>7 DEF Upserted
  <2>9. KeysBefore(S, i) = KeysBefore(S, s) \cup {e.key}
    <3>1. {t \in Occupants(S) : t = s} = {s}
      BY <1>6
    <3> QED
      BY <1>4, <3>1 DEF KeysBefore, e
  <2>10. V \in Session
    BY <2>8 DEF Ready, Sound
  <2> QED
    BY <2>2, <2>7, <2>8, <2>9, <2>10, <1>3 DEF Refilled, U
<1> QED
  BY <1>5, <1>6

(* A witness of the whole bucket. *)
LEMMA HoldsAll ==
  ASSUME BaseOk, NEW K, NEW w, Holds(K, w), {Meta} \cup (0 .. base.capacity - 1) \subseteq K
  PROVE  Holds(K \cup All, w) /\ w.capacity = base.capacity
<1>1. \A s \in SlotId : s < base.capacity => s \in K
  <2>1. base.capacity \in Nat
    BY BaseCounted
  <2>2. \A s \in SlotId : s < base.capacity => s \in 0 .. base.capacity - 1
    BY <2>1, CapacityAssumption DEF SlotId
  <2> QED
    BY <2>2
<1> QED
  BY <1>1 DEF Holds

(* One slot of canonicalize, over the witness *)
LEMMA ReinsertView ==
  ASSUME BaseOk, NEW L, All \subseteq L, NEW w, Holds(L, w), NEW F, NEW P, Occupants(P) = Occupants(F),
         \A s \in Occupants(F) : P.slots[s] = F.slots[s] /\ F.slots[s] \in Entry,
         NEW T, Ready(T), NEW Q, View(L, T, Q), NEW s,
         s \in Occupants(F) => F.slots[s].key \notin KeysIn(T.slots), ~ Reinsert(base, F, T, s).failed, Reinsert(base, F, T, s) \in Session
  PROVE  View(L, Reinsert(base, F, T, s), Reinsert(w, P, Q, s))
<1>1. ~ T.failed /\ ~ Q.failed /\ T \in Session
  BY DEF View
<1>2. CASE s \notin Occupants(F)
  BY <1>2 DEF Reinsert
<1>3. CASE s \in Occupants(F)
  <2> DEFINE e == F.slots[s]
  <2>1. e \in Entry /\ e.key \notin KeysIn(T.slots) /\ P.slots[s] = e
    BY <1>3
  <2>2. Reinsert(base, F, T, s) = ShiUpsert(base, T, e) /\ Reinsert(w, P, Q, s) = ShiUpsert(w, Q, e)
    BY <1>1, <1>3, <2>1 DEF Reinsert
  <2> HIDE DEF e
  <2>3. ~ ShiUpsert(base, T, e).failed /\ ShiUpsert(base, T, e).cached \subseteq L
    BY <2>2, CachedAll
  <2>4. Twin(T, T)
    BY <1>1, TwinSelf
  <2>5. View(L, ShiUpsert(base, T, e), ShiUpsert(w, Q, e))
    BY <2>1, <2>3, <2>4, ThreeUpsert
  <2> QED
    BY <2>2, <2>5
<1> QED
  BY <1>2, <1>3

(* canonicalize over the full state and over the witness *)
LEMMA CanonicalView ==
  ASSUME BaseOk, NEW K, NEW w, Holds(K, w), NEW F, NEW P, View(K, F, P), Ready(F),
         F.rehashed => {Meta} \cup (0 .. F.capacity - 1) \subseteq K
  PROVE  View(K, Canonicalize(base, F), Canonicalize(w, P))
<1>1. CASE ~ F.rehashed
  <2>1. ~ P.rehashed
    BY <1>1 DEF View
  <2>2. Canonicalize(base, F) = F /\ Canonicalize(w, P) = P
    BY <1>1, <2>1 DEF Canonicalize
  <2> QED
    BY <2>2
<1>2. CASE F.rehashed
  <2> DEFINE L == K \cup All
             c == F.capacity
             C == Cleared(base, F)
             D == Cleared(w, P)
             X == [i \in 0 .. c |-> Refilled(F, i)]
  <2>1. /\ F \in Session /\ P \in Partial /\ F \in Partial /\ c \in 1 .. MaxCapacity /\ c \in Nat \ {0} /\ base.capacity \in 1 .. MaxCapacity /\ hash \in [PlainKeys -> Nat]
        /\ (\A s \in 0 .. c - 1 : s \in SlotId /\ s < c) /\ (\A s \in SlotId : F.slots[s] # Unknown)
        /\ base.capacity \in Nat /\ c \in Reach(base.capacity) /\ F.gap = NoSlot /\ F.hand = Empty /\ P.rehashed
        /\ ShiOrdered(F.slots, hash, c) /\ Within(F.slots, c)
    BY <1>2, KnownFacts, SessionPartial, BaseCounted DEF Ready, Sound, BaseOk, View
  <2>2. View(L, F, P) /\ P.capacity = c
    BY <1>2, ViewAll
  <2>3. base.capacity <= c
    BY <2>1, ReachLarger
  <2>4. Holds(L, w) /\ w.capacity = base.capacity
    <3>1. 0 .. base.capacity - 1 \subseteq 0 .. c - 1
      BY <2>1, <2>3
    <3>2. {Meta} \cup (0 .. base.capacity - 1) \subseteq K
      BY <3>1, <1>2
    <3> QED
      BY <3>2, HoldsAll
  <2> HIDE DEF L
  <2>5. \A s \in 0 .. c - 1 : P.slots[s] = F.slots[s] /\ P.slots[s] # Unknown
    <3>1. \A s \in 0 .. c - 1 : s \in L
      BY <2>1 DEF L, All
    <3> QED
      BY <3>1, <2>1, <2>2 DEF View
  <2>6. Occupants(P) = Occupants(F)
    BY <2>2, <2>5 DEF Occupants
  <2>7. /\ \A s \in Occupants(F) : s \in 0 .. c - 1 /\ s \in SlotId /\ F.slots[s] \in Entry /\ P.slots[s] = F.slots[s]
        /\ \A s, t \in Occupants(F) : F.slots[s].key = F.slots[t].key => s = t
    BY <2>1, <2>5, OccupantsFacts
  <2>8. Ready(C) /\ C.capacity = base.capacity /\ KeysIn(C.slots) = {} /\ C.rehashed
    BY <1>2, ClearedReady
  <2>9. Emptied(base, F, C) /\ Emptied(w, P, D)
    <3>1. \A s \in 0 .. F.capacity - 1 : F.slots[s] # Unknown
      BY <2>1
    <3>2. Emptied(base, F, C)
      BY <3>1, <2>1, ClearedFields
    <3>3. w.capacity \in 1 .. MaxCapacity /\ P.capacity \in 1 .. MaxCapacity /\ \A s \in 0 .. P.capacity - 1 : P.slots[s] # Unknown
      BY <2>1, <2>2, <2>4, <2>5
    <3>4. Emptied(w, P, D)
      BY <3>3, <2>1, ClearedFields
    <3> QED
      BY <3>2, <3>4
  <2> HIDE DEF C, D
  <2>10. View(L, C, D)
    <3>1. /\ C \in Session /\ ~ C.failed /\ D \in Partial /\ ~ D.failed /\ C.capacity = base.capacity /\ D.capacity = base.capacity
          /\ D.gap = P.gap /\ C.gap = F.gap /\ D.hand = P.hand /\ C.hand = F.hand /\ C.rehashed = F.rehashed /\ D.rehashed = P.rehashed
          /\ C.delta = F.delta - Cardinality(Occupants(F)) /\ D.delta = P.delta - Cardinality(Occupants(F))
      BY <2>4, <2>6, <2>8, <2>9 DEF Emptied, Ready, Sound
    <3>2. /\ D.gap = C.gap /\ D.hand = C.hand /\ C.delta = D.delta /\ C.rehashed = D.rehashed /\ D.gap = NoSlot
      BY <3>1, <2>1, <2>2 DEF View
    <3>3. ASSUME NEW s \in SlotId
          PROVE  \/ D.slots[s] = C.slots[s]
                 \/ D.slots[s] = Unknown /\ C.slots[s] = base.slots[s] /\ (s < C.capacity => s \notin L)
      <4>1. /\ C.slots[s] = IF s \in Occupants(F) THEN Empty ELSE F.slots[s]
            /\ D.slots[s] = IF s \in Occupants(F) THEN Empty ELSE P.slots[s]
        BY <2>6, <2>9 DEF Emptied
      <4>2. \/ P.slots[s] = F.slots[s]
            \/ P.slots[s] = Unknown /\ F.slots[s] = base.slots[s] /\ (s < c => s \notin L)
        BY <2>2 DEF View
      <4>3. s \in Int /\ (s < base.capacity => s < c)
        BY <2>1, <2>3, CapacityAssumption DEF SlotId
      <4> QED
        BY <4>1, <4>2, <4>3, <3>1
    <3> QED
      BY <3>1, <3>2, <3>3 DEF View
  <2>11. C \in Refilled(F, 0)
    <3>1. {t \in Occupants(F) : t < 0} = {}
      BY <2>7
    <3>2. KeysBefore(F, 0) = {}
      BY <3>1 DEF KeysBefore
    <3> QED
      BY <3>2, <2>3, <2>8 DEF Refilled, Ready, Sound
  <2>12. 0 \in 0 .. c /\ c \in 0 .. c /\ c \in Nat /\ \A i \in 1 .. c : i \in 0 .. c /\ i - 1 \in 0 .. c
    BY <2>1
  <2>13. PICK f : CanonRun(f, base, F) /\ Stays(f, F.capacity, X)
    <3>1. Cleared(base, F) \in X[0] /\ \A i \in 1 .. c : \A x \in X[i - 1] : Reinsert(base, F, x, i - 1) \in X[i]
      BY <1>2, <2>11, <2>12, RefillStep DEF C
    <3> HIDE DEF X
    <3> QED
      BY <1>2, <2>12, <3>1, CanonicalRun
  <2>14. /\ f[0] = C /\ Canonicalize(base, F) = [f[c] EXCEPT !.rehashed = FALSE]
         /\ \A i \in 0 .. c : f[i] \in Refilled(F, i)
         /\ \A i \in 1 .. c : f[i] = Reinsert(base, F, f[i - 1], i - 1)
    BY <2>13 DEF CanonRun, Stays, C
  <2> DEFINE Y == [i \in 0 .. c |-> {T \in Partial : View(L, f[i], T)}]
  <2>15. D \in Y[0]
    BY <2>10, <2>12, <2>14 DEF View
  <2>16. ASSUME NEW i \in 1 .. c, NEW x \in Y[i - 1] PROVE Reinsert(w, P, x, i - 1) \in Y[i]
    <3> DEFINE T == f[i - 1]
               s == i - 1
    <3>1. View(L, T, x) /\ T \in Refilled(F, s) /\ f[i] \in Refilled(F, i) /\ f[i] = Reinsert(base, F, T, s)
      BY <2>12, <2>14
    <3>2. Ready(T) /\ f[i] \in Session /\ ~ f[i].failed /\ KeysIn(T.slots) = KeysBefore(F, s)
      BY <3>1 DEF Refilled, Ready, Sound
    <3>3. s \in Occupants(F) => F.slots[s].key \notin KeysIn(T.slots)
      <4> SUFFICES ASSUME s \in Occupants(F), F.slots[s].key \in KeysBefore(F, s) PROVE FALSE
        BY <3>2
      <4>1. PICK t \in Occupants(F) : t < s /\ F.slots[t].key = F.slots[s].key
        BY DEF KeysBefore
      <4>2. t = s /\ s \in Int
        BY <4>1, <2>7, <2>1
      <4> QED
        BY <4>1, <4>2
    <3> HIDE DEF T, s
    <3>4. All \subseteq L
      BY DEF L
    <3>5. View(L, f[i], Reinsert(w, P, x, s))
      BY <3>1, <3>2, <3>3, <3>4, <2>4, <2>6, <2>7, ReinsertView
    <3>6. Reinsert(w, P, x, s) \in Partial
      BY <3>5 DEF View
    <3> QED
      BY <3>5, <3>6, <2>12 DEF s
  <2>17. PICK g : CanonRun(g, w, P) /\ Stays(g, P.capacity, Y)
    <3> HIDE DEF Y
    <3>1. /\ P.capacity \in Nat /\ Cleared(w, P) \in Y[0]
          /\ \A i \in 1 .. P.capacity : \A x \in Y[i - 1] : Reinsert(w, P, x, i - 1) \in Y[i]
      BY <2>2, <2>12, <2>15, <2>16 DEF D
    <3> QED
      BY <3>1, <2>1, CanonicalRun
  <2>18. Canonicalize(w, P) = [g[c] EXCEPT !.rehashed = FALSE] /\ View(L, f[c], g[c])
    BY <2>2, <2>12, <2>17 DEF CanonRun, Stays
  <2>19. View(L, Canonicalize(base, F), Canonicalize(w, P))
    <3> DEFINE G == f[c]
               H == g[c]
               U == [G EXCEPT !.rehashed = FALSE]
               V == [H EXCEPT !.rehashed = FALSE]
    <3>1. G \in Session /\ H \in Partial /\ View(L, G, H)
      BY <2>18 DEF View
    <3> HIDE DEF G, H
    <3>2. /\ U \in Session /\ U.slots = G.slots /\ U.capacity = G.capacity /\ U.delta = G.delta /\ U.hand = G.hand /\ U.gap = G.gap
          /\ U.failed = G.failed /\ U.rehashed = FALSE
      BY <3>1 DEF Session
    <3>3. /\ V \in Partial /\ V.slots = H.slots /\ V.capacity = H.capacity /\ V.delta = H.delta /\ V.hand = H.hand /\ V.gap = H.gap
          /\ V.failed = H.failed /\ V.rehashed = FALSE
      BY <3>1 DEF Partial
    <3> HIDE DEF U, V
    <3>4. View(L, U, V)
      BY <3>1, <3>2, <3>3 DEF View
    <3> QED
      BY <3>4, <2>14, <2>18 DEF U, V, G, H
  <2> QED
    BY <2>19, ViewLess DEF L
<1> QED
  BY <1>1, <1>2

-------------------------------------------------------------------------------
(* The operations under a constant hash function *)

(* The operations under a hash function H that is a constant, so that what *)
(* they return does not change from one state to the next.                 *)
By(H) == INSTANCE Witness WITH hash <- H

(* Under the hash function of the state they are the operations of the     *)
(* model: shi_search,                                                      *)
LEMMA BySearch ==
  ASSUME NEW S, NEW k
  PROVE  SearchPath(S, k) = By(hash)!SearchPath(S, k)
BY Zenon DEF SearchPath, By!SearchPath, Visited, By!Visited, SearchStops, By!SearchStops,
   IsEntry, By!IsEntry, Before, By!Before, rank, By!rank, probe, By!probe

(* the loop of shi_upsert, *)
LEMMA ByProbed ==
  ASSUME NEW S, NEW k
  PROVE  Probed(S, k) = By(hash)!Probed(S, k)
BY Zenon DEF Probed, By!Probed, ProbeStep, By!ProbeStep, ReadSlots, By!ReadSlots, Put, By!Put,
   IsEntry, By!IsEntry, probe, By!probe

(* that of shi_delete, *)
LEMMA ByCompacted ==
  ASSUME NEW S
  PROVE  Compacted(S) = By(hash)!Compacted(S)
BY Zenon DEF Compacted, By!Compacted, CompactStep, By!CompactStep, ReadSlots, By!ReadSlots, Put,
   By!Put, IsEntry, By!IsEntry, probe, By!probe, NextStops, By!NextStops, Suitable, By!Suitable,
   Visited, By!Visited, Before, By!Before, rank, By!rank, NoSlot, By!NoSlot

(* that of shi_rehash, *)
LEMMA ByLayout ==
  ASSUME NEW E, NEW c
  PROVE  Layout(E, c) = By(hash)!Layout(E, c)
BY Zenon DEF Layout, By!Layout, MaxKey, By!MaxKey, ReinsertStep, By!ReinsertStep, FirstVacant,
   By!FirstVacant, EmptyTable, By!EmptyTable, SlotId, By!SlotId,  Before, By!Before, rank, By!rank,
   probe, By!probe

(* the slot that is found, *)
LEMMA ByFound ==
  ASSUME NEW S, NEW k
  PROVE  Found(S, k) = By(hash)!Found(S, k)
BY Zenon DEF Found, By!Found, SearchPath, By!SearchPath, Visited, By!Visited, SearchStops,
   By!SearchStops, IsEntry, By!IsEntry, Before, By!Before, rank, By!rank, probe, By!probe

(* direct_find, *)
LEMMA ByDirect ==
  ASSUME NEW store, NEW S, NEW k
  PROVE  DirectFind(store, S, k) = By(hash)!DirectFind(store, S, k)
BY Zenon DEF DirectFind, By!DirectFind, IsEntry, By!IsEntry

(* the reads, *)
LEMMA ByReads ==
  ASSUME NEW S
  PROVE  ReadMeta(S) = By(hash)!ReadMeta(S) /\ \A R : ReadSlots(S, R) = By(hash)!ReadSlots(S, R)
BY Zenon DEF ReadMeta, By!ReadMeta, ReadSlots, By!ReadSlots

(* update_value, *)
LEMMA ByPut ==
  ASSUME NEW S, NEW s, NEW e
  PROVE  Put(S, s, e) = By(hash)!Put(S, s, e)
BY Zenon DEF Put, By!Put, IsEntry, By!IsEntry

(* the usage, *)
LEMMA ByUsage ==
  ASSUME NEW store
  PROVE  (UsageKnown(store) <=> By(hash)!UsageKnown(store)) /\ \A S : usage_count(store, S) = By(hash)!usage_count(store, S)
BY Zenon DEF UsageKnown, By!UsageKnown, usage_count, By!usage_count, IsEntry, By!IsEntry,
   Cardinality, By!Cardinality, IsFiniteSet, By!IsFiniteSet

(* compute_resize_capacity, *)
LEMMA ByGrown ==
  ASSUME NEW c, NEW used
  PROVE  compute_resize_capacity(c, used) = By(hash)!compute_resize_capacity(c, used)
BY Zenon DEF compute_resize_capacity, By!compute_resize_capacity, GrowStep, By!GrowStep,
   Multiplier, By!Multiplier

(* the test for a resize, *)
LEMMA ByResizes ==
  ASSUME NEW store, NEW S, NEW T
  PROVE  Resizes(store, S, T) <=> By(hash)!Resizes(store, S, T)
BY ByUsage, Zenon DEF Resizes, By!Resizes

(* shi_rehash, *)
LEMMA ByRehash ==
  ASSUME NEW store, NEW S, NEW c
  PROVE  Rehash(store, S, c) = By(hash)!Rehash(store, S, c)
<1> DEFINE R == ReadSlots(S, 0 .. S.capacity - 1)
           E == {S.slots[s] : s \in 0 .. S.capacity - 1} \ {Empty}
           Q(new) == {s \in 0 .. c - 1 : s >= S.capacity \/ new[s] # S.slots[s]}
           N(new) == [s \in SlotId |-> IF s \in Q(new) THEN new[s] ELSE S.slots[s]]
<1>1. R = By(hash)!ReadSlots(S, 0 .. S.capacity - 1) /\ Layout(E, c) = By(hash)!Layout(E, c)
  BY ByReads, ByLayout
<1>2. UsageKnown(store) <=> By(hash)!UsageKnown(store)
  BY ByUsage
<1>3. By(hash)!SlotId = SlotId
  BY Zenon DEF SlotId, By!SlotId
<1> DEFINE F(r, n) == [r EXCEPT !.slots = [s \in SlotId |-> IF s \in Q(n) THEN n[s] ELSE S.slots[s]],
                     !.capacity = c,
                     !.cached = @ \cup Q(n) \cup {Meta},
                     !.rehashed = TRUE]
<1>4. Rehash(store, S, c) = IF c > MaxCapacity \/ ~ UsageKnown(store) \/ R.failed THEN [S EXCEPT !.failed = TRUE] ELSE F(R, Layout(E, c))
  BY Zenon DEF Rehash
<1>5. By(hash)!Rehash(store, S, c) = IF c > MaxCapacity \/ ~ By(hash)!UsageKnown(store) \/ By(hash)!ReadSlots(S, 0 .. S.capacity - 1).failed THEN [S EXCEPT !.failed = TRUE] ELSE F(By(hash)!ReadSlots(S, 0 .. S.capacity - 1), By(hash)!Layout(E, c))
  BY Zenon DEF By!Rehash, SlotId, By!SlotId
<1> HIDE DEF R, E, F
<1> QED
  BY <1>1, <1>2, <1>4, <1>5, Zenon

(* one call of shi_upsert, *)
LEMMA ByOnce ==
  ASSUME NEW store, NEW S, NEW e
  PROVE  UpsertOnce(store, S, e) = By(hash)!UpsertOnce(store, S, e)
<1> DEFINE there == DirectFind(store, S, e.key)
           M == ReadMeta([S EXCEPT !.hand = e])
           W == Probed(M, e.key)
           used == usage_count(store, W)
<1>1. there = By(hash)!DirectFind(store, S, e.key) /\ M = By(hash)!ReadMeta([S EXCEPT !.hand = e])
  BY ByDirect, ByReads
<1>2. W = By(hash)!Probed(M, e.key) /\ (Resizes(store, S, W) <=> By(hash)!Resizes(store, S, W)) /\ used = By(hash)!usage_count(store, W)
  BY ByProbed, ByResizes, ByUsage
<1>3. /\ compute_resize_capacity(W.capacity, W.capacity) = By(hash)!compute_resize_capacity(W.capacity, W.capacity)
      /\ compute_resize_capacity(W.capacity, used) = By(hash)!compute_resize_capacity(W.capacity, used)
  BY ByGrown
<1>4. /\ \A c : Rehash(store, W, c) = By(hash)!Rehash(store, W, c)
      /\ \A s : Put(S, s, e) = By(hash)!Put(S, s, e)
  BY ByRehash, ByPut
<1> HIDE DEF there, M, W, used
<1>5. UpsertOnce(store, S, e) =
        IF there # {} THEN [Put(S, CHOOSE s \in there : TRUE, e) EXCEPT !.hand = Empty]
        ELSE IF M.failed THEN M
        ELSE IF W.failed THEN W
        ELSE IF W.hand # Empty THEN Rehash(store, W, compute_resize_capacity(W.capacity, W.capacity))
        ELSE IF Resizes(store, S, W) THEN Rehash(store, W, compute_resize_capacity(W.capacity, used))
        ELSE W
  BY Zenon DEF UpsertOnce, there, M, W, used
<1> DEFINE X(th, m, w, z) ==
        IF th # {} THEN [By(hash)!Put(S, CHOOSE s \in th : TRUE, e) EXCEPT !.hand = Empty]
        ELSE IF m.failed THEN m
        ELSE IF w.failed THEN w
        ELSE IF w.hand # Empty THEN By(hash)!Rehash(store, w, By(hash)!compute_resize_capacity(w.capacity, w.capacity))
        ELSE IF By(hash)!Resizes(store, S, w) THEN By(hash)!Rehash(store, w, By(hash)!compute_resize_capacity(w.capacity, z))
        ELSE w
<1>6. By(hash)!UpsertOnce(store, S, e) =
        X(By(hash)!DirectFind(store, S, e.key), By(hash)!ReadMeta([S EXCEPT !.hand = e]), By(hash)!Probed(By(hash)!ReadMeta([S EXCEPT !.hand = e]), e.key), By(hash)!usage_count(store, By(hash)!Probed(By(hash)!ReadMeta([S EXCEPT !.hand = e]), e.key)))
  BY Zenon DEF By!UpsertOnce
<1>7. By(hash)!UpsertOnce(store, S, e) = X(there, M, W, used)
  <2> HIDE DEF X
  <2> QED
    BY <1>1, <1>2, <1>6, Zenon
<1> QED
  <2> DEFINE t == CHOOSE s \in there : TRUE
             c1 == compute_resize_capacity(W.capacity, W.capacity)
             c2 == compute_resize_capacity(W.capacity, used)
             P == [Put(S, t, e) EXCEPT !.hand = Empty]
  <2>1. UpsertOnce(store, S, e) =
          IF there # {} THEN P ELSE IF M.failed THEN M ELSE IF W.failed THEN W
          ELSE IF W.hand # Empty THEN Rehash(store, W, c1)
          ELSE IF Resizes(store, S, W) THEN Rehash(store, W, c2) ELSE W
    BY <1>5, Zenon
  <2>2. By(hash)!UpsertOnce(store, S, e) =
          IF there # {} THEN [By(hash)!Put(S, t, e) EXCEPT !.hand = Empty] ELSE IF M.failed THEN M ELSE IF W.failed THEN W
          ELSE IF W.hand # Empty THEN By(hash)!Rehash(store, W, By(hash)!compute_resize_capacity(W.capacity, W.capacity))
          ELSE IF By(hash)!Resizes(store, S, W) THEN By(hash)!Rehash(store, W, By(hash)!compute_resize_capacity(W.capacity, used)) ELSE W
    BY <1>7, Zenon
  <2>3. [By(hash)!Put(S, t, e) EXCEPT !.hand = Empty] = P
    BY <1>4
  <2>4. By(hash)!compute_resize_capacity(W.capacity, W.capacity) = c1 /\ By(hash)!compute_resize_capacity(W.capacity, used) = c2
    BY <1>3
  <2> HIDE DEF t, c1, c2, P
  <2>5. By(hash)!Rehash(store, W, c1) = Rehash(store, W, c1) /\ By(hash)!Rehash(store, W, c2) = Rehash(store, W, c2)
    BY <1>4
  <2> QED
    BY <1>2, <2>1, <2>2, <2>3, <2>4, <2>5

(* shi_upsert, *)
LEMMA ByUpsert ==
  ASSUME NEW store, NEW S, NEW e
  PROVE  ShiUpsert(store, S, e) = By(hash)!ShiUpsert(store, S, e)
BY ByOnce, Zenon DEF ShiUpsert, By!ShiUpsert

(* shi_delete *)
LEMMA ByDelete ==
  ASSUME NEW S, NEW k
  PROVE  ShiDelete(S, k) = By(hash)!ShiDelete(S, k)
<1> DEFINE M == ReadMeta(S)
           path == SearchPath(M, k)
           R == ReadSlots(M, path)
           found == Found(M, k)
<1>1. M = By(hash)!ReadMeta(S) /\ path = By(hash)!SearchPath(M, k) /\ R = By(hash)!ReadSlots(M, path) /\ found = By(hash)!Found(M, k)
  BY ByReads, BySearch, ByFound
<1>2. \A T : Compacted(T) = By(hash)!Compacted(T)
  BY ByCompacted
<1> HIDE DEF M, path, R, found
<1>3. ShiDelete(S, k) =
        IF M.failed THEN M ELSE IF R.failed \/ found = {} THEN R ELSE Compacted([R EXCEPT !.gap = CHOOSE s \in found : TRUE])
  BY Zenon DEF ShiDelete, M, path, R, found
<1> DEFINE X(m, r, f) == IF m.failed THEN m ELSE IF r.failed \/ f = {} THEN r ELSE By(hash)!Compacted([r EXCEPT !.gap = CHOOSE s \in f : TRUE])
<1>4. By(hash)!ShiDelete(S, k) = X(By(hash)!ReadMeta(S), By(hash)!ReadSlots(By(hash)!ReadMeta(S), By(hash)!SearchPath(By(hash)!ReadMeta(S), k)), By(hash)!Found(By(hash)!ReadMeta(S), k))
  BY Zenon DEF By!ShiDelete
<1>5. By(hash)!ShiDelete(S, k) = X(M, R, found)
  <2> HIDE DEF X
  <2> QED
    BY <1>1, <1>4, Zenon
<1> QED
  <2> DEFINE T == [R EXCEPT !.gap = CHOOSE s \in found : TRUE]
  <2>1. ShiDelete(S, k) = IF M.failed THEN M ELSE IF R.failed \/ found = {} THEN R ELSE Compacted(T)
    BY <1>3, Zenon
  <2>2. By(hash)!ShiDelete(S, k) = IF M.failed THEN M ELSE IF R.failed \/ found = {} THEN R ELSE By(hash)!Compacted(T)
    BY <1>5, Zenon
  <2>3. Compacted(T) = By(hash)!Compacted(T)
    BY <1>2, Zenon
  <2> HIDE DEF T
  <2> QED
    BY <2>1, <2>2, <2>3

(* and update for one key. *)
LEMMA ByUpdate ==
  ASSUME NEW store, NEW S, NEW k, NEW v
  PROVE  UpdateOne(store, S, k, v) = By(hash)!UpdateOne(store, S, k, v)
BY ByDelete, ByUpsert, Zenon DEF UpdateOne, By!UpdateOne

-------------------------------------------------------------------------------
(* The run of the recorder *)

(* The number of steps of a run over all the keys. *)
Last == MaxKey + 1

(* The updates that the recorder runs. *)
Rest(u) == DOMAIN u \ InPlace(u)

(* run[i] is the recorder before the key i: it takes the updates N of u in *)
(* the order of their keys and leaves the others out.                      *)
Law(H, b, u, N, run) ==
  \A i \in 0 .. MaxKey : run[i + 1] = IF i \in N THEN By(H)!UpdateOne(b, run[i], i, u[i]) ELSE run[i]

(* Before the key i, S has the keys from i on that were there before the   *)
(* block, each at its old slot unless the bucket was rehashed: what the    *)
(* smaller keys displaced or moved were smaller keys only.                 *)
Halfway(S, i) ==
  /\ Ready(S)
  /\ \A k \in PlainKeys : k >= i => (k \in KeysIn(S.slots) <=> k \in KeysIn(base.slots))
  /\ ~ S.rehashed => \A s \in SlotId : base.slots[s] # Empty /\ base.slots[s].key >= i => S.slots[s] = base.slots[s]

(* No key is larger than MaxKey. *)
LEMMA KeysBelow == \A k \in PlainKeys : k \in 0 .. MaxKey /\ k \in Nat
<1>1. \E m \in PlainKeys \cup {0} : \A k \in PlainKeys : k <= m
  BY KeysAssumption
<1>2. \A k \in PlainKeys : k <= MaxKey
  BY <1>1 DEF MaxKey
<1> QED
  BY <1>2, MaxKeyNat, KeysAssumption

(* A key without an update can be passed over. *)
LEMMA HalfwayLater ==
  ASSUME BaseOk, NEW S, NEW i \in Nat, Halfway(S, i), NEW j \in Nat, i <= j
  PROVE  Halfway(S, j)
<1>1. \A k \in PlainKeys : k \in Nat /\ (k >= j => k >= i)
  BY KeysBelow
<1>2. \A s \in SlotId : base.slots[s] # Empty => base.slots[s].key \in PlainKeys
  BY BaseFacts
<1> QED
  BY <1>1, <1>2 DEF Halfway

(* Witness::create finds the keys that are in the bucket. *)
LEMMA StoredKeys ==
  ASSUME BaseOk, NEW k \in PlainKeys
  PROVE  Stored(k) # {} <=> k \in KeysIn(base.slots)
<1>1. ASSUME NEW s \in Stored(k) PROVE k \in KeysIn(base.slots)
  BY StoredIs, BaseFacts DEF KeysIn, Occupied
<1>2. ASSUME k \in KeysIn(base.slots) PROVE Stored(k) # {}
  <2>1. PICK s \in SlotId : base.slots[s] # Empty /\ base.slots[s].key = k
    BY <1>2 DEF KeysIn, Occupied
  <2>2. s \in 0 .. base.capacity - 1
    <3>1. s \in Nat /\ s < base.capacity /\ base.capacity \in Nat
      BY <2>1, BaseFacts, CapacityAssumption DEF BaseOk, Within, Occupied, SlotId
    <3> QED
      BY <3>1
  <2> QED
    BY <2>1, <2>2, BaseFound
<1> QED
  BY <1>1, <1>2

(* The updates of a block. *)
LEMMA BatchKeys ==
  ASSUME NEW u \in Batches, NEW k \in DOMAIN u
  PROVE  k \in PlainKeys /\ u[k] \in Values \cup {Empty} /\ (u[k] # Empty => [key |-> k, val |-> u[k]] \in Entry)
<1>1. k \in PlainKeys /\ u[k] \in Values \cup {Empty}
  BY WitnessAssumption DEF Batches
<1> QED
  BY <1>1 DEF Entry

(* Every update of the recorder, an insertion of a new key or a deletion,  *)
(* moves no larger key.                                                    *)
LEMMA HalfwayStep ==
  ASSUME BaseOk, NEW S, NEW u \in Batches, NEW i \in Rest(u), Halfway(S, i), ~ UpdateOne(base, S, i, u[i]).failed
  PROVE  Halfway(UpdateOne(base, S, i, u[i]), i + 1)
<1> DEFINE U == UpdateOne(base, S, i, u[i])
<1>1. i \in PlainKeys /\ i \in Nat /\ u[i] \in Values \cup {Empty} /\ Ready(S)
  BY BatchKeys, KeysBelow DEF Rest, Halfway
<1>2. \A k \in PlainKeys : k \in Nat /\ (k >= i + 1 => k >= i /\ k # i)
  BY <1>1, KeysBelow
<1>3. \A s \in SlotId : base.slots[s] # Empty => base.slots[s].key \in PlainKeys
  BY BaseFacts
<1>4. \A k \in PlainKeys : k >= i + 1 => (k \in KeysIn(S.slots) <=> k \in KeysIn(base.slots))
  BY <1>2 DEF Halfway
<1>5. ~ S.rehashed => \A s \in SlotId : base.slots[s] # Empty /\ base.slots[s].key >= i + 1 => S.slots[s] = base.slots[s]
  BY <1>2, <1>3 DEF Halfway
<1>6. ASSUME Ready(U), \A k \in PlainKeys : k # i => (k \in KeysIn(U.slots) <=> k \in KeysIn(S.slots)),
             ~ U.rehashed => ~ S.rehashed /\ Unmoved(S, U, i)
      PROVE  Halfway(U, i + 1)
  <2>1. \A k \in PlainKeys : k >= i + 1 => (k \in KeysIn(U.slots) <=> k \in KeysIn(base.slots))
    BY <1>2, <1>4, <1>6
  <2>2. ASSUME ~ U.rehashed, NEW s \in SlotId, base.slots[s] # Empty, base.slots[s].key >= i + 1 PROVE U.slots[s] = base.slots[s]
    <3>0. base.slots[s].key \in Nat /\ ~ S.rehashed
      BY <2>2, <1>2, <1>3, <1>6
    <3>1. S.slots[s] = base.slots[s] /\ base.slots[s].key > i
      BY <2>2, <1>1, <1>5, <3>0
    <3> QED
      BY <3>1, <2>2, <1>6 DEF Unmoved
  <2> QED
    BY <1>6, <2>1, <2>2 DEF Halfway
<1>7. CASE u[i] = Empty
  <2>1. U = ShiDelete(S, i)
    BY <1>7 DEF UpdateOne
  <2>2. Deleted(S, i, U)
    BY <1>1, <2>1, DeleteResult
  <2>3. Ready(U) /\ (\A k \in PlainKeys : k # i => (k \in KeysIn(U.slots) <=> k \in KeysIn(S.slots))) /\ (~ U.rehashed => ~ S.rehashed /\ Unmoved(S, U, i))
    <3> HIDE DEF U
    <3> QED
      BY <2>2 DEF Deleted
  <2> QED
    BY <2>3, <1>6
<1>8. CASE u[i] # Empty
  <2> DEFINE e == [key |-> i, val |-> u[i]]
  <2>1. U = ShiUpsert(base, S, e) /\ e \in Entry /\ e.key = i
    BY <1>8, BatchKeys DEF UpdateOne, Rest
  <2>2. i \notin KeysIn(S.slots)
    <3>1. Stored(i) = {}
      BY <1>8 DEF Rest, InPlace
    <3> QED
      BY <3>1, <1>1, StoredKeys DEF Halfway
  <2>3. U.failed \/ Upserted(S, i, U)
    <3> HIDE DEF e
    <3> QED
      BY <1>1, <2>1, <2>2, UpsertAbsent
  <2>4. Upserted(S, i, U)
    BY <2>3
  <2>5. Ready(U) /\ (\A k \in PlainKeys : k # i => (k \in KeysIn(U.slots) <=> k \in KeysIn(S.slots))) /\ (~ U.rehashed => ~ S.rehashed /\ Unmoved(S, U, i))
    <3> HIDE DEF U
    <3> QED
      BY <2>4 DEF Upserted
  <2> QED
    BY <2>5, <1>6
<1> QED
  BY <1>7, <1>8

(* The recorder does not change where there is nothing to do. *)
LEMMA Idle ==
  ASSUME NEW H, NEW b, NEW u, NEW N, NEW run, Law(H, b, u, N, run), NEW m \in 0 .. Last, NEW p \in m .. Last,
         \A i \in N : i < m \/ i >= p
  PROVE  run[p] = run[m]
<1>0. MaxKey \in Nat /\ Last \in Nat /\ Last = MaxKey + 1 /\ m \in Nat /\ p \in Nat /\ p - m \in Nat
  BY MaxKeyNat DEF Last
<1> DEFINE n == p - m
           g == [j \in 0 .. n |-> run[m + j]]
           X == [j \in 0 .. n |-> {run[m]}]
<1>1. g[0] \in X[0]
  BY <1>0
<1>2. ASSUME NEW j \in 1 .. n, g[j - 1] \in X[j - 1] PROVE g[j] \in X[j]
  <2>1. m + (j - 1) \in 0 .. MaxKey /\ (m + (j - 1)) + 1 = m + j /\ m + (j - 1) \notin N
    BY <1>0
  <2>2. run[m + j] = run[m + (j - 1)]
    BY <2>1 DEF Law
  <2> QED
    BY <2>2, <1>2
<1>3. n \in Nat /\ n \in 0 .. n /\ m + n = p
  BY <1>0
<1> HIDE DEF g, X, n
<1>4. Stays(g, n, X)
  BY <1>1, <1>2, <1>3, Along
<1> QED
  BY <1>3, <1>4 DEF Stays, g, X

(* A run of the recorder from a session that has only read; nothing that   *)
(* it cached is forgotten until the end.                                   *)
Runs(H, b, u, N, run) ==
  /\ Law(H, b, u, N, run)
  /\ Twin(run[0], NewState(b))
  /\ \A i \in 0 .. Last : run[i].cached \subseteq run[Last].cached

(* A new session over the full state. *)
LEMMA NewReady ==
  ASSUME BaseOk
  PROVE  NewState(base) \in Session /\ Halfway(NewState(base), 0)
<1> DEFINE S == NewState(base)
<1>1. S \in Session
  BY NewRecorder DEF RecordedAt, Recorded
<1>2. /\ S.slots = base.slots /\ S.capacity = base.capacity /\ S.delta = 0 /\ S.rehashed = FALSE
      /\ S.hand = Empty /\ S.gap = NoSlot /\ S.failed = FALSE
  BY DEF NewState
<1> HIDE DEF S
<1>3. base.slots \in Tables /\ base.capacity \in 1 .. MaxCapacity /\ hash \in [PlainKeys -> Nat]
      /\ ShiOrdered(base.slots, hash, base.capacity) /\ Within(base.slots, base.capacity)
  BY DEF BaseOk
<1>4. Count(S) = BaseCount + S.delta
  <2>1. Cardinality(KeysIn(base.slots)) = Cardinality(Occupied(base.slots)) /\ Cardinality(KeysIn(base.slots)) \in Nat
    BY <1>3, KeysCount
  <2> QED
    BY <2>1, <1>2 DEF Count, BaseCount
<1>5. S.capacity \in Reach(base.capacity)
  BY <1>2, <1>3, ReachClosed
<1>6. Sound(S)
  BY <1>1, <1>2, <1>3, <1>4, <1>5 DEF Sound
<1>7. Halfway(S, 0)
  BY <1>6, <1>2 DEF Halfway, Ready
<1> QED
  BY <1>1, <1>7 DEF S

(* recorder.plain_value of the keys that are not found only reads. *)
LEMMA AbsenceReads ==
  ASSUME BaseOk, NEW l
  PROVE  LET A == Absence(NewState(base), {k \in l : Stored(k) = {}})
         IN  A \in Recorded({}) /\ Twin(A, NewState(base)) /\ Halfway(A, 0)
<1> DEFINE S == NewState(base)
           K == {k \in l : Stored(k) = {}}
           A == Absence(S, K)
           P == UNION {SearchPath(S, k) : k \in K}
<1>1. A \in Recorded({})
  <2>1. A \in Recorded(Needed(l))
    BY AbsenceKeeps
  <2> HIDE DEF A
  <2> QED
    BY <2>1 DEF Recorded
<1>2. S \in Session /\ Halfway(S, 0) /\ ~ S.failed /\ S.rehashed = FALSE
  BY NewReady DEF NewState
<1>3. CASE K = {}
  <2>1. A = S
    BY <1>3 DEF Absence
  <2> HIDE DEF A, S
  <2>2. Twin(A, S) /\ Halfway(A, 0)
    BY <1>2, <2>1, TwinSelf
  <2> QED
    BY <1>1, <2>2 DEF A, S
<1>4. CASE K # {}
  <2>1. P \subseteq 0 .. S.capacity - 1
    <3>1. \A k : SearchPath(S, k) \subseteq 0 .. S.capacity - 1
      BY SearchWithin
    <3> QED
      BY <3>1
  <2>2. A = ReadSlots(ReadMeta(S), P)
    BY <1>4, Zenon DEF Absence
  <2> HIDE DEF A, S, P, K
  <2>3. S \in Partial /\ S.capacity # Unknown /\ P \subseteq SlotId /\ \A s \in P : S.slots[s] # Unknown
    BY <1>2, <2>1, SessionPartial, KnownFacts
  <2> DEFINE M == ReadMeta(S)
  <2>4. M \in Partial /\ ~ M.failed /\ Reads(S, M) /\ M.slots = S.slots
    BY <2>3, MetaFields DEF Reads
  <2> HIDE DEF M
  <2>5. Reads(M, A)
    BY <2>2, <2>3, <2>4, ReadFields DEF Reads, M
  <2>6. Reads(S, A)
    BY <2>4, <2>5 DEF Reads
  <2>7. A \in Session
    BY <1>1 DEF Recorded
  <2>8. Twin(A, S)
    <3>1. Reads(S, S)
      BY <1>2 DEF Reads
    <3> QED
      BY <1>2, <2>6, <2>7, <3>1, TwinSelf, TwinReads
  <2>9. Halfway(A, 0)
    <3>1. /\ A.slots = S.slots /\ A.capacity = S.capacity /\ A.delta = S.delta /\ A.rehashed = FALSE
          /\ A.hand = S.hand /\ A.gap = S.gap /\ ~ A.failed
      BY <1>2, <2>6 DEF Reads
    <3>2. Sound(S) /\ S.hand = Empty
      BY <1>2 DEF Halfway, Ready
    <3>3. Sound(A)
      BY <2>7, <3>1, <3>2 DEF Sound, Count
    <3> QED
      BY <1>2, <3>1, <3>2, <3>3 DEF Halfway, Ready
  <2> QED
    BY <1>1, <2>8, <2>9 DEF A, S, K
<1> QED
  BY <1>3, <1>4

(* From the start of recorder.update there is such a run. *)
LEMMA RunExists ==
  ASSUME BaseOk, NEW u \in Batches, NEW A \in Recorded({}), Twin(A, NewState(base))
  PROVE  \E run : run[0] = A /\ Runs(hash, base, u, Rest(u), run)
<1> DEFINE R == Recorded({})
           N == Rest(u)
           One1(x, i) == IF i \in N THEN UpdateOne(base, x, i, u[i]) ELSE x
           X == [i \in 0 .. Last |-> R]
           step == [p \in R \X (1 .. Last) |-> One1(p[1], p[2] - 1)]
<1>1. Last \in Nat /\ MaxKey \in Nat /\ Last = MaxKey + 1
  BY MaxKeyNat DEF Last
<1>2. ASSUME NEW C, NEW x \in Recorded(C), NEW i PROVE One1(x, i) \in Recorded(C)
  <2>1. base.fast = NoFast /\ hash \in [PlainKeys -> Nat]
    BY DEF BaseOk
  <2>2. ASSUME i \in N PROVE UpdateOne(base, x, i, u[i]) \in Recorded(C)
    <3>1. i \in PlainKeys /\ u[i] \in Values \cup {Empty}
      BY <2>2, BatchKeys DEF Rest
    <3> QED
      BY <2>1, <3>1, <1>2, UpdateKeeps
  <2> QED
    BY <2>2, <1>2
<1> HIDE DEF One1, R
<1>3. \A i \in 1 .. Last : \A x \in R : step[<<x, i>>] = One1(x, i - 1)
  OBVIOUS
<1>4. A \in X[0] /\ \A i \in 1 .. Last : \A x \in X[i - 1] : step[<<x, i>>] \in X[i]
  BY <1>1, <1>2, <1>3 DEF R
<1>5. \A i \in 0 .. Last : X[i] = R
  OBVIOUS
<1> HIDE DEF X, step
<1>6. PICK f : Iterates(f, Last, A, step) /\ Stays(f, Last, X)
  BY <1>1, <1>4, Iteration
<1>7. f[0] = A /\ \A i \in 1 .. Last : f[i] = step[<<f[i - 1], i>>]
  BY <1>6 DEF Iterates
<1>8. \A i \in 0 .. Last : f[i] \in R
  BY <1>5, <1>6 DEF Stays
<1>9. \A i \in 1 .. Last : f[i - 1] \in R /\ f[i] = One1(f[i - 1], i - 1)
  <2> SUFFICES ASSUME NEW i \in 1 .. Last PROVE f[i - 1] \in R /\ f[i] = One1(f[i - 1], i - 1)
    OBVIOUS
  <2> DEFINE a == f[i - 1]
  <2>1. i - 1 \in 0 .. Last
    BY <1>1
  <2>2. a \in R /\ f[i] = step[<<a, i>>]
    BY <2>1, <1>7, <1>8
  <2> HIDE DEF a
  <2>3. f[i] = One1(a, i - 1)
    BY <2>2, <1>3
  <2> QED
    BY <2>2, <2>3 DEF a
<1>10. Law(hash, base, u, N, f)
  <2> SUFFICES ASSUME NEW i \in 0 .. MaxKey
               PROVE  f[i + 1] = IF i \in N THEN By(hash)!UpdateOne(base, f[i], i, u[i]) ELSE f[i]
    BY DEF Law
  <2>1. i + 1 \in 1 .. Last /\ (i + 1) - 1 = i
    BY <1>1
  <2>2. f[i + 1] = One1(f[i], i)
    BY <1>9, <2>1
  <2>3. UpdateOne(base, f[i], i, u[i]) = By(hash)!UpdateOne(base, f[i], i, u[i])
    BY ByUpdate
  <2> QED
    BY <2>2, <2>3 DEF One1
<1> DEFINE g == [i \in 0 .. Last |-> f[i].cached]
<1>11. ASSUME NEW i \in 1 .. Last PROVE g[i - 1] \subseteq g[i]
  <2> DEFINE a == f[i - 1]
             C == a.cached
  <2>1. a \in R /\ f[i] = One1(a, i - 1) /\ i - 1 \in 0 .. Last /\ i \in 0 .. Last
    BY <1>1, <1>9
  <2>2. g[i - 1] = C /\ g[i] = f[i].cached
    BY <2>1
  <2> HIDE DEF a, g
  <2>3. a \in Recorded(C)
    BY <2>1 DEF R, Recorded
  <2> HIDE DEF C
  <2>4. One1(a, i - 1) \in Recorded(C)
    BY <2>3, <1>2
  <2> QED
    BY <2>1, <2>2, <2>4 DEF Recorded
<1>12. g = [i \in 0 .. Last |-> f[i].cached]
  OBVIOUS
<1> HIDE DEF g
<1>13. \A i \in 0 .. Last : g[i] \subseteq g[Last]
  BY <1>1, <1>11, Climbs
<1>14. \A i \in 0 .. Last : f[i].cached \subseteq f[Last].cached
  BY <1>1, <1>12, <1>13
<1>15. Runs(hash, base, u, N, f)
  BY <1>7, <1>10, <1>14 DEF Runs
<1> QED
  BY <1>7, <1>15

-------------------------------------------------------------------------------
(* The replay *)

(* `keys` are those of K that the bucket had before the block. *)
Covers(keys, K) == keys \subseteq K /\ \A s \in K : s = Meta \/ (s \in SlotId /\ s < base.capacity) => s \in keys

(* Such a witness tells everything that the recorder read. *)
LEMMA WitnessHolds ==
  ASSUME BaseOk, NEW w, NEW keys, NEW l, Tells(w, keys, l), NEW K, Covers(keys, K)
  PROVE  Holds(K, w)
<1>1. \A s \in SlotId : w.slots[s] = IF s \in keys THEN base.slots[s] ELSE Unknown
  BY WitnessSlots
<1>2. w.capacity = IF Meta \in keys THEN base.capacity ELSE Unknown
  BY WitnessSlots
<1>3. \A k \in DOMAIN w.fast : w.fast[k] \in SlotId
  BY BaseFacts DEF Tells, Points
<1> QED
  BY <1>1, <1>2, <1>3 DEF Holds, Covers

(* A new session over the witness shows the full state before the block. *)
LEMMA ReplayStart ==
  ASSUME BaseOk, NEW w, NEW keys, NEW l, Tells(w, keys, l), NEW K, Covers(keys, K)
  PROVE  View(K, NewState(base), NewState(w))
<1> DEFINE F == NewState(base)
           P == NewState(w)
<1>1. F \in Session /\ F.failed = FALSE /\ F.slots = base.slots /\ F.capacity = base.capacity
  BY NewReady DEF NewState
<1>2. /\ P.gap = NoSlot /\ P.slots = w.slots /\ P.capacity = w.capacity /\ P.failed = FALSE
      /\ P.gap = F.gap /\ P.delta = F.delta /\ P.rehashed = F.rehashed /\ P.hand = F.hand
  BY DEF NewState
<1>3. w.slots = [s \in SlotId |-> WitnessValue(keys, s)] /\ w.capacity = IF Meta \in keys THEN base.capacity ELSE Unknown
  BY DEF Tells, SaltWitness, Reader
<1>4. \A s \in SlotId : w.slots[s] = IF s \in keys THEN base.slots[s] ELSE Unknown
  BY WitnessSlots
<1>5. w.slots \in [SlotId -> Entry \cup {Empty, Unknown}] /\ w.capacity \in (1 .. MaxCapacity) \cup {Unknown}
  <2>1. \A s \in SlotId : w.slots[s] \in Entry \cup {Empty, Unknown}
    BY <1>4, BaseFacts
  <2>2. base.capacity \in 1 .. MaxCapacity
    BY DEF BaseOk
  <2> QED
    BY <1>3, <2>1, <2>2
<1>6. P \in Partial
  BY <1>5 DEF Partial, NewState
<1>7. ASSUME NEW s \in SlotId PROVE P.slots[s] = F.slots[s] \/ (P.slots[s] = Unknown /\ F.slots[s] = base.slots[s] /\ (s < F.capacity => s \notin K))
  BY <1>1, <1>2, <1>4 DEF Covers
<1>8. P.capacity = F.capacity \/ (P.capacity = Unknown /\ F.capacity = base.capacity /\ Meta \notin K)
  BY <1>1, <1>2, <1>3 DEF Covers
<1> HIDE DEF F, P
<1>9. View(K, F, P)
  BY <1>1, <1>2, <1>6, <1>7, <1>8 DEF View
<1> QED
  BY <1>9 DEF F, P

(* The slot of a key. *)
LEMMA SlotOf ==
  ASSUME NEW F, Ready(F), NEW k \in KeysIn(F.slots)
  PROVE  \E s \in 0 .. F.capacity - 1 : F.slots[s] # Empty /\ F.slots[s].key = k
<1>1. F \in Session /\ Within(F.slots, F.capacity)
  BY DEF Ready, Sound
<1>2. PICK s \in SlotId : F.slots[s] # Empty /\ F.slots[s].key = k
  BY DEF KeysIn, Occupied
<1>3. s \in Nat /\ s < F.capacity /\ F.capacity \in Nat
  BY <1>1, <1>2, KnownFacts, CapacityAssumption DEF Within, Occupied, SlotId
<1> QED
  BY <1>2, <1>3

(* An update in place, which the recorder did not run: the lookup table    *)
(* still names the slot of the key, or the bucket was rehashed and the     *)
(* recorder read all of it.                                                *)
LEMMA ReplayInPlace ==
  ASSUME BaseOk, NEW w, NEW keys, NEW l, Tells(w, keys, l), NEW K, Covers(keys, K),
         NEW A, NEW F, NEW P, Twin(A, F), View(K, F, P), Ready(F), NEW k \in PlainKeys, Halfway(A, k), A.cached \subseteq K,
         k \in l, Stored(k) # {}, NEW v \in Values
  PROVE  LET e == [key |-> k, val |-> v]
             U == ShiUpsert(base, F, e)
         IN  Ready(U) /\ Twin(A, U) /\ View(K, U, ShiUpsert(w, P, e))
<1> DEFINE e == [key |-> k, val |-> v]
           U == ShiUpsert(base, F, e)
<1>1. e \in Entry /\ e.key = k
  BY DEF Entry
<1> HIDE DEF e
<1>2. Ready(A) /\ k \in Nat
  BY KeysBelow DEF Halfway
<1>3. k \in KeysIn(F.slots)
  <2>1. k \in KeysIn(A.slots)
    BY <1>2, StoredKeys DEF Halfway
  <2> QED
    BY <2>1, TwinKeys
<1>4. PICK s \in 0 .. F.capacity - 1 : F.slots[s] # Empty /\ F.slots[s].key = k
  BY <1>3, SlotOf
<1>5. DirectFind(w, P, k) # {} \/ {Meta} \cup (0 .. F.capacity - 1) \subseteq K
  <2>1. CASE A.rehashed
    <3>1. {Meta} \cup (0 .. A.capacity - 1) \subseteq A.cached /\ A.capacity = F.capacity
      BY <2>1, <1>2 DEF Ready, Sound, Twin
    <3> QED
      BY <3>1
  <2>2. CASE ~ A.rehashed
    <3> DEFINE t == w.fast[k]
    <3>1. k \in DOMAIN w.fast /\ t \in keys /\ t \in 0 .. base.capacity - 1 /\ base.slots[t] # Empty /\ base.slots[t].key = k
      BY DEF Tells, Points
    <3>2. t \in SlotId /\ t < base.capacity /\ t \in K
      BY <3>1, BaseFacts DEF Covers
    <3>3. A.slots[t] = base.slots[t]
      BY <2>2, <1>2, <3>1, <3>2 DEF Halfway
    <3>4. Alike(A.slots[t], F.slots[t]) /\ F \in Session
      BY <3>2 DEF Twin
    <3>5. F.slots[t] # Empty /\ F.slots[t].key = k
      BY <3>1, <3>3, <3>4 DEF Alike
    <3>6. t < F.capacity
      BY <3>2, <3>5 DEF Ready, Sound, Within, Occupied
    <3>7. P.slots[t] = F.slots[t]
      BY <3>2, <3>6 DEF View
    <3>8. F.slots[t] # Unknown
      BY <3>2, <3>4, KnownFacts
    <3>9. t \in DirectFind(w, P, k)
      BY <3>1, <3>5, <3>7, <3>8 DEF DirectFind, IsEntry
    <3> QED
      BY <3>9
  <2> QED
    BY <2>1, <2>2
<1>6. Holds(K, w)
  BY WitnessHolds
<1>7. Twin(A, U) /\ View(K, U, ShiUpsert(w, P, e))
  BY <1>1, <1>2, <1>4, <1>5, <1>6, ThreePresent
<1>8. Replaced(F, s, e, U)
  BY <1>1, <1>4, UpsertPresent
<1> QED
  BY <1>7, <1>8 DEF Replaced, e

(* One update of the replay: with the recorder as the twin of the full     *)
(* session, it reads what the recorder read.                               *)
LEMMA ReplayOne ==
  ASSUME BaseOk, NEW u \in Batches, NEW run, Runs(hash, base, u, Rest(u), run), \A j \in 0 .. Last : Halfway(run[j], j),
         NEW w, NEW keys, Tells(w, keys, InPlace(u)), NEW K, Covers(keys, K), run[Last].cached \subseteq K,
         NEW m \in 0 .. Last, NEW F, NEW P, Ready(F), Twin(run[m], F), View(K, F, P),
         NEW k \in DOMAIN u, k >= m, \A i \in DOMAIN u : i < m \/ i >= k
  PROVE  LET U == UpdateOne(base, F, k, u[k])
         IN  Ready(U) /\ Twin(run[k + 1], U) /\ View(K, U, UpdateOne(w, P, k, u[k]))
<1> DEFINE U == UpdateOne(base, F, k, u[k])
           V == UpdateOne(w, P, k, u[k])
           A == run[k]
           B == run[k + 1]
<1>1. k \in PlainKeys /\ u[k] \in Values \cup {Empty} /\ k \in 0 .. MaxKey /\ k \in Nat /\ Last = MaxKey + 1 /\ MaxKey \in Nat
  BY BatchKeys, KeysBelow, MaxKeyNat DEF Last
<1>2. k \in m .. Last /\ k \in 0 .. Last /\ k + 1 \in 0 .. Last
  BY <1>1
<1>3. A = run[m]
  <2>1. Law(hash, base, u, Rest(u), run) /\ \A i \in Rest(u) : i < m \/ i >= k
    BY DEF Runs, Rest
  <2> QED
    BY <2>1, <1>2, Idle
<1>4. Twin(A, F) /\ Halfway(A, k) /\ Ready(A) /\ Halfway(B, k + 1) /\ ~ B.failed
  BY <1>2, <1>3 DEF Halfway, Ready, Sound
<1>5. A.cached \subseteq K /\ B.cached \subseteq K
  BY <1>2 DEF Runs
<1>6. B = IF k \in Rest(u) THEN UpdateOne(base, A, k, u[k]) ELSE A
  <2>1. B = IF k \in Rest(u) THEN By(hash)!UpdateOne(base, A, k, u[k]) ELSE A
    BY <1>1 DEF Runs, Law
  <2> HIDE DEF A, B
  <2> QED
    BY <2>1, ByUpdate
<1>7. Holds(K, w)
  BY WitnessHolds
<1> DEFINE e == [key |-> k, val |-> u[k]]
<1>8. CASE k \in InPlace(u)
  <2>1. B = A /\ u[k] # Empty /\ Stored(k) # {} /\ u[k] \in Values
    BY <1>1, <1>6, <1>8 DEF Rest, InPlace
  <2>2. U = ShiUpsert(base, F, e) /\ V = ShiUpsert(w, P, e)
    BY <2>1 DEF UpdateOne
  <2> HIDE DEF A, B, U, V
  <2>3. Ready(U) /\ Twin(A, U) /\ View(K, U, V)
    BY <1>1, <1>4, <1>5, <1>8, <2>1, <2>2, ReplayInPlace
  <2> QED
    BY <2>1, <2>3 DEF U, V, B
<1>9. CASE k \in Rest(u) /\ u[k] = Empty
  <2>1. B = ShiDelete(A, k) /\ U = ShiDelete(F, k) /\ V = ShiDelete(P, k)
    BY <1>6, <1>9 DEF UpdateOne
  <2> HIDE DEF A, B, U, V
  <2>2. Twin(B, U) /\ View(K, U, V)
    BY <1>1, <1>4, <1>5, <2>1, ThreeDelete
  <2>3. Deleted(F, k, U)
    BY <2>1, DeleteResult
  <2> QED
    BY <2>2, <2>3 DEF Deleted, U, V, B
<1>10. CASE k \in Rest(u) /\ u[k] # Empty
  <2>1. B = ShiUpsert(base, A, e) /\ U = ShiUpsert(base, F, e) /\ V = ShiUpsert(w, P, e)
    BY <1>6, <1>10 DEF UpdateOne
  <2>2. e \in Entry /\ e.key = k
    BY <1>10, BatchKeys
  <2> HIDE DEF e
  <2>3. k \notin KeysIn(F.slots)
    <3>1. Stored(k) = {}
      BY <1>10 DEF Rest, InPlace
    <3>2. k \notin KeysIn(A.slots)
      <4> HIDE DEF A
      <4> QED
        BY <3>1, <1>1, <1>4, StoredKeys DEF Halfway
    <3> QED
      BY <3>2, <1>4, TwinKeys
  <2> HIDE DEF A, B, U, V
  <2>4. Twin(B, U) /\ View(K, U, V)
    BY <1>4, <1>5, <1>7, <2>1, <2>2, <2>3, ThreeUpsert
  <2>5. U.failed \/ Upserted(F, k, U)
    BY <2>1, <2>2, <2>3, UpsertAbsent
  <2>6. Ready(U)
    BY <2>4, <2>5 DEF Twin, Upserted
  <2> QED
    BY <2>4, <2>6 DEF U, V, B
<1> QED
  BY <1>8, <1>9, <1>10 DEF Rest

-------------------------------------------------------------------------------
(* The invariant *)

(* What Witness::create put into the witness, with the slots beyond the    *)
(* old capacity, which start empty.                                        *)
Known == chosen \cup recorder.cached

(* While the recorder runs, it is at m of a run; a panic ends it. *)
Recalls(run, m) ==
  /\ Runs(hash, base, updates, Rest(updates), run)
  /\ todo = {k \in Rest(updates) : k >= m}
  /\ recorder = run[m]
  /\ \A j \in 0 .. m : recorder.failed \/ Halfway(run[j], j)

(* The recorder has ended without one. *)
Ran(run) ==
  /\ Runs(hash, base, updates, Rest(updates), run)
  /\ recorder = run[Last]
  /\ \A j \in 0 .. Last : Halfway(run[j], j)

(* What the validator has been sent. *)
Sent ==
  /\ updates \in Batches
  /\ Tells(witness, chosen \cup Kept, InPlace(updates))
  /\ Covers(chosen \cup Kept, Known)

(* The replay is at m: the session over the full state is the twin of the  *)
(* recorder there, and the one over the witness is what the validator sees *)
(* of it.                                                                  *)
Replaying(run, m) ==
  /\ todo = {k \in DOMAIN updates : k >= m}
  /\ Ready(full) /\ Twin(run[m], full) /\ View(Known, full, replica)

(* With WInv, the inductive invariant of both theorems. *)
RInv ==
  /\ pc \in {"idle", "record", "send"} => full = NewState(base) /\ ~ replica.failed
  /\ pc = "record" => InPlace(updates) \subseteq DOMAIN direct /\ \E run : \E m \in 0 .. Last : Recalls(run, m)
  /\ pc = "send" => Sent /\ \E run : Ran(run)
  /\ pc = "replay" => Sent /\ \E run : Ran(run) /\ \E m \in 0 .. Last : Replaying(run, m)
  /\ pc = "done" => View(Known, full, replica)

(* What depends on the hash function and the full state alone does not     *)
(* change.                                                                 *)
LEMMA Steady ==
  ASSUME UNCHANGED <<hash, base>>
  PROVE  /\ BaseOk' <=> BaseOk
         /\ \A S : Ready(S)' <=> Ready(S)
         /\ \A S, i : Halfway(S, i)' <=> Halfway(S, i)
         /\ \A K, F, P : View(K, F, P)' <=> View(K, F, P)
         /\ \A u : InPlace(u)' = InPlace(u) /\ Rest(u)' = Rest(u)
         /\ NewState(base)' = NewState(base)
<1>1. (BaseOk' <=> BaseOk) /\ NewState(base)' = NewState(base) /\ \A k : Stored(k)' = Stored(k)
  BY StoredSame
<1>2. \A S : Ready(S)' <=> Ready(S)
  BY DEF Ready, Sound, Fits, Count, BaseCount
<1>3. \A S, i : Halfway(S, i)' <=> Halfway(S, i)
  BY <1>2 DEF Halfway
<1>4. \A K, F, P : View(K, F, P)' <=> View(K, F, P)
  BY DEF View
<1>5. \A u : InPlace(u)' = InPlace(u)
  BY <1>1 DEF InPlace
<1>6. \A u : Rest(u)' = Rest(u)
  BY <1>5 DEF Rest
<1> QED
  BY <1>1, <1>2, <1>3, <1>4, <1>5, <1>6

(* Neither do the updates of the recorder, *)
LEMMA SteadyUpdates ==
  ASSUME UNCHANGED <<hash, base>>, NEW u, updates' = u
  PROVE  InPlace(updates)' = InPlace(u) /\ Rest(updates)' = Rest(u)
<1>1. \A k : Stored(k)' = Stored(k)
  BY StoredSame
<1>2. InPlace(updates)' = InPlace(u)
  BY <1>1 DEF InPlace
<1> QED
  BY <1>2 DEF Rest

(* and a run stays one. *)
LEMMA SteadyRuns ==
  ASSUME UNCHANGED <<hash, base>>, NEW u, updates' = u, NEW run, Runs(hash, base, u, Rest(u), run)
  PROVE  Runs(hash, base, updates, Rest(updates), run)'
<1>1. Rest(updates)' = Rest(u)
  BY SteadyUpdates
<1> QED
  BY <1>1

(* The keys of the updates of the recorder. *)
LEMMA RestKeys ==
  ASSUME NEW u \in Batches
  PROVE  \A k \in Rest(u) : k \in Nat /\ k \in 0 .. MaxKey
<1>1. \A k \in Rest(u) : k \in PlainKeys
  BY BatchKeys DEF Rest
<1> QED
  BY <1>1, KeysBelow

(* RInv holds before the block. *)
LEMMA ReplayInit == Init => RInv
BY DEF Init, RInv, NewState

(* Witness::create up to recorder.update: the run begins. *)
LEMMA CreateReplay ==
  ASSUME WInv, RInv, NEW b \in SUBSET {Meta}, NEW l \in SUBSET PlainKeys, NEW u \in Batches, Create(b, l, u)
  PROVE  RInv'
<1> DEFINE there == {k \in l : Stored(k) # {}} \cup InPlace(u)
           A == Absence(NewState(base), {k \in l : Stored(k) = {}})
<1>1. /\ BaseOk /\ recorder = NewState(base) /\ full = NewState(base) /\ ~ replica.failed /\ pc' = "record"
      /\ UNCHANGED <<hash, base, replica, full>> /\ updates' = u
  BY DEF WInv, RInv, Create
<1>2. recorder' = A /\ todo' = Rest(u)
  BY <1>1 DEF Create, Rest
<1>3. A \in Recorded({}) /\ Twin(A, NewState(base)) /\ Halfway(A, 0)
  BY <1>1, AbsenceReads
<1>4. DOMAIN direct' = there
  <2>1. direct' = [k \in there |-> CHOOSE s \in Stored(k) : TRUE]
    BY Zenon DEF Create
  <2> HIDE DEF there
  <2> QED
    BY <2>1
<1>5. InPlace(u) \subseteq DOMAIN direct'
  BY <1>4
<1> HIDE DEF A
<1>6. PICK run : run[0] = A /\ Runs(hash, base, u, Rest(u), run)
  BY <1>1, <1>3, RunExists
<1>7. Recalls(run, 0)'
  <2>1. Runs(hash, base, updates, Rest(updates), run)'
    BY <1>1, <1>6, SteadyRuns
  <2>2. Rest(updates)' = Rest(u)
    BY <1>1, SteadyUpdates
  <2>3. \A k \in Rest(u) : k >= 0
    BY RestKeys
  <2>4. (todo = {k \in Rest(updates) : k >= 0})'
    BY <1>2, <2>2, <2>3
  <2>5. Halfway(run[0], 0)'
    BY <1>1, <1>3, <1>6, Steady
  <2>6. \A j \in 0 .. 0 : Halfway(run[j], j)'
    BY <2>5
  <2> QED
    BY <1>2, <1>6, <2>1, <2>4, <2>6 DEF Recalls
<1>8. InPlace(updates)' = InPlace(u)
  BY <1>1, SteadyUpdates
<1>9. 0 \in 0 .. Last
  BY MaxKeyNat DEF Last
<1> QED
  BY <1>1, <1>5, <1>7, <1>8, <1>9, Steady DEF RInv

(* recorder.update of one key: the next step of the run. *)
LEMMA RecordReplay ==
  ASSUME WInv, RInv, NEW k \in PlainKeys, Record(k)
  PROVE  RInv'
<1>1. /\ BaseOk /\ full = NewState(base) /\ ~ replica.failed /\ pc = "record" /\ pc' = "record"
      /\ UNCHANGED <<hash, base, replica, full, updates, direct>>
      /\ InPlace(updates) \subseteq DOMAIN direct /\ updates \in Batches
  BY DEF WInv, RInv, Record, Recording
<1>2. PICK u \in Batches : u = updates
  BY <1>1
<1>20. PICK run : \E m \in 0 .. Last : Recalls(run, m)
  BY <1>1 DEF RInv
<1>3. PICK m \in 0 .. Last : Recalls(run, m)
  BY <1>20
<1> DEFINE A == run[m]
           B == run[k + 1]
<1>4. ~ recorder.failed /\ recorder = A /\ recorder' = UpdateOne(base, A, k, u[k]) /\ IsFirst(k, todo) /\ todo' = todo \ {k}
  BY <1>2, <1>3 DEF Record, Recalls
<1>5. todo = {i \in Rest(u) : i >= m} /\ Runs(hash, base, u, Rest(u), run) /\ Law(hash, base, u, Rest(u), run)
  BY <1>2, <1>3 DEF Recalls, Runs
<1>6. \A i \in Rest(u) : i \in Nat /\ i \in 0 .. MaxKey
  BY RestKeys
<1>7. k \in Rest(u) /\ k >= m /\ \A i \in Rest(u) : i < m \/ i >= k
  BY <1>4, <1>5, <1>6 DEF IsFirst
<1>8. k \in Nat /\ k \in 0 .. MaxKey /\ Last = MaxKey + 1 /\ MaxKey \in Nat /\ k + 1 \in 0 .. Last /\ k \in m .. Last
  BY <1>6, <1>7, MaxKeyNat DEF Last
<1>9. \A p \in m .. k : run[p] = A
  <2> SUFFICES ASSUME NEW p \in m .. k PROVE run[p] = run[m]
    OBVIOUS
  <2>1. p \in m .. Last /\ \A i \in Rest(u) : i < m \/ i >= p
    BY <1>6, <1>7, <1>8
  <2> QED
    BY <1>5, <2>1, Idle
<1>10. B = UpdateOne(base, A, k, u[k])
  <2>1. run[k] = A /\ B = By(hash)!UpdateOne(base, run[k], k, u[k])
    BY <1>5, <1>7, <1>8, <1>9 DEF Law
  <2> HIDE DEF A, B
  <2> QED
    BY <2>1, ByUpdate
<1>11. \A j \in 0 .. m : Halfway(run[j], j)
  BY <1>3, <1>4 DEF Recalls
<1>12. \A j \in m .. k : Halfway(run[j], j)
  <2> SUFFICES ASSUME NEW j \in m .. k PROVE Halfway(run[j], j)
    OBVIOUS
  <2>1. run[j] = A /\ Halfway(A, m) /\ m \in Nat /\ j \in Nat /\ m <= j
    BY <1>8, <1>9, <1>11
  <2> HIDE DEF A
  <2> QED
    BY <1>1, <2>1, HalfwayLater
<1>13. B.failed \/ Halfway(B, k + 1)
  <2>1. Halfway(A, k)
    <3>1. run[k] = A /\ k \in m .. k
      BY <1>8, <1>9
    <3> QED
      BY <3>1, <1>12
  <2> HIDE DEF A, B
  <2> QED
    BY <1>1, <1>7, <1>10, <2>1, HalfwayStep
<1>14. \A j \in 0 .. k + 1 : B.failed \/ Halfway(run[j], j)
  <2> SUFFICES ASSUME NEW j \in 0 .. k + 1 PROVE B.failed \/ Halfway(run[j], j)
    OBVIOUS
  <2>1. j \in 0 .. m \/ j \in m .. k \/ j = k + 1
    BY <1>8
  <2> QED
    BY <2>1, <1>11, <1>12, <1>13
<1>15. Recalls(run, k + 1)'
  <2>1. Runs(hash, base, updates, Rest(updates), run)'
    BY <1>1, <1>2, <1>5, SteadyRuns
  <2>2. Rest(updates)' = Rest(u)
    BY <1>1, <1>2, SteadyUpdates
  <2>3. todo' = {i \in Rest(u) : i >= k + 1}
    <3>1. \A i \in Rest(u) : (i >= m /\ i # k) <=> i >= k + 1
      BY <1>6, <1>7, <1>8
    <3>2. todo' = {i \in Rest(u) : i >= m} \ {k}
      BY <1>4, <1>5
    <3> QED
      BY <3>1, <3>2
  <2>4. recorder' = B
    BY <1>4, <1>10
  <2>5. \A j \in 0 .. k + 1 : B.failed \/ Halfway(run[j], j)'
    BY <1>1, <1>14, Steady
  <2> HIDE DEF B
  <2>6. (\A j \in 0 .. k + 1 : recorder.failed \/ Halfway(run[j], j))'
    BY <2>4, <2>5
  <2> QED
    BY <2>1, <2>2, <2>3, <2>4, <2>6 DEF Recalls, B
<1>16. InPlace(updates)' = InPlace(u)
  BY <1>1, <1>2, SteadyUpdates
<1> QED
  BY <1>1, <1>2, <1>8, <1>15, <1>16, Steady DEF RInv

(* The witness has what the whole run cached. *)
LEMMA AssembleReplay ==
  ASSUME WInv, RInv, Assemble
  PROVE  RInv'
<1>1. /\ BaseOk /\ full = NewState(base) /\ ~ replica.failed /\ pc = "record" /\ pc' = "send"
      /\ UNCHANGED <<hash, base, replica, full, updates, direct, chosen, recorder, lookups>>
      /\ InPlace(updates) \subseteq DOMAIN direct /\ Recording /\ witness' = SaltWitness(chosen \cup Kept, direct)
      /\ todo = {} /\ ~ recorder.failed
  BY DEF WInv, RInv, Assemble
<1>2. PICK u \in Batches : u = updates
  BY <1>1 DEF Recording
<1>20. PICK run : \E m \in 0 .. Last : Recalls(run, m)
  BY <1>1 DEF RInv
<1>3. PICK m \in 0 .. Last : Recalls(run, m)
  BY <1>20
<1>4. /\ recorder = run[m] /\ Runs(hash, base, u, Rest(u), run) /\ Law(hash, base, u, Rest(u), run)
      /\ {i \in Rest(u) : i >= m} = {} /\ \A j \in 0 .. m : Halfway(run[j], j)
  BY <1>1, <1>2, <1>3 DEF Recalls, Runs
<1>5. \A i \in Rest(u) : i \in Nat /\ i < m
  BY <1>4, RestKeys
<1>6. Last \in Nat
  BY MaxKeyNat DEF Last
<1>7. \A p \in m .. Last : run[p] = run[m]
  BY <1>4, <1>5, Idle
<1>8. recorder = run[Last]
  BY <1>4, <1>6, <1>7
<1>9. \A j \in 0 .. Last : Halfway(run[j], j)
  <2> SUFFICES ASSUME NEW j \in 0 .. Last PROVE Halfway(run[j], j)
    OBVIOUS
  <2>1. CASE j <= m
    BY <2>1, <1>4
  <2>2. CASE ~ (j <= m)
    <3> DEFINE A == run[m]
    <3>1. j \in m .. Last /\ m \in Nat /\ j \in Nat /\ m <= j
      BY <2>2, <1>6
    <3>2. run[j] = A /\ Halfway(A, m)
      BY <3>1, <1>4, <1>7
    <3> HIDE DEF A
    <3> QED
      BY <1>1, <3>1, <3>2, HalfwayLater
  <2> QED
    BY <2>1, <2>2
<1>10. Ran(run)'
  <2>1. Runs(hash, base, updates, Rest(updates), run)'
    BY <1>1, <1>2, <1>4, SteadyRuns
  <2>2. \A j \in 0 .. Last : Halfway(run[j], j)'
    BY <1>1, <1>9, Steady
  <2> QED
    BY <1>1, <1>8, <2>1, <2>2 DEF Ran
<1> DEFINE keys == chosen \cup Kept
           c == base.capacity
<1>11. \A k \in DOMAIN direct : k \in PlainKeys /\ direct[k] \in 0 .. c - 1 /\ base.slots[direct[k]] # Empty /\ base.slots[direct[k]].key = k
  BY <1>1, StoredIs DEF Recording
<1>12. Pushed(direct) \subseteq 0 .. c - 1 /\ \A k \in DOMAIN direct : direct[k] \in keys
  BY <1>1, <1>11 DEF Pushed, Recording
<1>13. Kept \subseteq (0 .. c - 1) \cup {Meta}
  <2> SUFFICES ASSUME NEW key \in recorder.cached, key # Meta, recorder.capacity # c => key < c PROVE key \in 0 .. c - 1
    BY DEF Kept
  <2>1. key \in 0 .. recorder.capacity - 1 /\ recorder.capacity \in Nat
    BY <1>1, RecordedSlots DEF Recording, Recorded
  <2> QED
    BY <2>1, <1>1, BaseFacts
<1>14. keys \subseteq (0 .. c - 1) \cup {Meta}
  BY <1>1, <1>12, <1>13 DEF Recording
<1>15. Needed(InPlace(u)) = {}
  BY DEF Needed, InPlace
<1>16. SaltWitness(keys, direct).fast = direct
  BY DEF SaltWitness, Reader
<1>17. Covers(keys, Known)
  BY DEF Covers, Kept, Known
<1> HIDE DEF keys
<1>18. Tells(witness', keys, InPlace(u))
  BY <1>1, <1>2, <1>11, <1>12, <1>14, <1>15, <1>16 DEF Tells, Points, keys
<1>19. Sent'
  <2>1. PICK w, K : w = witness' /\ K = keys
    OBVIOUS
  <2>2. Tells(w, K, InPlace(u))' /\ InPlace(u)' = InPlace(u)
    BY <1>1, <1>18, <2>1, StoredSame, Steady
  <2>3. (chosen \cup Kept)' = K /\ InPlace(updates)' = InPlace(u)
    BY <1>1, <1>2, <2>1, SteadyUpdates DEF keys, Kept
  <2>4. Tells(witness, chosen \cup Kept, InPlace(updates))'
    BY <2>1, <2>2, <2>3 DEF Tells, Points, Needed
  <2>5. Covers(chosen \cup Kept, Known)'
    BY <1>1, <1>17 DEF Covers, Kept, Known, keys
  <2> QED
    BY <1>1, <1>2, <2>4, <2>5 DEF Sent
<1> QED
  BY <1>1, <1>10, <1>19, Steady DEF RInv

(* The run of the recorder is over, *)
LEMMA SteadyRan ==
  ASSUME UNCHANGED <<hash, base, updates, recorder>>, NEW run, Ran(run)
  PROVE  Ran(run)'
<1>1. PICK u : u = updates
  OBVIOUS
<1>2. Runs(hash, base, u, Rest(u), run)
  BY <1>1 DEF Ran
<1>3. Runs(hash, base, updates, Rest(updates), run)'
  BY <1>1, <1>2, SteadyRuns
<1>4. \A j \in 0 .. Last : Halfway(run[j], j)'
  BY Steady DEF Ran
<1> QED
  BY <1>3, <1>4 DEF Ran

(* and what was sent stays what it is. *)
LEMMA SteadySent ==
  ASSUME UNCHANGED <<hash, base, updates, recorder, chosen>>, updates \in Batches,
         Tells(witness', chosen \cup Kept, InPlace(updates)), Covers(chosen \cup Kept, Known)
  PROVE  Sent'
<1>1. PICK u, w, K : u = updates /\ w = witness' /\ K = chosen \cup Kept
  OBVIOUS
<1>2. Tells(w, K, InPlace(u))' /\ InPlace(u)' = InPlace(u)
  BY <1>1, StoredSame, Steady
<1>3. (chosen \cup Kept)' = K /\ InPlace(updates)' = InPlace(u)
  BY <1>1, SteadyUpdates DEF Kept
<1>4. Tells(witness, chosen \cup Kept, InPlace(updates))'
  BY <1>1, <1>2, <1>3 DEF Tells, Points, Needed
<1>5. Covers(chosen \cup Kept, Known)'
  BY DEF Covers, Kept, Known
<1> QED
  BY <1>4, <1>5 DEF Sent

(* Witness::from, or the witness as created. *)
LEMMA ReceiveReplay ==
  ASSUME WInv, RInv, NEW fast \in {witness.fast, Rebuilt(witness.slots)}, Receive(fast)
  PROVE  RInv'
<1>1. /\ BaseOk /\ full = NewState(base) /\ Sent /\ pc' = "replay" /\ todo' = DOMAIN updates
      /\ witness' = [witness EXCEPT !.fast = fast] /\ replica' = NewState(witness')
      /\ UNCHANGED <<hash, base, full, updates, chosen, recorder>>
  BY DEF WInv, RInv, Receive
<1>2. PICK u, w, K : u = updates /\ w = witness /\ K = chosen \cup Kept
  OBVIOUS
<1>3. Tells(w, K, InPlace(u)) /\ u \in Batches /\ Covers(K, Known)
  BY <1>1, <1>2 DEF Sent
<1>4. PICK v : v = witness'
  OBVIOUS
<1>5. Tells(v, K, InPlace(u))
  <2>1. CASE fast = w.fast
    <3>1. w = SaltWitness(K, w.fast)
      BY <1>3 DEF Tells
    <3>2. v = w
      BY <1>1, <1>2, <1>4, <2>1, <3>1 DEF SaltWitness, Reader
    <3> QED
      BY <3>2, <1>3
  <2>2. CASE fast = Rebuilt(w.slots)
    <3>1. v = [w EXCEPT !.fast = Rebuilt(w.slots)]
      BY <1>1, <1>2, <1>4, <2>2
    <3> QED
      BY <3>1, <1>1, <1>3, RebuiltTells
  <2> QED
    BY <2>1, <2>2, <1>2
<1>6. Sent'
  BY <1>1, <1>2, <1>3, <1>4, <1>5, SteadySent
<1>7. PICK run : Ran(run)
  BY DEF RInv, Receive
<1>8. Ran(run)'
  BY <1>1, <1>7, SteadyRan
<1>9. View(Known, NewState(base), NewState(v))
  BY <1>1, <1>3, <1>5, ReplayStart
<1>10. Replaying(run, 0)'
  <2>1. \A k \in DOMAIN u : k >= 0
    <3>1. \A k \in DOMAIN u : k \in PlainKeys
      BY <1>3, BatchKeys
    <3> QED
      BY <3>1, KeysBelow
  <2>2. (todo = {k \in DOMAIN updates : k >= 0})'
    BY <1>1, <1>2, <2>1
  <2>3. Twin(run[0], NewState(base))
    BY <1>7 DEF Ran, Runs
  <2>4. Ready(NewState(base))
    BY <1>1, NewReady DEF Halfway
  <2>5. PICK F, P, L : F = NewState(base) /\ P = NewState(v) /\ L = Known
    OBVIOUS
  <2>6. View(L, F, P)' /\ Ready(F)'
    BY <1>1, <1>9, <2>4, <2>5, Steady
  <2>7. full' = F /\ replica' = P /\ Known' = L
    BY <1>1, <1>4, <2>5 DEF Known
  <2>8. View(Known, full, replica)'
    BY <2>6, <2>7 DEF View
  <2>9. Ready(full)'
    BY <2>6, <2>7 DEF Ready, Sound, Fits, Count
  <2>10. Twin(run[0], full)'
    BY <2>3, <2>5, <2>7
  <2> QED
    BY <2>2, <2>8, <2>9, <2>10 DEF Replaying
<1>11. 0 \in 0 .. Last
  BY MaxKeyNat DEF Last
<1> QED
  BY <1>1, <1>6, <1>8, <1>10, <1>11 DEF RInv

(* update of one key, on the witness and on the full state. *)
LEMMA ReplayReplay ==
  ASSUME WInv, RInv, NEW k \in PlainKeys, Replay(k)
  PROVE  RInv'
<1>1. /\ BaseOk /\ Sent /\ pc' = "replay" /\ todo' = todo \ {k} /\ ReplayNext(k, todo)
      /\ replica' = UpdateOne(witness, replica, k, updates[k]) /\ full' = UpdateOne(base, full, k, updates[k])
      /\ UNCHANGED <<hash, base, updates, chosen, recorder, witness>>
  BY DEF WInv, RInv, Replay
<1>2. PICK u, w, K, L : u = updates /\ w = witness /\ K = chosen \cup Kept /\ L = Known
  OBVIOUS
<1>3. Tells(w, K, InPlace(u)) /\ u \in Batches /\ Covers(K, L)
  BY <1>1, <1>2 DEF Sent
<1>4. PICK run : Ran(run) /\ \E m \in 0 .. Last : Replaying(run, m)
  BY DEF RInv, Replay
<1>5. PICK m \in 0 .. Last : Replaying(run, m)
  BY <1>4
<1>6. PICK F, P : F = full /\ P = replica
  OBVIOUS
<1>7. Ready(F) /\ Twin(run[m], F) /\ View(L, F, P) /\ todo = {i \in DOMAIN u : i >= m}
  BY <1>2, <1>5, <1>6 DEF Replaying
<1>8. Runs(hash, base, u, Rest(u), run) /\ (\A j \in 0 .. Last : Halfway(run[j], j)) /\ run[Last].cached \subseteq L
  BY <1>2, <1>4 DEF Ran, Known
<1>9. \A i \in DOMAIN u : i \in Nat /\ i \in 0 .. MaxKey
  <2>1. \A i \in DOMAIN u : i \in PlainKeys
    BY <1>3, BatchKeys
  <2> QED
    BY <2>1, KeysBelow
<1>10. k \in DOMAIN u /\ k >= m /\ \A i \in DOMAIN u : i < m \/ i >= k
  BY <1>1, <1>7, <1>9 DEF ReplayNext, IsFirst
<1> DEFINE U == UpdateOne(base, F, k, u[k])
           V == UpdateOne(w, P, k, u[k])
<1>11. Ready(U) /\ Twin(run[k + 1], U) /\ View(L, U, V)
  BY <1>1, <1>3, <1>7, <1>8, <1>10, ReplayOne
<1>12. full' = U /\ replica' = V
  BY <1>1, <1>2, <1>6
<1> HIDE DEF U, V
<1>13. PICK G, Q : G = U /\ Q = V
  OBVIOUS
<1>14. Replaying(run, k + 1)'
  <2>1. todo' = {i \in DOMAIN u : i >= k + 1}
    <3>1. \A i \in DOMAIN u : (i >= m /\ i # k) <=> i >= k + 1
      BY <1>9, <1>10
    <3>2. todo' = {i \in DOMAIN u : i >= m} \ {k}
      BY <1>1, <1>7
    <3> QED
      BY <3>1, <3>2
  <2>2. View(L, G, Q)' /\ Ready(G)'
    BY <1>1, <1>11, <1>13, Steady
  <2>3. full' = G /\ replica' = Q /\ Known' = L
    BY <1>1, <1>2, <1>12, <1>13 DEF Known
  <2>4. View(Known, full, replica)'
    BY <2>2, <2>3 DEF View
  <2>5. Ready(full)'
    BY <2>2, <2>3 DEF Ready, Sound, Fits, Count
  <2>6. Twin(run[k + 1], full)'
    BY <1>11, <1>12
  <2> QED
    BY <1>1, <1>2, <2>1, <2>4, <2>5, <2>6 DEF Replaying
<1>15. Sent'
  BY <1>1, <1>2, <1>3, SteadySent
<1>16. Ran(run)'
  BY <1>1, <1>4, SteadyRan
<1>17. k + 1 \in 0 .. Last
  BY <1>9, <1>10, MaxKeyNat DEF Last
<1> QED
  BY <1>1, <1>14, <1>15, <1>16, <1>17 DEF RInv

(* canonicalize, which replays a bucket that was rehashed from the start. *)
LEMMA FinishReplay ==
  ASSUME WInv, RInv, Finish
  PROVE  RInv'
<1>1. /\ BaseOk /\ Sent /\ pc' = "done" /\ UNCHANGED <<hash, base, chosen, recorder>>
      /\ replica' = Canonicalize(witness, replica) /\ full' = Canonicalize(base, full)
  BY DEF WInv, RInv, Finish
<1>2. PICK w, K, L : w = witness /\ K = chosen \cup Kept /\ L = Known
  OBVIOUS
<1>3. Holds(L, w)
  <2>1. PICK l : l = InPlace(updates)
    OBVIOUS
  <2>2. Tells(w, K, l) /\ Covers(K, L)
    BY <1>1, <1>2, <2>1 DEF Sent
  <2> QED
    BY <1>1, <2>2, WitnessHolds
<1>4. PICK run : Ran(run) /\ \E m \in 0 .. Last : Replaying(run, m)
  BY DEF RInv, Finish
<1>5. PICK m \in 0 .. Last : Replaying(run, m)
  BY <1>4
<1>6. PICK F, P : F = full /\ P = replica
  OBVIOUS
<1>7. Ready(F) /\ Twin(run[m], F) /\ View(L, F, P)
  BY <1>2, <1>5, <1>6 DEF Replaying
<1>8. F.rehashed => {Meta} \cup (0 .. F.capacity - 1) \subseteq L
  <2>1. Ready(run[m]) /\ run[m].cached \subseteq L
    BY <1>2, <1>4 DEF Ran, Known, Halfway, Runs
  <2> QED
    BY <2>1, <1>7 DEF Ready, Sound, Twin
<1>9. View(L, Canonicalize(base, F), Canonicalize(w, P))
  BY <1>1, <1>3, <1>7, <1>8, CanonicalView
<1>10. PICK G, Q : G = Canonicalize(base, F) /\ Q = Canonicalize(w, P)
  OBVIOUS
<1>11. full' = G /\ replica' = Q /\ Known' = L
  BY <1>1, <1>2, <1>6, <1>10 DEF Known
<1>12. View(L, G, Q)'
  BY <1>1, <1>9, <1>10, Steady
<1>13. View(Known, full, replica)'
  BY <1>11, <1>12 DEF View
<1> QED
  BY <1>1, <1>13 DEF RInv

(* Nothing changes. *)
LEMMA StutterReplay ==
  ASSUME WInv, RInv, UNCHANGED vars
  PROVE  RInv'
<1>1. /\ BaseOk /\ UNCHANGED <<hash, base, lookups, updates, pc, todo, direct, chosen, recorder, witness, replica, full>>
  BY DEF WInv, vars
<1>2. PICK u : u = updates
  OBVIOUS
<1>3. NewState(base)' = NewState(base) /\ InPlace(updates)' = InPlace(u) /\ Rest(updates)' = Rest(u)
  BY <1>1, <1>2, Steady, SteadyUpdates
<1>4. ASSUME NEW run, NEW m, Recalls(run, m) PROVE Recalls(run, m)'
  <2>1. Runs(hash, base, updates, Rest(updates), run)'
    BY <1>1, <1>2, <1>4, SteadyRuns DEF Recalls
  <2>2. \A j \in 0 .. m : recorder.failed \/ Halfway(run[j], j)'
    BY <1>1, <1>4, Steady DEF Recalls
  <2> QED
    BY <1>1, <1>2, <1>3, <1>4, <2>1, <2>2 DEF Recalls
<1>5. Sent => Sent'
  BY <1>1, SteadySent DEF Sent
<1>6. ASSUME View(Known, full, replica) PROVE View(Known, full, replica)'
  BY <1>1, <1>6 DEF View, Known
<1>7. ASSUME NEW run, NEW m, Replaying(run, m) PROVE Replaying(run, m)'
  <2>1. Ready(full)'
    BY <1>1, <1>7 DEF Replaying, Ready, Sound, Fits, Count, BaseCount
  <2> QED
    BY <1>1, <1>6, <1>7, <2>1 DEF Replaying
<1>8. ASSUME NEW run, Ran(run) PROVE Ran(run)'
  BY <1>1, <1>8, SteadyRan
<1> QED
  BY <1>1, <1>2, <1>3, <1>4, <1>5, <1>6, <1>7, <1>8 DEF RInv

(* Every step keeps RInv. *)
LEMMA ReplayStep == WInv /\ RInv /\ [Next]_vars => RInv'
<1> SUFFICES ASSUME WInv, RInv, [Next]_vars PROVE RInv'
  OBVIOUS
<1>1. CASE \E b \in SUBSET {Meta}, l \in SUBSET PlainKeys, u \in Batches : Create(b, l, u)
  BY <1>1, CreateReplay
<1>2. CASE \E k \in PlainKeys : Record(k)
  BY <1>2, RecordReplay
<1>3. CASE Assemble
  BY <1>3, AssembleReplay
<1>4. CASE \E fast \in {witness.fast, Rebuilt(witness.slots)} : Receive(fast)
  BY <1>4, ReceiveReplay
<1>5. CASE \E k \in PlainKeys : Replay(k)
  BY <1>5, ReplayReplay
<1>6. CASE Finish
  BY <1>6, FinishReplay
<1>7. CASE UNCHANGED vars
  BY <1>7, StutterReplay
<1> QED
  BY <1>1, <1>2, <1>3, <1>4, <1>5, <1>6, <1>7 DEF Next

(* It says enough for both properties. *)
LEMMA ReplaySuffices == WInv /\ RInv => ReplayNeverFails /\ ReplayAgrees
<1> SUFFICES ASSUME WInv, RInv PROVE ReplayNeverFails /\ ReplayAgrees
  OBVIOUS
<1>1. pc \in {"idle", "record", "send", "replay", "done"} /\ BaseOk
  BY DEF WInv
<1>2. CASE pc \in {"idle", "record", "send"}
  BY <1>2 DEF RInv, ReplayNeverFails, ReplayAgrees
<1>3. CASE pc \in {"replay", "done"}
  <2>1. View(Known, full, replica)
    BY <1>3 DEF RInv, Replaying
  <2>2. ~ replica.failed /\ full.delta = replica.delta
    BY <2>1 DEF View
  <2>3. \A s \in SlotId : full.slots[s] # Unknown
    BY <2>1, KnownFacts DEF View
  <2>4. full.capacity # Unknown
    BY <2>1, KnownFacts DEF View
  <2>5. \A s \in SlotId : full.slots[s] = IF replica.slots[s] = Unknown THEN base.slots[s] ELSE replica.slots[s]
    BY <2>1, <2>3 DEF View
  <2>6. full.capacity = IF replica.capacity = Unknown THEN base.capacity ELSE replica.capacity
    BY <2>1, <2>4 DEF View
  <2> QED
    BY <2>2, <2>5, <2>6 DEF ReplayNeverFails, ReplayAgrees
<1> QED
  BY <1>1, <1>2, <1>3

(* Running the block on the witness alone (update_fin over Witness,        *)
(* salt/src/proof/witness.rs) never reads a slot or metadata that          *)
(* Witness::create left out, canonicalize after an expansion included, for *)
(* every key set, hash function, capacity, load factor and block, although *)
(* create never ran the updates in place.                                  *)
THEOREM ReplayNeverFailing == Spec => []ReplayNeverFails
<1>1. Spec => [](WInv /\ RInv)
  <2>1. Init => WInv /\ RInv
    BY InitInv, ReplayInit
  <2>2. WInv /\ RInv /\ [Next]_vars => (WInv /\ RInv)'
    BY StepInv, ReplayStep
  <2> QED
    BY <2>1, <2>2, PTL DEF Spec
<1> QED
  BY <1>1, ReplaySuffices, PTL

(* After every key and after canonicalize the session over the witness has *)
(* the slots, the capacity and the usage of the session over the full      *)
(* state; what it does not know is as it was before the block.             *)
THEOREM ReplayAgreement == Spec => []ReplayAgrees
<1>1. Spec => [](WInv /\ RInv)
  <2>1. Init => WInv /\ RInv
    BY InitInv, ReplayInit
  <2>2. WInv /\ RInv /\ [Next]_vars => (WInv /\ RInv)'
    BY StepInv, ReplayStep
  <2> QED
    BY <2>1, <2>2, PTL DEF Spec
<1> QED
  BY <1>1, ReplaySuffices, PTL
===============================================================================
