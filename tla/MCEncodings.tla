------------------------------ MODULE MCEncodings ------------------------------
(***************************************************************************)
(* Instances of Encodings and of ProofWire for TLC.  They share no state,  *)
(* so one rests while the other runs.                                      *)
(***************************************************************************)
EXTENDS Encodings, ProofWire

CONSTANTS ProofNodes, ProofBuckets

MCInit == Init /\ WireInit
MCNext ==
  \/ stage = "idle" /\ Next /\ UNCHANGED wireVars
  \/ pc = "idle" /\ WireNext /\ UNCHANGED vars
MCSpec == MCInit /\ [][MCNext]_<<vars, wireVars>>

(* A key and a value, a key without a value, and a key as long as metadata. *)
MCPlainEntries == {<<<<2, 3>>, <<4>>>>, <<<<5>>, << >>>>, <<<<1, 2, 3, 4, 5>>, <<6, 7>>>>}

MCKeyLengths == 0 .. 72

(* Doubled from the smallest to the largest. *)
MCCapacities == {4 * 2 ^ i : i \in 0 .. 8}

(* The first and the last slots next to the buckets that are used, and the *)
(* slot with the largest id, where the range of a bucket ends.             *)
MCOthers == {<<41, 0>>, <<41, 1023>>, <<43, 0>>, <<43, 1023>>, <<62, 1023>>, <<17, 0>>,
             <<41, SlotMask>>, <<43, SlotMask>>}

ElementPoints == [element : Elements, positive : BOOLEAN]

(* The first point of the opening may have either form. *)
Openings == {<<p>> \o [i \in 1 .. 2 * NumPoints |-> from_bytes(to_bytes(p))] : p \in ElementPoints}

MCProofs ==
  {[commitments |-> c, points |-> o, a |-> s, levels |-> l] :
     c \in [ProofNodes -> ElementPoints], o \in Openings, s \in Scalars, l \in [ProofBuckets -> LevelValues]}

(* Nothing depends on which element is which. *)
Symmetry == Permutations(Elements)
===============================================================================
