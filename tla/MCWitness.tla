---- MODULE MCWitness ----
(***************************************************************************)
(* Instances of Witness for TLC.                                           *)
(***************************************************************************)
EXTENDS Witness

(* Every assignment of first slots to the keys, up to a rotation. *)
AllHashFns == {h \in [PlainKeys -> 0 .. 3] : h[1] = 1}
====
