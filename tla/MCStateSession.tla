---- MODULE MCStateSession ----
(***************************************************************************)
(* Instances of StateSession for TLC.                                      *)
(***************************************************************************)
EXTENDS StateSession, TLC

Symmetry == Permutations(Slots) \cup Permutations(Entries)
====
