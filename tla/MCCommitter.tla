------------------------------ MODULE MCCommitter ------------------------------
(***************************************************************************)
(* Instances of Committer for TLC.                                         *)
(***************************************************************************)
EXTENDS Committer

MCHash == [i \in 1 .. 12 |-> (83 * i * i + 37 * i + 11) % 256]
===============================================================================
