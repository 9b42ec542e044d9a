--------------------------- MODULE MCParallelUpdates ---------------------------
(***************************************************************************)
(* Instances of ParallelUpdates for TLC.                                   *)
(***************************************************************************)
EXTENDS ParallelUpdates

(* None, one, and unsorted deltas of up to three nodes, several per node. *)
MCLists ==
  {<< >>, <<1>>} \cup [1 .. 3 -> {1, 2}] \cup {<<2, 1, 2, 1>>, <<1, 1, 1, 1>>, <<3, 1, 2, 2, 3>>, <<1, 2, 2, 2, 3>>}
===============================================================================
