----------------------------- MODULE MCShiBucket -----------------------------
(***************************************************************************)
(* Instances of ShiBucket for TLC.                                         *)
(***************************************************************************)
EXTENDS ShiBucket

(* Every assignment of hashes 0 to 2 to the keys under nonce 0; nonce 1    *)
(* moves key k on by k slots.                                              *)
MCHashFns ==
  {[n \in Nonces |-> [k \in PlainKeys |-> h[k] + n * k]] : h \in [PlainKeys -> 0 .. 2]}
===============================================================================
