------------------------------ MODULE MCStateRoot ------------------------------
(***************************************************************************)
(* Instances of StateRoot for TLC.                                         *)
(***************************************************************************)
EXTENDS StateRoot

CONSTANTS Capacities, UsedSlots, Nonces

(* Buckets of these capacities with any of the slots in use; a slot always *)
(* has the same value, so every change is an insertion or a deletion.      *)
MCContents ==
  UNION {{[nonce |-> n, capacity |-> c, slots |-> [s \in S |-> 1 + s]] :
            n \in Nonces, S \in SUBSET {s \in UsedSlots : s < c}} : c \in Capacities}
===============================================================================
