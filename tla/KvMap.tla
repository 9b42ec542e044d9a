--------------------------------- MODULE KvMap ---------------------------------
(***************************************************************************)
(* What a bucket promises to its clients: a finite map from plain keys to  *)
(* plain values, which only a call can change, and only at the key it was  *)
(* called for.  While a call runs (shi_upsert and its resizes, shi_delete, *)
(* set_nonce, canonicalize) the map stands still.                          *)
(***************************************************************************)
CONSTANTS PlainKeys, Values, Empty

VARIABLES
  map,
  open    \* a call is running

Init == map = [k \in PlainKeys |-> Empty] /\ open = FALSE

Put(k, v) == ~ open /\ map' = [map EXCEPT ![k] = v] /\ open' \in BOOLEAN

Remove(k) == ~ open /\ map' = [map EXCEPT ![k] = Empty] /\ open' = TRUE

Reorganise == ~ open /\ open' = TRUE /\ UNCHANGED map

Return == open /\ open' = FALSE /\ UNCHANGED map

Next == Reorganise \/ Return \/ \E k \in PlainKeys : Remove(k) \/ \E v \in Values : Put(k, v)

Spec == Init /\ [][Next]_<<map, open>>
===============================================================================
