---------------------------- MODULE MCStoreReaders ----------------------------
(***************************************************************************)
(* Instances of StoreReaders for TLC.                                      *)
(***************************************************************************)
EXTENDS StoreReaders, TLC

(* Keys that collide, and wrap around the last slot; another nonce moves   *)
(* them.                                                                   *)
MCHash == (0 :> (1 :> 1 @@ 2 :> 1 @@ 3 :> 3)) @@ (1 :> (1 :> 2 @@ 2 :> 3 @@ 3 :> 3))

MCNodes == <<"root", "leaf">>

(* Content with the slots that shi_rehash would give it: largest key first. *)
Content(nonce, capacity, data) ==
  LET place[K \in SUBSET DOMAIN data] ==
        IF K = {} THEN EmptyTable
        ELSE LET k == CHOOSE x \in K : \A j \in K : x <= j
                 T == place[K \ {k}]
                 s == CHOOSE x \in FirstVacant(T, MCHash[nonce][k], capacity) : TRUE
             IN  [T EXCEPT ![s] = [key |-> k, val |-> data[k]]]
  IN  [nonce |-> nonce, capacity |-> capacity, data |-> data, table |-> place[DOMAIN data]]

(* One key, all three after a resize, one removed, all with another nonce. *)
MCBlocks ==
  {Content(0, 2, 1 :> "a"),
   Content(0, 4, 1 :> "a" @@ 2 :> "b" @@ 3 :> "a"),
   Content(0, 4, 1 :> "b" @@ 3 :> "a"),
   Content(1, 4, 1 :> "a" @@ 2 :> "b" @@ 3 :> "b")}
===============================================================================
