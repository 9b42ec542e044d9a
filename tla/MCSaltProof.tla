------------------------------ MODULE MCSaltProof ------------------------------
(***************************************************************************)
(* Instances of SaltProof for TLC.                                         *)
(***************************************************************************)
EXTENDS SaltProof

CONSTANTS Capacities, UsedSlots

(* Buckets of these capacities with any of the slots in use. *)
MCContents ==
  UNION {{[nonce |-> 0, capacity |-> c, slots |-> [s \in S |-> 1 + s]] :
            S \in SUBSET {s \in UsedSlots : s < c}} : c \in Capacities}

(* Slots in the first and the last segments, of the used buckets and of    *)
(* one that is never used, and metadata.                                   *)
MCRequests ==
  {<<4, 0>>, <<4, 1>>, <<4, 5>>, <<4, 31>>, <<7, 1>>, <<5, 0>>,
   MetadataKey(4), MetadataKey(5), MetadataKey(7)}

(* A slot that is in use or not, one beyond the first segment, metadata. *)
MCMixable == {{<<4, 1>>}, {<<4, 5>>}, {MetadataKey(4)}}
===============================================================================
