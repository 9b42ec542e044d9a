------------------------------- MODULE ProofShape -------------------------------
(***************************************************************************)
(* Which polynomials a proof opens, and where (salt/src/proof/shape.rs),   *)
(* on nodes as pairs.  Encodings has the same on the numbers that the code *)
(* computes with, and checks that the two agree.                           *)
(***************************************************************************)
EXTENDS SaltTrie

(* encode_parent, is_encoded_node, connect_parent_id, logic_parent_id *)
EncodeParent(n, level) == Append(n, level)

IsEncoded(n) == Len(n) = 3

ConnectParent(n) == IF IsEncoded(n) THEN SubSeq(n, 1, 2) ELSE n

LogicParent(n) ==
  IF IsEncoded(n) THEN Node(Index(ConnectParent(n)), SubtreeLevels - n[3], 0) ELSE n

Ancestor(n, j) == Node(n[1], LevelOf(n) - j, Index(n) \div Width ^ j)

(* The first `count` steps from n towards the root: parent and position. *)
Climb(n, count) == {<<Ancestor(n, j + 1), VcPosition(Ancestor(n, j))>> : j \in 0 .. count - 1}

(* Phases 1 to 3 of parents_and_points: the main trie, the subtree up to   *)
(* the child of its root, and the bridge.                                  *)
InternalPoints(key, level) ==
  Climb(BucketRoot(key[1]), MainLevels - 1)
    \cup (IF level > 2 THEN Climb(SubtreeLeaf(key), level - 2) ELSE {})
    \cup (IF level >= 2
          THEN {<<EncodeParent(BucketRoot(key[1]), level),
                  VcPosition(Ancestor(SubtreeLeaf(key), level - 2))>>}
          ELSE {})

(* Phase 4: the node that commits to the slot. *)
SlotPoint(key, level) ==
  <<IF level = 1 THEN BucketRoot(key[1]) ELSE SubtreeLeaf(key), key[2] % Width>>

AllInternal(keys, levels) == UNION {InternalPoints(k, levels[k[1]]) : k \in keys}

AllSlots(keys, levels) == {SlotPoint(k, levels[k[1]]) : k \in keys}

(* The nodes whose commitments a proof has. *)
PathNodes(keys, levels) ==
  {ConnectParent(p[1]) : p \in AllInternal(keys, levels) \cup AllSlots(keys, levels)}
===============================================================================
