------------------------------ MODULE TrieReference ------------------------------
(***************************************************************************)
(* What the commitments of the SALT trie are by definition, from the state *)
(* alone: without deltas, caches or changes of capacity.  The reference    *)
(* that StateRoot and SaltProof are checked against.                       *)
(***************************************************************************)
EXTENDS SaltTrie

CONSTANT Buckets   \* the data buckets that are ever used

ASSUME ReferenceAssumption ==
  /\ Width \in Nat /\ Width > 1
  /\ Field \in Nat /\ Field % 3 = 2
  /\ Buckets \subseteq NumMetaBuckets .. NumBuckets - 1

(* A state maps every bucket of Buckets to [nonce, capacity, slots]. *)
SlotValue(content, s) == IF s \in DOMAIN content.slots THEN content.slots[s] ELSE None

MetaOf(st, b) == MetaValue(st[b].nonce, st[b].capacity)

RECURSIVE SubtreeCommitment(_, _, _)
SubtreeCommitment(content, l, i) ==
  IF i * Width ^ (SubtreeLevels - l) >= content.capacity THEN SubtreeDefault[l]
  ELSE IF l = Leaf THEN Commit(LAMBDA j : KvHash(SlotValue(content, i * Width + j)))
  ELSE Commit(LAMBDA j : HashCommitment(SubtreeCommitment(content, l + 1, i * Width + j)))

BucketCommitment(st, b) ==
  IF b \in Buckets THEN SubtreeCommitment(st[b], RootLevel(st[b].capacity), 0)
  ELSE IF b >= NumMetaBuckets THEN SubtreeDefault[Leaf]
  ELSE Commit(LAMBDA j : KvHash(IF b * Width + j \in Buckets THEN MetaOf(st, b * Width + j) ELSE DefaultMeta))

(* Does the main trie node <<l, i>> have a bucket in use below it? *)
InUse(l, i) ==
  LET span == Width ^ (MainLevels - 1 - l)
  IN  \E b \in Buckets \cup {x \div Width : x \in Buckets} : b \div span = i

RECURSIVE MainCommitment(_, _, _)
MainCommitment(st, l, i) ==
  IF ~ InUse(l, i) THEN DefaultCommitment(Node(0, l, i))
  ELSE IF l = MainLevels - 1 THEN BucketCommitment(st, i)
  ELSE Commit(LAMBDA j : HashCommitment(MainCommitment(st, l + 1, i * Width + j)))

RootOf(st) == HashCommitment(MainCommitment(st, 0, 0))

(* What the store holds for node n when it holds state st. *)
ExpectedCommitment(st, n) ==
  LET l == LevelOf(n)
  IN  IF InMainTrie(n) THEN MainCommitment(st, l, Index(n))
      ELSE IF l <= RootLevel(st[n[1]].capacity) THEN SubtreeDefault[l]
      ELSE SubtreeCommitment(st[n[1]], l, Index(n))
===============================================================================
