-------------------------------- MODULE SaltTrie --------------------------------
(***************************************************************************)
(* The commitments of the SALT trie (salt/src/trie/trie.rs,                *)
(* node_utils.rs): a main trie of four levels whose leaves are the         *)
(* buckets, and a subtree of up to five levels for each data bucket that   *)
(* outgrew one node.  This module has the algorithms; StateRoot has the    *)
(* update sessions as a state machine.                                     *)
(*                                                                         *)
(* A node is <<bucket, number>>, the number in BFS order; bucket 0 stands  *)
(* for the main trie.  A commitment is a number modulo Field: the sum of   *)
(* child hashes times the generators.  Hashing a commitment to a scalar is *)
(* a bijection that is not linear, so a delta computed from a stale old    *)
(* value gives a wrong sum, as it does on the curve.  Values are codes: 0  *)
(* for an empty slot, an entry, or the metadata of a bucket.               *)
(***************************************************************************)
EXTENDS Integers, Sequences, FiniteSets, SequencesExt, FiniteSetsExt, TLC

CONSTANTS
  Width,     \* TRIE_WIDTH = MIN_BUCKET_SIZE = META_BUCKET_SIZE
  Field      \* the order of the scalar field; a prime that is 2 modulo 3

MainLevels == 4       \* MAIN_TRIE_LEVELS
SubtreeLevels == 5    \* MAX_SUBTREE_LEVELS
Leaf == SubtreeLevels - 1
NumMetaBuckets == Width ^ 2
NumBuckets == Width ^ 3
None == 0

(* The order of changes to different nodes makes no difference. *)
InSomeOrder(S) == FoldSet(LAMBDA x, seq : Append(seq, x), << >>, S)

CeilDiv(a, b) == (a + b - 1) \div b

-------------------------------------------------------------------------------
(* Node numbers *)

LevelStart(l) == (Width ^ l - 1) \div (Width - 1)

LevelOf(n) == CHOOSE l \in 0 .. Leaf : LevelStart(l) <= n[2] /\ n[2] < LevelStart(l + 1)

Node(b, l, i) == <<b, LevelStart(l) + i>>

Index(n) == n[2] - LevelStart(LevelOf(n))

RootNode == <<0, 0>>

InMainTrie(n) == n[1] = 0

VcPosition(n) == Index(n) % Width

Parent(n) == Node(n[1], LevelOf(n) - 1, Index(n) \div Width)

BucketRoot(b) == Node(0, MainLevels - 1, b)

SubtreeLeaf(key) == Node(key[1], Leaf, key[2] \div Width)

(* The level that is the root of a subtree with so many slots. *)
RootLevel(capacity) ==
  CHOOSE l \in 0 .. Leaf : /\ capacity <= Width ^ (SubtreeLevels - l)
                           /\ l = Leaf \/ capacity > Width ^ (Leaf - l)

MetadataKey(b) == <<b \div Width, b % Width>>

IsMetaKey(key) == key[1] < NumMetaBuckets

BucketOfMetaKey(key) == key[1] * Width + key[2]

(* Metadata as a value, and back. *)
MetaValue(nonce, capacity) == 1 + nonce + 2 * capacity
CapacityOf(value) == (value - 1) \div 2
DefaultMeta == MetaValue(0, Width)

-------------------------------------------------------------------------------
(* Commitments *)

MulIndex(x, i) == (x * (37 + 1009 * (i + 1))) % Field

HashCommitment(c) == ((((c + 1) * (c + 1)) % Field) * (c + 1)) % Field

KvHash(v) == IF v = None THEN 1 ELSE (7919 * v + 5) % Field

(* The commitment to the Width hashes h(0), h(1), ... *)
Commit(h(_)) == MapThenSumSet(LAMBDA i : MulIndex(h(i), i), 0 .. Width - 1) % Field

SubtreeDefault[l \in 0 .. Leaf] ==
  LET child == IF l = Leaf THEN KvHash(None) ELSE HashCommitment(SubtreeDefault[l + 1])
  IN  Commit(LAMBDA i : child)

MetaDefault[l \in 1 .. MainLevels - 1] ==
  LET child == IF l = MainLevels - 1 THEN KvHash(DefaultMeta) ELSE HashCommitment(MetaDefault[l + 1])
  IN  Commit(LAMBDA i : child)

RootDefault == Commit(LAMBDA i : HashCommitment(IF i = 0 THEN MetaDefault[1] ELSE SubtreeDefault[2]))

DefaultCommitment(n) ==
  LET l == LevelOf(n)
  IN  CASE ~ InMainTrie(n) -> SubtreeDefault[l]
        [] InMainTrie(n) /\ l = 0 -> RootDefault
        [] InMainTrie(n) /\ l > 0 /\ Index(n) < Width ^ (l - 1) -> MetaDefault[l]
        [] OTHER -> SubtreeDefault[l + 1]

(* A change of a node: the entries of TrieUpdates. *)
Change(n, old, new) == [id |-> n, old |-> old, new |-> new]

-------------------------------------------------------------------------------
(* Changes of capacity *)

(* SubtrieChangeInfo::new *)
ChangeInfo(b, old, new) ==
  [old |-> old, new |-> new,
   oldTop |-> RootLevel(old), newTop |-> RootLevel(new),
   oldTopId |-> Node(b, RootLevel(old), 0), newTopId |-> Node(b, RootLevel(new), 0)]

(* compute_contraction_ops: the nodes of level l to reset are those from   *)
(* ContractionStart to before ContractionEnd.                              *)
ContractionStart(info, l) ==
  IF l > info.newTop THEN CeilDiv(info.new, Width ^ (SubtreeLevels - l)) ELSE 0

ContractionEnd(info, l) == CeilDiv(info.old, Width ^ (SubtreeLevels - l))

ImmediateBoundary(info, l) ==
  IF l > info.newTop
  THEN Min({CeilDiv(ContractionStart(info, l) - 1, Width) * Width, ContractionEnd(info, l)})
  ELSE 0
===============================================================================
