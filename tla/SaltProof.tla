-------------------------------- MODULE SaltProof --------------------------------
(***************************************************************************)
(* SaltProof (salt/src/proof: prover.rs, shape.rs, subtrie.rs): the prover *)
(* opens, along the path from each key's slot to the root, the polynomial  *)
(* of every node at the child on the path; the verifier derives the same   *)
(* openings from the keys, the levels of the buckets and the commitments   *)
(* in the proof alone.                                                     *)
(*                                                                         *)
(* The path crosses from the main trie into the subtree of an expanded     *)
(* bucket through a node with two addresses: the bucket's leaf in the main *)
(* trie, where its commitment is stored, and the root of the subtree,      *)
(* whose children it has.  encode_parent tags the first with the level so  *)
(* that the second can be computed.                                        *)
(*                                                                         *)
(* The argument that openings are correct (ipa-multipoint) is external: it *)
(* accepts the queries that it was made for, when all of them are true of  *)
(* polynomials with these commitments.                                     *)
(***************************************************************************)
EXTENDS TrieReference, ProofShape

CONSTANTS
  Contents,    \* the bucket contents considered: [nonce, capacity, slots]
  Requests,    \* the salt keys that can be asked for
  MaxKeys,     \* bound on the keys of one proof
  Mixable      \* the sets of keys whose witness may have parts of another state

ASSUME ProofAssumption == MaxKeys \in Nat /\ Mixable \subseteq SUBSET Requests

VARIABLES
  st,       \* the entries and metadata that the prover's store holds
  trie,     \* its trie: a function on the nodes that are stored
  pc,       \* "idle", "sent", "error" or "checked"
  data,     \* SaltWitness.kvs: the keys with their values, None if absent
  proof,    \* SaltProof, with the queries that its openings are for
  other,    \* the state that the polynomials may be of as well as of st
  accepted  \* what check returned

vars == <<st, trie, pc, data, proof, other, accepted>>

Nothing == [x \in {} |-> 0]
NoProof == [path |-> Nothing, levels |-> Nothing, queries |-> Nothing]

-------------------------------------------------------------------------------
get_child_node(n, i) == Node(n[1], LevelOf(n) + 1, Index(n) * Width + i)

(* The first key of a leaf: in the main trie, or a segment of a subtree. *)
LeafStart(n) == IF InMainTrie(n) THEN <<Index(n), 0>> ELSE <<n[1], Index(n) * Width>>

KeyAt(p) == <<LeafStart(p[1])[1], LeafStart(p[1])[2] + p[2]>>

-------------------------------------------------------------------------------
(* The prover's store *)

Capacity(b) ==
  IF b \in Buckets THEN st[b].capacity ELSE Width

(* MemStore.kvs: metadata that is the default is not there. *)
StoredEntry(key) ==
  IF ~ IsMetaKey(key)
  THEN IF key[1] \in Buckets THEN SlotValue(st[key[1]], key[2]) ELSE None
  ELSE LET b == BucketOfMetaKey(key)
       IN  IF b \in Buckets /\ MetaOf(st, b) # DefaultMeta THEN MetaOf(st, b) ELSE None

(* MemStore::commitment *)
StoredCommitment(n) == IF n \in DOMAIN trie THEN trie[n] ELSE DefaultCommitment(n)

(* SaltWitness::create: default metadata is explicit. *)
WitnessedValue(key) ==
  IF IsMetaKey(key) /\ StoredEntry(key) = None THEN DefaultMeta ELSE StoredEntry(key)

-------------------------------------------------------------------------------
(* subtrie.rs: the polynomials that are opened *)

(* Variant of ChildDefault: no exception for the root. *)
ChildDefaultUniform(first, i) == DefaultCommitment(first)

(* All children share the default of the first one, but for the root.      *)
ChildDefault(first, i) ==
  IF first = <<0, 1>> /\ i > 0 THEN DefaultCommitment(<<0, 2>>) ELSE DefaultCommitment(first)

(* multi_commitments_to_scalars *)
ChildScalar(parent, i) ==
  LET child == get_child_node(LogicParent(parent), i)
  IN  HashCommitment(IF child \in DOMAIN trie THEN trie[child]
                     ELSE ChildDefault(get_child_node(LogicParent(parent), 0), i))

(* process_leaf_node *)
SlotScalar(parent, i) ==
  LET key == KeyAt(<<parent, i>>)
      default == IF IsMetaKey(key) THEN DefaultMeta ELSE None
  IN  KvHash(IF StoredEntry(key) = None THEN default ELSE StoredEntry(key))

(* create_prover_queries.  The sides list their queries in the same order, *)
(* that of the nodes and points, so a list is a function of node and point.*)
ProverQueries(keys, levels) ==
  LET internal == AllInternal(keys, levels)
  IN  [p \in internal \cup AllSlots(keys, levels) |->
         [commitment |-> StoredCommitment(ConnectParent(p[1])), point |-> p[2],
          result |-> IF p \in internal THEN ChildScalar(p[1], p[2]) ELSE SlotScalar(p[1], p[2])]]

LevelOfBucket(b) == IF b < NumMetaBuckets THEN 1 ELSE SubtreeLevels - RootLevel(Capacity(b))

Levels(keys) == [b \in {k[1] : k \in keys} |-> LevelOfBucket(b)]

-------------------------------------------------------------------------------
(* prover.rs: the verifier *)

(* The proof has the commitments that are needed and no others. *)
PathExact(d, p) == DOMAIN p.path = PathNodes(DOMAIN d, p.levels)

ChildNode(p) == get_child_node(LogicParent(p[1]), p[2])

(* create_verifier_queries; undefined where it returns an error. *)
VerifierQueries(d, p) ==
  LET internal == AllInternal(DOMAIN d, p.levels)
  IN  [q \in internal \cup AllSlots(DOMAIN d, p.levels) |->
         [commitment |-> p.path[ConnectParent(q[1])], point |-> q[2],
          result |-> IF q \in internal THEN HashCommitment(p.path[ChildNode(q)])
                     ELSE KvHash(d[KeyAt(q)])]]

(* Every case in which create_verifier_queries returns an error. *)
Malformed(d, p) ==
  \/ DOMAIN d = {}
  \/ DOMAIN p.levels # {k[1] : k \in DOMAIN d}
  \/ ~ PathExact(d, p)
  \/ \E q \in AllInternal(DOMAIN d, p.levels) : ChildNode(q) \notin DOMAIN p.path
  \/ \E q \in AllSlots(DOMAIN d, p.levels) : KeyAt(q) \notin DOMAIN d

(* What state s has at key, as the trie commits to it. *)
EntryOf(s, key) ==
  IF IsMetaKey(key)
  THEN IF BucketOfMetaKey(key) \in Buckets THEN MetaOf(s, BucketOfMetaKey(key)) ELSE DefaultMeta
  ELSE IF key[1] \in Buckets THEN SlotValue(s[key[1]], key[2]) ELSE None

(* The i-th coefficient of the polynomial behind the commitment that state *)
(* s has for node n; a subtree's own root and all above it are defaults.   *)
Coefficient(s, n, i) ==
  LET b == IF InMainTrie(n) THEN Index(n) ELSE n[1]
      isBucket == InMainTrie(n) /\ LevelOf(n) = MainLevels - 1
      expanded == isBucket /\ b \in Buckets /\ RootLevel(s[b].capacity) < Leaf
      top == IF expanded THEN Node(b, RootLevel(s[b].capacity), 0) ELSE n
      unused == ~ InMainTrie(n) /\ LevelOf(n) <= RootLevel(s[b].capacity)
  IN  IF unused
      THEN IF LevelOf(n) = Leaf THEN KvHash(None) ELSE HashCommitment(SubtreeDefault[LevelOf(n) + 1])
      ELSE IF expanded \/ (~ isBucket /\ LevelOf(n) < Leaf)
      THEN HashCommitment(ExpectedCommitment(s, get_child_node(top, i)))
      ELSE KvHash(EntryOf(s, KeyAt(<<n, i>>)))

(* An opening that someone who knows the polynomials of st and other can   *)
(* make.                                                                   *)
Opens(n, q) ==
  \E s \in {st, other} : q.commitment = ExpectedCommitment(s, n) /\ q.result = Coefficient(s, n, q.point)

(* MultiPointProof::check *)
MultiPointCheck(queries, openings) ==
  queries = openings /\ \A p \in DOMAIN queries : Opens(ConnectParent(p[1]), queries[p])

(* Variant of Check: the root is not compared. *)
CheckAnyRoot(d, p, root) == ~ Malformed(d, p) /\ MultiPointCheck(VerifierQueries(d, p), p.queries)

(* SaltProof::check against the root of the state. *)
Check(d, p, root) ==
  /\ ~ Malformed(d, p)
  /\ root = HashCommitment(p.path[RootNode])
  /\ MultiPointCheck(VerifierQueries(d, p), p.queries)

-------------------------------------------------------------------------------
(* A store keeps the nodes that differ from their defaults. *)
Nodes ==
  {<<0, i>> : i \in 0 .. LevelStart(MainLevels) - 1}
    \cup (Buckets \X (0 .. LevelStart(SubtreeLevels) - 1))

TrieOf(s) ==
  [n \in {m \in Nodes : ExpectedCommitment(s, m) # DefaultCommitment(m)} |-> ExpectedCommitment(s, n)]

Init ==
  /\ st \in [Buckets -> Contents]
  /\ trie = TrieOf(st)
  /\ pc = "idle"
  /\ data = Nothing /\ proof = NoProof
  /\ other = st /\ accepted = FALSE

(* create_sub_trie refuses an empty set and keys beyond the capacity. *)
Valid(keys) == keys # {} /\ \A k \in keys : k[2] < (IF IsMetaKey(k) THEN Width ELSE Capacity(k[1]))

Refuse(keys) ==
  /\ pc = "idle"
  /\ ~ Valid(keys)
  /\ pc' = "error"
  /\ UNCHANGED <<st, trie, data, proof, other, accepted>>

(* SaltWitness::create and SaltProof::create *)
Create(keys) ==
  /\ pc = "idle"
  /\ Valid(keys)
  /\ data' = [k \in keys |-> WitnessedValue(k)]
  /\ proof' = [path |-> [n \in PathNodes(keys, Levels(keys)) |-> StoredCommitment(n)],
               levels |-> Levels(keys),
               queries |-> ProverQueries(keys, Levels(keys))]
  /\ pc' = "sent"
  /\ UNCHANGED <<st, trie, other, accepted>>

Depth(n) == IF InMainTrie(n) THEN LevelOf(n) ELSE MainLevels + LevelOf(n)

(* A witness that is put together from two states: the nodes from some     *)
(* depth on and the values are those of a state in which bucket b has      *)
(* another content, the levels are those of either state, and the openings *)
(* are made for just that.                                                 *)
Mix(b, content, depth, newLevel) ==
  /\ pc = "sent"
  /\ DOMAIN data \in Mixable
  /\ other = st
  /\ content # st[b]
  /\ LET s == [st EXCEPT ![b] = content]
         keys == DOMAIN data
         levels == [x \in DOMAIN proof.levels |->
                      IF x = b /\ newLevel THEN SubtreeLevels - RootLevel(content.capacity) ELSE proof.levels[x]]
         path == [n \in PathNodes(keys, levels) |->
                    IF Depth(n) >= depth THEN ExpectedCommitment(s, n) ELSE StoredCommitment(n)]
         mixed == [path |-> path, levels |-> levels, queries |-> Nothing]
     IN  /\ newLevel => levels # proof.levels
         /\ depth \in {Depth(n) : n \in PathNodes(keys, levels)} \cup {MainLevels + SubtreeLevels}
         /\ other' = s
         /\ data' = [k \in keys |->
                       IF k = MetadataKey(b) THEN MetaOf(s, b)
                       ELSE IF k[1] = b THEN SlotValue(content, k[2])
                       ELSE data[k]]
         /\ proof' = [mixed EXCEPT !.queries =
                        IF Malformed(data', mixed) THEN Nothing ELSE VerifierQueries(data', mixed)]
  /\ UNCHANGED <<st, trie, pc, accepted>>

(* A commitment too many. *)
AddNode(b) ==
  /\ pc = "sent"
  /\ DOMAIN data \in Mixable
  /\ other = st
  /\ BucketRoot(b) \notin DOMAIN proof.path
  /\ proof' = [proof EXCEPT !.path = (BucketRoot(b) :> 0) @@ @]
  /\ UNCHANGED <<st, trie, pc, data, other, accepted>>

Verify ==
  /\ pc = "sent"
  /\ accepted' = Check(data, proof, RootOf(st))
  /\ pc' = "checked"
  /\ UNCHANGED <<st, trie, data, proof, other>>

(* The next request. *)
Again ==
  /\ pc \in {"error", "checked"}
  /\ pc' = "idle"
  /\ data' = Nothing /\ proof' = NoProof
  /\ other' = st /\ accepted' = FALSE
  /\ UNCHANGED <<st, trie>>

Next ==
  \/ \E keys \in SUBSET Requests : Cardinality(keys) <= MaxKeys /\ (Create(keys) \/ Refuse(keys))
  \/ \E b \in Buckets, c \in Contents, d \in 0 .. MainLevels + SubtreeLevels, l \in BOOLEAN : Mix(b, c, d, l)
  \/ \E b \in Buckets : AddNode(b)
  \/ Verify
  \/ Again

Spec == Init /\ [][Next]_vars

-------------------------------------------------------------------------------
Made(d, p) ==
  /\ \A k \in DOMAIN d : d[k] = WitnessedValue(k)
  /\ p.levels = Levels(DOMAIN d)
  /\ p.path = [n \in PathNodes(DOMAIN d, p.levels) |-> StoredCommitment(n)]

(* The verifier derives from keys, levels and commitments the very queries *)
(* that the prover opened, for buckets of any number of levels, for absent *)
(* keys, default metadata and parts of the trie that are not stored; and   *)
(* the polynomials that the prover fills up with defaults are the ones     *)
(* that the trie committed to, or no opening would verify.                 *)
HonestAccepted ==
  /\ pc = "checked" /\ Made(data, proof) => accepted
  /\ pc = "sent" /\ other = st =>
       /\ \A p \in AllInternal(DOMAIN data, Levels(DOMAIN data)) :
            StoredCommitment(ConnectParent(p[1])) = Commit(LAMBDA i : ChildScalar(p[1], i))
       /\ \A p \in AllSlots(DOMAIN data, Levels(DOMAIN data)) :
            StoredCommitment(p[1]) = Commit(LAMBDA i : SlotScalar(p[1], i))

(* Nothing in an accepted witness is left open by the root: every value,   *)
(* absence and level is that of the state, and no commitment is there that *)
(* the state does not have.                                                *)
AcceptedIsTrue == accepted => Made(data, proof)
===============================================================================
