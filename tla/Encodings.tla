------------------------------- MODULE Encodings -------------------------------
(***************************************************************************)
(* How SALT packs its names into numbers and bytes: keys and node ids into *)
(* 64 bits (salt/src/types.rs, node_utils.rs, proof/shape.rs), metadata    *)
(* and entries into the bytes of a SaltValue, and the bytes of a plain key *)
(* into the blocks that its hash is made of (state/ahash).                 *)
(*                                                                         *)
(* The other modules name nodes and keys by pairs.  Here a plain key is    *)
(* hashed to a bucket, the bucket is resized, an entry is stored, and      *)
(* parents_and_points climbs from its slot to the root, all on numbers and *)
(* bytes; the properties say that they stand for the pairs.                *)
(***************************************************************************)
EXTENDS ProofShape, Bitwise

CONSTANTS
  WidthBits,    \* TRIE_WIDTH_BITS = MIN_BUCKET_SIZE_BITS
  SlotBits,     \* BUCKET_SLOT_BITS
  TagBit,       \* 33: the lowest bit of the level in an encoded parent
  TagMask,      \* 0x07
  ByteBits,     \* the bits of a byte (8)
  NonceBytes, CapacityBytes,  \* u32 and u64 in bytes (4 and 8)
  MaxValueBytes,              \* MAX_SALT_VALUE_BYTES
  KeyLengths,   \* the lengths of the plain keys that are hashed
  Hashes,       \* the results of finish that are considered
  Nonces, Capacities,   \* the metadata that is stored
  Slots,        \* the slots that entries are stored in
  PlainEntries, \* the plain entries that are stored: <<key, value>> in bytes
  Others        \* keys that are in the store from the start, as pairs

ASSUME EncodingAssumption ==
  /\ Width = 2 ^ WidthBits
  /\ LevelStart(SubtreeLevels) <= 2 ^ TagBit
  /\ TagMask * 2 ^ TagBit < 2 ^ SlotBits /\ Width ^ SubtreeLevels <= 2 ^ SlotBits
  /\ \A c \in Capacities : c <= Width ^ SubtreeLevels

VARIABLES
  pc,       \* the next step
  read,     \* DeterministicHasher::write: [len, start, blocks]
  bucket,   \* the bucket of the plain key
  db,       \* StateStore.kvs: SaltKey -> the bytes of a SaltValue
  held,     \* what was stored, as pairs: metadata and entries
  key,      \* the SaltKey that parents_and_points climbs from
  level,    \* its bucket's level
  node,     \* the node that the climb has come to
  count,    \* the subtree levels that are left
  internal, \* internal_nodes: the pairs of parent and position so far
  slots     \* slot_position_nodes, likewise

vars == <<pc, read, bucket, db, held, key, level, node, count, internal, slots>>

-------------------------------------------------------------------------------
(* constant.rs and types.rs *)

SlotMask == 2 ^ SlotBits - 1          \* BUCKET_SLOT_ID_MASK
NumKvBuckets == NumBuckets - NumMetaBuckets

(* The number of the leftmost node of a level, from the geometric series. *)
leftmost_node(l) == (2 ^ (WidthBits * l) - 1) \div (Width - 1)

STARTING_NODE_ID == [l \in 0 .. SubtreeLevels - 1 |-> leftmost_node(l)]

(* The highest level that does not start after the node; 8 in the code. *)
MaxBfsLevel == SubtreeLevels + 1
get_bfs_level(n) ==
  CHOOSE l \in 0 .. MaxBfsLevel :
    n >= leftmost_node(l) /\ \A m \in l + 1 .. MaxBfsLevel : n < leftmost_node(m)

SaltKey(b, s) == b * 2 ^ SlotBits + s
bucket_id(k) == shiftR(k, SlotBits)
slot_id(k) == k & SlotMask
is_in_meta_bucket(k) == bucket_id(k) < NumMetaBuckets

(* Variant of bucket_range: the end does not belong to it. *)
bucket_rangeOpen(first, last) == SaltKey(first, 0) .. SaltKey(last, SlotMask) - 1

bucket_range(first, last) == SaltKey(first, 0) .. SaltKey(last, SlotMask)

METADATA_KEYS_RANGE == 0 .. SaltKey(NumMetaBuckets - 1, SlotMask)
is_valid_data_bucket(b) == b >= NumMetaBuckets /\ b < NumBuckets

(* In these three, no case is left where the code panics; TLC would end    *)
(* with an error.                                                          *)
bucket_metadata_key(b) == CASE is_valid_data_bucket(b) -> SaltKey(shiftR(b, WidthBits), b % Width)
bucket_id_from_metadata_key(k) ==
  CASE k \in METADATA_KEYS_RANGE -> bucket_id(k) * 2 ^ WidthBits + slot_id(k)

is_subtree_node(n) ==
  CASE shiftR(n, SlotBits) = 0 -> FALSE
    [] shiftR(n, SlotBits) >= NumMetaBuckets -> TRUE

get_local_number(n) == n & SlotMask

-------------------------------------------------------------------------------
(* node_utils.rs *)

vc_position_in_parent(n) ==
  (get_local_number(n) - STARTING_NODE_ID[get_bfs_level(get_local_number(n))]) % Width

get_child_node(parent, i) ==
  LET number == get_local_number(parent)
      l == get_bfs_level(number)
  IN  (parent - number) + leftmost_node(l + 1) + (number - STARTING_NODE_ID[l]) * 2 ^ WidthBits + i

get_parent_node(n) ==
  LET number == get_local_number(n)
      l == get_bfs_level(number)
  IN  (n - number) + shiftR(number - STARTING_NODE_ID[l], WidthBits) + STARTING_NODE_ID[l - 1]

bucket_root_node_id(b) == b + STARTING_NODE_ID[MainLevels - 1]

subtree_leaf_for_key(k) ==
  SaltKey(bucket_id(k), shiftR(slot_id(k), WidthBits) + STARTING_NODE_ID[SubtreeLevels - 1])

subtree_leaf_start_key(n) ==
  LET number == get_local_number(n)
  IN  (n - number) + (number - STARTING_NODE_ID[SubtreeLevels - 1]) * 2 ^ WidthBits

(* One level up per factor of Width, rounded up. *)
subtree_root_level(capacity) ==
  LET left[l \in 0 .. SubtreeLevels - 1] ==
        IF l = SubtreeLevels - 1 THEN capacity ELSE shiftR(left[l + 1] + Width - 1, WidthBits)
  IN  CHOOSE l \in 0 .. SubtreeLevels - 1 :
        left[l] <= Width /\ \A m \in l + 1 .. SubtreeLevels - 1 : left[m] > Width

-------------------------------------------------------------------------------
(* shape.rs *)

(* Variant of encode_parent: the level reaches into the bits of the node. *)
encode_parentLow(parent, l) == parent | (l * 2 ^ (TagBit - 3))

encode_parent(parent, l) == parent | (l * 2 ^ TagBit)
is_encoded_node(n) == (n & (TagMask * 2 ^ TagBit)) # 0
connect_parent_id(n) == IF is_encoded_node(n) THEN n & (2 ^ TagBit - 1) ELSE n
logic_parent_id(n) ==
  IF ~ is_encoded_node(n) THEN n
  ELSE LET b == (n & (2 ^ TagBit - 1)) - STARTING_NODE_ID[3]
       IN  STARTING_NODE_ID[SubtreeLevels - shiftR(n, TagBit)] | (b * 2 ^ SlotBits)

-------------------------------------------------------------------------------
(* Bytes *)

Byte == 2 ^ ByteBits
to_le_bytes(x, n) == [i \in 1 .. n |-> (x \div Byte ^ (i - 1)) % Byte]
from_le_bytes(bytes) ==
  LET value[i \in 0 .. Len(bytes)] ==
        IF i = Len(bytes) THEN 0 ELSE bytes[i + 1] + Byte * value[i + 1]
  IN  value[0]

(* SaltValue::new: two lengths, the key, the value, and zeros. *)
SaltValueNew(k, v) ==
  LET data == <<Len(k), Len(v)>> \o k \o v
  IN  data \o [i \in 1 .. MaxValueBytes - Len(data) |-> 0]
ValueKey(data) == SubSeq(data, 3, 2 + data[1])
ValueValue(data) == SubSeq(data, 3 + data[1], 2 + data[1] + data[2])
data_len(data) == 2 + data[1] + data[2]

(* BucketMeta::to_bytes and try_from *)
MetaBytes(meta) == to_le_bytes(meta.nonce, NonceBytes) \o to_le_bytes(meta.capacity, CapacityBytes)
InvalidFormat == [error |-> "BucketMeta requires exactly 12 bytes"]
MetaTryFrom(bytes) ==
  IF Len(bytes) # NonceBytes + CapacityBytes THEN InvalidFormat
  ELSE [nonce |-> from_le_bytes(SubSeq(bytes, 1, NonceBytes)),
        capacity |-> from_le_bytes(SubSeq(bytes, NonceBytes + 1, Len(bytes)))]
BucketMetaDefault == [nonce |-> 0, capacity |-> Width]

(* MemStore::metadata (but for `used`), entries and get_subtree_levels *)
metadata(b) ==
  IF bucket_metadata_key(b) \in DOMAIN db
  THEN MetaTryFrom(ValueKey(db[bucket_metadata_key(b)])) ELSE BucketMetaDefault
entries(range) == [k \in DOMAIN db \cap range |-> db[k]]
get_subtree_levels(b) ==
  IF b < NumMetaBuckets THEN 1 ELSE SubtreeLevels - subtree_root_level(metadata(b).capacity)

-------------------------------------------------------------------------------
(* ahash: a block is the positions of its bytes in the plain key *)

(* split_at refuses to go beyond the data. *)
ReadFirst(r, n) == [i \in 1 .. n |-> r.start + i - 1]
ReadLast(r, n) == [i \in 1 .. n |-> r.len - n + i - 1]
Left(r) == r.len - r.start

(* read_small *)
read_small(r) ==
  CASE Left(r) >= 4 -> ReadFirst(r, 4) \o ReadLast(r, 4)
    [] Left(r) \in 2 .. 3 -> ReadFirst(r, 2) \o <<r.start + Left(r) - 1>>
    [] Left(r) = 1 -> <<r.start, r.start>>
    [] Left(r) = 0 -> << >>

NoRead == [len |-> 0, start |-> 0, blocks |-> << >>]
NoHeld == [meta |-> [b \in {} |-> BucketMetaDefault], entry |-> [k \in {} |-> << >>]]
OtherEntry == <<<<1>>, <<1>>>>

Init ==
  /\ pc = "idle"
  /\ read = NoRead /\ bucket = 0
  /\ db = [k \in {SaltKey(o[1], o[2]) : o \in Others} |-> SaltValueNew(OtherEntry[1], OtherEntry[2])]
  /\ held = [NoHeld EXCEPT !.entry = [o \in Others |-> OtherEntry]]
  /\ key = 0 /\ level = 0 /\ node = 0 /\ count = 0
  /\ internal = {} /\ slots = {}

climb == <<key, level, node, count, internal, slots>>

(* hasher::bucket_id: write is called with the plain key *)
Hash(len) ==
  /\ pc = "idle"
  /\ pc' = "write"
  /\ read' = [NoRead EXCEPT !.len = len]
  /\ UNCHANGED <<bucket, db, held, climb>>

Block(r, block, n) == [r EXCEPT !.blocks = Append(@, block), !.start = @ + n]

(* write, up to 16 bytes: one block *)
WriteShort ==
  /\ pc = "write" /\ read.len <= 16
  /\ read' = Block(read, IF read.len > 8 THEN ReadFirst(read, 8) \o ReadLast(read, 8) ELSE read_small(read),
                   Left(read))
  /\ pc' = "finish"
  /\ UNCHANGED <<bucket, db, held, climb>>

(* Variant of WriteTail: the last 8 bytes. *)
WriteTailShort ==
  /\ pc = "write" /\ read.len > 16
  /\ read' = Block(read, ReadLast(read, 8), 0)
  /\ pc' = "blocks"
  /\ UNCHANGED <<bucket, db, held, climb>>

(* write: the last 16 bytes, then whole blocks while more than one is left *)
WriteTail ==
  /\ pc = "write" /\ read.len > 16
  /\ read' = Block(read, ReadLast(read, 16), 0)
  /\ pc' = "blocks"
  /\ UNCHANGED <<bucket, db, held, climb>>

WriteBlock ==
  /\ pc = "blocks"
  /\ \/ /\ Left(read) > 16
        /\ read' = Block(read, ReadFirst(read, 16), 16)
        /\ UNCHANGED pc
     \/ /\ Left(read) <= 16
        /\ pc' = "finish" /\ UNCHANGED read
  /\ UNCHANGED <<bucket, db, held, climb>>

(* finish; bucket_id takes the hash into the range of the data buckets. *)
Finish(h) ==
  /\ pc = "finish"
  /\ bucket' = (h % NumKvBuckets) + NumMetaBuckets
  /\ read' = NoRead
  /\ pc' = "located"
  /\ UNCHANGED <<db, held, climb>>

(* The bucket gets this metadata (SaltValue::from). *)
StoreMeta(nonce, capacity) ==
  /\ pc = "located"
  /\ LET meta == [nonce |-> nonce, capacity |-> capacity]
     IN  /\ db' = (bucket_metadata_key(bucket) :> SaltValueNew(MetaBytes(meta), << >>)) @@ db
         /\ held' = [held EXCEPT !.meta = (bucket :> meta) @@ @]
  /\ pc' = "resized"
  /\ UNCHANGED <<read, bucket, climb>>

(* A bucket that was never resized or rehashed has no metadata entry. *)
KeepMeta ==
  /\ pc = "located"
  /\ pc' = "resized"
  /\ UNCHANGED <<read, bucket, db, held, climb>>

(* An entry is stored in a slot of the bucket. *)
StoreEntry(s, e) ==
  /\ pc = "resized" /\ s < metadata(bucket).capacity
  /\ db' = (SaltKey(bucket, s) :> SaltValueNew(e[1], e[2])) @@ db
  /\ held' = [held EXCEPT !.entry = (<<bucket, s>> :> e) @@ @]
  /\ key' = SaltKey(bucket, s)
  /\ pc' = "stored"
  /\ UNCHANGED <<read, bucket, level, node, count, internal, slots>>

(* parents_and_points for the key of the entry or of the metadata *)
Climbing(k) ==
  /\ pc = "stored"
  /\ key' = k
  /\ level' = get_subtree_levels(bucket_id(k))
  /\ node' = bucket_root_node_id(bucket_id(k))
  /\ pc' = "main"
  /\ UNCHANGED <<read, bucket, db, held, count, internal, slots>>

Record(parent, position) == internal' = internal \cup {<<parent, position>>}

(* Phase 1 *)
MainStep ==
  /\ pc = "main"
  /\ \/ /\ node # 0
        /\ Record(get_parent_node(node), vc_position_in_parent(node))
        /\ node' = get_parent_node(node)
        /\ UNCHANGED <<pc, count>>
     \/ /\ node = 0
        /\ node' = subtree_leaf_for_key(key)
        /\ count' = level
        /\ pc' = "subtree"
        /\ UNCHANGED internal
  /\ UNCHANGED <<read, bucket, db, held, key, level, slots>>

(* Phases 2 and 3 *)
SubtreeStep ==
  /\ pc = "subtree"
  /\ \/ /\ count > 2
        /\ Record(get_parent_node(node), vc_position_in_parent(node))
        /\ node' = get_parent_node(node)
        /\ count' = count - 1
        /\ UNCHANGED pc
     \/ /\ count = 2
        /\ Record(encode_parent(bucket_root_node_id(bucket_id(key)), level), vc_position_in_parent(node))
        /\ pc' = "slot" /\ UNCHANGED <<node, count>>
     \/ /\ count = 1
        /\ pc' = "slot" /\ UNCHANGED <<internal, node, count>>
  /\ UNCHANGED <<read, bucket, db, held, key, level, slots>>

(* Phase 4 *)
SlotStep ==
  /\ pc = "slot"
  /\ slots' = {<<IF level = 1 THEN bucket_root_node_id(bucket_id(key)) ELSE subtree_leaf_for_key(key),
                 slot_id(key) & (Width - 1)>>}
  /\ pc' = "climbed"
  /\ UNCHANGED <<read, bucket, db, held, key, level, node, count, internal>>

Done ==
  /\ pc = "climbed"
  /\ pc' = "idle"
  /\ read' = NoRead /\ bucket' = 0
  /\ db' = [k \in {SaltKey(o[1], o[2]) : o \in Others} |-> SaltValueNew(OtherEntry[1], OtherEntry[2])]
  /\ held' = [NoHeld EXCEPT !.entry = [o \in Others |-> OtherEntry]]
  /\ key' = 0 /\ level' = 0 /\ node' = 0 /\ count' = 0
  /\ internal' = {} /\ slots' = {}

Next ==
  \/ \E len \in KeyLengths : Hash(len)
  \/ WriteShort \/ WriteTail \/ WriteBlock
  \/ \E h \in Hashes : Finish(h)
  \/ \E nonce \in Nonces, capacity \in Capacities : StoreMeta(nonce, capacity)
  \/ KeepMeta
  \/ \E s \in Slots, e \in PlainEntries : StoreEntry(s, e)
  \/ Climbing(key) \/ Climbing(bucket_metadata_key(bucket))
  \/ MainStep \/ SubtreeStep \/ SlotStep
  \/ Done

Spec == Init /\ [][Next]_vars

-------------------------------------------------------------------------------
(* Reference: the pair or, for an encoded parent, the triple of an id *)
NodeOf(id) ==
  LET n == <<id \div 2 ^ SlotBits, id % 2 ^ SlotBits>>
      tag == (n[2] \div 2 ^ TagBit) % (TagMask + 1)
  IN  IF tag = 0 THEN n ELSE <<n[1], n[2] % 2 ^ TagBit, tag>>

PairOf(k) == <<k \div 2 ^ SlotBits, k % 2 ^ SlotBits>>

Points(S) == {<<NodeOf(p[1]), p[2]>> : p \in S}

(* PROPERTY PathEncoded                                                    *)
(* What parents_and_points records of a key is, number for node, the path  *)
(* from its slot to the root: no shift, mask or tag makes one node's id    *)
(* another's, the id of a child that the verifier computes from parent and *)
(* position is the one below it on the path, and the leaf leads back to    *)
(* the key.                                                                *)
PathEncoded ==
  pc = "climbed" =>
    LET pair == PairOf(key)
        capacity == IF bucket \in DOMAIN held.meta THEN held.meta[bucket].capacity ELSE Width
        rootLevel == IF IsMetaKey(pair) THEN Leaf ELSE RootLevel(capacity)
        path == InternalPoints(pair, level)
    IN  /\ level = SubtreeLevels - rootLevel
        /\ Points(internal) = path /\ Cardinality(internal) = Cardinality(path)
        /\ Points(slots) = {SlotPoint(pair, level)}
        /\ \A p \in internal :
             LET child == NodeOf(get_child_node(logic_parent_id(p[1]), p[2]))
             IN  /\ Parent(child) = LogicParent(NodeOf(p[1])) /\ VcPosition(child) = p[2]
                 /\ child \in {ConnectParent(NodeOf(x[1])) : x \in internal \cup slots}
                 /\ connect_parent_id(p[1]) \in 0 .. leftmost_node(MainLevels) - 1 \/ is_subtree_node(p[1])
        /\ \A p \in slots :
             key = p[2] + (IF is_subtree_node(p[1]) THEN subtree_leaf_start_key(p[1])
                           ELSE SaltKey(p[1] - STARTING_NODE_ID[MainLevels - 1], 0))

(* PROPERTY StoreDecodes                                                   *)
(* The store gives back, from its numbers and bytes, what was stored: the  *)
(* range of a bucket holds its entries and no others, every entry has its  *)
(* key and value, metadata is that of its bucket, and metadata and data    *)
(* are told apart by their keys.                                           *)
StoreDecodes ==
  /\ \A b \in {o[1] : o \in DOMAIN held.entry} :
       LET found == entries(bucket_range(b, b))
       IN  /\ {PairOf(k) : k \in DOMAIN found} = {o \in DOMAIN held.entry : o[1] = b}
           /\ \A k \in DOMAIN found :
                /\ <<ValueKey(found[k]), ValueValue(found[k])>> = held.entry[PairOf(k)]
                /\ data_len(found[k]) <= MaxValueBytes
                /\ ~ is_in_meta_bucket(k) /\ is_valid_data_bucket(bucket_id(k))
  /\ \A b \in DOMAIN held.meta : metadata(b) = held.meta[b]
  /\ LET found == entries(METADATA_KEYS_RANGE)
     IN  {bucket_id_from_metadata_key(k) : k \in DOMAIN found} = DOMAIN held.meta

(* PROPERTY AllBytesHashed                                                 *)
(* The hash that places a plain key depends on each of its bytes, and on   *)
(* nothing else: the overlapping reads of write cover the key whatever its *)
(* length, and none of them is out of bounds.                              *)
AllBytesHashed ==
  /\ \A i \in DOMAIN read.blocks : \A j \in DOMAIN read.blocks[i] : read.blocks[i][j] \in 0 .. read.len - 1
  /\ pc = "finish" => UNION {Range(read.blocks[i]) : i \in DOMAIN read.blocks} = 0 .. read.len - 1
===============================================================================
