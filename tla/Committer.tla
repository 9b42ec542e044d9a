------------------------------- MODULE Committer -------------------------------
(***************************************************************************)
(* Commitments as the trie uses them: a vector of scalars is committed to  *)
(* with the points of the CRS; a change of one scalar adds delta * G[i],   *)
(* which Committer::mul_index (banderwagon/src/salt_committer.rs) takes    *)
(* from precomputed tables, window by window of the scalar's bits; the     *)
(* result is kept as uncompressed bytes, hashed, and sent compressed.      *)
(*                                                                         *)
(* FrBits stands for 253, FrWordBits for 64.                               *)
(***************************************************************************)
EXTENDS Banderwagon

CONSTANTS
  NumBases,     \* the length of a committed vector (256 in the code)
  WindowSize,   \* window_size
  FrBits,       \* the bit length of a scalar
  FrWordBits,   \* the bits of a word of a scalar
  FrWords,      \* its number of words
  Scalars,      \* the values an entry of the vector takes
  Hash          \* what Sha256 gives for seed and index: index -> number

VARIABLES
  tables,   \* the tables of the Committer; never changed
  vec,      \* the vector that is committed to
  stored,   \* its commitment: CommitmentBytes
  call,     \* the mul_index that is running
  probe     \* the last call of a function of its own, with its result

vars == <<tables, vec, stored, call, probe>>

Positions == 0 .. NumBases - 1
Fr == 0 .. Order - 1

ASSUME CommitterAssumption ==
  /\ {Order, FrBits, FrWords, FrWordBits} \subseteq Nat \ {0}
  /\ Order < 2 ^ FrBits /\ FrBits < FrWords * FrWordBits
  /\ WindowSize \in 1 .. FrWordBits
  /\ Scalars \subseteq Fr /\ {(a - b) % Order : a, b \in Scalars} = Fr

(* The laws of exponents as far as the bits of a scalar go. *)
ASSUME PowersAssumption ==
  \A a, b \in 0 .. FrWords * FrWordBits : 2 ^ a \in Nat \ {0} /\ 2 ^ (a + b) = 2 ^ a * 2 ^ b

-------------------------------------------------------------------------------
(* The CRS *)

(* try_reduce_to_element *)
try_reduce_to_element(hash) == from_bytes(Reverse(Bytes(hash % Prime)))

(* generate_random_elements: the candidates that are elements, in order *)
generate_random_elements(n) ==
  LET found == SelectSeq([i \in DOMAIN Hash |-> try_reduce_to_element(Hash[i])], LAMBDA p : p # NoPoint)
  IN  SubSeq(found, 1, n)

(* CRS::new: G, and Q as the last point *)
CrsNew ==
  LET points == generate_random_elements(NumBases + 1)
  IN  [G |-> SubSeq(points, 1, NumBases), Q |-> points[NumBases + 1]]

(* assert_dedup *)
ASSUME CrsAssumption == IsInjective([i \in 1 .. NumBases + 1 |-> to_bytes(generate_random_elements(NumBases + 1)[i])])

CrsToBytes(crs) == [i \in 1 .. NumBases + 1 |-> to_bytes(Append(crs.G, crs.Q)[i])]
CrsFromBytes(bytes) ==
  [G |-> [i \in 1 .. Len(bytes) - 1 |-> from_bytes(bytes[i])], Q |-> from_bytes(Last(bytes))]

(* CRS::default: the points from their encodings *)
Bases == CrsFromBytes(CrsToBytes(CrsNew)).G

-------------------------------------------------------------------------------
(* Committer::new *)

HalfWindow == 2 ^ (WindowSize - 1)
NumWindows == FrBits \div WindowSize + 1

(* Variant of WindowBase: without the doubling. *)
WindowBaseHalf(g) ==
  LET base[i \in 0 .. NumWindows - 1] == IF i = 0 THEN g ELSE PointMul(HalfWindow, base[i - 1])
  IN  base

(* The point that a window counts in: after half a window of additions the *)
(* last sum is doubled.                                                    *)
WindowBase(g) ==
  LET base[i \in 0 .. NumWindows - 1] ==
        IF i = 0 THEN g ELSE PointAdd(PointMul(HalfWindow, base[i - 1]), PointMul(HalfWindow, base[i - 1]))
  IN  base

(* Per window zero and the first multiples of its base. *)
Table(g) ==
  LET base == WindowBase(g)
  IN  [k \in 0 .. NumWindows * (HalfWindow + 1) - 1 |->
         PointMul(k % (HalfWindow + 1), base[k \div (HalfWindow + 1)])]

CommitterNew == [i \in Positions |-> Table(Bases[i + 1])]

-------------------------------------------------------------------------------
(* mul_index *)

ScalarWord(scalar, i) == (scalar \div 2 ^ (i * FrWordBits)) % 2 ^ FrWordBits

(* The windows of a scalar: what is missing at the end of a word comes     *)
(* from the next one.                                                      *)
calculate_prefetch_index(scalar) ==
  [k \in 0 .. FrBits \div WindowSize |->
     LET start_bit == k * WindowSize
         source_i == start_bit \div FrWordBits
         offset == start_bit % FrWordBits
         low == (ScalarWord(scalar, source_i) \div 2 ^ offset) % 2 ^ WindowSize
         left == WindowSize - (FrWordBits - offset)
     IN  IF left > 0 /\ source_i < FrWords - 1
         THEN low + (ScalarWord(scalar, source_i + 1) % 2 ^ left) * 2 ^ (FrWordBits - offset)
         ELSE low]

(* Only what is beyond the window itself is taken from the next one. *)
DigitWhole(d, i) ==
  IF d >= 2 ^ WindowSize
  THEN [idx |-> 2 ^ WindowSize - d + i * (HalfWindow + 1), carry |-> 1]
  ELSE [idx |-> d + i * (HalfWindow + 1), carry |-> 0]

(* More than half a window is taken from the next one: the index of the    *)
(* negated point in the table of window i, and the carry.                  *)
Digit(d, i) ==
  IF d >= HalfWindow + 1
  THEN [idx |-> 2 ^ WindowSize - d + i * (HalfWindow + 1), carry |-> 1]
  ELSE [idx |-> d + i * (HalfWindow + 1), carry |-> 0]

(* A point in extended coordinates, each in Montgomery form. *)
ToMont(x) == (x * (Radix % Prime)) % Prime
FromMont(x) == MontMul(x, 1)
ProjectiveZero == [x |-> 0, y |-> ToMont(1), t |-> 0, z |-> ToMont(1)]
ToAffine(p) == <<Div(FromMont(p.x), FromMont(p.z)), Div(FromMont(p.y), FromMont(p.z))>>

(* add_affine_point, with the coefficient d in Montgomery form *)
add_affine_point(p, x, y) ==
  LET a == MontMul(p.x, x)
      b == MontMul(p.y, y)
      c == MontMul(MontMul(p.t, MontMul(x, y)), ToMont(CoeffD))
      e == (MontMul((p.x + p.y) % Prime, (x + y) % Prime) - a - b) % Prime
      f == (p.z - c) % Prime
      g == (p.z + c) % Prime
      h == (b + MontMulBy5(a)) % Prime
  IN  [x |-> MontMul(e, f), y |-> MontMul(g, h), t |-> MontMul(e, h), z |-> MontMul(f, g)]

NoCall == [at |-> "none"]
NoProbe == [of |-> "none"]

Init ==
  /\ tables = CommitterNew
  /\ vec = [i \in Positions |-> 0]
  /\ stored = zero_commitment
  /\ call = NoCall /\ probe = NoProbe

(* mul_index up to the first window; asm is the version for x86_64. *)
MulIndex(i, new, asm) ==
  /\ call = NoCall /\ probe = NoProbe
  /\ LET chunks == calculate_prefetch_index((new - vec[i]) % Order)
         first == Digit(chunks[0], 0)
     IN  call' = [at |-> "window", pos |-> i, new |-> new, asm |-> asm, chunks |-> chunks,
                  window |-> 0, idx |-> first.idx, carry |-> first.carry, acc |-> ProjectiveZero]
  /\ UNCHANGED <<tables, vec, stored, probe>>

(* The point of this window is added, negated if it has a carry, and the   *)
(* next window is looked up. The other version skips a zero.               *)
AddWindow ==
  /\ call.at = "window"
  /\ LET point == tables[call.pos][call.idx]
         x == ToMont(IF call.carry = 1 THEN Minus(point[1]) ELSE point[1])
         skip == ~ call.asm /\ call.idx = call.window * (HalfWindow + 1)
         acc == IF skip THEN call.acc ELSE add_affine_point(call.acc, x, ToMont(point[2]))
         i == call.window + 1
     IN  \/ /\ i \in DOMAIN call.chunks
            /\ LET next == Digit(call.chunks[i] + call.carry, i)
               IN  call' = [call EXCEPT !.window = i, !.acc = acc,
                                        !.idx = next.idx, !.carry = next.carry]
         \/ /\ i \notin DOMAIN call.chunks
            /\ call' = [call EXCEPT !.at = "add", !.acc = acc]
  /\ UNCHANGED <<tables, vec, stored, probe>>

(* The delta is added to the stored commitment (add_commitment_deltas),    *)
(* which goes back into bytes (batch_to_commitments).                      *)
AddDelta ==
  /\ call.at = "add"
  /\ stored' = to_bytes_uncompressed(PointAdd(from_bytes_unchecked_uncompressed(stored), ToAffine(call.acc)))
  /\ vec' = [vec EXCEPT ![call.pos] = call.new]
  /\ call' = NoCall
  /\ UNCHANGED <<tables, probe>>

(* A commitment is sent: SerdeCommitment compresses it, and the receiver   *)
(* keeps what it decodes.                                                  *)
Send ==
  /\ call = NoCall /\ probe = NoProbe
  /\ LET p == from_bytes(to_bytes(from_bytes_unchecked_uncompressed(stored)))
     IN  stored' = IF p = NoPoint THEN << >> ELSE to_bytes_uncompressed(p)
  /\ UNCHANGED <<tables, vec, call, probe>>

(* Functions on inputs of their own, which have nothing to do with vec. *)
Probing == call = NoCall /\ probe = NoProbe /\ vec = [i \in Positions |-> 0]

Decode(bytes) ==
  /\ Probing
  /\ probe' = [of |-> "from_bytes", bytes |-> bytes, point |-> from_bytes(bytes)]
  /\ UNCHANGED <<tables, vec, stored, call>>

MulAsm(x, y) ==
  /\ Probing
  /\ probe' = [of |-> "mont_mul", x |-> x, y |-> y, result |-> mont_mul_asm(Words(x), Words(y))]
  /\ UNCHANGED <<tables, vec, stored, call>>

MulBy5Asm(x) ==
  /\ Probing
  /\ probe' = [of |-> "mont_mul_by5", x |-> x, result |-> mont_mul_by5_asm(Words(x))]
  /\ UNCHANGED <<tables, vec, stored, call>>

Return ==
  /\ probe # NoProbe
  /\ probe' = NoProbe
  /\ UNCHANGED <<tables, vec, stored, call>>

Next ==
  \/ \E i \in Positions, new \in Scalars, asm \in BOOLEAN : MulIndex(i, new, asm)
  \/ AddWindow \/ AddDelta \/ Send
  \/ \E bytes \in ByteStrings : Decode(bytes)
  \/ \E x, y \in Fq : MulAsm(x, y)
  \/ \E x \in Fq : MulBy5Asm(x)
  \/ Return

Spec == Init /\ [][Next]_vars

-------------------------------------------------------------------------------
(* Reference: the points themselves, added one by one *)

Multiples == [i \in Positions |-> [k \in Fr |-> PointMul(k, CrsNew.G[i + 1])]]
CommittedPoint ==
  LET sum[i \in 0 .. NumBases] == IF i = 0 THEN Zero ELSE PointAdd(sum[i - 1], Multiples[i - 1][vec[i - 1]])
  IN  sum[NumBases]

(* PROPERTY CommitmentExact                                                *)
(* However the vector came about, the stored commitment is, to the last    *)
(* byte, that of the vector, and so is its hash: the tables, the signed    *)
(* windows, both versions of mul_index, the addition formula and the       *)
(* choice of one of the two points of an element agree with the group.     *)
CommitmentExact ==
  call = NoCall =>
    /\ stored = to_bytes_uncompressed(CommittedPoint)
    /\ hash_commitments(<<stored>>)[1] = map_to_scalar_field(CommittedPoint)

(* PROPERTY ReadsInWindow                                                  *)
(* mul_index reads its table without a bounds check (get_unchecked): every *)
(* index is one of the window that is next, also after a carry, and the    *)
(* last window leaves no carry.                                            *)
ReadsInWindow ==
  /\ call.at = "window" =>
       call.idx \in call.window * (HalfWindow + 1) .. (call.window + 1) * (HalfWindow + 1) - 1
  /\ call.at = "add" => call.carry = 0

(* And so it is one of the table, which was allocated with inner_length    *)
(* points.                                                                 *)
ReadsInTable == call.at = "window" => call.idx \in DOMAIN tables[call.pos]

(* PROPERTY DecodedExactly                                                 *)
(* from_bytes accepts the encodings of the elements of the group of prime  *)
(* order and nothing else, and gives the element that was encoded: no two  *)
(* byte strings stand for one element, and no point outside gets in.       *)
DecodedExactly ==
  probe.of = "from_bytes" =>
    IF probe.point = NoPoint
    THEN \A k \in Fr : to_bytes(Multiples[0][k]) # probe.bytes
    ELSE /\ to_bytes(probe.point) = probe.bytes
         /\ Cardinality({k \in Fr : Eq(Multiples[0][k], probe.point)}) = 1

(* PROPERTY MontgomeryExact                                                *)
(* The assembly routines give the reduced product divided by the radix,    *)
(* and five times the number, and neither carry chain ever loses a carry,  *)
(* although the sums of a row are a word longer than the registers.        *)
MontgomeryExact ==
  /\ probe.of = "mont_mul" =>
       probe.result.lost = 0 /\ Number(probe.result.t) = MontMul(probe.x, probe.y)
  /\ probe.of = "mont_mul_by5" =>
       probe.result.lost = 0 /\ Number(probe.result.t) = MontMulBy5(probe.x)

-------------------------------------------------------------------------------
(* The inductive invariant behind ReadsInWindow *)

Windows == 0 .. FrBits \div WindowSize
CallRecords(acc) ==
  [at : {"window", "add"}, pos : Positions, new : Fr, asm : BOOLEAN, chunks : [Windows -> 0 .. 2 ^ WindowSize - 1],
   window : Windows, idx : Nat, carry : {0, 1}, acc : {acc}]

(* The last window has less than half of its values, room for a carry. *)
WindowsFit ==
  /\ vec \in [Positions -> Fr]
  /\ call # NoCall =>
       /\ call \in CallRecords(call.acc)
       /\ call.chunks[FrBits \div WindowSize] < HalfWindow
       /\ call.at = "add" \/ call.window = FrBits \div WindowSize => call.carry = 0
       /\ call.idx \in call.window * (HalfWindow + 1) .. (call.window + 1) * (HalfWindow + 1) - 1
===============================================================================
