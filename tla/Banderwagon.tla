------------------------------ MODULE Banderwagon ------------------------------
(***************************************************************************)
(* Banderwagon elements (banderwagon/src/element.rs): points of a twisted  *)
(* Edwards curve a x^2 + y^2 = 1 + d x^2 y^2 of order 4 r, restricted to   *)
(* those with 1 - a x^2 a square and with (x, y) and (-x, -y) identified,  *)
(* which leaves a group of the prime order r.                              *)
(*                                                                         *)
(* The curve is a small one with the properties of Bandersnatch: a = -5,   *)
(* and neither a nor d is a square. Coordinates are numbers below Prime;   *)
(* a field element in bytes is its four words, the lowest first.           *)
(***************************************************************************)
EXTENDS Montgomery, SequencesExt

CONSTANTS CoeffD, Order

CoeffA == (-5) % Prime

FieldInverse == [x \in Fq |-> IF x = 0 THEN 0 ELSE CHOOSE y \in Fq : (x * y) % Prime = 1]
Div(x, y) == (x * FieldInverse[y]) % Prime
Minus(x) == (-x) % Prime
Squares == {(x * x) % Prime : x \in Fq \ {0}}

ASSUME CurveAssumption ==
  /\ Prime % 4 = 1
  /\ CoeffD \in Fq \ Squares /\ CoeffA \notin Squares
  /\ \A k \in 2 .. Order - 1 : Order % k # 0

(* The group law of the curve (arkworks), on affine points. *)
PointAdd(p, u) ==
  LET k == (CoeffD * ((((p[1] * u[1]) % Prime) * ((p[2] * u[2]) % Prime)) % Prime)) % Prime
  IN  <<Div((p[1] * u[2] + p[2] * u[1]) % Prime, (1 + k) % Prime),
        Div((p[2] * u[2] - CoeffA * p[1] * u[1]) % Prime, (1 - k) % Prime)>>
PointNeg(p) == <<Minus(p[1]), p[2]>>
Zero == <<0, 1>>
PointMul(k, p) ==
  LET multiple[i \in 0 .. k] == IF i = 0 THEN Zero ELSE PointAdd(multiple[i - 1], p) IN multiple[k]

(* eq: the points that the cross product cannot tell apart are one element, *)
(* but (0, 0), which is none, equals nothing.                               *)
Eq(p, u) ==
  /\ p # <<0, 0>> /\ u # <<0, 0>>
  /\ (p[1] * u[2]) % Prime = (u[1] * p[2]) % Prime

(* The larger one of y and -y is the positive one. *)
is_positive(y) == y > Minus(y)

subgroup_check(p) == (1 - CoeffA * ((p[1] * p[1]) % Prime)) % Prime \in Squares

(* Field elements in bytes: arkworks has the lowest byte first, and refuses *)
(* what is not below the prime.                                             *)
Bytes(x) == [i \in 1 .. 4 |-> Words(x)[i - 1]]
FromBytes(bytes) == bytes[1] + W * (bytes[2] + W * (bytes[3] + W * bytes[4]))
ByteStrings == [1 .. 4 -> 0 .. W - 1]

(* to_bytes: x, with the sign of y, the highest byte first *)
to_bytes(p) == Reverse(Bytes(IF is_positive(p[2]) THEN p[1] ELSE Minus(p[1])))

(* get_point_from_x: None if y^2 is not a square *)
NoPoint == << >>
get_point_from_x(x) ==
  LET x_sq == (x * x) % Prime
      y_squared == Div((CoeffA * x_sq - 1) % Prime, (CoeffD * x_sq - 1) % Prime)
      roots == {y \in Fq : (y * y) % Prime = y_squared /\ is_positive(y)}
  IN  IF roots = {} THEN NoPoint ELSE <<x, CHOOSE y \in roots : TRUE>>

(* The subgroup is not checked. *)
from_bytesUnchecked(bytes) ==
  LET x == FromBytes(Reverse(bytes))
  IN  IF x \in Fq THEN get_point_from_x(x) ELSE NoPoint

(* from_bytes: NoPoint stands for the error *)
from_bytes(bytes) ==
  LET x == FromBytes(Reverse(bytes))
      p == IF x \in Fq THEN get_point_from_x(x) ELSE NoPoint
  IN  IF p # NoPoint /\ subgroup_check(p) THEN p ELSE NoPoint

(* affine_to_canonical_bytes, to_bytes_uncompressed: both coordinates, of   *)
(* the point with the positive y                                            *)
to_bytes_uncompressed(p) ==
  IF is_positive(p[2]) THEN Bytes(p[1]) \o Bytes(p[2])
                       ELSE Bytes(Minus(p[1])) \o Bytes(Minus(p[2]))

from_bytes_unchecked_uncompressed(bytes) ==
  <<FromBytes(SubSeq(bytes, 1, 4)), FromBytes(SubSeq(bytes, 5, 8))>>

zero_commitment == Bytes(0) \o Bytes(Prime - 1)

(* map_to_scalar_field: x / y, its bytes taken modulo the order *)
map_to_scalar_field(p) == Div(p[1], p[2]) % Order

(* hash_commitments: batch_map_to_scalar_field of the decoded elements *)
hash_commitments(list) ==
  [i \in DOMAIN list |-> map_to_scalar_field(from_bytes_unchecked_uncompressed(list[i]))]
===============================================================================
