------------------------------ MODULE Montgomery ------------------------------
(***************************************************************************)
(* The assembly routines of banderwagon/src/scalar_multi_asm.rs on four    *)
(* words, with the carry flag and the overflow flag as the two carry       *)
(* chains that ADCX and ADOX keep. Words have WordBits bits in place of    *)
(* 64; the prime keeps the top bit of its top word free, as the code's     *)
(* does.                                                                   *)
(*                                                                         *)
(* A number is a function from 0 .. 3, the lowest word first. A routine    *)
(* also tells how many carries it dropped.                                 *)
(***************************************************************************)
EXTENDS Integers, Sequences

CONSTANTS Prime, WordBits

Limbs == 0 .. 3
W == 2 ^ WordBits
Radix == W * W * W * W
Fq == 0 .. Prime - 1

ASSUME MontgomeryAssumption ==
  /\ W \in Nat \ {0, 1}
  /\ Prime \in Nat /\ Prime > 2 /\ 2 * Prime < Radix
  /\ \A k \in 2 .. Prime - 1 : Prime % k # 0

Quad(w0, w1, w2, w3) == [j \in Limbs |-> <<w0, w1, w2, w3>>[j + 1]]
Words(x) ==
  LET x1 == x \div W
      x2 == x1 \div W
  IN  Quad(x % W, x1 % W, x2 % W, (x2 \div W) % W)
Number(v) == v[0] + W * (v[1] + W * (v[2] + W * v[3]))

(* q[0] .. q[3] and q' = -1/q[0] mod W *)
q == Words(Prime)
IsNegatedInverse(k) == (k * q[0] + 1) % W = 0
q_inv == CHOOSE k \in 0 .. W - 1 : IsNegatedInverse(k)

(* mulx, adcx and adox for one word, xj * y + tj: hi is the upper half of  *)
(* the product, cf and of are the flags, and s has those of the last word. *)
Step(s, tj, xj, y) ==
  LET adcx == tj + s.hi + s.cf
      adox == (adcx % W) + ((xj * y) % W) + s.of
  IN  [w |-> adox % W, hi |-> (xj * y) \div W, cf |-> adcx \div W, of |-> adox \div W]

(* t + x * y: four words and A, the fifth, which takes both carries. The   *)
(* first row of the code is this row for t = 0.                            *)
MulRow(t, x, y) ==
  LET s0 == Step([hi |-> 0, cf |-> 0, of |-> 0], t[0], x[0], y)
      s1 == Step(s0, t[1], x[1], y)
      s2 == Step(s1, t[2], x[2], y)
      s3 == Step(s2, t[3], x[3], y)
  IN  [t |-> Quad(s0.w, s1.w, s2.w, s3.w), hi |-> s3.hi, cf |-> s3.cf, of |-> s3.of]

(* (t + m * q) / W, where m makes the lowest word vanish: the others go    *)
(* one down.                                                               *)
ReduceRow(t, m) ==
  LET s0 == [hi |-> (m * q[0]) \div W, cf |-> (((m * q[0]) % W) + t[0]) \div W, of |-> 0]
      s1 == Step(s0, t[1], m, q[1])
      s2 == Step(s1, t[2], m, q[2])
      s3 == Step(s2, t[3], m, q[3])
  IN  [t |-> <<s1.w, s2.w, s3.w>>, hi |-> s3.hi, cf |-> s3.cf, of |-> s3.of]

(* The words of a number as one chain of carries or borrows. *)
AddWords(x, y) ==
  LET s0 == x[0] + y[0]
      s1 == x[1] + y[1] + (s0 \div W)
      s2 == x[2] + y[2] + (s1 \div W)
      s3 == x[3] + y[3] + (s2 \div W)
  IN  [t |-> Quad(s0 % W, s1 % W, s2 % W, s3 % W), lost |-> s3 \div W]
Borrow(d) == IF d < 0 THEN 1 ELSE 0
SubWords(x, y) ==
  LET d0 == x[0] - y[0]
      d1 == x[1] - y[1] - Borrow(d0)
      d2 == x[2] - y[2] - Borrow(d1)
      d3 == x[3] - y[3] - Borrow(d2)
  IN  [t |-> Quad(d0 % W, d1 % W, d2 % W, d3 % W), borrow |-> Borrow(d3)]

(* reduce_macro: the difference, unless that borrows (cmovc). *)
Reduce(t) == IF SubWords(t, q).borrow = 1 THEN t ELSE SubWords(t, q).t

(* The rest of a row, after t + x * y with A as its fifth word: the two    *)
(* last carries and A go into the top word.                                *)
ShiftDown(s, mul, A) ==
  LET red == ReduceRow(mul.t, (mul.t[0] * q_inv) % W)
      top == red.hi + red.cf + red.of + (A % W)
  IN  [t |-> Quad(red.t[1], red.t[2], red.t[3], top % W), lost |-> s.lost + A \div W + top \div W]

(* The carry that ends in the overflow flag is not added to A. *)
RowOneCarry(s, x, y) ==
  LET mul == MulRow(s.t, x, y)
  IN  ShiftDown(s, mul, mul.hi + mul.cf)

(* One of the four rows: multiply, then reduce. *)
Row(s, x, y) ==
  LET mul == MulRow(s.t, x, y)
  IN  ShiftDown(s, mul, mul.hi + mul.cf + mul.of)

mont_mul_asm(x, y) ==
  LET r0 == Row([t |-> Words(0), lost |-> 0], x, y[0])
      r1 == Row(r0, x, y[1])
      r2 == Row(r1, x, y[2])
      r3 == Row(r2, x, y[3])
  IN  [t |-> Reduce(r3.t), lost |-> r3.lost]

(* Twice doubled, then added once more, with a reduction after each. *)
mont_mul_by5_asm(x) ==
  LET two == AddWords(x, x)
      four == AddWords(Reduce(two.t), Reduce(two.t))
      five == AddWords(Reduce(four.t), x)
  IN  [t |-> Reduce(five.t), lost |-> two.lost + four.lost + five.lost]

(* The operations on numbers below the prime for which the routines stand  *)
(* (MontgomeryExact of Committer compares them for all operands): the      *)
(* product divided by the radix, and five times a number.                  *)
IsRadixInverse(k) == (k * Radix) % Prime = 1
RadixInverse == CHOOSE k \in Fq : IsRadixInverse(k)
MontMul(x, y) == (((x * y) % Prime) * RadixInverse) % Prime
MontMulBy5(x) == (5 * x) % Prime

(* The prime is odd, so the radix has an inverse and so has q[0]; the code *)
(* has the second as a constant.                                           *)
ASSUME InverseAssumption ==
  /\ \E k \in 0 .. W - 1 : IsNegatedInverse(k)
  /\ \E k \in Fq : IsRadixInverse(k)
===============================================================================
