------------------------------ MODULE Multipoint ------------------------------
(***************************************************************************)
(* The multi-opening argument (ipa-multipoint): many polynomials, each in  *)
(* the Lagrange basis over 0 .. N-1, are opened at one point each with one *)
(* inner product argument.                                                 *)
(*                                                                         *)
(* The prover's and the verifier's calls run in steps that end where a     *)
(* challenge is drawn. The transcript's hash is an oracle: the same        *)
(* transcript always gets the same challenge, a new one gets any.          *)
(* A group element is its vector of coefficients over the generators of    *)
(* the CRS, which is all that may be known of it.                          *)
(***************************************************************************)
EXTENDS Integers, Sequences, SequencesExt, FiniteSetsExt

CONSTANTS
  P,           \* the order of the group, a prime
  N,           \* the domain size, a power of two (256 in the code)
  Threads,     \* the number of threads that a parallel iterator counts on
  QueryLists,  \* the lists of queries: [poly, point, result]
  Challenges   \* the scalars that the oracle may give

VARIABLES
  pc,          \* the step that is next
  oracle,      \* the challenges given so far: transcript -> scalar
  queries,     \* the queries that both sides have
  transcript,  \* Transcript::state of the side that runs
  r, t, w,     \* its challenges
  xs,          \* and those of the rounds
  g_x,         \* g(X), the sum of the quotients
  work,        \* the vectors of ipa::create: [a, b, G, Q]
  proof,       \* MultiPointProof
  verdict      \* "none", "accept", "reject" or "panic"

vars == <<pc, oracle, queries, transcript, r, t, w, xs, g_x, work, proof, verdict>>

Domain == 0 .. N - 1
Fr == 0 .. P - 1

ASSUME MultipointAssumption ==
  /\ \A k \in 2 .. P - 1 : P % k # 0
  /\ P > N /\ \E k \in 0 .. 8 : N = 2 ^ k
  /\ Threads \in Nat \ {0}
  /\ Challenges \subseteq Fr

-------------------------------------------------------------------------------
(* Scalars, vectors and group elements *)

(* The inverses, once and for all; a batch inversion leaves a zero as it is. *)
Inverses == [x \in Fr |-> IF x = 0 THEN 0 ELSE CHOOSE y \in Fr : (x * y) % P = 1]

Sub(x, y) == (x - y) % P
Mul(x, y) == (x * y) % P
Product(S, Op(_)) == MapThenFoldSet(LAMBDA x, y : (x * y) % P, 1, Op, LAMBDA T : CHOOSE x \in T : TRUE, S)
Sum(S, Op(_)) == MapThenFoldSet(LAMBDA x, y : (x + y) % P, 0, Op, LAMBDA T : CHOOSE x \in T : TRUE, S)

DivCeil(m, k) == (m + k - 1) \div k

inner_product(a, b) == Sum(DOMAIN a, LAMBDA i : a[i] * b[i])

powers_of(point, n) ==
  LET power[i \in 0 .. n - 1] == IF i = 0 THEN 1 ELSE Mul(power[i - 1], point) IN power

(* Each thread computes the powers of one chunk from the first of them. *)
powers_of_par(point, n) ==
  LET chunk_size == DivCeil(n, Threads)
      base_powers == powers_of(powers_of(point, chunk_size + 1)[chunk_size], DivCeil(n, chunk_size))
      in_chunk == powers_of(point, chunk_size)
  IN  [i \in 0 .. n - 1 |-> Mul(base_powers[i \div chunk_size], in_chunk[i % chunk_size])]

(* The generators of the CRS: G[0] .. G[N-1] and, as number N, Q. *)
Generators == 0 .. N
Generator(g) == [h \in Generators |-> IF h = g THEN 1 ELSE 0]
Identity == [h \in Generators |-> 0]

multi_scalar_mul(bases, scalars) ==
  [h \in Generators |-> Sum(DOMAIN bases, LAMBDA i : bases[i][h] * scalars[i])]

(* The sum of the chunks' sums. *)
multi_scalar_mul_par(bases, scalars) ==
  LET n == Cardinality(DOMAIN bases)
      chunk_size == DivCeil(n, Threads)
      chunk(c) == {i \in DOMAIN bases : i \div chunk_size = c}
      part(c) == multi_scalar_mul(Restrict(bases, chunk(c)), Restrict(scalars, chunk(c)))
  IN  [h \in Generators |-> Sum(0 .. DivCeil(n, chunk_size) - 1, LAMBDA c : part(c)[h])]

ElementSub(x, y) == [h \in Generators |-> Sub(x[h], y[h])]
commit_lagrange_poly(f) == multi_scalar_mul([i \in Domain |-> Generator(i)], f)

(* LagrangeBasis: the values on the domain, with pointwise operations *)
Add(f, g) == [x \in Domain |-> (f[x] + g[x]) % P]
Neg(f) == [x \in Domain |-> Sub(0, f[x])]
Scaled(f, c) == [x \in Domain |-> Mul(f[x], c)]
Difference(f, g) == Add(f, Neg(g))
Zero == [x \in Domain |-> 0]
Total(S, Op(_)) == MapThenFoldSet(Add, Zero, Op, LAMBDA T : CHOOSE x \in T : TRUE, S)

-------------------------------------------------------------------------------
(* PrecomputedWeights: the two tables, each with a second half *)

compute_barycentric_weight_for(x) == Product(Domain \ {x}, LAMBDA e : (x - e) % P)

barycentric_weights ==
  [i \in 0 .. 2 * N - 1 |->
     IF i < N THEN compute_barycentric_weight_for(i)
              ELSE Inverses[compute_barycentric_weight_for(i - N)]]

inverted_domain ==
  [i \in 0 .. 2 * (N - 1) - 1 |->
     IF i < N - 1 THEN Inverses[i + 1] ELSE Sub(0, Inverses[i + 1 - (N - 1)])]

(* The second half one element too early. *)
get_inverted_elementFromZero(e, is_negative) ==
  inverted_domain[IF is_negative THEN e - 1 + (N - 2) ELSE e - 1]

get_inverted_element(e, is_negative) ==
  inverted_domain[IF is_negative THEN e - 1 + (N - 1) ELSE e - 1]

get_ratio_of_barycentric_weights(m, i) == Mul(barycentric_weights[m], barycentric_weights[i + N])

(* (f(X) - f(index)) / (X - index): inside the domain the value at index   *)
(* itself is what the others leave for it.                                 *)
divide_by_linear_vanishing(f, index) ==
  LET others == Domain \ {index}
      Abs(k) == IF k < 0 THEN -k ELSE k
      q == [i \in others |-> Mul(f[i] - f[index], get_inverted_element(Abs(i - index), i < index))]
      rest == Sum(others, LAMBDA i : get_ratio_of_barycentric_weights(index, i) * q[i])
  IN  [i \in Domain |-> IF i = index THEN Sub(0, rest) ELSE q[i]]

(* L_i(z) for all i; a zero is left alone by the batch inversion. *)
evaluate_lagrange_coefficients(z) ==
  LET a_z == Product(Domain, LAMBDA i : (z - i) % P)
  IN  [i \in Domain |-> Mul(a_z, Inverses[Mul(barycentric_weights[i], Sub(z, i))])]

-------------------------------------------------------------------------------
(* The transcript *)

(* A message with its label. *)
Message(label, x) == <<label, x>>
Separator(label) == <<label>>

(* challenge_scalar: c is what the oracle gives for the transcript, which  *)
(* then starts again from the challenge.                                   *)
Asked(messages, label) == Append(messages, Separator(label))
challenge_scalar(messages, label, c) ==
  /\ Asked(messages, label) \in DOMAIN oracle => c = oracle[Asked(messages, label)]
  /\ oracle' = [m \in {Asked(messages, label)} |-> c] @@ oracle
Restarted(label, c) == <<Message(label, c)>>

(* record_query_transcript: the commitment, point and result of each. *)
QueryCommitment(q) == commit_lagrange_poly(q.poly)
record_query_transcript(list) ==
  FoldLeftDomain(LAMBDA messages, i :
                   messages \o <<Message("C", QueryCommitment(list[i])),
                                 Message("z", list[i].point), Message("y", list[i].result)>>,
                 << >>, list)

Opening(list) == <<Separator("multiproof")>> \o record_query_transcript(list)

-------------------------------------------------------------------------------
(* What both sides compute from the queries *)

Points == {queries[i].point : i \in DOMAIN queries}
At(z) == {i \in DOMAIN queries : queries[i].point = z}

(* group_prover_queries and the sum of each group, times powers of r. *)
Aggregated(powers, z) ==
  Total(At(z), LAMBDA i : Scaled(queries[i].poly, powers[i - 1]))

(* ipa::create starts with the message that verify_multiexp starts with. *)
IpaStart(messages, a_comm, input_point, output_point) ==
  messages \o <<Separator("ipa"), Message("C", a_comm),
                Message("input point", input_point), Message("output point", output_point)>>

Half(v) == Cardinality(DOMAIN v) \div 2
Left(v) == [i \in 0 .. Half(v) - 1 |-> v[i]]
Right(v) == [i \in 0 .. Half(v) - 1 |-> v[i + Half(v)]]

(* A vector with one more element at the end: chain(once(x)). *)
Chain(v, x) == [i \in 0 .. Cardinality(DOMAIN v) |-> IF i \in DOMAIN v THEN v[i] ELSE x]

(* left_compute and right_compute of a round. *)
RoundL(v) ==
  multi_scalar_mul(Chain(Left(v.G), v.Q),
                   Chain(Right(v.a), inner_product(Right(v.a), Left(v.b))))
RoundR(v) ==
  multi_scalar_mul(Chain(Right(v.G), v.Q),
                   Chain(Left(v.a), inner_product(Left(v.a), Right(v.b))))

(* The halves are folded into one with the challenge of the round. *)
Fold(v, x) ==
  LET x_inv == Inverses[x]
      half == 0 .. Half(v.a) - 1
  IN  [a |-> [i \in half |-> (v.a[i] + x * Right(v.a)[i]) % P],
       b |-> [i \in half |-> (v.b[i] + x_inv * Right(v.b)[i]) % P],
       G |-> [i \in half |-> [h \in Generators |-> (v.G[i][h] + x_inv * Right(v.G)[i][h]) % P]],
       Q |-> v.Q]

NoWork == [a |-> << >>, b |-> << >>, G |-> << >>, Q |-> Identity]
NoProof == [g_x_comm |-> Identity, L_vec |-> << >>, R_vec |-> << >>, a |-> 0]

Init ==
  /\ pc = "open" /\ oracle = << >> /\ transcript = << >>
  /\ queries \in QueryLists
  /\ r = 0 /\ t = 0 /\ w = 0 /\ xs = << >>
  /\ g_x = << >> /\ work = NoWork /\ proof = NoProof /\ verdict = "none"

(* MultiPoint::open up to the first challenge. *)
Open ==
  /\ pc = "open" /\ pc' = "prove_r"
  /\ transcript' = Opening(queries)
  /\ UNCHANGED <<oracle, queries, r, t, w, xs, g_x, work, proof, verdict>>

(* The quotients of the groups, their sum and its commitment D. *)
ProveR(c) ==
  /\ pc = "prove_r" /\ pc' = "prove_t"
  /\ challenge_scalar(transcript, "r", c)
  /\ r' = c
  /\ LET powers == powers_of_par(c, Len(queries))
     IN  g_x' = Total(Points, LAMBDA z : divide_by_linear_vanishing(Aggregated(powers, z), z))
  /\ proof' = [proof EXCEPT !.g_x_comm = commit_lagrange_poly(g_x')]
  /\ transcript' = Append(Restarted("r", c), Message("D", proof'.g_x_comm))
  /\ UNCHANGED <<queries, t, w, xs, work, verdict>>

(* g_1, its commitment E, and the start of the inner product argument that *)
(* opens g_1 - g at t (open_point_outside_of_domain).                      *)
ProveT(c) ==
  /\ pc = "prove_t" /\ pc' = "prove_w"
  /\ challenge_scalar(transcript, "t", c)
  /\ t' = c
  /\ LET powers == powers_of_par(r, Len(queries))
         den_inv == [z \in Points |-> Inverses[Sub(c, z)]]
         g1_x == Total(Points, LAMBDA z : Scaled(Aggregated(powers, z), den_inv[z]))
         g1_comm == commit_lagrange_poly(g1_x)
         a == Difference(g1_x, g_x)
         b == evaluate_lagrange_coefficients(c)
     IN  /\ work' = [a |-> a, b |-> b, G |-> [i \in Domain |-> Generator(i)], Q |-> Identity]
         /\ transcript' = IpaStart(Append(Restarted("t", c), Message("E", g1_comm)),
                                   ElementSub(g1_comm, proof.g_x_comm), c, inner_product(a, b))
  /\ UNCHANGED <<queries, r, w, xs, g_x, proof, verdict>>

(* The L and R of the round that work is at, as messages and in the proof. *)
WithRound(p, v) ==
  [p EXCEPT !.L_vec = Append(@, RoundL(v)), !.R_vec = Append(@, RoundR(v))]
RoundMessages(v) == <<Message("L", RoundL(v)), Message("R", RoundR(v))>>

(* The challenge w scales Q; then the first round. *)
ProveW(c) ==
  /\ pc = "prove_w" /\ pc' = "prove_x"
  /\ challenge_scalar(transcript, "w", c)
  /\ w' = c
  /\ work' = [work EXCEPT !.Q = [h \in Generators |-> Mul(c, Generator(N)[h])]]
  /\ proof' = WithRound(proof, work')
  /\ transcript' = Restarted("w", c) \o RoundMessages(work')
  /\ UNCHANGED <<queries, r, t, xs, g_x, verdict>>

(* The challenge of a round; a zero has no inverse, and unwrap panics. *)
ProveX(c) ==
  /\ pc = "prove_x"
  /\ challenge_scalar(transcript, "x", c)
  /\ \/ /\ c = 0
        /\ pc' = "end" /\ verdict' = "panic"
        /\ UNCHANGED <<transcript, work, proof>>
     \/ /\ c # 0
        /\ work' = Fold(work, c)
        /\ \/ /\ Half(work'.a) > 0
              /\ proof' = WithRound(proof, work')
              /\ transcript' = Restarted("x", c) \o RoundMessages(work')
              /\ pc' = "prove_x"
           \/ /\ Half(work'.a) = 0
              /\ proof' = [proof EXCEPT !.a = work'.a[0]]
              /\ transcript' = Restarted("x", c)
              /\ pc' = "send"
        /\ UNCHANGED verdict
  /\ UNCHANGED <<queries, r, t, w, xs, g_x>>

(* to_bytes: one encoding after another, without lengths; from_bytes knows *)
(* from the degree how many there are. What an encoding of an element does *)
(* is the subject of Banderwagon, other bytes that of ProofWire.           *)
to_bytes(p) ==
  <<Message("element", p.g_x_comm)>>
    \o [i \in DOMAIN p.L_vec |-> Message("element", p.L_vec[i])]
    \o [i \in DOMAIN p.R_vec |-> Message("element", p.R_vec[i])]
    \o <<Message("scalar", p.a)>>

log2(n) == CHOOSE k \in 0 .. n : 2 ^ k = n

InvalidData == [error |-> "InvalidData"]

(* The CASE is the assert on the length; what is no encoding is an error. *)
from_bytes(bytes) ==
  LET num_points == log2(N)
      decodes == /\ \A i \in 1 .. Len(bytes) - 1 : bytes[i][1] = "element"
                 /\ Last(bytes)[1] = "scalar"
  IN  CASE Len(bytes) - 1 = 2 * num_points + 1 ->
             IF ~ decodes THEN InvalidData
             ELSE [g_x_comm |-> bytes[1][2],
                   L_vec |-> [i \in 1 .. num_points |-> bytes[1 + i][2]],
                   R_vec |-> [i \in 1 .. num_points |-> bytes[1 + num_points + i][2]],
                   a |-> Last(bytes)[2]]

(* The proof goes to the verifier, which starts with a transcript of its   *)
(* own: MultiPointProof::check up to the first challenge.  It has no steps *)
(* for InvalidData, which to_bytes never leads to.                         *)
Check ==
  /\ pc = "send" /\ pc' = "check_r"
  /\ proof' = from_bytes(to_bytes(proof))
  /\ transcript' = Opening(queries)
  /\ r' = 0 /\ t' = 0 /\ w' = 0 /\ xs' = << >> /\ work' = NoWork
  /\ UNCHANGED <<oracle, queries, g_x, verdict>>

CheckR(c) ==
  /\ pc = "check_r" /\ pc' = "check_t"
  /\ challenge_scalar(transcript, "r", c)
  /\ r' = c
  /\ transcript' = Append(Restarted("r", c), Message("D", proof.g_x_comm))
  /\ UNCHANGED <<queries, t, w, xs, g_x, work, proof, verdict>>

(* The powers of r go to the queries from the last to the first. *)
HelperScalarsReversed(powers, c) ==
  [i \in 0 .. Len(queries) - 1 |->
     Mul(powers[Len(queries) - 1 - i], Inverses[Sub(c, queries[i + 1].point)])]

(* helper_scalars: r^i / (t - z_i), per query *)
HelperScalars(powers, c) ==
  [i \in 0 .. Len(queries) - 1 |-> Mul(powers[i], Inverses[Sub(c, queries[i + 1].point)])]

(* g_2(t), the commitment E from the commitments of the queries, and the   *)
(* start of verify_multiexp, which refuses a proof of another size.        *)
CheckT(c) ==
  /\ pc = "check_t"
  /\ challenge_scalar(transcript, "t", c)
  /\ t' = c
  /\ LET helper == HelperScalars(powers_of_par(r, Len(queries)), c)
         g2_t == Sum(DOMAIN helper, LAMBDA i : helper[i] * queries[i + 1].result)
         g1_comm == multi_scalar_mul_par([i \in DOMAIN helper |-> QueryCommitment(queries[i + 1])], helper)
         g3_comm == ElementSub(g1_comm, proof.g_x_comm)
     IN  /\ work' = [NoWork EXCEPT !.a = g3_comm, !.b = g2_t]
         /\ transcript' = IpaStart(Append(Restarted("t", c), Message("E", g1_comm)), g3_comm, c, g2_t)
  /\ pc' = "check_w"
  /\ UNCHANGED <<queries, r, w, xs, g_x, proof, verdict>>

CheckW(c) ==
  /\ pc = "check_w" /\ pc' = "check_x"
  /\ challenge_scalar(transcript, "w", c)
  /\ w' = c
  /\ transcript' = Restarted("w", c) \o <<Message("L", proof.L_vec[1]), Message("R", proof.R_vec[1])>>
  /\ UNCHANGED <<queries, r, t, xs, g_x, work, proof, verdict>>

(* generate_challenges *)
CheckX(c) ==
  /\ pc = "check_x"
  /\ challenge_scalar(transcript, "x", c)
  /\ xs' = Append(xs, c)
  /\ LET next == Len(xs') + 1
     IN  \/ /\ next \in DOMAIN proof.L_vec
            /\ transcript' = Restarted("x", c)
                               \o <<Message("L", proof.L_vec[next]), Message("R", proof.R_vec[next])>>
            /\ pc' = "check_x"
         \/ /\ next \notin DOMAIN proof.L_vec
            /\ transcript' = Restarted("x", c)
            /\ pc' = "check_end"
  /\ UNCHANGED <<queries, r, t, w, g_x, work, proof, verdict>>

(* The bits of an index, the highest first. *)
to_bits(n, bits) == [i \in 1 .. bits |-> (n \div 2 ^ (bits - i)) % 2]

(* -b_i: the product of the inverses of the challenges at the bits set. *)
FoldedCoefficients ==
  [index \in Domain |->
     LET bits == to_bits(index, Len(xs))
     IN  Sub(0, Product({i \in DOMAIN xs : bits[i] = 1}, LAMBDA i : Inverses[xs[i]]))]

(* The one multi-exponentiation at the end of verify_multiexp is zero. *)
MultiexpIsZero ==
  LET b_i == FoldedCoefficients
      b_0 == inner_product(evaluate_lagrange_coefficients(t), b_i)
      q_i == Mul(w, work.b + proof.a * b_0)
      rounds(h) == Sum(DOMAIN xs, LAMBDA i : xs[i] * proof.L_vec[i][h] + Inverses[xs[i]] * proof.R_vec[i][h])
      crs(h) == IF h = N THEN q_i ELSE Mul(proof.a, b_i[h])
  IN  \A h \in Generators : (rounds(h) + work.a[h] + crs(h)) % P = 0

CheckEnd ==
  /\ pc = "check_end" /\ pc' = "end"
  /\ verdict' = IF N = 2 ^ Len(proof.L_vec) /\ MultiexpIsZero THEN "accept" ELSE "reject"
  /\ UNCHANGED <<oracle, queries, transcript, r, t, w, xs, g_x, work, proof>>

Next ==
  \/ Open \/ Check \/ CheckEnd
  \/ \E c \in Challenges :
       \/ ProveR(c) \/ ProveT(c) \/ ProveW(c) \/ ProveX(c)
       \/ CheckR(c) \/ CheckT(c) \/ CheckW(c) \/ CheckX(c)

Spec == Init /\ [][Next]_vars

-------------------------------------------------------------------------------
(* Reference definitions: values of polynomials by interpolation *)

LagrangeValue(i, x) ==
  Product(Domain \ {i}, LAMBDA j : ((x - j) * Inverses[(i - j) % P]) % P)
Value(f, x) == Sum(Domain, LAMBDA i : f[i] * LagrangeValue(i, x))
Power(x, k) == powers_of(x, k + 1)[k]

(* What an opening with these challenges is wrong by: the errors of the    *)
(* results that the queries claim, as they enter g_2(t).                   *)
ClaimError ==
  Sum(DOMAIN queries,
      LAMBDA i : Power(r, i - 1) * Mul(Inverses[Sub(t, queries[i].point)],
                                       queries[i].result - queries[i].poly[queries[i].point]))

(* PROPERTY OpeningAccepted                                                 *)
(* MultiPointProof::check accepts what MultiPoint::open made if the        *)
(* claimed results, as the challenges weigh them, are right, whatever the  *)
(* challenges and the number of threads. This needs that t is not in the   *)
(* domain, which the code does not check (its TODO in                      *)
(* open_point_outside_of_domain).                                          *)
OpeningAccepted ==
  (pc = "end" /\ verdict # "panic" /\ t \notin Domain /\ ClaimError = 0) => verdict = "accept"

(* PROPERTY SameTranscript                                                 *)
(* The verifier asks the oracle for the challenges that the prover asked   *)
(* for: both append the same messages in the same order, although the      *)
(* verifier computes E and the result at t from other data. Where a        *)
(* claimed result is wrong, the transcripts part at the result at t, and   *)
(* the challenges of the inner product argument are not the prover's.      *)
SameTranscript ==
  /\ pc = "check_r" => Asked(transcript, "r") \in DOMAIN oracle
  /\ pc = "check_t" => Asked(transcript, "t") \in DOMAIN oracle
  /\ (pc = "check_w" /\ t \notin Domain) => (Asked(transcript, "w") \in DOMAIN oracle <=> ClaimError = 0)
===============================================================================
