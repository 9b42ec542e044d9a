------------------------------- MODULE ProofWire -------------------------------
(***************************************************************************)
(* A SaltProof on the wire (salt/src/proof/prover.rs): its holder writes   *)
(* the commitments, the opening and the levels one after another; whoever  *)
(* receives them checks and decodes each, the commitments in parallel, and *)
(* has the proof or an error.  A receiver may send the proof on.           *)
(*                                                                         *)
(* An element of the group is two points of the curve.  Its bytes are the  *)
(* same for both, and decoding gives one of them (Banderwagon has how).    *)
(***************************************************************************)
EXTENDS Integers, SequencesExt

CONSTANTS
  Elements,     \* the elements of the group, and their encodings
  Scalars,      \* the field elements, and their encodings
  Undecodable,  \* bytes that encode neither
  NumPoints,    \* log2(DOMAIN_SIZE), the rounds of the opening
  Proofs,       \* the proofs that are sent
  LevelValues,  \* the levels that an entry too many may have
  MaxSends      \* how often a proof is sent on

ASSUME WireAssumption ==
  /\ NumPoints \in Nat /\ MaxSends \in Nat
  /\ Elements \cap Scalars = {} /\ Undecodable \notin Elements \cup Scalars
  /\ \A p \in Proofs : Len(p.points) = 2 * NumPoints + 1

VARIABLES
  stage,   \* the field that is being received, "idle", "received" or "refused"
  proof,   \* the SaltProof of the sender: [commitments, points, a, levels]
  msg,     \* its bytes as they arrive: [commitments, opening, levels]
  first,   \* history: the bytes that were first sent
  damaged, \* history: have they been changed on the way?
  sends,   \* how often the proof has been sent
  raw,     \* the commitments that are still to be decoded
  failed,  \* has one been found invalid?
  at,      \* the chunks of the opening, or the levels, that have been read
  got      \* what the receiver has decoded

wireVars == <<stage, proof, msg, first, damaged, sends, raw, failed, at, got>>

Nothing == [x \in {} |-> 0]
NoProof == [commitments |-> Nothing, points |-> << >>, a |-> 0, levels |-> Nothing]
NoMessage == [commitments |-> << >>, opening |-> << >>, levels |-> << >>]

(* Element::to_bytes and from_bytes: the point with the positive y. *)
to_bytes(p) == p.element
Valid(b) == b \in Elements
from_bytes(b) == [element |-> b, positive |-> TRUE]

-------------------------------------------------------------------------------
WireInit ==
  /\ stage = "idle" /\ proof = NoProof
  /\ msg = NoMessage /\ first = NoMessage /\ damaged = FALSE /\ sends = 0
  /\ raw = Nothing /\ failed = FALSE /\ at = 0 /\ got = NoProof

Entries(f) == {<<k, f[k]>> : k \in DOMAIN f}
Ascending(s) == SortSeq(s, LAMBDA x, y : x[1] < y[1])

(* fx_hashmap_serde::serialize; order is that of the hash map. *)
SentLevels(order) == Ascending(order)

(* A BTreeMap is in order, and each SerdeCommitment is compressed. *)
SentCommitments(p) ==
  LET entries == SetToSortSeq(Entries(p.commitments), LAMBDA x, y : x[1] < y[1])
  IN  [i \in DOMAIN entries |-> <<entries[i][1], to_bytes(entries[i][2])>>]

(* MultiPointProof::to_bytes: g_x_comm, L_vec, R_vec and a, without lengths. *)
SentOpening(p) == [i \in DOMAIN p.points |-> to_bytes(p.points[i])] \o <<p.a>>

(* The proof that its prover or a receiver has is sent. *)
Send(p, order) ==
  /\ sends < MaxSends
  /\ proof' = p
  /\ msg' = [commitments |-> SentCommitments(p), opening |-> SentOpening(p), levels |-> SentLevels(order)]
  /\ first' = IF sends = 0 THEN msg' ELSE first
  /\ sends' = sends + 1
  /\ stage' = "raw" /\ raw' = Nothing /\ failed' = FALSE /\ at' = 0 /\ got' = NoProof
  /\ UNCHANGED damaged

SendFirst(p) == stage = "idle" /\ \E order \in SetToSeqs(Entries(p.levels)) : Send(p, order)
SendOn == stage = "received" /\ \E order \in SetToSeqs(Entries(got.levels)) : Send(got, order)

-------------------------------------------------------------------------------
(* What may arrive instead.  A message that is cut short is left out.      *)

Damage(m) ==
  /\ stage = "raw" /\ ~ damaged
  /\ msg' = m /\ msg' # msg /\ damaged' = TRUE
  /\ UNCHANGED <<stage, proof, first, sends, raw, failed, at, got>>

(* An entry too many, with a bucket or a node of another *)
RepeatLevel ==
  \E i \in DOMAIN msg.levels, j \in 1 .. Len(msg.levels) + 1, l \in LevelValues :
    Damage([msg EXCEPT !.levels = InsertAt(@, j, <<@[i][1], l>>)])

RepeatCommitment ==
  \E i \in DOMAIN msg.commitments, j \in 1 .. Len(msg.commitments) + 1, b \in Elements \cup {Undecodable} :
    Damage([msg EXCEPT !.commitments = InsertAt(@, j, <<@[i][1], b>>)])

(* Other bytes *)
ChangeCommitment ==
  \E i \in DOMAIN msg.commitments, b \in Elements \cup {Undecodable} :
    Damage([msg EXCEPT !.commitments[i] = <<@[1], b>>])

ChangeOpening ==
  \E i \in DOMAIN msg.opening, b \in Elements \cup Scalars \cup {Undecodable} :
    Damage([msg EXCEPT !.opening[i] = b])

-------------------------------------------------------------------------------
(* Receiving *)

Refuse == stage' = "refused" /\ got' = NoProof

(* serde reads a BTreeMap: of two entries for a node the last one stays. *)
ReadCommitments ==
  /\ stage = "raw"
  /\ LET seq == msg.commitments
         last(n) == CHOOSE i \in DOMAIN seq : seq[i][1] = n /\ \A j \in i + 1 .. Len(seq) : seq[j][1] # n
     IN  raw' = [n \in {seq[i][1] : i \in DOMAIN seq} |-> seq[last(n)][2]]
  /\ stage' = "commitments"
  /\ UNCHANGED <<proof, msg, first, damaged, sends, failed, at, got>>

(* parents_commitments_serde::deserialize: a worker decodes one of them. *)
DecodeCommitment(n) ==
  /\ stage = "commitments"
  /\ raw' = Restrict(raw, DOMAIN raw \ {n})
  /\ \/ Valid(raw[n]) /\ got' = [got EXCEPT !.commitments = (n :> from_bytes(raw[n])) @@ @]
        /\ UNCHANGED failed
     \/ ~ Valid(raw[n]) /\ failed' = TRUE /\ UNCHANGED got
  /\ UNCHANGED <<stage, proof, msg, first, damaged, sends, at>>

(* collect: an error ends it although others may be left. *)
EndCommitments ==
  /\ stage = "commitments"
  /\ \/ failed /\ Refuse
     \/ ~ failed /\ raw = Nothing /\ stage' = "opening" /\ UNCHANGED got
  /\ UNCHANGED <<proof, msg, first, damaged, sends, raw, failed, at>>

(* MultiPointProof::from_bytes and IPAProof::from_bytes, with the assert   *)
(* on the length as the second conjunct: points, and then the scalar.      *)
DecodeChunk ==
  /\ stage = "opening" /\ at < Len(msg.opening)
  /\ Len(msg.opening) - 1 = 2 * NumPoints + 1
  /\ at' = at + 1
  /\ LET b == msg.opening[at + 1]
         element == at <= 2 * NumPoints
     IN  \/ element /\ Valid(b) /\ got' = [got EXCEPT !.points = Append(@, from_bytes(b))] /\ UNCHANGED stage
         \/ ~ element /\ b \in Scalars /\ got' = [got EXCEPT !.a = b] /\ UNCHANGED stage
         \/ b \notin (IF element THEN Elements ELSE Scalars) /\ Refuse
  /\ UNCHANGED <<proof, msg, first, damaged, sends, raw, failed>>

EndOpening ==
  /\ stage = "opening" /\ at = Len(msg.opening)
  /\ stage' = "levels" /\ at' = 0
  /\ UNCHANGED <<proof, msg, first, damaged, sends, raw, failed, got>>

Inserted == LET e == msg.levels[at + 1] IN (e[1] :> e[2]) @@ got.levels

(* Variant of DecodeLevel: insert without a look at what it replaced. *)
DecodeLevelAny ==
  /\ stage = "levels" /\ at < Len(msg.levels)
  /\ at' = at + 1
  /\ got' = [got EXCEPT !.levels = Inserted]
  /\ UNCHANGED <<stage, proof, msg, first, damaged, sends, raw, failed>>

(* visit_map: insert gives back the entry that it replaced, if any. *)
DecodeLevel ==
  /\ stage = "levels" /\ at < Len(msg.levels)
  /\ at' = at + 1
  /\ \/ msg.levels[at + 1][1] \in DOMAIN got.levels /\ Refuse
     \/ /\ msg.levels[at + 1][1] \notin DOMAIN got.levels
        /\ got' = [got EXCEPT !.levels = Inserted] /\ UNCHANGED stage
  /\ UNCHANGED <<proof, msg, first, damaged, sends, raw, failed>>

EndLevels ==
  /\ stage = "levels" /\ at = Len(msg.levels)
  /\ stage' = "received"
  /\ UNCHANGED <<proof, msg, first, damaged, sends, raw, failed, at, got>>

(* The proof is used, or given up, and the next one comes. *)
Another ==
  /\ stage \in {"received", "refused"}
  /\ stage' = "idle" /\ proof' = NoProof
  /\ msg' = NoMessage /\ first' = NoMessage /\ damaged' = FALSE /\ sends' = 0
  /\ raw' = Nothing /\ failed' = FALSE /\ at' = 0 /\ got' = NoProof

WireNext ==
  \/ (\E p \in Proofs : SendFirst(p)) \/ SendOn
  \/ RepeatLevel \/ RepeatCommitment \/ ChangeCommitment \/ ChangeOpening
  \/ ReadCommitments \/ (\E n \in DOMAIN raw : DecodeCommitment(n)) \/ EndCommitments
  \/ DecodeChunk \/ EndOpening
  \/ DecodeLevel \/ EndLevels
  \/ Another

WireSpec == WireInit /\ [][WireNext]_wireVars

-------------------------------------------------------------------------------
(* PROPERTY ProofTravels                                                   *)
(* A receiver has either nothing or all that arrived: every level entry of *)
(* the message with its level, so no entry for a bucket has replaced       *)
(* another; a commitment for every node, whose bytes are in the message    *)
(* under that node, however the workers took turns; the opening chunk for  *)
(* chunk.  It refuses no message that arrives as the code sent it.  And a  *)
(* receiver that sends a proof on, with points of its own decoding and a   *)
(* hash map in an order of its own, sends the bytes that the prover sent.  *)
ProofTravels ==
  /\ stage = "received" =>
       /\ Entries(got.levels) = ToSet(msg.levels) /\ Cardinality(DOMAIN got.levels) = Len(msg.levels)
       /\ SentOpening(got) = msg.opening
       /\ ToSet(SentCommitments(got)) \subseteq ToSet(msg.commitments)
       /\ DOMAIN got.commitments = {e[1] : e \in ToSet(msg.commitments)}
  /\ stage = "refused" => damaged
  /\ ~ damaged => msg = first
===============================================================================
