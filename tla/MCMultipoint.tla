----------------------------- MODULE MCMultipoint -----------------------------
(***************************************************************************)
(* Instances of Multipoint for TLC.                                        *)
(***************************************************************************)
EXTENDS Multipoint

CONSTANT MaxQueries

(* A constant polynomial, one of degree three, one with a zero. *)
MCPolys == {[x \in Domain |-> 4], [x \in Domain |-> (x * x * x + 2 * x + 3) % P],
            [x \in Domain |-> IF x = 1 THEN 0 ELSE x + 5]}

(* Queries with the right result, and one with a wrong one. *)
MCQueries ==
  {[poly |-> f, point |-> z, result |-> f[z]] : f \in MCPolys, z \in {0, N - 1}}
    \cup {[poly |-> [x \in Domain |-> 4], point |-> 1, result |-> 5]}

MCQueryLists == UNION {[1 .. n -> MCQueries] : n \in 1 .. MaxQueries}
===============================================================================
