------------------------------ MODULE MCWeighing ------------------------------
(* Instances of Weighing for TLC. *)
EXTENDS Weighing, TLC

\* Requests, and adjustment requests, are interchangeable.
Symmetry == Permutations(Requests) \union Permutations(Adjs)

=============================================================================
