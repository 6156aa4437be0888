-------------------------- MODULE MCIdempotentPost -------------------------
(* Instances of IdempotentPost for TLC. *)
EXTENDS IdempotentPost, TLC

\* Calls are interchangeable, and so are the values of either part of a body.
Symmetry ==
  Permutations(CallIds) \union Permutations(Seen) \union Permutations(Dropped)

=============================================================================
