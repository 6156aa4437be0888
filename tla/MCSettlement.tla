---------------------------- MODULE MCSettlement ----------------------------
(* Instances of Settlement for TLC. *)
EXTENDS Settlement, TLC

\* Rows and people of one role are interchangeable: used in safety runs only.
Symmetry == Permutations(Batches) \union Permutations(OpAdmins)

=============================================================================
