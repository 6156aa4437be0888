---------------------------- MODULE MCDriverSync ----------------------------
(* Instances of DriverSync for TLC. *)
EXTENDS DriverSync, TLC

\* Threads of the app, and slots of the server, are interchangeable.
Symmetry == Permutations(Threads) \union Permutations(CallIds)

=============================================================================
