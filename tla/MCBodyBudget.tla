---------------------------- MODULE MCBodyBudget ----------------------------
(* A small instance of BodyBudget for TLC.                                 *)
EXTENDS BodyBudget

CONSTANTS o1, o2, r1, r2, r3

Symmetry == Permutations(Requests) \cup Permutations(Owners)

=============================================================================
