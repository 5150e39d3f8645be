----------------------------- MODULE MCThrottle -----------------------------
(* A small instance of Throttle for TLC.                                   *)
EXTENDS Throttle, TLC

CONSTANTS a1, a2, a3, a4

AttemptSymmetry == Permutations(Attempts)

=============================================================================
