----------------------------- MODULE MCSessions -----------------------------
(* Small instances of Sessions for TLC.                                    *)
EXTENDS Sessions, TLC

CONSTANTS s1, s2, c1, a1, a2

AdminSymmetry == Permutations(Admins)

=============================================================================
