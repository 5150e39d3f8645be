--------------------------- MODULE MCSpendLimits ---------------------------
(* Small instances of SpendLimits for TLC.                                 *)
EXTENDS SpendLimits, TLC

CONSTANTS u1, r1, r2, a1, a2

\* A short and a long window, so that one can end while the other runs.
TwoRules == {NoRules, [l \in {1, 3} |-> l]}

\* No limits, a rule, another one: every pair of sets differs in a window.
AdminSets == {NoRules, [l \in {1} |-> 1], [l \in {2} |-> 1]}

SlotSymmetry == Permutations(Slots)
AdminSymmetry == Permutations(Admins)

=============================================================================
