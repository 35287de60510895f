------------------------ MODULE MCTokenLimiterFaults ------------------------
(* Small instances of TokenLimiterFaults. *)
EXTENDS TokenLimiterFaults, TLC

CONSTANTS r1, r2, r3, acme

OneTenant == [r \in Requests |-> acme]
RequestSymmetry == Permutations(Requests)
=============================================================================
