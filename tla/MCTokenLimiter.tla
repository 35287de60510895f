--------------------------- MODULE MCTokenLimiter ---------------------------
(* Small instances of TokenLimiter: three requests, of one tenant or of two. *)
EXTENDS TokenLimiter, TLC

CONSTANTS r1, r2, r3, acme, globex

OneTenant == [r \in Requests |-> acme]
TwoTenants == (r1 :> acme) @@ (r2 :> acme) @@ (r3 :> globex)

(* Requests of one tenant are interchangeable. *)
RequestSymmetry == Permutations(Requests)
TenantSymmetry == Permutations({r1, r2})
=============================================================================
