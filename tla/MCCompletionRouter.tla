------------------------- MODULE MCCompletionRouter -------------------------
(* Small instances of CompletionRouter. *)
EXTENDS CompletionRouter, TLC

CONSTANTS r1, r2

(* Two clients that share the bucket of those who name no tenant. *)
Header(scheme, credential) == [scheme |-> scheme, credential |-> credential]
TwoAnonymous == (r1 :> Header("none", NoCredential)) @@ (r2 :> Header("other", "aKey"))

Body(chars, maxTokens) == [chars |-> chars, maxTokens |-> maxTokens]

(* Estimated at 3, or at the minimum because max_tokens is negative, or at *)
(* more than the limit.                                                    *)
OneBody == {Body(8, 1)}
AnyBody == OneBody \cup {Unreadable}
AnyBodies == AnyBody \cup {Body(4, -3), Body(16, 2)}

(* No usage counted, more than the estimate, and less than nothing.        *)
AnyReports == {0, 6, -2}

(* settings.py's defaults: the secondary has twice the primary's timeout,  *)
(* and httpx2's own lies between them.                                     *)
DefaultTimeouts == [p \in Providers |-> IF p = "primary" THEN 3 ELSE 6]
=============================================================================
