--------------------------- MODULE MCSseGuardrail ---------------------------
(* Small instances of SseGuardrail: one choice, or two interleaved.        *)
EXTENDS SseGuardrail

OneChoice == {0}
TwoChoices == {0, 1}
=============================================================================
