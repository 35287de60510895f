-------------------------- MODULE MCRouterOverMock --------------------------
(* Small instances of RouterOverMock. *)
EXTENDS RouterOverMock, TLC

CONSTANTS r1, r2, acme

OneTenant == [r \in Requests |-> [scheme |-> "bearer", credential |-> acme]]
RequestSymmetry == Permutations(Requests)
OneBody == {[chars |-> 8, maxTokens |-> 1]}
DefaultTimeouts == [p \in Providers |-> IF p = "primary" THEN 3 ELSE 6]

(* Every mode, of one provider or of both; hangs that outlive every        *)
(* timeout, all but the secondary's own, the primary's alone, or none.     *)
AllScripts ==
  {[mode |-> mode, failing |-> failing, hang |-> hang] :
     mode \in Modes, failing \in {"none"} \cup Providers, hang \in {2, 4, 6, 10}}
OneScriptEach == {s \in AllScripts : s.mode # "hang" => s.hang = 10}
=============================================================================
