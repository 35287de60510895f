----------------------------- MODULE MCRedactor -----------------------------
(* Small instances of Redactor: short patterns, texts that outgrow them.   *)
EXTENDS Redactor, TLC

Numbers == {"d", " ", "-", "l"}
Addresses == {"l", "@", ".", " "}
Groups == {"d", "-"}

(* Texts of numbers and of addresses as long as a match with something on  *)
(* either side, in every cut; runs of digit groups up to twice the hold, in *)
(* small deltas.                                                           *)
EveryKind == (Numbers :> 7) @@ (Addresses :> 7) @@ (Groups :> 14)
EveryCut == (Numbers :> 7) @@ (Addresses :> 7) @@ (Groups :> 3)

LongRuns == Groups :> 9

SsnGroups == <<1, 1, 1>>
=============================================================================
