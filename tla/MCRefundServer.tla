--------------------------- MODULE MCRefundServer ---------------------------
(* Small instances of RefundServer.                                        *)
EXTENDS RefundServer, TLC

CONSTANTS r1, r2, r3, r4, ada, alan, nobody

CallSymmetry == Permutations(Calls)

Fine == [length |-> 3, stripped |-> 2]
Ask(id, amount, reason, extra) ==
  [id |-> id, amount |-> amount, reason |-> reason, extra |-> extra]
Sound(amounts) == {Ask(ada, n, Fine, FALSE) : n \in amounts}

(* Sound calls, of which any two may be too much, for a customer who was   *)
(* refunded nothing yet and for one who opens with refunds, as CUST-90210  *)
(* does; and calls with one thing wrong each: a stranger or no id, no      *)
(* amount, a reason that is too short at once or when it is stripped, an   *)
(* argument too many.                                                      *)
AnyArguments ==
  Sound({4, 7, 11}) \cup
  {Ask(alan, 4, Fine, FALSE)} \cup
  {Ask(nobody, 4, Fine, FALSE), Ask(Malformed, 4, Fine, FALSE), Ask(ada, 4, Fine, TRUE)} \cup
  {Ask(ada, n, Fine, FALSE) : n \in {0, -1, NotFinite}} \cup
  {Ask(ada, 4, [length |-> n, stripped |-> 1], FALSE) : n \in {1, 2}}
DustArguments == Sound({1, 2500})

ExactCharges == [c \in Customers |-> IF c = ada THEN 10 ELSE 12]
ExactOpening == [c \in Customers |-> IF c = ada THEN 0 ELSE 8]
ASSUME ExactIsExact == Charged = ExactCharges => ExactMoney

DustCharges == [c \in Customers |-> 2500]
NothingYet == [c \in Customers |-> 0]
=============================================================================
