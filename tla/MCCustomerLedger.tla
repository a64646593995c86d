-------------------------- MODULE MCCustomerLedger --------------------------
(* Instances of CustomerLedger small enough for TLC. *)
EXTENDS CustomerLedger, TLC

CONSTANTS c1, c2, s1

MCCustomerOf == [s \in Sales |-> c1]

entry(n, c, s, type, owe, paid, st) ==
    [id |-> n, cust |-> c, sale |-> s, type |-> type, owe |-> owe, paid |-> paid,
     st |-> st]

\* c1 owes for an imported balance, paid in part, and for a sale; c2 was just
\* created.
MCSeedEntries ==
    {entry(1, c1, NoSale, "ADJUSTMENT", 3, 1, "PARTIAL"),
     entry(2, c1, s1, "PAYMENT", 2, 0, "UNPAID"),
     entry(3, c2, NoSale, "ADJUSTMENT", 0, 0, "PAID")}

MCSeedBalance == [c \in Customers |-> IF c = c1 THEN 4 ELSE 0]

MCCompleted == [s \in Sales |-> "COMPLETED"]

\* Requests differ in nothing but their name.
MCSymmetry == Permutations(Writers)

\* What the theorems suppose of the rows at the start.
ASSUME SeedsAssumption == SeedsTellPaid
=============================================================================
