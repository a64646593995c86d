---------------------------- MODULE MCFulfilment ----------------------------
(* Instances of Fulfilment small enough for TLC. *)
EXTENDS Fulfilment, TLC

CONSTANTS c1, c2, s1, s2, st1, st2

\* Sales of two amounts to one customer; one of them over the counter.
MCOneCustomer == [s \in Sales |-> c1]
MCWalkIn == [s \in Sales |-> IF s = s1 THEN c1 ELSE NoCustomer]
MCStoreOf == [s \in Sales |-> st1]
MCNameOf == [c \in Customers |-> c]
MCAmountOf == [s \in Sales |-> IF s = s1 THEN 2 ELSE 3]

MCPacked == [s \in Sales |-> "PACKED"]
MCOnTheWay == [s \in Sales |-> IF s = s1 THEN "PACKED" ELSE "SHIPPED"]

MCNone == {}

\* The order s2 was shipped with, and one of a sale in another store that is gone,
\* of the amount of s1; what the customer has paid of s2, before the status was set
\* back by PATCH /sales/:id.
MCOrders ==
    LET order == [id |-> <<Seed, s2>>, sale |-> s2, cust |-> CustomerOf[s2], store |-> st1,
                  name |-> NameOf[CustomerOf[s2]], amount |-> 3, status |-> "SHIPPED",
                  valid |-> FALSE]
    IN  {order, [order EXCEPT !.id = <<Seed, s1>>, !.sale = NoSale, !.store = st2,
                              !.amount = 2]}
MCEntries == {[id |-> <<Seed, s2>>, sale |-> s2, owe |-> 3, paid |-> 1,
               st |-> "PARTIAL"]}

\* Requests differ in nothing but their name.
MCSymmetry == Permutations(Requests)

\* What the theorems suppose of the rows at the start.
ASSUME SeedsAssumption == SeedsOnce
=============================================================================
