---------------------------- MODULE SaleLifecycle ----------------------------
(***************************************************************************)
(* What status management promises about sales: a status follows the table  *)
(* of transitions, a sale is SHIPPED only when its customer has an order     *)
(* to deliver, and DELIVERED only when the sale is in the books.             *)
(***************************************************************************)
EXTENDS SaleTypes

CONSTANTS Sales, SeedStatus

VARIABLES
    sales,      \* the sales that exist
    status,
    ordered,    \* the sales whose customer has an order
    billed      \* the sales with an entry in the balance sheet

vars == <<sales, status, ordered, billed>>

Init ==
    /\ sales = Sales
    /\ status = SeedStatus
    /\ ordered \subseteq Sales
    /\ billed \subseteq Sales

\* Orders are written and never deleted.
WriteOrders ==
    /\ ordered \subseteq ordered'
    /\ UNCHANGED <<sales, status, billed>>

Bill(s) ==
    /\ billed' = billed \cup {s}
    /\ UNCHANGED <<sales, status, ordered>>

\* A deletion that has begun takes the sale out of the books.
Forget(s) ==
    /\ billed' = billed \ {s}
    /\ UNCHANGED <<sales, status, ordered>>

Advance(s, to) ==
    /\ s \in sales
    /\ to \in StatusTransitions[status[s]]
    /\ to = "SHIPPED" => s \in ordered
    /\ to = "DELIVERED" => s \in billed
    /\ status' = [status EXCEPT ![s] = to]
    /\ UNCHANGED <<sales, ordered, billed>>

Delete(s) ==
    /\ s \in sales
    /\ sales' = sales \ {s}
    /\ billed' = billed \ {s}
    /\ UNCHANGED <<status, ordered>>

Next ==
    \/ WriteOrders
    \/ \E s \in Sales :
        \/ Bill(s) \/ Forget(s) \/ Delete(s)
        \/ \E to \in SaleStatus : Advance(s, to)

Spec == Init /\ [][Next]_vars
==============================================================================
