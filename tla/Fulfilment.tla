------------------------------ MODULE Fulfilment ------------------------------
(***************************************************************************)
(* From packed to delivered: PATCH /sales/:id/status with the orders and the *)
(* entries of the balance sheet it writes on the way (StatusManagement-      *)
(* Service), the assignment of drivers (SalesService.bulkAssignDriver), the  *)
(* work of drivers and admins on orders (OrderProcessingService), and the    *)
(* deletion of a sale as far as it takes away what these rely on.            *)
(*                                                                         *)
(* What runs outside a transaction is a step per statement; a transaction is *)
(* the step of its commit, and what its program read before it is a step     *)
(* before.  Payments, which have a module of their own, are not taken here:  *)
(* entries that are paid are among those at the start.                       *)
(***************************************************************************)
EXTENDS Integers, FiniteSets, SaleTypes

CONSTANTS
    Sales,          \* ids of sales
    Customers,
    NoCustomer,     \* a sale over the counter
    NoSale,         \* an order or entry whose sale is gone
    Requests,       \* HTTP writes; each is received at most once
    Seed,           \* what wrote the rows at the start
    Stores,
    Names,          \* names of customers
    CustomerOf,
    StoreOf,
    NameOf,         \* customerName, which customers keep; orders at the start may differ
    AmountOf,       \* totalAmount of each sale
    SeedStatus,
    SeedOrders,     \* the orders at the start
    SeedEntries,    \* the entries at the start
    Targets,        \* the statuses clients ask for
    DriverTypes,    \* a subset of {"COMPANY", "THIRD_PARTY"}
    OrderMarks,     \* the statuses drivers give orders
    OrderAmounts,   \* the amounts they report
    OnePerSale      \* TRUE: clients never write one sale twice at a time

\* Ids are unique: the request that wrote the row and the sale it wrote it for.
Ids == (Requests \cup {Seed}) \X Sales

Order == [id : Ids, sale : Sales \cup {NoSale}, cust : Customers, store : Stores,
          name : Names, amount : Nat, status : OrderStatus, valid : BOOLEAN]

\* Of an entry: owe is remainingAmount, paid is amountPaid.
Entry == [id : Ids, sale : Sales \cup {NoSale}, owe : Int, paid : Nat,
          st : PaymentStatus]

ASSUME FulfilmentAssumption ==
    /\ NoSale \notin Sales
    /\ NoCustomer \notin Customers
    /\ Seed \notin Requests
    /\ CustomerOf \in [Sales -> Customers \cup {NoCustomer}]
    /\ StoreOf \in [Sales -> Stores]
    /\ NameOf \in [Customers -> Names]
    /\ AmountOf \in [Sales -> Nat]
    /\ SeedStatus \in [Sales -> SaleStatus]
    /\ SeedOrders \subseteq Order
    /\ SeedEntries \subseteq Entry
    /\ \A row \in SeedOrders \cup SeedEntries : row.id[1] = Seed
    /\ \A o \in SeedOrders : o.sale # NoSale => o.cust = CustomerOf[o.sale]
    /\ Targets \subseteq SaleStatus
    /\ DriverTypes \subseteq {"COMPANY", "THIRD_PARTY"}
    /\ OrderMarks \subseteq OrderStatus
    /\ OrderAmounts \subseteq Nat
    /\ OnePerSale \in BOOLEAN

VARIABLES
    sales,      \* the sales that exist
    status,     \* Sales.status
    assigned,   \* the sales with an assignedDriverId
    orders,     \* the rows of OrderProcessing
    entries,    \* the rows of BalanceSheet
    pc,         \* what each request awaits
    call,       \* what it asks for
    found       \* the entry a delivery read

db == <<sales, status, assigned, orders, entries>>
vars == <<db, pc, call, found>>

Ops == {"none", "change", "assign", "delete", "update", "approve", "reject", "cancel"}

\* of are the sales a call writes; linked tells whether the order it read had a
\* sale, sets which columns of it an update sends.
Calls == [op : Ops, of : SUBSET Sales, to : SaleStatus, driver : {"COMPANY", "THIRD_PARTY"},
          order : Ids \cup {NoSale}, linked : BOOLEAN, sets : SUBSET {"status", "amount"},
          mark : OrderStatus, amount : Nat]

NoCall == [op |-> "none", of |-> {}, to |-> "PENDING", driver |-> "COMPANY",
           order |-> NoSale, linked |-> FALSE, sets |-> {}, mark |-> "PICKED", amount |-> 0]

InFlight(r) == pc[r] \notin {"idle", "ok", "refused", "cut"}

EntriesOf(s) == {e \in entries : e.sale = s}
OrdersOf(s) == {o \in orders : o.sale = s}

Init ==
    /\ sales = Sales
    /\ status = SeedStatus
    /\ assigned = {}
    /\ orders = SeedOrders
    /\ entries = SeedEntries
    /\ pc = [r \in Requests |-> "idle"]
    /\ call = [r \in Requests |-> NoCall]
    /\ found = [r \in Requests |-> {}]

Goto(r, to) == pc' = [pc EXCEPT ![r] = to]

\* A request is received, and what it is about is found.
Begin(r, c) ==
    /\ pc[r] = "idle"
    /\ c.of \subseteq sales
    /\ OnePerSale => \A q \in Requests : InFlight(q) => call[q].of \cap c.of = {}
    /\ call' = [call EXCEPT ![r] = c]

\* The call throws; what was committed before stays.
Refuse(r) ==
    /\ Goto(r, "refused")
    /\ UNCHANGED <<db, call, found>>

\* Its transaction expires, or the process dies.
Cut(r) ==
    /\ InFlight(r)
    /\ Goto(r, "cut")
    /\ UNCHANGED <<db, call, found>>

NewOrder(r, s, st) ==
    [id |-> <<r, s>>, sale |-> s, cust |-> CustomerOf[s], store |-> StoreOf[s],
     name |-> NameOf[CustomerOf[s]], amount |-> AmountOf[s], status |-> st, valid |-> FALSE]

----------------------------------------------------------------------------
(* PATCH /sales/:id/status *)

\* Mutant: a delivery is not billed.
AfterValidationUnbilled(to) == IF to = "SHIPPED" THEN "order" ELSE "commit"

AfterValidation(to) ==
    CASE to = "SHIPPED"   -> "order"
      [] to = "DELIVERED" -> "entry"
      [] OTHER            -> "commit"

\* Mutant: the table of transitions is not looked at.
BeginAnyChange(r, s, to, d) ==
    /\ Begin(r, [NoCall EXCEPT !.op = "change", !.of = {s}, !.to = to, !.driver = d])
    /\ Goto(r, AfterValidation(to))
    /\ UNCHANGED <<db, found>>

\* The sale is read and the transition validated, once.
BeginChange(r, s, to, d) ==
    /\ to \in StatusTransitions[status[s]]
    /\ Begin(r, [NoCall EXCEPT !.op = "change", !.of = {s}, !.to = to, !.driver = d])
    /\ Goto(r, AfterValidation(to))
    /\ UNCHANGED <<db, found>>

SaleOf(r) == CHOOSE s \in Sales : call[r].of = {s}

\* Mutant: any order of its customer counts as the sale's.
SameCustomer(o, s) == o.sale = s \/ o.cust = CustomerOf[s]

\* It is of the customer of s, in its store and under the same name.
LooksLike(o, s) ==
    o.cust = CustomerOf[s] /\ o.store = StoreOf[s] /\ o.name = NameOf[CustomerOf[s]]

\* The order of the sale, or one that looks like it, of the same amount.
SameOrder(o, s) == o.sale = s \/ (LooksLike(o, s) /\ o.amount = AmountOf[s])

FindOrder(r) ==
    /\ pc[r] = "order"
    /\ CustomerOf[SaleOf(r)] # NoCustomer
    /\ Goto(r, IF \E o \in orders : SameOrder(o, SaleOf(r)) THEN "ship" ELSE "create")
    /\ UNCHANGED <<db, call, found>>

CreateOrder(r) ==
    /\ pc[r] = "create"
    /\ SaleOf(r) \in sales
    /\ orders' = orders \cup {NewOrder(r, SaleOf(r), "SHIPPED")}
    /\ Goto(r, "ship")
    /\ UNCHANGED <<sales, status, assigned, entries, call, found>>

\* A sale over the counter has no customer to look for; a deleted one cannot be
\* referred to.
ShipThrows(r) ==
    /\ \/ pc[r] = "order" /\ CustomerOf[SaleOf(r)] = NoCustomer
       \/ pc[r] = "create" /\ SaleOf(r) \notin sales
    /\ Refuse(r)

\* Every entry of the sale owes its amount from now on.
ShipEntries(r) ==
    /\ pc[r] = "ship"
    /\ entries' = {IF e.sale = SaleOf(r) THEN [e EXCEPT !.owe = AmountOf[SaleOf(r)]] ELSE e
                   : e \in entries}
    /\ Goto(r, "commit")
    /\ UNCHANGED <<sales, status, assigned, orders, call, found>>

\* Some entry of the sale, if there is one.
FindEntry(r) ==
    /\ pc[r] = "entry"
    /\ \/ EntriesOf(SaleOf(r)) = {} /\ found' = [found EXCEPT ![r] = {}]
       \/ \E e \in EntriesOf(SaleOf(r)) : found' = [found EXCEPT ![r] = {e}]
    /\ Goto(r, "bill")
    /\ UNCHANGED <<db, call>>

\* What an entry owes on delivery, from its columns as they were read.
OwedOnDelivery(e, s) == IF e.st = "PAID" THEN 0 ELSE AmountOf[s] - e.paid

UpdateEntry(r) ==
    /\ pc[r] = "bill"
    /\ \E f \in found[r] :
        /\ \E e \in entries : e.id = f.id
        /\ entries' = {IF e.id = f.id THEN [e EXCEPT !.owe = OwedOnDelivery(f, SaleOf(r))]
                       ELSE e : e \in entries}
    /\ Goto(r, "commit")
    /\ UNCHANGED <<sales, status, assigned, orders, call, found>>

\* Mutant: a delivery always writes an entry of its own.
CreateAnotherEntry(r) ==
    LET s == SaleOf(r) IN
    /\ pc[r] = "bill"
    /\ s \in sales
    /\ CustomerOf[s] # NoCustomer
    /\ entries' = entries \cup {[id |-> <<r, s>>, sale |-> s, owe |-> AmountOf[s],
                                 paid |-> 0, st |-> "UNPAID"]}
    /\ Goto(r, "commit")
    /\ UNCHANGED <<sales, status, assigned, orders, call, found>>

CreateEntry(r) ==
    LET s == SaleOf(r) IN
    /\ pc[r] = "bill"
    /\ found[r] = {}
    /\ s \in sales
    /\ CustomerOf[s] # NoCustomer
    /\ entries' = entries \cup {[id |-> <<r, s>>, sale |-> s, owe |-> AmountOf[s],
                                 paid |-> 0, st |-> "UNPAID"]}
    /\ Goto(r, "commit")
    /\ UNCHANGED <<sales, status, assigned, orders, call, found>>

\* The entry is gone, or cannot be written for want of a sale or a customer.
BillThrows(r) ==
    /\ pc[r] = "bill"
    /\ IF found[r] = {}
       THEN SaleOf(r) \notin sales \/ CustomerOf[SaleOf(r)] = NoCustomer
       ELSE \A f \in found[r] : \A e \in entries : e.id # f.id
    /\ Refuse(r)

\* The transaction writes the status that was asked for, whatever it is by now.
CommitStatus(r) ==
    /\ pc[r] = "commit"
    /\ SaleOf(r) \in sales
    /\ status' = [status EXCEPT ![SaleOf(r)] = call[r].to]
    /\ Goto(r, "ok")
    /\ UNCHANGED <<sales, assigned, orders, entries, call, found>>

CommitThrows(r) ==
    /\ pc[r] = "commit"
    /\ SaleOf(r) \notin sales
    /\ Refuse(r)

----------------------------------------------------------------------------
(* POST /sales/assign-driver *)

Assignable == {"PENDING", "CONFIRMED", "PICKED", "PACKED"}

\* The first statement of the transaction reads the sales.
BeginAssign(r, S, d) ==
    /\ \A s \in S : s \notin assigned /\ status[s] \in Assignable
    /\ Begin(r, [NoCall EXCEPT !.op = "assign", !.of = S, !.driver = d])
    /\ Goto(r, "assign")
    /\ UNCHANGED <<db, found>>

\* Only a driver of the company has an id to assign.
CommitAssign(r) ==
    /\ pc[r] = "assign"
    /\ call[r].of \subseteq sales
    /\ \A s \in call[r].of : CustomerOf[s] # NoCustomer
    /\ assigned' = IF call[r].driver = "COMPANY" THEN assigned \cup call[r].of
                   ELSE assigned \ call[r].of
    /\ orders' = orders \cup {NewOrder(r, s, "PICKED") : s \in call[r].of}
    /\ Goto(r, "ok")
    /\ UNCHANGED <<sales, status, entries, call, found>>

AssignThrows(r) ==
    /\ pc[r] = "assign"
    /\ \E s \in call[r].of : s \notin sales \/ CustomerOf[s] = NoCustomer
    /\ Refuse(r)

----------------------------------------------------------------------------
(* PATCH /sales/order-processing/:id, .../:id/validate and /sales/cancel-order/:id *)

\* The order is read; one of a cancelled sale cannot be cancelled.
BeginEdit(r, o, op, sets, mark, amount) ==
    /\ op = "cancel" => ~ (o.sale \in Sales /\ status[o.sale] = "CANCELLED")
    /\ Begin(r, [NoCall EXCEPT !.op = op, !.order = o.id, !.linked = o.sale # NoSale,
                               !.sets = sets, !.mark = mark, !.amount = amount])
    /\ Goto(r, "edit")
    /\ UNCHANGED <<db, found>>

\* Each column is optional in an update.
Updated(o, c) ==
    [o EXCEPT !.status = IF "status" \in c.sets THEN c.mark ELSE @,
              !.amount = IF "amount" \in c.sets THEN c.amount ELSE @]

\* Mutant: a status the schema does not have.
EditedRejected(o, c) ==
    CASE c.op = "update"  -> Updated(o, c)
      [] c.op = "approve" -> [o EXCEPT !.status = "VALIDATED", !.valid = TRUE]
      [] c.op = "reject"  -> [o EXCEPT !.status = "REJECTED", !.valid = FALSE]
      [] c.op = "cancel"  -> [o EXCEPT !.status = "CANCELLED"]

Edited(o, c) ==
    CASE c.op = "update"  -> Updated(o, c)
      [] c.op = "approve" -> [o EXCEPT !.status = "VALIDATED", !.valid = TRUE]
      [] c.op = "reject"  -> [o EXCEPT !.status = "CANCELLED", !.valid = FALSE]
      [] c.op = "cancel"  -> [o EXCEPT !.status = "CANCELLED"]

\* Approving an order books its payment on the SALE entry of its sale.  No entry
\* is of this type, so that the order of a sale is never approved.
Unbookable(c) == c.op = "approve" /\ c.linked

EditOrder(r) ==
    /\ pc[r] = "edit"
    /\ ~ Unbookable(call[r])
    /\ orders' = {IF o.id = call[r].order THEN Edited(o, call[r]) ELSE o : o \in orders}
    /\ Goto(r, "ok")
    /\ UNCHANGED <<sales, status, assigned, entries, call, found>>

EditThrows(r) ==
    /\ pc[r] = "edit"
    /\ Unbookable(call[r])
    /\ Refuse(r)

----------------------------------------------------------------------------
(* DELETE /sales/:id *)

BeginDelete(r, s) ==
    /\ Begin(r, [NoCall EXCEPT !.op = "delete", !.of = {s}])
    /\ Goto(r, "erase")
    /\ UNCHANGED <<db, found>>

\* The entries go through the base client, ahead of the transaction.
DeleteEntries(r) ==
    /\ pc[r] = "erase"
    /\ entries' = entries \ EntriesOf(SaleOf(r))
    /\ Goto(r, "remove")
    /\ UNCHANGED <<sales, status, assigned, orders, call, found>>

Unlinked(row, s) == IF row.sale = s THEN [row EXCEPT !.sale = NoSale] ELSE row

\* Orders, and entries written meanwhile, outlive their sale.
RemoveSale(r) ==
    LET s == SaleOf(r) IN
    /\ pc[r] = "remove"
    /\ s \in sales
    /\ sales' = sales \ {s}
    /\ assigned' = assigned \ {s}
    /\ orders' = {Unlinked(o, s) : o \in orders}
    /\ entries' = {Unlinked(e, s) : e \in entries}
    /\ Goto(r, "ok")
    /\ UNCHANGED <<status, call, found>>

RemoveThrows(r) ==
    /\ pc[r] = "remove"
    /\ SaleOf(r) \notin sales
    /\ Refuse(r)

----------------------------------------------------------------------------
(* The specification *)

Step(r) ==
    \/ FindOrder(r) \/ CreateOrder(r) \/ ShipThrows(r) \/ ShipEntries(r)
    \/ FindEntry(r) \/ UpdateEntry(r) \/ CreateEntry(r) \/ BillThrows(r)
    \/ CommitStatus(r) \/ CommitThrows(r)
    \/ CommitAssign(r) \/ AssignThrows(r)
    \/ EditOrder(r) \/ EditThrows(r)
    \/ DeleteEntries(r) \/ RemoveSale(r) \/ RemoveThrows(r)

Receive(r) ==
    /\ pc[r] = "idle"
    /\ \/ \E s \in Sales, to \in Targets, d \in DriverTypes : BeginChange(r, s, to, d)
       \/ \E S \in (SUBSET Sales) \ {{}}, d \in DriverTypes : BeginAssign(r, S, d)
       \/ \E o \in orders :
            \/ \E sets \in SUBSET {"status", "amount"}, mark \in OrderMarks, a \in OrderAmounts :
                 BeginEdit(r, o, "update", sets, mark, a)
            \/ \E op \in {"approve", "reject", "cancel"} :
                 BeginEdit(r, o, op, {}, o.status, o.amount)
       \/ \E s \in Sales : BeginDelete(r, s)

Next == \E r \in Requests : Receive(r) \/ Step(r) \/ Cut(r)

Spec == Init /\ [][Next]_vars

----------------------------------------------------------------------------
(* Properties *)

TypeOK ==
    /\ sales \subseteq Sales
    /\ status \in [Sales -> SaleStatus]
    /\ assigned \subseteq Sales
    /\ orders \subseteq Order
    /\ entries \subseteq Entry
    /\ pc \in [Requests -> {"idle", "order", "create", "ship", "entry", "bill", "commit",
                            "assign", "edit", "erase", "remove", "ok", "refused", "cut"}]
    /\ call \in [Requests -> Calls]
    /\ found \in [Requests -> SUBSET Entry]

\* The sales whose customer has an order.  Amounts of orders change, so that the
\* order a sale was shipped with need not match it any more.
Ordered == {s \in Sales : \E o \in orders : o.cust = CustomerOf[s]}
Billed == {s \in Sales : EntriesOf(s) # {}}

LC == INSTANCE SaleLifecycle WITH ordered <- Ordered, billed <- Billed

\* When no sale is written twice at a time, the scattered steps of a status
\* change, the crashes among them and the retries amount to the lifecycle status
\* management promises.
Lifecycle == LC!Spec

Changed(r, to) == pc[r] = "ok" /\ call[r].op = "change" /\ call[r].to = to

\* Order o was written, or updated, with amount a.
HadAmount(o, a) ==
    \/ o.id[1] # Seed /\ AmountOf[o.id[2]] = a
    \/ \E p \in SeedOrders : p.id = o.id /\ p.amount = a
    \/ \E q \in Requests :
         call[q].op = "update" /\ call[q].order = o.id /\ "amount" \in call[q].sets
         /\ call[q].amount = a

\* Order o could at some time be taken for the order of s.
Mistakable(o, s) == LooksLike(o, s) /\ HadAmount(o, AmountOf[s])

HasOrder(s) == OrdersOf(s) # {} \/ \E o \in orders : Mistakable(o, s)

\* However requests overlap, and whatever dies on the way, a sale that was shipped
\* and still exists has an order of its own: one with its saleId.  It may do without
\* when its customer has another order in the store, under the same name, that had
\* the amount of the sale: the first of two like sales to be shipped, or one whose
\* driver reported that amount.
ShippedHasOrder ==
    \A r \in Requests :
        Changed(r, "SHIPPED") => \A s \in call[r].of \cap sales : HasOrder(s)

\* A deletion of s was received.
Doomed(s) == \E q \in Requests : call[q].op = "delete" /\ s \in call[q].of

\* However requests overlap, a sale that was delivered is in the books, unless
\* its deletion began.
DeliveredIsBilled ==
    \A r \in Requests :
        Changed(r, "DELIVERED") => \A s \in call[r].of : s \in Billed \/ Doomed(s)

\* A change of status that was interrupted and asked for again does not bill a
\* sale a second time.  It orders it again only when it was shipping that was
\* interrupted.
WrittenOnce ==
    /\ \A s \in Sales : Cardinality(EntriesOf(s)) <= 1
    /\ \A s \in sales :
         Cardinality(OrdersOf(s)) > 1 =>
             \E r \in Requests : pc[r] = "cut" /\ call[r].to = "SHIPPED" /\ call[r].of = {s}

----------------------------------------------------------------------------
(* The inductive invariant *)

Shipping == {"order", "create", "ship"}
Delivering == {"entry", "bill"}
Changing == Shipping \cup Delivering \cup {"commit"}

\* The kind of call a request at each of its steps carries out.
CallsAtSteps ==
    \A r \in Requests :
        /\ pc[r] = "idle" => call[r].op = "none"
        /\ pc[r] \in Changing => call[r].op = "change" /\ \E s \in Sales : call[r].of = {s}
        /\ pc[r] \in Shipping => call[r].to = "SHIPPED"
        /\ pc[r] \in Delivering => call[r].to = "DELIVERED"
        /\ pc[r] = "create" => \A s \in call[r].of : CustomerOf[s] # NoCustomer
        /\ pc[r] \in {"erase", "remove"} =>
             call[r].op = "delete" /\ \E s \in Sales : call[r].of = {s}
        /\ pc[r] = "assign" => call[r].op = "assign"
        /\ pc[r] = "edit" => call[r].op \in {"update", "approve", "reject", "cancel"}

OrdersOfCustomers ==
    \A o \in orders : o.sale # NoSale => o.cust = CustomerOf[o.sale]

\* An order has an amount it was given.
AmountsAreGiven == \A o \in orders : HadAmount(o, o.amount)

\* r has looked for the order of the sale it ships, and written it if there was none.
HasShipped(r) ==
    /\ call[r].op = "change"
    /\ call[r].to = "SHIPPED"
    /\ pc[r] \in {"ship", "commit", "ok"}

\* A change to SHIPPED has an order, from the step that looks for one.
ShippingHasOrder ==
    \A r \in Requests :
        HasShipped(r) => /\ call[r].of \subseteq Ordered
                         /\ \A s \in call[r].of \cap sales : HasOrder(s)

\* r has found or written the entry it delivers.
HasBilled(r) ==
    /\ call[r].op = "change"
    /\ call[r].to = "DELIVERED"
    /\ \/ pc[r] \in {"commit", "ok"}
       \/ pc[r] = "bill" /\ found[r] # {}

DeliveringIsBilled ==
    \A r \in Requests :
        HasBilled(r) => \A s \in call[r].of : s \in Billed \/ Doomed(s)

IndInv ==
    /\ TypeOK
    /\ CallsAtSteps
    /\ OrdersOfCustomers
    /\ AmountsAreGiven
    /\ ShippingHasOrder
    /\ DeliveringIsBilled

\* What holds besides when no sale is written twice at a time.
OneWriter ==
    \A r, q \in Requests :
        r # q /\ InFlight(r) /\ InFlight(q) => call[r].of \cap call[q].of = {}

WrittenSalesExist == \A r \in Requests : InFlight(r) => call[r].of \subseteq sales

StillValid ==
    \A r \in Requests :
        pc[r] \in Changing =>
            \A s \in call[r].of : call[r].to \in StatusTransitions[status[s]]

StillBilled ==
    \A r \in Requests : InFlight(r) /\ HasBilled(r) => call[r].of \subseteq Billed

SerialInv == OneWriter /\ WrittenSalesExist /\ StillValid /\ StillBilled

\* Statuses from which no table of transitions leads back to one whose sale can be
\* assigned.
Past == {"SHIPPED", "DELIVERED", "COMPLETED", "CANCELLED", "REFUNDED", "PARTIALLY_RETURNED"}

\* What the rows are like at the start: one of each kind for a sale at most, and an
\* order only for a sale that is past assignment.
SeedsOnce ==
    /\ \A e, f \in SeedEntries : e.sale # NoSale /\ e.sale = f.sale => e = f
    /\ \A o, p \in SeedOrders : o.sale # NoSale /\ o.sale = p.sale => o = p
    /\ \A o \in SeedOrders : o.sale # NoSale => SeedStatus[o.sale] \in Past

\* A change of s to SHIPPED was cut off.
Interrupted(s) ==
    \E r \in Requests : pc[r] = "cut" /\ call[r].to = "SHIPPED" /\ call[r].of = {s}

OneEntryEach ==
    \A e, f \in entries : e.sale # NoSale /\ e.sale = f.sale => e = f

NoEntryToBill ==
    \A r \in Requests :
        pc[r] = "bill" /\ found[r] = {} => \A s \in call[r].of : EntriesOf(s) = {}

OneOrderEach ==
    \A s \in sales : ~ Interrupted(s) => \A o, p \in OrdersOf(s) : o = p

\* A sale that is ordered is assigned, past assignment, or on its way to be.
OrderedIsPast ==
    \A s \in sales \ assigned :
        OrdersOf(s) # {} /\ ~ Interrupted(s) =>
            \/ status[s] \in Past
            \/ \E r \in Requests :
                 pc[r] \in {"ship", "commit"} /\ call[r].to = "SHIPPED" /\ call[r].of = {s}

NoOrderToCreate ==
    \A r \in Requests : pc[r] = "create" => \A s \in call[r].of : OrdersOf(s) = {}

StillAssignable ==
    \A r \in Requests :
        pc[r] = "assign" =>
            /\ call[r].driver \in DriverTypes
            /\ \A s \in call[r].of : s \notin assigned /\ status[s] \in Assignable

\* What makes that rows are written once.
OnceInv ==
    /\ OneEntryEach
    /\ NoEntryToBill
    /\ OneOrderEach
    /\ OrderedIsPast
    /\ NoOrderToCreate
    /\ StillAssignable

==============================================================================
