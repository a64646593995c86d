-------------------------- MODULE Fulfilment_proofs --------------------------
(* Proofs about Fulfilment, for every set of sales, customers and requests. *)
EXTENDS Fulfilment, FiniteSetTheorems, TLAPS

USE FulfilmentAssumption

\* The sale of a call on one sale.
LEMMA SaleOfCall ==
    ASSUME NEW r \in Requests, NEW s \in Sales, call[r].of = {s}
    PROVE  SaleOf(r) = s
<1>1. \A t \in Sales : call[r].of = {t} => t = s OBVIOUS
<1> QED BY <1>1 DEF SaleOf

\* A request that changes or deletes a sale has one, and its call names it.
LEMMA SaleOfStep ==
    ASSUME CallsAtSteps, NEW r \in Requests, pc[r] \in Changing \cup {"erase", "remove"}
    PROVE  SaleOf(r) \in Sales /\ call[r].of = {SaleOf(r)}
<1>1. PICK s \in Sales : call[r].of = {s} BY DEF CallsAtSteps
<1>2. SaleOf(r) = s BY <1>1, SaleOfCall
<1> QED BY <1>1, <1>2

----------------------------------------------------------------------------
(* Rows stay rows, and of their sale and customer *)

LEMMA EntryOwes ==
    ASSUME NEW e \in Entry, NEW x \in Int
    PROVE  /\ [e EXCEPT !.owe = x] \in Entry
           /\ [e EXCEPT !.owe = x].sale = e.sale
  BY DEF Entry

LEMMA OwedTyped ==
    ASSUME NEW e \in Entry, NEW s \in Sales
    PROVE  OwedOnDelivery(e, s) \in Int
  BY DEF OwedOnDelivery, Entry

LEMMA NewOrderTyped ==
    ASSUME NEW r \in Requests, NEW s \in Sales, CustomerOf[s] # NoCustomer,
           NEW st \in OrderStatus
    PROVE  /\ NewOrder(r, s, st) \in Order
           /\ NewOrder(r, s, st).sale = s
           /\ NewOrder(r, s, st).cust = CustomerOf[s]
           /\ NewOrder(r, s, st).id = <<r, s>>
           /\ NewOrder(r, s, st).amount = AmountOf[s]
  BY DEF NewOrder, Order, Ids

\* The columns of an order that are written once.
SameRow(o, p) ==
    p.id = o.id /\ p.cust = o.cust /\ p.store = o.store /\ p.name = o.name

LEMMA EditedTyped ==
    ASSUME NEW o \in Order, NEW c \in Calls, c.op \in {"update", "approve", "reject", "cancel"}
    PROVE  /\ Edited(o, c) \in Order
           /\ SameRow(o, Edited(o, c)) /\ Edited(o, c).sale = o.sale
           /\ \/ Edited(o, c).amount = o.amount
              \/ /\ c.op = "update" /\ "amount" \in c.sets
                 /\ Edited(o, c).amount = c.amount
<1>1. c.mark \in OrderStatus /\ c.amount \in Nat BY DEF Calls
<1> USE DEF SameRow
<1>2. CASE c.op = "update"
  <2>1. PICK x \in OrderStatus, n \in Nat :
          /\ x = IF "status" \in c.sets THEN c.mark ELSE o.status
          /\ n = IF "amount" \in c.sets THEN c.amount ELSE o.amount
    BY <1>1 DEF Order
  <2>2. Edited(o, c) = [o EXCEPT !.status = x, !.amount = n]
    BY <1>2, <2>1 DEF Edited, Updated
  <2> QED BY <1>2, <2>1, <2>2 DEF Order
<1>3. CASE c.op = "approve" BY <1>3 DEF Edited, Order, OrderStatus
<1>4. CASE c.op = "reject" BY <1>4 DEF Edited, Order, OrderStatus
<1>5. CASE c.op = "cancel" BY <1>5 DEF Edited, Order, OrderStatus
<1> QED BY <1>2, <1>3, <1>4, <1>5

LEMMA UnlinkedOrder ==
    ASSUME NEW o \in Order, NEW s \in Sales
    PROVE  /\ Unlinked(o, s) \in Order
           /\ SameRow(o, Unlinked(o, s)) /\ Unlinked(o, s).amount = o.amount
           /\ Unlinked(o, s).sale = IF o.sale = s THEN NoSale ELSE o.sale
  BY DEF Unlinked, Order, SameRow

LEMMA UnlinkedEntry ==
    ASSUME NEW e \in Entry, NEW s \in Sales
    PROVE  /\ Unlinked(e, s) \in Entry
           /\ Unlinked(e, s).sale = IF e.sale = s THEN NoSale ELSE e.sale
  BY DEF Unlinked, Entry

----------------------------------------------------------------------------
(* Requests at their steps *)

\* What Receive does, whichever kind of call it receives.
LEMMA ReceiveBegins ==
    ASSUME TypeOK, NEW r \in Requests, Receive(r)
    PROVE  \E c \in Calls, to \in {"order", "entry", "commit", "assign", "edit", "erase"} :
             /\ Begin(r, c)
             /\ Goto(r, to)
             /\ UNCHANGED <<db, found>>
             /\ to \in {"order", "entry", "commit"} =>
                  /\ c.op = "change"
                  /\ \E s \in Sales : c.of = {s} /\ c.to \in StatusTransitions[status[s]]
                  /\ to = AfterValidation(c.to)
             /\ to = "assign" => c.op = "assign"
             /\ to = "edit" => c.op \in {"update", "approve", "reject", "cancel"}
             /\ to = "erase" => c.op = "delete" /\ \E s \in Sales : c.of = {s}
<1>0. NoCall \in Calls BY DEF NoCall, Calls, Ops, SaleStatus, OrderStatus
<1>1. CASE \E s \in Sales, to \in Targets, d \in DriverTypes : BeginChange(r, s, to, d)
  <2>1. PICK s \in Sales, to \in Targets, d \in DriverTypes : BeginChange(r, s, to, d) BY <1>1
  <2> DEFINE c == [NoCall EXCEPT !.op = "change", !.of = {s}, !.to = to, !.driver = d]
  <2>2. c \in Calls /\ c.op = "change" /\ c.of = {s} /\ c.to = to
    BY <1>0 DEF NoCall, Calls, Ops
  <2>3. AfterValidation(to) \in {"order", "entry", "commit"} BY DEF AfterValidation
  <2>4. /\ Begin(r, c) /\ Goto(r, AfterValidation(to)) /\ UNCHANGED <<db, found>>
        /\ to \in StatusTransitions[status[s]]
    BY <2>1 DEF BeginChange
  <2> HIDE DEF c
  <2> QED BY <2>2, <2>3, <2>4
<1>2. CASE \E S \in (SUBSET Sales) \ {{}}, d \in DriverTypes : BeginAssign(r, S, d)
  <2>1. PICK S \in SUBSET Sales, d \in DriverTypes : BeginAssign(r, S, d) BY <1>2
  <2> DEFINE c == [NoCall EXCEPT !.op = "assign", !.of = S, !.driver = d]
  <2>2. c \in Calls /\ c.op = "assign" BY <1>0 DEF NoCall, Calls, Ops
  <2>3. Begin(r, c) /\ Goto(r, "assign") /\ UNCHANGED <<db, found>> BY <2>1 DEF BeginAssign
  <2> HIDE DEF c
  <2> QED BY <2>2, <2>3
<1>3. CASE \E o \in orders : \E op \in {"update", "approve", "reject", "cancel"} :
             \E sets \in SUBSET {"status", "amount"}, mark \in OrderStatus, a \in Nat :
               BeginEdit(r, o, op, sets, mark, a)
  <2>1. PICK o \in orders, op \in {"update", "approve", "reject", "cancel"},
             sets \in SUBSET {"status", "amount"}, mark \in OrderStatus, a \in Nat :
             BeginEdit(r, o, op, sets, mark, a)
    BY <1>3
  <2> DEFINE c == [NoCall EXCEPT !.op = op, !.order = o.id, !.linked = o.sale # NoSale,
                                 !.sets = sets, !.mark = mark, !.amount = a]
  <2>2. o.id \in Ids BY DEF TypeOK, Order
  <2>3. c \in Calls /\ c.op = op BY <1>0, <2>2 DEF NoCall, Calls, Ops
  <2>4. Begin(r, c) /\ Goto(r, "edit") /\ UNCHANGED <<db, found>> BY <2>1 DEF BeginEdit
  <2> HIDE DEF c
  <2> QED BY <2>3, <2>4
<1>4. CASE \E s \in Sales : BeginDelete(r, s)
  <2>1. PICK s \in Sales : BeginDelete(r, s) BY <1>4
  <2> DEFINE c == [NoCall EXCEPT !.op = "delete", !.of = {s}]
  <2>2. c \in Calls /\ c.op = "delete" /\ c.of = {s} BY <1>0 DEF NoCall, Calls, Ops
  <2>3. Begin(r, c) /\ Goto(r, "erase") /\ UNCHANGED <<db, found>> BY <2>1 DEF BeginDelete
  <2> HIDE DEF c
  <2> QED BY <2>2, <2>3
<1>5. ASSUME NEW o \in orders PROVE o.status \in OrderStatus /\ o.amount \in Nat
  BY DEF TypeOK, Order
<1>6. OrderMarks \subseteq OrderStatus /\ OrderAmounts \subseteq Nat OBVIOUS
<1>7. CASE \E o \in orders :
             \/ \E sets \in SUBSET {"status", "amount"}, mark \in OrderMarks, a \in OrderAmounts :
                  BeginEdit(r, o, "update", sets, mark, a)
             \/ \E op \in {"approve", "reject", "cancel"} :
                   BeginEdit(r, o, op, {}, o.status, o.amount)
  BY <1>3, <1>5, <1>6, <1>7
<1> QED BY <1>1, <1>2, <1>4, <1>7 DEF Receive

\* How the steps of a request follow one another.
Follows == {<<"order", "create">>, <<"order", "ship">>, <<"create", "ship">>,
            <<"ship", "commit">>, <<"entry", "bill">>, <<"bill", "commit">>,
            <<"erase", "remove">>}

LEMMA StepMoves ==
    ASSUME NEW r \in Requests, Step(r) \/ Cut(r)
    PROVE  /\ InFlight(r)
           /\ UNCHANGED call
           /\ \E to \in {"create", "ship", "bill", "commit", "remove", "ok", "refused", "cut"} :
                /\ Goto(r, to)
                /\ to \in {"ok", "refused", "cut"} \/ <<pc[r], to>> \in Follows
                /\ to = "create" => CustomerOf[SaleOf(r)] # NoCustomer
<1> USE DEF InFlight, Follows
<1>1. CASE FindOrder(r) \/ CreateOrder(r) \/ ShipThrows(r) \/ ShipEntries(r)
  BY <1>1 DEF FindOrder, CreateOrder, ShipThrows, ShipEntries, Refuse
<1>2. CASE FindEntry(r) \/ UpdateEntry(r) \/ CreateEntry(r) \/ BillThrows(r)
  BY <1>2 DEF FindEntry, UpdateEntry, CreateEntry, BillThrows, Refuse
<1>3. CASE CommitStatus(r) \/ CommitThrows(r) \/ CommitAssign(r) \/ AssignThrows(r)
  BY <1>3 DEF CommitStatus, CommitThrows, CommitAssign, AssignThrows, Refuse
<1>4. CASE EditOrder(r) \/ EditThrows(r) \/ DeleteEntries(r) \/ RemoveSale(r)
           \/ RemoveThrows(r) \/ Cut(r)
  BY <1>4 DEF EditOrder, EditThrows, DeleteEntries, RemoveSale, RemoveThrows, Cut, Refuse
<1> QED BY <1>1, <1>2, <1>3, <1>4 DEF Step

LEMMA CallsStep ==
    ASSUME TypeOK, CallsAtSteps, [Next]_vars
    PROVE  CallsAtSteps'
<1> USE DEF CallsAtSteps, Changing, Shipping, Delivering
<1>1. CASE UNCHANGED vars BY <1>1 DEF vars
<1>2. ASSUME NEW r \in Requests, Receive(r)
      PROVE  CallsAtSteps'
  <2>1. PICK c \in Calls, to \in {"order", "entry", "commit", "assign", "edit", "erase"} :
          /\ Begin(r, c)
          /\ Goto(r, to)
          /\ to \in {"order", "entry", "commit"} =>
               /\ c.op = "change"
               /\ \E s \in Sales : c.of = {s}
               /\ to = AfterValidation(c.to)
          /\ to = "assign" => c.op = "assign"
          /\ to = "edit" => c.op \in {"update", "approve", "reject", "cancel"}
          /\ to = "erase" => c.op = "delete" /\ \E s \in Sales : c.of = {s}
    BY ZenonT(120), <1>2, ReceiveBegins
  <2>2. call' = [call EXCEPT ![r] = c] /\ pc' = [pc EXCEPT ![r] = to] BY <2>1 DEF Begin, Goto
  <2>3. (to = "order" => c.to = "SHIPPED") /\ (to = "entry" => c.to = "DELIVERED")
    BY <2>1 DEF AfterValidation
  <2>4. call'[r] = c /\ pc'[r] = to BY <2>2 DEF TypeOK
  <2>5. ASSUME NEW q \in Requests, q # r PROVE call'[q] = call[q] /\ pc'[q] = pc[q]
    BY <2>2, <2>5 DEF TypeOK
  <2> QED BY <2>1, <2>3, <2>4, <2>5
<1>3. ASSUME NEW r \in Requests, Step(r) \/ Cut(r)
      PROVE  CallsAtSteps'
  <2>1. PICK to \in {"create", "ship", "bill", "commit", "remove", "ok", "refused", "cut"} :
          /\ Goto(r, to)
          /\ to \in {"ok", "refused", "cut"} \/ <<pc[r], to>> \in Follows
          /\ to = "create" => CustomerOf[SaleOf(r)] # NoCustomer
    BY <1>3, StepMoves
  <2>2. call' = call /\ pc' = [pc EXCEPT ![r] = to] BY <1>3, <2>1, StepMoves DEF Goto
  <2>3. to = "create" => \A s \in call[r].of : CustomerOf[s] # NoCustomer
    BY <2>1, SaleOfStep DEF Follows
  <2>4. pc'[r] = to BY <2>2 DEF TypeOK
  <2>5. ASSUME NEW q \in Requests, q # r PROVE pc'[q] = pc[q] BY <2>2, <2>5 DEF TypeOK
  <2> QED BY <2>1, <2>2, <2>3, <2>4, <2>5 DEF Follows
<1> QED BY <1>1, <1>2, <1>3 DEF Next

----------------------------------------------------------------------------
(* Types *)

LEMMA InitTypeOK == Init => TypeOK
<1>1. NoCall \in Calls BY DEF NoCall, Calls, Ops, SaleStatus, OrderStatus
<1> QED BY <1>1 DEF Init, TypeOK

LEMMA CallTypes ==
    ASSUME TypeOK, [Next]_vars
    PROVE  /\ pc' \in [Requests -> {"idle", "order", "create", "ship", "entry", "bill",
                                    "commit", "assign", "edit", "erase", "remove", "ok",
                                    "refused", "cut"}]
           /\ call' \in [Requests -> Calls]
<1>1. CASE UNCHANGED vars BY <1>1 DEF vars, TypeOK
<1>2. ASSUME NEW r \in Requests, Receive(r)
      PROVE  \E c \in Calls, to \in {"order", "entry", "commit", "assign", "edit", "erase"} :
               call' = [call EXCEPT ![r] = c] /\ pc' = [pc EXCEPT ![r] = to]
  BY <1>2, ReceiveBegins DEF Begin, Goto
<1>3. ASSUME NEW r \in Requests, Step(r) \/ Cut(r)
      PROVE  /\ call' = call
             /\ \E to \in {"create", "ship", "bill", "commit", "remove", "ok", "refused", "cut"} :
                  pc' = [pc EXCEPT ![r] = to]
  BY <1>3, StepMoves DEF Goto
<1> QED BY <1>1, <1>2, <1>3 DEF Next, TypeOK

\* The tables.  Rows that are written are rows, rows that are changed stay rows.
LEMMA TableTypes ==
    ASSUME TypeOK, CallsAtSteps, NEW r \in Requests, Step(r)
    PROVE  /\ sales' \subseteq Sales
           /\ status' \in [Sales -> SaleStatus]
           /\ assigned' \subseteq Sales
           /\ orders' \subseteq Order
           /\ entries' \subseteq Entry
           /\ found' \in [Requests -> SUBSET Entry]
<1> DEFINE s == SaleOf(r)
<1> USE DEF TypeOK, Changing, Shipping, Delivering
<1>1. call[r] \in Calls OBVIOUS
<1>2. CASE FindOrder(r) \/ ShipThrows(r) \/ BillThrows(r) \/ CommitThrows(r)
           \/ AssignThrows(r) \/ EditThrows(r) \/ RemoveThrows(r)
  BY <1>2 DEF FindOrder, ShipThrows, BillThrows, CommitThrows, AssignThrows, EditThrows,
              RemoveThrows, Refuse, db
<1>3. CASE CreateOrder(r)
  <2>1. s \in Sales /\ CustomerOf[s] # NoCustomer
    BY <1>3, SaleOfStep DEF CreateOrder, CallsAtSteps
  <2>2. NewOrder(r, s, "SHIPPED") \in Order BY <2>1, NewOrderTyped DEF OrderStatus
  <2> QED BY <1>3, <2>2 DEF CreateOrder
<1>4. CASE ShipEntries(r)
  <2>1. s \in Sales BY <1>4, SaleOfStep DEF ShipEntries
  <2>2. AmountOf[s] \in Int BY <2>1
  <2> QED BY <1>4, <2>2, EntryOwes DEF ShipEntries
<1>5. CASE FindEntry(r) BY <1>5 DEF FindEntry, EntriesOf, db
<1>6. CASE UpdateEntry(r)
  <2>1. s \in Sales BY <1>6, SaleOfStep DEF UpdateEntry
  <2>2. PICK f \in found[r] :
          entries' = {IF e.id = f.id THEN [e EXCEPT !.owe = OwedOnDelivery(f, s)] ELSE e
                      : e \in entries}
    BY <1>6 DEF UpdateEntry
  <2>3. OwedOnDelivery(f, s) \in Int BY <2>1, OwedTyped
  <2>4. entries' \subseteq Entry BY <2>2, <2>3, EntryOwes
  <2> QED BY <1>6, <2>4 DEF UpdateEntry
<1>7. CASE CreateEntry(r)
  <2>1. s \in Sales BY <1>7, SaleOfStep DEF CreateEntry
  <2>2. [id |-> <<r, s>>, sale |-> s, owe |-> AmountOf[s], paid |-> 0, st |-> "UNPAID"]
           \in Entry
    BY <2>1 DEF Entry, Ids, PaymentStatus
  <2> QED BY <1>7, <2>2 DEF CreateEntry
<1>8. CASE CommitStatus(r) BY <1>1, <1>8 DEF CommitStatus, Calls
<1>9. CASE CommitAssign(r)
  <2>1. \A t \in call[r].of : NewOrder(r, t, "PICKED") \in Order
    BY <1>1, <1>9, NewOrderTyped DEF CommitAssign, Calls, OrderStatus
  <2> QED BY <1>1, <1>9, <2>1 DEF CommitAssign, Calls
<1>10. CASE EditOrder(r)
  <2>1. call[r].op \in {"update", "approve", "reject", "cancel"}
    BY <1>10 DEF EditOrder, CallsAtSteps
  <2>2. \A o \in orders : Edited(o, call[r]) \in Order BY <1>1, <2>1, EditedTyped
  <2> QED BY <1>10, <2>2 DEF EditOrder
<1>11. CASE DeleteEntries(r) BY <1>11 DEF DeleteEntries
<1>12. CASE RemoveSale(r)
  <2>1. s \in Sales BY <1>12, SaleOfStep DEF RemoveSale
  <2>2. /\ \A o \in orders : Unlinked(o, s) \in Order
        /\ \A e \in entries : Unlinked(e, s) \in Entry
    BY <2>1, UnlinkedOrder, UnlinkedEntry
  <2> QED BY <1>12, <2>2 DEF RemoveSale
<1> QED BY <1>2, <1>3, <1>4, <1>5, <1>6, <1>7, <1>8, <1>9, <1>10, <1>11, <1>12 DEF Step

LEMMA TypeStep ==
    ASSUME TypeOK, CallsAtSteps, [Next]_vars
    PROVE  TypeOK'
<1>1. CASE UNCHANGED vars BY <1>1 DEF vars, db, TypeOK
<1>2. ASSUME NEW r \in Requests, Receive(r) \/ Cut(r)
      PROVE  UNCHANGED <<db, found>>
  BY <1>2, ReceiveBegins DEF Cut
<1>3. ASSUME UNCHANGED <<db, found>>
      PROVE  TypeOK'
  BY <1>3, CallTypes DEF db, TypeOK
<1>4. ASSUME NEW r \in Requests, Step(r)
      PROVE  TypeOK'
  BY <1>4, CallTypes, TableTypes DEF TypeOK
<1> QED BY <1>1, <1>2, <1>3, <1>4 DEF Next

----------------------------------------------------------------------------
(* The orders of customers *)

\* Order p is what became of order o, S being the sales that are left.
Became(o, p, S) == SameRow(o, p) /\ (p.sale = o.sale \/ (p.sale = NoSale /\ o.sale \notin S))

\* Order p was written with amount AmountOf of the sale it is for.
Fresh(r, p) ==
    /\ p.sale \in Sales /\ p.cust = CustomerOf[p.sale] /\ p.id = <<r, p.sale>>
    /\ p.amount = AmountOf[p.sale]

SetAmount(r, p) ==
    call[r].op = "update" /\ call[r].order = p.id /\ "amount" \in call[r].sets
    /\ p.amount = call[r].amount

\* Orders are added and changed, never lost.
LEMMA OrderRows ==
    ASSUME TypeOK, CallsAtSteps, NEW r \in Requests, Step(r)
    PROVE  /\ \A o \in orders : \E p \in orders' : Became(o, p, sales')
           /\ \A p \in orders' :
                \/ Fresh(r, p)
                \/ \E o \in orders : /\ Became(o, p, sales')
                                     /\ p.amount = o.amount \/ SetAmount(r, p)
<1> USE DEF TypeOK, Became
<1>1. CASE UNCHANGED orders BY <1>1 DEF SameRow
<1>2. CASE CreateOrder(r)
  <2>1. PICK s \in Sales : s = SaleOf(r) /\ CustomerOf[s] # NoCustomer
    BY <1>2, SaleOfStep DEF CreateOrder, CallsAtSteps, Changing, Shipping
  <2>2. Fresh(r, NewOrder(r, s, "SHIPPED")) BY <2>1, NewOrderTyped DEF OrderStatus, Fresh
  <2> QED BY <1>2, <2>1, <2>2 DEF CreateOrder, SameRow
<1>3. CASE CommitAssign(r)
  <2>1. \A s \in call[r].of : Fresh(r, NewOrder(r, s, "PICKED"))
    BY <1>3, NewOrderTyped DEF CommitAssign, Calls, OrderStatus, Fresh
  <2> QED BY <1>3, <2>1 DEF CommitAssign, SameRow
<1>4. CASE EditOrder(r)
  <2>0. call[r] \in Calls /\ call[r].op \in {"update", "approve", "reject", "cancel"}
    BY <1>4 DEF EditOrder, CallsAtSteps
  <2>1. ASSUME NEW o \in orders
        PROVE  LET p == IF o.id = call[r].order THEN Edited(o, call[r]) ELSE o IN
               Became(o, p, sales') /\ (p.amount = o.amount \/ SetAmount(r, p))
    <3>1. CASE o.id = call[r].order
      <4>1. PICK p : p = Edited(o, call[r]) OBVIOUS
      <4>2. SameRow(o, p) /\ p.sale = o.sale
        BY <2>0, <4>1, EditedTyped
      <4>3. p.amount = o.amount \/ (call[r].op = "update" /\ "amount" \in call[r].sets
                                      /\ p.amount = call[r].amount)
        BY <2>0, <4>1, EditedTyped
      <4> QED BY <3>1, <4>1, <4>2, <4>3 DEF SetAmount, SameRow
    <3>2. CASE o.id # call[r].order BY <3>2 DEF SameRow
    <3> QED BY <3>1, <3>2
  <2>2. orders' = {IF o.id = call[r].order THEN Edited(o, call[r]) ELSE o : o \in orders}
    BY <1>4 DEF EditOrder
  <2> HIDE DEF Became, TypeOK
  <2> QED BY <2>1, <2>2
<1>5. CASE RemoveSale(r)
  <2>1. SaleOf(r) \in Sales BY <1>5, SaleOfStep DEF RemoveSale
  <2>2. SaleOf(r) \notin sales' BY <1>5 DEF RemoveSale
  <2>3. \A o \in orders : LET p == Unlinked(o, SaleOf(r)) IN
          Became(o, p, sales') /\ p.amount = o.amount
    BY <2>1, <2>2, UnlinkedOrder
  <2>4. orders' = {Unlinked(o, SaleOf(r)) : o \in orders} BY <1>5 DEF RemoveSale
  <2> HIDE DEF Became
  <2> QED BY <2>3, <2>4
<1>6. \/ UNCHANGED orders
      \/ CreateOrder(r) \/ CommitAssign(r) \/ EditOrder(r) \/ RemoveSale(r)
  BY DEF Step, FindOrder, ShipThrows, ShipEntries, FindEntry, UpdateEntry, CreateEntry,
         BillThrows, CommitStatus, CommitThrows, AssignThrows, EditThrows, DeleteEntries,
         RemoveThrows, Refuse, db
<1> QED BY <1>1, <1>2, <1>3, <1>4, <1>5, <1>6

\* The amounts an order was given stay known.
LEMMA AmountsStay ==
    ASSUME TypeOK, CallsAtSteps, [Next]_vars, NEW o, NEW p, NEW a, p.id = o.id, HadAmount(o, a)
    PROVE  HadAmount(p, a)'
<1>1. \A q \in Requests : call[q].op = "update" => call'[q] = call[q]
  <2>1. CASE UNCHANGED vars BY <2>1 DEF vars
  <2>2. ASSUME NEW r \in Requests, Receive(r)
        PROVE  \A q \in Requests : call[q].op = "update" => call'[q] = call[q]
    BY <2>2, ReceiveBegins DEF Begin, TypeOK, CallsAtSteps
  <2>3. ASSUME NEW r \in Requests, Step(r) \/ Cut(r)
        PROVE  call' = call
    BY <2>3, StepMoves
  <2> QED BY <2>1, <2>2, <2>3 DEF Next
<1> QED BY <1>1 DEF HadAmount

\* What sales of customers have of orders they keep.
LEMMA OrdersStay ==
    ASSUME TypeOK, CallsAtSteps, [Next]_vars, NEW S,
           \A o \in orders : \E p \in orders' : Became(o, p, S)
    PROVE  /\ Ordered \subseteq Ordered'
           /\ \A s \in Sales \cap S : HasOrder(s) => HasOrder(s)'
<1>1. Ordered \subseteq Ordered' BY DEF Ordered, Became, SameRow
<1>2. ASSUME NEW s \in Sales \cap S, NEW o \in orders, Mistakable(o, s) \/ o.sale = s
      PROVE  HasOrder(s)'
  <2>1. PICK p \in orders' : Became(o, p, S) OBVIOUS
  <2>2. CASE o.sale = s BY <1>2, <2>1, <2>2 DEF Became, HasOrder, OrdersOf
  <2>3. CASE Mistakable(o, s)
    <3>1. p.id = o.id /\ LooksLike(p, s) /\ HadAmount(o, AmountOf[s])
      BY <2>1, <2>3 DEF Became, SameRow, Mistakable, LooksLike
    <3>2. HadAmount(p, AmountOf[s])' BY <3>1, AmountsStay
    <3>3. LooksLike(p, s)' BY <3>1 DEF LooksLike
    <3> QED BY <3>2, <3>3 DEF HasOrder, Mistakable
  <2> QED BY <1>2, <2>2, <2>3
<1> QED BY <1>1, <1>2 DEF HasOrder, OrdersOf

LEMMA OrdersStep ==
    ASSUME TypeOK, CallsAtSteps, OrdersOfCustomers, AmountsAreGiven, NEW r \in Requests,
           Step(r), [Next]_vars
    PROVE  /\ OrdersOfCustomers' /\ AmountsAreGiven' /\ Ordered \subseteq Ordered'
           /\ sales' \subseteq sales
           /\ \A s \in Sales \cap sales' : HasOrder(s) => HasOrder(s)'
<1>1. OrdersOfCustomers' BY OrderRows DEF OrdersOfCustomers, Fresh, Became, SameRow
<1>2. ASSUME NEW p \in orders' PROVE HadAmount(p, p.amount)'
  <2>1. CASE Fresh(r, p) BY <2>1 DEF Fresh, HadAmount
  <2>2. ASSUME NEW o \in orders, p.id = o.id, p.amount = o.amount PROVE HadAmount(p, p.amount)'
    <3>1. HadAmount(o, o.amount) BY DEF AmountsAreGiven
    <3> QED BY <2>2, <3>1, AmountsStay
  <2>3. CASE SetAmount(r, p)
    <3>1. call' = call BY StepMoves
    <3> QED BY <2>3, <3>1 DEF SetAmount, HadAmount
  <2> QED BY <2>1, <2>2, <2>3, OrderRows DEF Became, SameRow
<1>3. /\ Ordered \subseteq Ordered'
      /\ \A s \in Sales \cap sales' : HasOrder(s) => HasOrder(s)'
  BY OrderRows, OrdersStay
<1>4. sales' \subseteq sales
  BY DEF Step, FindOrder, ShipThrows, ShipEntries, FindEntry, UpdateEntry, CreateEntry,
         BillThrows, CommitStatus, CommitThrows, AssignThrows, EditThrows, DeleteEntries,
         RemoveThrows, Refuse, db, CreateOrder, CommitAssign, EditOrder, RemoveSale
<1> QED BY <1>1, <1>2, <1>3, <1>4 DEF AmountsAreGiven

\* The search for an order succeeds only when there is one.
LEMMA FoundOrder ==
    ASSUME TypeOK, CallsAtSteps, OrdersOfCustomers, AmountsAreGiven, NEW r \in Requests,
           FindOrder(r), pc'[r] = "ship"
    PROVE  call[r].of \subseteq Ordered /\ \A s \in call[r].of : HasOrder(s)
<1>1. SaleOf(r) \in Sales /\ call[r].of = {SaleOf(r)}
  BY SaleOfStep DEF FindOrder, Changing, Shipping
<1>2. PICK o \in orders : SameOrder(o, SaleOf(r)) BY DEF FindOrder, Goto, TypeOK
<1>3. o.cust = CustomerOf[SaleOf(r)]
  BY <1>1, <1>2 DEF SameOrder, LooksLike, OrdersOfCustomers
<1>4. HadAmount(o, o.amount) BY DEF AmountsAreGiven
<1>5. HasOrder(SaleOf(r)) BY <1>2, <1>4 DEF SameOrder, HasOrder, OrdersOf, Mistakable
<1> QED BY <1>1, <1>3, <1>5 DEF Ordered

LEMMA CreatedOrder ==
    ASSUME TypeOK, CallsAtSteps, NEW r \in Requests, CreateOrder(r)
    PROVE  call[r].of \subseteq Ordered' /\ \A s \in call[r].of : HasOrder(s)'
<1>1. SaleOf(r) \in Sales /\ call[r].of = {SaleOf(r)}
  BY SaleOfStep DEF CreateOrder, Changing, Shipping
<1>2. CustomerOf[SaleOf(r)] # NoCustomer BY <1>1 DEF CallsAtSteps, CreateOrder
<1>3. PICK o \in orders' : o.cust = CustomerOf[SaleOf(r)] /\ o.sale = SaleOf(r)
  BY <1>1, <1>2, NewOrderTyped DEF OrderStatus, CreateOrder
<1>4. OrdersOf(SaleOf(r))' # {} BY <1>1, <1>3 DEF OrdersOf, SaleOf, CreateOrder
<1>5. \A s \in call[r].of : HasOrder(s)' BY <1>1, <1>3 DEF HasOrder, OrdersOf
<1> QED BY <1>1, <1>3, <1>5 DEF Ordered

LEMMA ShippingStep ==
    ASSUME TypeOK, CallsAtSteps, OrdersOfCustomers, AmountsAreGiven, ShippingHasOrder,
           [Next]_vars
    PROVE  /\ OrdersOfCustomers' /\ AmountsAreGiven' /\ ShippingHasOrder'
           /\ Ordered \subseteq Ordered'
<1>1. ASSUME UNCHANGED orders, sales' = sales
      PROVE  /\ OrdersOfCustomers' /\ AmountsAreGiven' /\ Ordered \subseteq Ordered'
             /\ \A s \in Sales \cap sales : HasOrder(s) => HasOrder(s)'
  <2>1. \A o \in orders : \E p \in orders' : Became(o, p, sales) BY <1>1 DEF Became, SameRow
  <2>2. \A o \in orders' : HadAmount(o, o.amount)' BY <1>1, AmountsStay DEF AmountsAreGiven
  <2> QED BY <1>1, <2>1, <2>2, OrdersStay DEF OrdersOfCustomers, AmountsAreGiven
<1>a. \A q \in Requests : call[q].of \subseteq Sales BY DEF TypeOK, Calls
<1>b. CASE UNCHANGED vars
  <2>1. UNCHANGED <<orders, sales, call, pc>> BY <1>b DEF vars, db
  <2>2. \A q \in Requests : HasShipped(q)' => HasShipped(q) BY <2>1 DEF HasShipped
  <2> QED BY <1>1, <1>a, <2>1, <2>2 DEF ShippingHasOrder
<1>2. ASSUME NEW r \in Requests, Receive(r)
      PROVE  /\ OrdersOfCustomers' /\ AmountsAreGiven' /\ ShippingHasOrder'
             /\ Ordered \subseteq Ordered'
  <2>1. PICK c \in Calls, to \in {"order", "entry", "commit", "assign", "edit", "erase"} :
          /\ Begin(r, c)
          /\ Goto(r, to)
          /\ UNCHANGED <<db, found>>
          /\ to = "commit" => to = AfterValidation(c.to)
    BY <1>2, ReceiveBegins
  <2>2. UNCHANGED <<orders, sales>> BY <2>1 DEF db
  <2>3. call'[r] = c /\ pc'[r] = to BY <2>1 DEF TypeOK, Begin, Goto
  <2>4. \A q \in Requests : q # r => call'[q] = call[q] /\ pc'[q] = pc[q]
    BY <2>1 DEF TypeOK, Begin, Goto
  <2>5. to = "commit" => c.to # "SHIPPED" BY <2>1 DEF AfterValidation
  <2>6. \A q \in Requests : HasShipped(q)' => HasShipped(q) /\ call'[q] = call[q]
    BY <2>1, <2>3, <2>4, <2>5 DEF HasShipped
  <2> QED BY <1>1, <1>a, <2>2, <2>6 DEF ShippingHasOrder
<1>3. ASSUME NEW r \in Requests, Cut(r)
      PROVE  /\ OrdersOfCustomers' /\ AmountsAreGiven' /\ ShippingHasOrder'
             /\ Ordered \subseteq Ordered'
  <2>1. UNCHANGED <<orders, sales, call>> BY <1>3 DEF Cut, db
  <2>2. \A q \in Requests : HasShipped(q)' => HasShipped(q)
    BY <1>3, <2>1 DEF HasShipped, Cut, Goto, TypeOK
  <2> QED BY <1>1, <1>a, <2>1, <2>2 DEF ShippingHasOrder
<1>4. ASSUME NEW r \in Requests, Step(r)
      PROVE  /\ OrdersOfCustomers' /\ AmountsAreGiven' /\ ShippingHasOrder'
             /\ Ordered \subseteq Ordered'
  <2>1. /\ OrdersOfCustomers' /\ AmountsAreGiven' /\ Ordered \subseteq Ordered'
        /\ sales' \subseteq sales /\ \A s \in Sales \cap sales' : HasOrder(s) => HasOrder(s)'
    BY <1>4, OrdersStep
  <2>2. PICK to : /\ Goto(r, to)
                  /\ to \in {"ok", "refused", "cut"} \/ <<pc[r], to>> \in Follows
    BY <1>4, StepMoves
  <2>3. UNCHANGED call /\ \A q \in Requests : pc'[q] = IF q = r THEN to ELSE pc[q]
    BY <1>4, <2>2, StepMoves DEF Goto, TypeOK
  <2>4. ASSUME call[r].op = "change", call[r].to = "SHIPPED", to \in {"ship", "commit", "ok"}
        PROVE  /\ call[r].of \subseteq Ordered'
               /\ \A s \in call[r].of \cap sales' : HasOrder(s)'
    <3>1. CASE pc[r] \in {"ship", "commit"}
      BY <1>a, <2>1, <2>4, <3>1 DEF ShippingHasOrder, HasShipped
    <3>2. CASE pc[r] = "order"
      <4>1. FindOrder(r) \/ ShipThrows(r)
        BY <1>4, <3>2 DEF Step, CreateOrder, ShipEntries, FindEntry, UpdateEntry, CreateEntry,
           BillThrows, CommitStatus, CommitThrows, CommitAssign, AssignThrows, EditOrder,
           EditThrows, DeleteEntries, RemoveSale, RemoveThrows
      <4>2. FindOrder(r) /\ pc'[r] = "ship"
        BY <2>3, <2>4, <3>2, <4>1 DEF FindOrder, ShipThrows, Refuse, Goto, TypeOK
      <4> QED BY <1>a, <2>1, <4>2, FoundOrder
    <3>3. CASE pc[r] = "create"
      <4>1. CreateOrder(r) \/ ShipThrows(r)
        BY <1>4, <3>3 DEF Step, FindOrder, ShipEntries, FindEntry, UpdateEntry, CreateEntry,
           BillThrows, CommitStatus, CommitThrows, CommitAssign, AssignThrows, EditOrder,
           EditThrows, DeleteEntries, RemoveSale, RemoveThrows
      <4>2. CreateOrder(r) BY <2>3, <2>4, <4>1 DEF ShipThrows, Refuse, Goto, TypeOK
      <4> QED BY <4>2, CreatedOrder
    <3>4. pc[r] \in Changing
      <4>1. InFlight(r) /\ pc[r] \notin {"assign", "edit", "erase", "remove"}
        BY <1>4, <2>4, StepMoves DEF CallsAtSteps
      <4> QED BY <4>1 DEF InFlight, TypeOK, Changing, Shipping, Delivering
    <3>5. pc[r] \notin Delivering BY <2>4 DEF CallsAtSteps
    <3> QED BY <3>1, <3>2, <3>3, <3>4, <3>5 DEF Changing, Shipping
  <2>5. ASSUME NEW q \in Requests, HasShipped(q)'
        PROVE  /\ call'[q].of \subseteq Ordered'
               /\ \A s \in call'[q].of \cap sales' : HasOrder(s)'
    <3>1. CASE q = r BY <2>3, <2>4, <2>5, <3>1 DEF HasShipped
    <3>2. CASE q # r
      <4>1. HasShipped(q) BY <2>3, <2>5, <3>2 DEF HasShipped
      <4> QED BY <1>a, <2>1, <2>3, <4>1 DEF ShippingHasOrder
    <3> QED BY <3>1, <3>2
  <2> QED BY <2>1, <2>5 DEF ShippingHasOrder
<1> QED BY <1>b, <1>2, <1>3, <1>4 DEF Next

----------------------------------------------------------------------------
(* The books *)

\* A step adds at most the sale it delivers to the books, and takes at most the
\* sale it deletes out of them.
LEMMA BilledStep ==
    ASSUME TypeOK, CallsAtSteps, NEW r \in Requests, Step(r)
    PROVE  \/ Billed' = Billed
           \/ CreateEntry(r) /\ Billed' = Billed \cup {SaleOf(r)}
           \/ (DeleteEntries(r) \/ RemoveSale(r)) /\ Billed' = Billed \ {SaleOf(r)}
<1> USE DEF Billed, EntriesOf
<1>1. CASE UNCHANGED entries BY <1>1
<1>2. CASE ShipEntries(r) \/ UpdateEntry(r)
  <2>1. PICK new : /\ entries' = {new[e] : e \in entries}
                   /\ \A e \in entries : new[e].sale = e.sale
    <3>1. CASE ShipEntries(r)
      <4> DEFINE changed(e) == IF e.sale = SaleOf(r)
                               THEN [e EXCEPT !.owe = AmountOf[SaleOf(r)]] ELSE e
      <4>1. SaleOf(r) \in Sales BY <3>1, SaleOfStep DEF ShipEntries, Changing, Shipping
      <4>2. \A e \in entries : changed(e).sale = e.sale BY <4>1, EntryOwes DEF TypeOK
      <4>3. entries' = {changed(e) : e \in entries} BY <3>1 DEF ShipEntries
      <4> WITNESS [e \in entries |-> changed(e)]
      <4> QED BY <4>2, <4>3
    <3>2. CASE UpdateEntry(r)
      <4>1. PICK f \in found[r] :
              entries' = {IF e.id = f.id
                          THEN [e EXCEPT !.owe = OwedOnDelivery(f, SaleOf(r))] ELSE e
                          : e \in entries}
        BY <3>2 DEF UpdateEntry
      <4> DEFINE changed(e) == IF e.id = f.id
                               THEN [e EXCEPT !.owe = OwedOnDelivery(f, SaleOf(r))] ELSE e
      <4>2. SaleOf(r) \in Sales /\ f \in Entry
        BY <3>2, SaleOfStep DEF UpdateEntry, Changing, Delivering, TypeOK
      <4>3. \A e \in entries : changed(e).sale = e.sale
        BY <4>2, EntryOwes, OwedTyped DEF TypeOK
      <4>4. entries' = {changed(e) : e \in entries} BY <4>1
      <4> WITNESS [e \in entries |-> changed(e)]
      <4> QED BY <4>3, <4>4
    <3> QED BY <1>2, <3>1, <3>2
  <2> QED BY <2>1
<1>3. CASE CreateEntry(r)
  <2>1. SaleOf(r) \in Sales BY <1>3, SaleOfStep DEF CreateEntry, Changing, Delivering
  <2> QED BY <1>3, <2>1 DEF CreateEntry
<1>4. CASE DeleteEntries(r) BY <1>4 DEF DeleteEntries
<1>5. CASE RemoveSale(r)
  <2>1. SaleOf(r) \in Sales BY <1>5, SaleOfStep DEF RemoveSale
  <2>2. \A e \in entries :
          Unlinked(e, SaleOf(r)).sale = IF e.sale = SaleOf(r) THEN NoSale ELSE e.sale
    BY <2>1, UnlinkedEntry DEF TypeOK
  <2>3. entries' = {Unlinked(e, SaleOf(r)) : e \in entries} BY <1>5 DEF RemoveSale
  <2>4. ASSUME NEW s \in Sales
        PROVE  s \in Billed' <=> s \in Billed /\ s # SaleOf(r)
    BY <2>2, <2>3
  <2> QED BY <1>5, <2>4
<1> QED
  BY <1>1, <1>2, <1>3, <1>4, <1>5 DEF Step, FindOrder, CreateOrder, ShipThrows, FindEntry,
     BillThrows, CommitStatus, CommitThrows, CommitAssign, AssignThrows, EditOrder,
     EditThrows, RemoveThrows, Refuse, db

\* Once r has billed its sale it was in the books, or this step writes it there.
LEMMA BillingStep ==
    ASSUME TypeOK, CallsAtSteps, NEW r \in Requests, Step(r), HasBilled(r)'
    PROVE  \/ HasBilled(r) /\ pc[r] \in {"bill", "commit"} /\ Billed' = Billed
           \/ pc[r] = "entry" /\ call[r].of \subseteq Billed /\ Billed' = Billed
           \/ pc[r] = "bill" /\ call[r].of \subseteq Billed'
<1> USE DEF Changing, Shipping, Delivering
<1>1. PICK to : /\ Goto(r, to) /\ UNCHANGED call
                /\ to \in {"ok", "refused", "cut"} \/ <<pc[r], to>> \in Follows
  BY StepMoves
<1>2. pc'[r] = to BY <1>1 DEF Goto, TypeOK
<1>3. call[r].op = "change" /\ call[r].to = "DELIVERED" BY <1>1 DEF HasBilled
<1>4. to \in {"ok", "commit", "bill"} /\ (to = "bill" => found'[r] # {})
  BY <1>1, <1>2 DEF HasBilled, Follows
<1>5. pc[r] \in {"entry", "bill", "commit"}
  <2>1. InFlight(r) /\ pc[r] \notin {"assign", "edit", "erase", "remove"} \cup Shipping
    BY <1>3, StepMoves DEF CallsAtSteps
  <2> QED BY <2>1 DEF InFlight, TypeOK
<1>6. CASE pc[r] = "entry"
  <2>1. FindEntry(r)
    BY <1>6 DEF Step, FindOrder, CreateOrder, ShipThrows, ShipEntries, UpdateEntry,
       CreateEntry, BillThrows, CommitStatus, CommitThrows, CommitAssign, AssignThrows,
       EditOrder, EditThrows, DeleteEntries, RemoveSale, RemoveThrows
  <2>2. SaleOf(r) \in Sales /\ call[r].of = {SaleOf(r)} BY <1>6, SaleOfStep
  <2>3. to = "bill" /\ found'[r] # {} BY <1>2, <1>4, <1>6, <2>1 DEF FindEntry, Goto, TypeOK
  <2>4. EntriesOf(SaleOf(r)) # {} BY <2>1, <2>3 DEF FindEntry, TypeOK
  <2>5. Billed' = Billed BY <2>1 DEF FindEntry, db, Billed, EntriesOf
  <2> QED BY <1>6, <2>2, <2>4, <2>5 DEF Billed
<1>7. CASE pc[r] = "bill"
  <2>1. UpdateEntry(r) \/ CreateEntry(r) \/ BillThrows(r)
    BY <1>7 DEF Step, FindOrder, CreateOrder, ShipThrows, ShipEntries, FindEntry,
       CommitStatus, CommitThrows, CommitAssign, AssignThrows,
       EditOrder, EditThrows, DeleteEntries, RemoveSale, RemoveThrows
  <2>2. SaleOf(r) \in Sales /\ call[r].of = {SaleOf(r)} BY <1>7, SaleOfStep
  <2>3. ~ BillThrows(r) BY <1>2, <1>4 DEF BillThrows, Refuse, Goto, TypeOK
  <2>4. CASE UpdateEntry(r)
    <3>1. found[r] # {} BY <2>4 DEF UpdateEntry
    <3>2. HasBilled(r) BY <1>3, <1>7, <3>1 DEF HasBilled
    <3>3. ~ CreateEntry(r) /\ ~ DeleteEntries(r) /\ ~ RemoveSale(r)
      BY <1>7, <3>1 DEF CreateEntry, DeleteEntries, RemoveSale
    <3> QED BY <1>7, <3>2, <3>3, BilledStep
  <2>5. CASE CreateEntry(r)
    <3>1. ~ DeleteEntries(r) /\ ~ RemoveSale(r) BY <1>7 DEF DeleteEntries, RemoveSale
    <3> DEFINE e == [id |-> <<r, SaleOf(r)>>, sale |-> SaleOf(r),
                     owe |-> AmountOf[SaleOf(r)], paid |-> 0, st |-> "UNPAID"]
    <3>2. SaleOf(r) \in Billed'
      <4>1. e \in entries' /\ e.sale = SaleOf(r) BY <2>5 DEF CreateEntry
      <4> HIDE DEF e
      <4> QED BY <2>2, <4>1 DEF Billed, EntriesOf
    <3> QED BY <1>7, <2>2, <3>2
  <2> QED BY <2>1, <2>3, <2>4, <2>5
<1>8. CASE pc[r] = "commit"
  <2>1. HasBilled(r) BY <1>3, <1>8 DEF HasBilled
  <2>2. ~ CreateEntry(r) /\ ~ DeleteEntries(r) /\ ~ RemoveSale(r)
    BY <1>8 DEF CreateEntry, DeleteEntries, RemoveSale
  <2> QED BY <1>8, <2>1, <2>2, BilledStep
<1> QED BY <1>5, <1>6, <1>7, <1>8

\* A request that is received has not billed anything.
LEMMA ReceiveUnbilled ==
    ASSUME TypeOK, NEW r \in Requests, Receive(r)
    PROVE  /\ ~ HasBilled(r)'
           /\ pc[r] = "idle" /\ UNCHANGED <<db, found>>
           /\ \A q \in Requests : q # r => UNCHANGED <<call[q], pc[q]>>
<1>1. PICK c \in Calls, to \in {"order", "entry", "commit", "assign", "edit", "erase"} :
        /\ Begin(r, c)
        /\ Goto(r, to)
        /\ UNCHANGED <<db, found>>
        /\ to = "commit" => to = AfterValidation(c.to)
  BY ReceiveBegins
<1>2. call'[r] = c /\ pc'[r] = to BY <1>1 DEF Begin, Goto, TypeOK
<1>3. to = "commit" => c.to # "DELIVERED" BY <1>1 DEF AfterValidation
<1> QED BY <1>1, <1>2, <1>3 DEF HasBilled, Begin, Goto, TypeOK

LEMMA DeliveringStep ==
    ASSUME TypeOK, CallsAtSteps, DeliveringIsBilled, [Next]_vars
    PROVE  DeliveringIsBilled'
<1>1. CASE UNCHANGED vars
  BY <1>1 DEF vars, db, DeliveringIsBilled, HasBilled, Billed, EntriesOf, Doomed
<1>2. ASSUME NEW r \in Requests, Receive(r)
      PROVE  DeliveringIsBilled'
  <2>1. Billed' = Billed BY <1>2, ReceiveUnbilled DEF db, Billed, EntriesOf
  <2>2. call[r].op # "delete" BY <1>2, ReceiveUnbilled DEF CallsAtSteps
  <2>3. \A s : Doomed(s) => Doomed(s)' BY <1>2, <2>2, ReceiveUnbilled DEF Doomed
  <2>4. \A q \in Requests : HasBilled(q)' => q # r /\ HasBilled(q) /\ call'[q] = call[q]
    BY <1>2, ReceiveUnbilled DEF HasBilled
  <2> QED BY <2>1, <2>3, <2>4 DEF DeliveringIsBilled
<1>3. ASSUME NEW r \in Requests, Cut(r)
      PROVE  DeliveringIsBilled'
  BY <1>3 DEF Cut, Goto, db, TypeOK, DeliveringIsBilled, HasBilled, Billed, EntriesOf, Doomed
<1>4. ASSUME NEW r \in Requests, Step(r)
      PROVE  DeliveringIsBilled'
  <2>1. UNCHANGED call /\ \A s : Doomed(s)' = Doomed(s) BY <1>4, StepMoves DEF Doomed
  <2>2. \A s \in Billed : s \in Billed' \/ Doomed(s)
    <3>1. DeleteEntries(r) \/ RemoveSale(r) => Doomed(SaleOf(r))
      BY SaleOfStep DEF DeleteEntries, RemoveSale, CallsAtSteps, Doomed
    <3> QED BY <1>4, <3>1, BilledStep
  <2>3. ASSUME NEW q \in Requests, q # r, HasBilled(q)'
        PROVE  HasBilled(q)
    <3>1. pc'[q] = pc[q] /\ found'[q] = found[q]
      BY <1>4, <2>3 DEF TypeOK, Goto, Step, FindOrder, CreateOrder, ShipThrows, ShipEntries,
         FindEntry, UpdateEntry, CreateEntry, BillThrows, CommitStatus, CommitThrows,
         CommitAssign, AssignThrows, EditOrder, EditThrows, DeleteEntries, RemoveSale,
         RemoveThrows, Refuse
    <3> QED BY <2>1, <2>3, <3>1 DEF HasBilled
  <2>4. ASSUME HasBilled(r)'
        PROVE  \A s \in call[r].of : s \in Billed' \/ Doomed(s)
    BY <1>4, <2>2, <2>4, BillingStep DEF DeliveringIsBilled
  <2> QED BY <2>1, <2>2, <2>3, <2>4 DEF DeliveringIsBilled
<1> QED BY <1>1, <1>2, <1>3, <1>4 DEF Next

----------------------------------------------------------------------------
(* However requests overlap *)

LEMMA IndInvInit == Init => IndInv
<1> SUFFICES ASSUME Init PROVE IndInv OBVIOUS
<1>1. \A o \in orders : HadAmount(o, o.amount) BY DEF Init, HadAmount
<1> QED BY <1>1, InitTypeOK DEF Init, IndInv, AmountsAreGiven, HasShipped, CallsAtSteps,
         OrdersOfCustomers, ShippingHasOrder, DeliveringIsBilled, HasBilled, NoCall, Changing,
         Shipping, Delivering

LEMMA IndInvStep == IndInv /\ [Next]_vars => IndInv'
  BY TypeStep, CallsStep, ShippingStep, DeliveringStep DEF IndInv

\* The invariant is inductive.
THEOREM IndInvHolds == Spec => []IndInv
  BY IndInvInit, IndInvStep, PTL DEF Spec

\* Every variable keeps its type, whatever overlaps and whatever is cut.
THEOREM TypesHold == Spec => []TypeOK
<1>1. IndInv => TypeOK BY DEF IndInv
<1> QED BY <1>1, IndInvHolds, PTL

\* A sale that status management shipped and that still exists has an order of its
\* own, or one of its customer that had its amount and was taken for it; no
\* interleaving and no crash takes it away (handleShippedStatus).
THEOREM ShippingIsOrdered == Spec => []ShippedHasOrder
<1>1. IndInv => ShippedHasOrder
  BY DEF IndInv, ShippingHasOrder, HasShipped, ShippedHasOrder, Changed
<1> QED BY <1>1, IndInvHolds, PTL

\* A sale that status management delivered is in the books, unless a deletion of
\* it was received (updateBalanceSheetForDelivery).
THEOREM DeliveryIsBilled == Spec => []DeliveredIsBilled
<1>1. IndInv => DeliveredIsBilled
  BY DEF IndInv, DeliveringIsBilled, DeliveredIsBilled, Changed, HasBilled
<1> QED BY <1>1, IndInvHolds, PTL

----------------------------------------------------------------------------
(* When no sale is written twice at a time *)

LEMMA StepInFlight ==
    ASSUME TypeOK, NEW r \in Requests, Step(r) \/ Cut(r)
    PROVE  \A q \in Requests : InFlight(q)' => InFlight(q)
<1>1. PICK to : Goto(r, to) BY StepMoves
<1> QED BY <1>1, StepMoves DEF Goto, InFlight, TypeOK

\* The sales and statuses a step changes are those of its own call.
LEMMA StepWrites ==
    ASSUME TypeOK, CallsAtSteps, NEW r \in Requests, Step(r)
    PROVE  /\ \/ sales' = sales
              \/ RemoveSale(r) /\ sales' = sales \ call[r].of
           /\ \/ status' = status
              \/ /\ CommitStatus(r)
                 /\ \A s \in Sales : s \notin call[r].of => status'[s] = status[s]
<1>1. CASE RemoveSale(r)
  <2>1. call[r].of = {SaleOf(r)} BY <1>1, SaleOfStep DEF RemoveSale
  <2> QED BY <1>1, <2>1 DEF RemoveSale
<1>2. CASE CommitStatus(r)
  <2>1. SaleOf(r) \in Sales /\ call[r].of = {SaleOf(r)}
    BY <1>2, SaleOfStep DEF CommitStatus, Changing
  <2> QED BY <1>2, <2>1 DEF CommitStatus, TypeOK
<1> QED
  BY <1>1, <1>2 DEF Step, FindOrder, CreateOrder, ShipThrows, ShipEntries, FindEntry,
     UpdateEntry, CreateEntry, BillThrows, CommitThrows, CommitAssign, AssignThrows,
     EditOrder, EditThrows, DeleteEntries, RemoveThrows, Refuse, db

LEMMA SerialInit == Init => SerialInv
  BY DEF Init, SerialInv, OneWriter, WrittenSalesExist, StillValid, StillBilled, InFlight,
     Changing, Shipping, Delivering

LEMMA SerialReceive ==
    ASSUME OnePerSale, IndInv, SerialInv, NEW r \in Requests, Receive(r)
    PROVE  SerialInv'
<1> USE DEF IndInv, SerialInv
<1>1. PICK c \in Calls, to \in {"order", "entry", "commit", "assign", "edit", "erase"} :
        /\ Begin(r, c)
        /\ Goto(r, to)
        /\ UNCHANGED <<db, found>>
        /\ to \in {"order", "entry", "commit"} =>
             \E s \in Sales : c.of = {s} /\ c.to \in StatusTransitions[status[s]]
  BY ReceiveBegins
<1>2. /\ call'[r] = c /\ pc'[r] = to /\ pc[r] = "idle"
      /\ \A q \in Requests : q # r => call'[q] = call[q] /\ pc'[q] = pc[q]
  BY <1>1 DEF Begin, Goto, TypeOK
<1>3. OneWriter'
  <2>1. \A q \in Requests : q # r /\ InFlight(q) => call[q].of \cap c.of = {}
    BY <1>1 DEF Begin
  <2> QED BY <1>2, <2>1 DEF OneWriter, InFlight
<1>4. WrittenSalesExist'
  <2>1. c.of \subseteq sales /\ sales' = sales BY <1>1 DEF Begin, db
  <2> QED BY <1>2, <2>1 DEF WrittenSalesExist, InFlight
<1>5. StillValid'
  <2>1. status' = status BY <1>1 DEF db
  <2>2. to \in Changing => to \in {"order", "entry", "commit"}
    BY DEF Changing, Shipping, Delivering
  <2>3. ASSUME to \in Changing
        PROVE  \A s \in c.of : c.to \in StatusTransitions[status[s]]
    BY <1>1, <2>2, <2>3
  <2> QED BY <1>2, <2>1, <2>3 DEF StillValid
<1>6. StillBilled'
  <2>1. Billed' = Billed BY <1>1 DEF db, Billed, EntriesOf
  <2>2. ~ HasBilled(r)' BY ReceiveUnbilled
  <2>3. \A q \in Requests : q # r /\ HasBilled(q)' => HasBilled(q) BY <1>1, <1>2 DEF HasBilled
  <2> QED BY <1>2, <2>1, <2>2, <2>3 DEF StillBilled, InFlight
<1> QED BY <1>3, <1>4, <1>5, <1>6

LEMMA SerialStep ==
    ASSUME IndInv, SerialInv, NEW r \in Requests, Step(r)
    PROVE  SerialInv'
<1> USE DEF IndInv, SerialInv
<1>1. /\ UNCHANGED call
      /\ InFlight(r)
      /\ \A q \in Requests : InFlight(q)' => InFlight(q)
      /\ \A q \in Requests : q # r => pc'[q] = pc[q]
  BY StepMoves, StepInFlight DEF Goto, TypeOK
<1>2. \A q \in Requests : q # r /\ InFlight(q)' => call[q].of \cap call[r].of = {}
  BY <1>1 DEF OneWriter
<1>3. OneWriter' BY <1>1 DEF OneWriter
<1>4. WrittenSalesExist'
  <2>1. RemoveSale(r) => ~ InFlight(r)' BY DEF RemoveSale, Goto, InFlight, TypeOK
  <2> QED BY <1>1, <1>2, <2>1, StepWrites DEF WrittenSalesExist
<1>5. StillValid'
  <2>1. \A q \in Requests : pc'[q] \in Changing => InFlight(q)'
    BY DEF Changing, Shipping, Delivering, InFlight
  <2>2. ASSUME NEW q \in Requests, q # r, pc'[q] \in Changing
        PROVE  \A s \in call[q].of : status'[s] = status[s]
    <3>1. call[q].of \cap call[r].of = {} /\ call[q].of \subseteq Sales
      BY <1>2, <2>1, <2>2 DEF TypeOK, Calls
    <3> QED BY <3>1, StepWrites
  <2>3. ASSUME pc'[r] \in Changing
        PROVE  pc[r] \in Changing /\ status' = status
    <3>1. ~ CommitStatus(r)
      BY <2>3 DEF CommitStatus, Goto, TypeOK, Changing, Shipping, Delivering
    <3>2. PICK to : /\ Goto(r, to)
                    /\ to \in {"ok", "refused", "cut"} \/ <<pc[r], to>> \in Follows
      BY StepMoves
    <3>3. pc'[r] = to BY <3>2 DEF Goto, TypeOK
    <3> QED BY <2>3, <3>1, <3>2, <3>3, StepWrites DEF Follows, Changing, Shipping, Delivering
  <2> QED BY <1>1, <2>2, <2>3 DEF StillValid
<1>6. StillBilled'
  <2>1. ASSUME NEW q \in Requests, q # r, InFlight(q)', HasBilled(q)'
        PROVE  call[q].of \subseteq Billed'
    <3>1. pc'[q] = pc[q] /\ found'[q] = found[q]
      BY <2>1 DEF TypeOK, Goto, Step, FindOrder, CreateOrder, ShipThrows, ShipEntries,
         FindEntry, UpdateEntry, CreateEntry, BillThrows, CommitStatus, CommitThrows,
         CommitAssign, AssignThrows, EditOrder, EditThrows, DeleteEntries, RemoveSale,
         RemoveThrows, Refuse
    <3>2. call[q].of \subseteq Billed BY <1>1, <2>1, <3>1 DEF HasBilled, StillBilled, InFlight
    <3>3. DeleteEntries(r) \/ RemoveSale(r) => SaleOf(r) \in call[r].of
      BY SaleOfStep DEF DeleteEntries, RemoveSale
    <3> QED BY <1>2, <2>1, <3>2, <3>3, BilledStep
  <2>2. ASSUME HasBilled(r)'
        PROVE  call[r].of \subseteq Billed'
    BY <1>1, <2>2, BillingStep DEF StillBilled
  <2> QED BY <1>1, <2>1, <2>2 DEF StillBilled
<1> QED BY <1>3, <1>4, <1>5, <1>6

LEMMA SerialInvStep ==
    ASSUME OnePerSale, IndInv, SerialInv, [Next]_vars
    PROVE  SerialInv'
<1>1. CASE UNCHANGED vars
  BY <1>1 DEF vars, db, SerialInv, OneWriter, WrittenSalesExist, StillValid, StillBilled,
     InFlight, HasBilled, Billed, EntriesOf
<1>2. ASSUME NEW r \in Requests, Cut(r)
      PROVE  SerialInv'
  <2>1. /\ UNCHANGED <<db, call, found>>
        /\ pc'[r] = "cut" /\ \A q \in Requests : q # r => pc'[q] = pc[q]
    BY <1>2 DEF Cut, Goto, IndInv, TypeOK
  <2>2. /\ \A q \in Requests : InFlight(q)' => q # r /\ InFlight(q)
        /\ \A q \in Requests : pc'[q] \in Changing => q # r /\ pc[q] \in Changing
        /\ \A q \in Requests : q # r /\ HasBilled(q)' => HasBilled(q)
    BY <2>1 DEF InFlight, HasBilled, Changing, Shipping, Delivering
  <2> QED
    BY <2>1, <2>2 DEF db, SerialInv, OneWriter, WrittenSalesExist, StillValid, StillBilled,
       Billed, EntriesOf
<1> QED BY <1>1, <1>2, SerialReceive, SerialStep DEF Next

----------------------------------------------------------------------------
(* Status changes implement the lifecycle *)

LEMMA LifecycleInit == Init => LC!Init
  BY DEF Init, LC!Init, Ordered, Billed

\* The commit of a status advances the sale along the table.
LEMMA CommitAdvances ==
    ASSUME IndInv, SerialInv, NEW r \in Requests, CommitStatus(r)
    PROVE  LC!Advance(SaleOf(r), call[r].to)
<1> DEFINE s == SaleOf(r)
           to == call[r].to
<1> USE DEF IndInv, SerialInv
<1>1. s \in Sales /\ call[r].of = {s} /\ pc[r] = "commit" /\ call[r].op = "change"
  BY SaleOfStep DEF CommitStatus, Changing, CallsAtSteps
<1>2. s \in sales /\ to \in StatusTransitions[status[s]]
  BY <1>1 DEF CommitStatus, StillValid, Changing
<1>3. to = "SHIPPED" => s \in Ordered BY <1>1 DEF ShippingHasOrder, HasShipped
<1>4. to = "DELIVERED" => s \in Billed BY <1>1 DEF StillBilled, HasBilled, InFlight
<1>5. /\ status' = [status EXCEPT ![s] = to]
      /\ UNCHANGED <<sales, Ordered, Billed>>
  BY DEF CommitStatus, Ordered, Billed, EntriesOf
<1> HIDE DEF s, to
<1>6. LC!Advance(s, to)
  BY <1>2, <1>3, <1>4, <1>5 DEF LC!Advance, LC!StatusTransitions, StatusTransitions
<1> QED BY <1>6 DEF s, to

LEMMA LifecycleStep ==
    ASSUME IndInv, SerialInv, [Next]_vars
    PROVE  [LC!Next]_(LC!vars)
<1> USE DEF IndInv
<1>1. CASE UNCHANGED vars BY <1>1 DEF vars, db, LC!vars, Ordered, Billed, EntriesOf
<1>2. ASSUME NEW r \in Requests, Receive(r) \/ Cut(r)
      PROVE  UNCHANGED LC!vars
  <2>1. UNCHANGED db BY <1>2, ReceiveUnbilled DEF Cut
  <2> QED BY <2>1 DEF db, LC!vars, Ordered, Billed, EntriesOf
<1>3. ASSUME NEW r \in Requests, Step(r)
      PROVE  [LC!Next]_(LC!vars)
  <2>1. Ordered \subseteq Ordered' BY <1>3, OrdersStep
  <2>2. CASE CommitStatus(r)
    <3>1. LC!Advance(SaleOf(r), call[r].to) BY <2>2, CommitAdvances
    <3>2. SaleOf(r) \in Sales /\ call[r].to \in SaleStatus
      BY <2>2, SaleOfStep DEF CommitStatus, Changing, TypeOK, Calls
    <3>3. \E s \in Sales, to \in SaleStatus : LC!Advance(s, to) BY <3>1, <3>2
    <3> QED BY <3>3 DEF LC!Next, LC!SaleStatus, SaleStatus
  <2>3. CASE RemoveSale(r)
    <3>1. SaleOf(r) \in Sales /\ SaleOf(r) \in sales BY <2>3, SaleOfStep DEF RemoveSale
    <3>2. Ordered' = Ordered
      <4>1. \A o \in orders : Unlinked(o, SaleOf(r)).cust = o.cust
        BY <3>1, UnlinkedOrder DEF TypeOK, SameRow
      <4>2. \A p \in orders' : \E o \in orders : p.cust = o.cust BY <2>3, <4>1 DEF RemoveSale
      <4> QED BY <2>1, <4>2 DEF Ordered
    <3>3. Billed' = Billed \ {SaleOf(r)}
      <4>1. \A e \in entries' : e.sale # SaleOf(r)
        <5>1. ASSUME NEW e \in entries, NEW s \in Sales
              PROVE  Unlinked(e, s).sale # s
          <6>1. e \in Entry BY DEF TypeOK
          <6>2. Unlinked(e, s).sale = IF e.sale = s THEN NoSale ELSE e.sale
            BY <6>1, UnlinkedEntry
          <6>3. NoSale # s OBVIOUS
          <6> QED BY <6>2, <6>3
        <5> QED BY <2>3, <3>1, <5>1 DEF RemoveSale
      <4>2. SaleOf(r) \notin Billed' BY <4>1 DEF Billed, EntriesOf
      <4>3. ~ CreateEntry(r) BY <2>3 DEF RemoveSale, CreateEntry
      <4> QED BY <1>3, <4>2, <4>3, BilledStep
    <3>4. LC!Delete(SaleOf(r)) BY <2>3, <3>1, <3>2, <3>3 DEF LC!Delete, RemoveSale
    <3> QED BY <3>1, <3>4 DEF LC!Next
  <2>4. CASE CreateEntry(r) \/ DeleteEntries(r)
    <3>1. SaleOf(r) \in Sales
      BY <2>4, SaleOfStep DEF CreateEntry, DeleteEntries, Changing, Delivering
    <3>2. UNCHANGED <<sales, status, Ordered>> BY <2>4 DEF CreateEntry, DeleteEntries, Ordered
    <3>3. ~ RemoveSale(r) BY <2>4 DEF CreateEntry, DeleteEntries, RemoveSale
    <3>4. \/ Billed' = Billed
          \/ Billed' = Billed \cup {SaleOf(r)}
          \/ Billed' = Billed \ {SaleOf(r)}
      BY <1>3, <3>3, BilledStep
    <3>5. \/ UNCHANGED LC!vars
          \/ LC!Bill(SaleOf(r))
          \/ LC!Forget(SaleOf(r))
      BY <3>2, <3>4 DEF LC!vars, LC!Bill, LC!Forget
    <3> QED BY <3>1, <3>5 DEF LC!Next
  <2>5. CASE ~ (CommitStatus(r) \/ RemoveSale(r) \/ CreateEntry(r) \/ DeleteEntries(r))
    <3>1. Billed' = Billed BY <1>3, <2>5, BilledStep
    <3>2. UNCHANGED <<sales, status>> BY <1>3, <2>5, StepWrites
    <3>3. LC!WriteOrders BY <2>1, <3>1, <3>2 DEF LC!WriteOrders
    <3> QED BY <3>3 DEF LC!Next
  <2> QED BY <2>2, <2>3, <2>4, <2>5
<1> QED BY <1>1, <1>2, <1>3 DEF Next

\* When no sale is written twice at a time, status changes are the lifecycle:
\* every step is a step of SaleLifecycle or leaves its variables alone
\* (validateStatusTransition and the writes that follow it).
THEOREM LifecycleImplemented ==
    ASSUME OnePerSale
    PROVE  Spec => Lifecycle
<1>1. Init => IndInv /\ SerialInv BY IndInvInit, SerialInit
<1>2. IndInv /\ SerialInv /\ [Next]_vars => (IndInv /\ SerialInv)'
  BY IndInvStep, SerialInvStep
<1>3. IndInv /\ SerialInv /\ [Next]_vars => [LC!Next]_(LC!vars) BY LifecycleStep
<1> QED BY <1>1, <1>2, <1>3, LifecycleInit, PTL DEF Spec, Lifecycle, LC!Spec

----------------------------------------------------------------------------
(* Rows are written once *)

\* Every row of rows2 is one of rows, as new makes it: of the same sale, or of none.
From(new, rows, rows2) ==
    \A y \in rows2 : \E x \in rows : y = new[x] /\ y.sale \in {x.sale, NoSale}

LEMMA EntriesFromEntries ==
    ASSUME IndInv, NEW r \in Requests, Step(r), ~ CreateEntry(r)
    PROVE  \E new : From(new, entries, entries')
<1> USE DEF IndInv
<1>1. CASE UNCHANGED entries \/ DeleteEntries(r)
  <2>1. entries' \subseteq entries BY <1>1 DEF DeleteEntries
  <2>2. From([e \in entries |-> e], entries, entries') BY <2>1 DEF From
  <2> QED BY <2>2
<1>2. CASE ShipEntries(r)
  <2> DEFINE s == SaleOf(r)
             new == [e \in entries |-> IF e.sale = s THEN [e EXCEPT !.owe = AmountOf[s]] ELSE e]
  <2>1. s \in Sales BY <1>2, SaleOfStep DEF ShipEntries, Changing, Shipping
  <2>2. \A e \in entries : new[e].sale = e.sale BY <2>1, EntryOwes DEF TypeOK
  <2>3. entries' = {new[e] : e \in entries} BY <1>2 DEF ShipEntries
  <2> HIDE DEF new
  <2>4. From(new, entries, entries') BY <2>2, <2>3 DEF From
  <2> QED BY <2>4
<1>3. CASE UpdateEntry(r)
  <2>1. PICK f \in found[r] :
          entries' = {IF e.id = f.id
                      THEN [e EXCEPT !.owe = OwedOnDelivery(f, SaleOf(r))] ELSE e
                      : e \in entries}
    BY <1>3 DEF UpdateEntry
  <2> DEFINE new == [e \in entries |-> IF e.id = f.id
                       THEN [e EXCEPT !.owe = OwedOnDelivery(f, SaleOf(r))] ELSE e]
  <2>2. SaleOf(r) \in Sales /\ f \in Entry
    BY <1>3, SaleOfStep DEF UpdateEntry, Changing, Delivering, TypeOK
  <2>3. \A e \in entries : new[e].sale = e.sale BY <2>2, EntryOwes, OwedTyped DEF TypeOK
  <2>4. entries' = {new[e] : e \in entries} BY <2>1
  <2> HIDE DEF new
  <2>5. From(new, entries, entries') BY <2>3, <2>4 DEF From
  <2> QED BY <2>5
<1>4. CASE RemoveSale(r)
  <2> DEFINE new == [e \in entries |-> Unlinked(e, SaleOf(r))]
  <2>1. SaleOf(r) \in Sales BY <1>4, SaleOfStep DEF RemoveSale
  <2>2. \A e \in entries : new[e].sale \in {e.sale, NoSale} BY <2>1, UnlinkedEntry DEF TypeOK
  <2>3. entries' = {new[e] : e \in entries} BY <1>4 DEF RemoveSale
  <2> HIDE DEF new
  <2>4. From(new, entries, entries') BY <2>2, <2>3 DEF From
  <2> QED BY <2>4
<1> QED
  BY <1>1, <1>2, <1>3, <1>4 DEF Step, FindOrder, CreateOrder, ShipThrows, FindEntry,
     BillThrows, CommitStatus, CommitThrows, CommitAssign, AssignThrows, EditOrder,
     EditThrows, RemoveThrows, Refuse, db

LEMMA OrdersFromOrders ==
    ASSUME IndInv, NEW r \in Requests, Step(r), ~ CreateOrder(r), ~ CommitAssign(r)
    PROVE  \E new : From(new, orders, orders')
<1> USE DEF IndInv
<1>1. CASE UNCHANGED orders
  <2>1. From([o \in orders |-> o], orders, orders') BY <1>1 DEF From
  <2> QED BY <2>1
<1>2. CASE EditOrder(r)
  <2> DEFINE new == [o \in orders |-> IF o.id = call[r].order THEN Edited(o, call[r]) ELSE o]
  <2>1. \A o \in orders : Edited(o, call[r]).sale = o.sale
    BY <1>2, EditedTyped DEF EditOrder, CallsAtSteps, TypeOK
  <2>2. orders' = {new[o] : o \in orders} /\ \A o \in orders : new[o].sale = o.sale
    BY <1>2, <2>1 DEF EditOrder
  <2> HIDE DEF new
  <2>3. From(new, orders, orders') BY <2>2 DEF From
  <2> QED BY <2>3
<1>3. CASE RemoveSale(r)
  <2> DEFINE new == [o \in orders |-> Unlinked(o, SaleOf(r))]
  <2>1. SaleOf(r) \in Sales BY <1>3, SaleOfStep DEF RemoveSale
  <2>2. \A o \in orders : new[o].sale \in {o.sale, NoSale} BY <2>1, UnlinkedOrder DEF TypeOK
  <2>3. orders' = {new[o] : o \in orders} BY <1>3 DEF RemoveSale
  <2> HIDE DEF new
  <2>4. From(new, orders, orders') BY <2>2, <2>3 DEF From
  <2> QED BY <2>4
<1> QED
  BY <1>1, <1>2, <1>3 DEF Step, FindOrder, ShipThrows, ShipEntries, FindEntry, UpdateEntry,
     CreateEntry, BillThrows, CommitStatus, CommitThrows, AssignThrows, EditThrows,
     DeleteEntries, RemoveThrows, Refuse, db

\* The rows that are added are of the sales of the call.
LEMMA AddedEntry ==
    ASSUME IndInv, NEW r \in Requests, CreateEntry(r)
    PROVE  \E n : entries' = entries \cup {n} /\ n.sale \in call[r].of
<1>1. SaleOf(r) \in call[r].of BY SaleOfStep DEF CreateEntry, Changing, Delivering, IndInv
<1> DEFINE n == [id |-> <<r, SaleOf(r)>>, sale |-> SaleOf(r), owe |-> AmountOf[SaleOf(r)],
                 paid |-> 0, st |-> "UNPAID"]
<1>2. entries' = entries \cup {n} BY DEF CreateEntry
<1>3. n.sale = SaleOf(r) OBVIOUS
<1> HIDE DEF n
<1> QED BY <1>1, <1>2, <1>3

LEMMA AddedOrders ==
    ASSUME IndInv, NEW r \in Requests, CreateOrder(r) \/ CommitAssign(r)
    PROVE  /\ \A o \in orders' : o \in orders \/ o.sale \in call[r].of
           /\ \A o, p \in orders' : o \notin orders /\ p \notin orders /\ o.sale = p.sale => o = p
<1> USE DEF IndInv
<1>0. \A s, st : NewOrder(r, s, st).sale = s BY DEF NewOrder
<1>1. CASE CreateOrder(r)
  <2>1. SaleOf(r) \in call[r].of BY <1>1, SaleOfStep DEF CreateOrder, Changing, Shipping
  <2>2. orders' = orders \cup {NewOrder(r, SaleOf(r), "SHIPPED")} BY <1>1 DEF CreateOrder
  <2> QED BY <1>0, <2>1, <2>2
<1>2. CASE CommitAssign(r)
  <2>1. orders' = orders \cup {NewOrder(r, s, "PICKED") : s \in call[r].of}
    BY <1>2 DEF CommitAssign
  <2> QED BY <1>0, <2>1
<1> QED BY <1>1, <1>2

\* What a step leaves of a sale its call does not name.
LEMMA OtherSales ==
    ASSUME IndInv, NEW r \in Requests, Step(r), NEW s \in Sales, s \notin call[r].of
    PROVE  /\ EntriesOf(s) = {} => EntriesOf(s)' = {}
           /\ OrdersOf(s) = {} => OrdersOf(s)' = {}
           /\ s \in assigned <=> s \in assigned'
           /\ s \in sales <=> s \in sales'
           /\ status'[s] = status[s]
           /\ (\A o, p \in OrdersOf(s) : o = p) => \A o, p \in OrdersOf(s)' : o = p
<1>1. EntriesOf(s) = {} => EntriesOf(s)' = {}
  <2>1. CASE CreateEntry(r) BY <2>1, AddedEntry DEF EntriesOf
  <2>2. CASE ~ CreateEntry(r) BY <2>2, EntriesFromEntries DEF EntriesOf, From
  <2> QED BY <2>1, <2>2
<1>2. /\ OrdersOf(s) = {} => OrdersOf(s)' = {}
      /\ (\A o, p \in OrdersOf(s) : o = p) => \A o, p \in OrdersOf(s)' : o = p
  <2>1. CASE CreateOrder(r) \/ CommitAssign(r) BY <2>1, AddedOrders DEF OrdersOf
  <2>2. CASE ~ (CreateOrder(r) \/ CommitAssign(r))
    <3>1. PICK new : From(new, orders, orders') BY <2>2, OrdersFromOrders
    <3> QED BY <3>1 DEF OrdersOf, From
  <2> QED BY <2>1, <2>2
<1>3. s \in assigned <=> s \in assigned'
  <2>1. CASE CommitAssign(r) BY <2>1 DEF CommitAssign
  <2>2. CASE RemoveSale(r)
    <3>1. SaleOf(r) \in call[r].of BY <2>2, SaleOfStep DEF RemoveSale, IndInv
    <3> QED BY <2>2, <3>1 DEF RemoveSale
  <2> QED
    BY <2>1, <2>2 DEF Step, FindOrder, CreateOrder, ShipThrows, ShipEntries, FindEntry,
       UpdateEntry, CreateEntry, BillThrows, CommitStatus, CommitThrows, AssignThrows,
       EditOrder, EditThrows, DeleteEntries, RemoveThrows, Refuse, db
<1>4. (s \in sales <=> s \in sales') /\ status'[s] = status[s] BY StepWrites DEF IndInv
<1> QED BY <1>1, <1>2, <1>3, <1>4

\* A change that was cut off stays so.
LEMMA InterruptedStays ==
    ASSUME IndInv, [Next]_vars, NEW s, Interrupted(s)
    PROVE  Interrupted(s)'
<1>1. PICK q \in Requests : pc[q] = "cut" /\ call[q].to = "SHIPPED" /\ call[q].of = {s}
  BY DEF Interrupted
<1>2. ASSUME NEW r \in Requests, Receive(r)
      PROVE  pc'[q] = pc[q] /\ call'[q] = call[q]
  BY <1>1, <1>2, ReceiveUnbilled DEF IndInv
<1>3. ASSUME NEW r \in Requests, Step(r) \/ Cut(r)
      PROVE  pc'[q] = pc[q] /\ call'[q] = call[q]
  <2>1. InFlight(r) /\ call' = call /\ \E to : Goto(r, to) BY <1>3, StepMoves
  <2> QED BY <1>1, <2>1 DEF InFlight, Goto, IndInv, TypeOK
<1>4. pc'[q] = pc[q] /\ call'[q] = call[q] BY <1>2, <1>3 DEF Next, vars
<1> QED BY <1>1, <1>4 DEF Interrupted

LEMMA OnceInit ==
    ASSUME SeedsOnce, Init
    PROVE  OnceInv
<1>1. OneEntryEach BY DEF Init, SeedsOnce, OneEntryEach
<1>2. OneOrderEach BY DEF Init, SeedsOnce, OneOrderEach, OrdersOf
<1>3. OrderedIsPast BY DEF Init, SeedsOnce, OrderedIsPast, OrdersOf
<1> QED BY <1>1, <1>2, <1>3 DEF Init, OnceInv, NoEntryToBill, NoOrderToCreate, StillAssignable

\* Of two requests only one is a step of, and who shares no sale with it is left
\* as it was.
LEMMA OthersStay ==
    ASSUME IndInv, SerialInv, NEW r \in Requests, Step(r), NEW q \in Requests, q # r
    PROVE  /\ pc'[q] = pc[q] /\ call'[q] = call[q] /\ found'[q] = found[q]
           /\ InFlight(q) => call[q].of \cap call[r].of = {}
<1>1. InFlight(r) /\ call' = call /\ pc'[q] = pc[q] BY StepMoves DEF Goto, IndInv, TypeOK
<1>2. found'[q] = found[q]
  BY DEF IndInv, TypeOK, Goto, Step, FindOrder, CreateOrder, ShipThrows, ShipEntries,
     FindEntry, UpdateEntry, CreateEntry, BillThrows, CommitStatus, CommitThrows,
     CommitAssign, AssignThrows, EditOrder, EditThrows, DeleteEntries, RemoveSale,
     RemoveThrows, Refuse
<1> QED BY <1>1, <1>2 DEF SerialInv, OneWriter

LEMMA OneEntryStep ==
    ASSUME IndInv, SerialInv, OnceInv, NEW r \in Requests, Step(r)
    PROVE  OneEntryEach'
<1>1. CASE CreateEntry(r)
  <2>1. PICK n : entries' = entries \cup {n} /\ n.sale \in call[r].of BY <1>1, AddedEntry
  <2>2. EntriesOf(n.sale) = {} BY <1>1, <2>1 DEF CreateEntry, OnceInv, NoEntryToBill
  <2> QED BY <2>1, <2>2 DEF EntriesOf, OneEntryEach, OnceInv
<1>2. CASE ~ CreateEntry(r)
  <2>1. PICK new : From(new, entries, entries') BY <1>2, EntriesFromEntries
  <2> QED BY <2>1 DEF From, OneEntryEach, OnceInv
<1> QED BY <1>1, <1>2

LEMMA NoEntryStep ==
    ASSUME IndInv, SerialInv, OnceInv, NEW r \in Requests, Step(r)
    PROVE  NoEntryToBill'
<1> SUFFICES ASSUME NEW q \in Requests, pc'[q] = "bill", found'[q] = {}, NEW s \in call'[q].of
             PROVE  EntriesOf(s)' = {}
  BY DEF NoEntryToBill
<1>1. CASE q # r
  <2>1. pc[q] = "bill" /\ found[q] = {} /\ s \in call[q].of /\ s \notin call[r].of
    BY <1>1, OthersStay DEF InFlight
  <2>2. s \in Sales BY <2>1 DEF IndInv, TypeOK, Calls
  <2> QED BY <2>1, <2>2, OtherSales DEF OnceInv, NoEntryToBill
<1>2. CASE q = r
  <2>1. FindEntry(r)
    BY <1>2 DEF IndInv, TypeOK, Goto, Step, FindOrder, CreateOrder, ShipThrows, ShipEntries,
       FindEntry, UpdateEntry, CreateEntry, BillThrows, CommitStatus, CommitThrows,
       CommitAssign, AssignThrows, EditOrder, EditThrows, DeleteEntries, RemoveSale,
       RemoveThrows, Refuse
  <2>2. EntriesOf(SaleOf(r)) = {} /\ entries' = entries /\ call' = call
    <3>1. entries' = entries /\ call' = call BY <2>1 DEF FindEntry, db
    <3>2. CASE EntriesOf(SaleOf(r)) = {} BY <3>1, <3>2
    <3>3. ASSUME NEW e \in EntriesOf(SaleOf(r)), found' = [found EXCEPT ![r] = {e}]
          PROVE  FALSE
      BY <1>2, <3>3 DEF IndInv, TypeOK
    <3> QED BY <2>1, <3>1, <3>2, <3>3 DEF FindEntry
  <2>3. s = SaleOf(r)
    BY <1>2, <2>1, <2>2, SaleOfStep DEF FindEntry, IndInv, Changing, Delivering
  <2> QED BY <2>2, <2>3 DEF EntriesOf
<1> QED BY <1>1, <1>2

LEMMA NoOrderStep ==
    ASSUME IndInv, SerialInv, OnceInv, NEW r \in Requests, Step(r)
    PROVE  NoOrderToCreate'
<1> SUFFICES ASSUME NEW q \in Requests, pc'[q] = "create", NEW s \in call'[q].of
             PROVE  OrdersOf(s)' = {}
  BY DEF NoOrderToCreate
<1>1. CASE q # r
  <2>1. pc[q] = "create" /\ s \in call[q].of /\ s \notin call[r].of
    BY <1>1, OthersStay DEF InFlight
  <2>2. s \in Sales BY <2>1 DEF IndInv, TypeOK, Calls
  <2> QED BY <2>1, <2>2, OtherSales DEF OnceInv, NoOrderToCreate
<1>2. CASE q = r
  <2>1. FindOrder(r)
    BY <1>2 DEF IndInv, TypeOK, Goto, Step, FindOrder, CreateOrder, ShipThrows, ShipEntries,
       FindEntry, UpdateEntry, CreateEntry, BillThrows, CommitStatus, CommitThrows,
       CommitAssign, AssignThrows, EditOrder, EditThrows, DeleteEntries, RemoveSale,
       RemoveThrows, Refuse
  <2>2. orders' = orders /\ call' = call /\ ~ \E o \in orders : SameOrder(o, SaleOf(r))
    BY <1>2, <2>1 DEF FindOrder, Goto, db, IndInv, TypeOK
  <2>3. s = SaleOf(r)
    BY <1>2, <2>1, <2>2, SaleOfStep DEF FindOrder, IndInv, Changing, Shipping
  <2> QED BY <2>2, <2>3 DEF OrdersOf, SameOrder
<1> QED BY <1>1, <1>2

LEMMA StillAssignableStep ==
    ASSUME IndInv, SerialInv, OnceInv, NEW r \in Requests, Step(r)
    PROVE  StillAssignable'
<1> SUFFICES ASSUME NEW q \in Requests, pc'[q] = "assign"
             PROVE  /\ call'[q].driver \in DriverTypes
                    /\ \A s \in call'[q].of : s \notin assigned' /\ status'[s] \in Assignable
  BY DEF StillAssignable
<1>1. q # r
  <2>1. PICK to \in {"create", "ship", "bill", "commit", "remove", "ok", "refused", "cut"} :
          Goto(r, to)
    BY StepMoves
  <2> QED BY <2>1 DEF Goto, IndInv, TypeOK
<1>2. /\ pc[q] = "assign" /\ call'[q] = call[q] /\ call[q].of \cap call[r].of = {}
      /\ call[q].of \subseteq Sales
  BY <1>1, OthersStay DEF InFlight, IndInv, TypeOK, Calls
<1> QED BY <1>2, OtherSales DEF OnceInv, StillAssignable

\* A sale that is about to be assigned has no order, unless a change to SHIPPED
\* was cut off.
LEMMA AssignedUnordered ==
    ASSUME IndInv, SerialInv, OnceInv, NEW r \in Requests, CommitAssign(r),
           NEW s \in call[r].of, ~ Interrupted(s)
    PROVE  OrdersOf(s) = {}
<1>1. pc[r] = "assign" /\ s \in sales BY DEF CommitAssign
<1>2. s \notin assigned /\ status[s] \notin Past
  BY <1>1 DEF OnceInv, StillAssignable, Assignable, Past
<1>3. ASSUME NEW q \in Requests, pc[q] \in {"ship", "commit"}, call[q].of = {s}
      PROVE  FALSE
  BY <1>1, <1>3 DEF SerialInv, OneWriter, InFlight
<1> QED BY <1>1, <1>2, <1>3 DEF OnceInv, OrderedIsPast

LEMMA OneOrderStep ==
    ASSUME IndInv, SerialInv, OnceInv, NEW r \in Requests, Step(r)
    PROVE  OneOrderEach'
<1> SUFFICES ASSUME NEW s \in sales', ~ Interrupted(s)'
             PROVE  \A o, p \in OrdersOf(s)' : o = p
  BY DEF OneOrderEach
<1>1. ~ Interrupted(s) BY InterruptedStays DEF Next
<1>2. s \in sales /\ s \in Sales BY StepWrites DEF IndInv, TypeOK
<1>3. \A o, p \in OrdersOf(s) : o = p BY <1>1, <1>2 DEF OnceInv, OneOrderEach
<1>4. CASE s \notin call[r].of BY <1>2, <1>3, <1>4, OtherSales
<1>5. CASE s \in call[r].of /\ (CreateOrder(r) \/ CommitAssign(r))
  <2>1. OrdersOf(s) = {}
    <3>1. CASE CreateOrder(r) BY <1>5, <3>1 DEF CreateOrder, OnceInv, NoOrderToCreate
    <3>2. CASE CommitAssign(r) BY <1>1, <1>5, <3>2, AssignedUnordered
    <3> QED BY <1>5, <3>1, <3>2
  <2> QED BY <1>5, <2>1, AddedOrders DEF OrdersOf
<1>6. CASE ~ (CreateOrder(r) \/ CommitAssign(r))
  <2>1. PICK new : From(new, orders, orders') BY <1>6, OrdersFromOrders
  <2>2. s # NoSale BY <1>2
  <2> QED BY <1>3, <2>1, <2>2 DEF From, OrdersOf
<1> QED BY <1>4, <1>5, <1>6

\* The table of transitions leads out of assignment for good.
LEMMA PastStays ==
    ASSUME NEW from \in Past, NEW to \in StatusTransitions[from]
    PROVE  to \in Past
  BY DEF Past, StatusTransitions

LEMMA OrderedStep ==
    ASSUME DriverTypes \subseteq {"COMPANY"}, IndInv, SerialInv, OnceInv,
           NEW r \in Requests, Step(r)
    PROVE  OrderedIsPast'
<1> DEFINE Ships(q, s) == pc[q] \in {"ship", "commit"} /\ call[q].to = "SHIPPED" /\ call[q].of = {s}
<1> SUFFICES ASSUME NEW s \in sales', s \notin assigned', OrdersOf(s)' # {}, ~ Interrupted(s)'
             PROVE  status'[s] \in Past \/ \E q \in Requests : Ships(q, s)'
  BY DEF OrderedIsPast
<1>1. ~ Interrupted(s) BY InterruptedStays DEF Next
<1>2. s \in sales /\ s \in Sales BY StepWrites DEF IndInv, TypeOK
<1>3. ASSUME s \notin assigned, OrdersOf(s) # {}
      PROVE  status[s] \in Past \/ \E q \in Requests : Ships(q, s)
  BY <1>1, <1>2, <1>3 DEF OnceInv, OrderedIsPast
<1>4. CASE s \notin call[r].of
  <2>1. s \notin assigned /\ OrdersOf(s) # {} /\ status'[s] = status[s]
    BY <1>2, <1>4, OtherSales
  <2>2. ASSUME NEW q \in Requests, Ships(q, s) PROVE Ships(q, s)' BY <1>4, <2>2, OthersStay
  <2> QED BY <1>3, <2>1, <2>2
<1>5. CASE s \in call[r].of
  <2>1. InFlight(r) /\ call' = call BY StepMoves
  <2>2. ASSUME NEW q \in Requests, Ships(q, s) PROVE q = r
    BY <1>5, <2>1, <2>2, OthersStay DEF InFlight
  <2>3. CASE CreateOrder(r)
    BY <1>5, <2>1, <2>3, SaleOfStep
       DEF CreateOrder, Goto, IndInv, TypeOK, CallsAtSteps, Changing, Shipping
  <2>4. CASE CommitAssign(r)
    <3>1. call[r].driver = "COMPANY" BY <2>4 DEF CommitAssign, OnceInv, StillAssignable
    <3> QED BY <1>5, <2>4, <3>1 DEF CommitAssign
  <2>5. CASE RemoveSale(r) BY <1>5, <2>5, StepWrites DEF IndInv, RemoveSale
  <2>6. CASE ~ (CreateOrder(r) \/ CommitAssign(r) \/ RemoveSale(r))
    <3>1. OrdersOf(s) # {}
      <4>1. PICK new : From(new, orders, orders') BY <2>6, OrdersFromOrders
      <4> QED BY <1>2, <4>1 DEF From, OrdersOf
    <3>2. assigned' = assigned
      BY <2>6 DEF Step, FindOrder, ShipThrows, ShipEntries, FindEntry, UpdateEntry,
         CreateEntry, BillThrows, CommitStatus, CommitThrows, AssignThrows, EditOrder,
         EditThrows, DeleteEntries, RemoveThrows, Refuse, db
    <3>3. status[s] \in Past \/ Ships(r, s) BY <1>3, <2>2, <3>1, <3>2
    <3>4. CASE CommitStatus(r)
      <4>1. SaleOf(r) = s /\ status' = [status EXCEPT ![s] = call[r].to]
        <5>1. pc[r] = "commit" /\ status' = [status EXCEPT ![SaleOf(r)] = call[r].to]
          BY <3>4 DEF CommitStatus
        <5>2. call[r].of = {SaleOf(r)} BY <5>1, SaleOfStep DEF IndInv, Changing
        <5>3. SaleOf(r) = s BY <1>5, <5>2
        <5> QED BY <5>1, <5>3
      <4>2. call[r].to \in StatusTransitions[status[s]]
        BY <1>5, <3>4 DEF CommitStatus, SerialInv, StillValid, Changing
      <4>3. call[r].to \in Past
        <5>1. CASE status[s] \in Past BY <4>2, <5>1, PastStays
        <5>2. CASE Ships(r, s) BY <5>2 DEF Past
        <5> QED BY <3>3, <5>1, <5>2
      <4> QED BY <1>2, <4>1, <4>3 DEF IndInv, TypeOK
    <3>5. CASE ShipEntries(r)
      BY <1>5, <2>1, <3>5, SaleOfStep
         DEF ShipEntries, Goto, IndInv, TypeOK, CallsAtSteps, Changing, Shipping
    <3>6. CASE ~ (CommitStatus(r) \/ ShipEntries(r))
      <4>1. status' = status BY <3>6, StepWrites DEF IndInv
      <4>2. ~ CommitThrows(r)
        <5>1. pc[r] = "commit" => SaleOf(r) = s BY <1>5, SaleOfStep DEF IndInv, Changing
        <5> QED BY <1>2, <5>1 DEF CommitThrows
      <4>3. pc[r] \notin {"ship", "commit"}
        BY <2>6, <3>6, <4>2 DEF Step, FindOrder, ShipThrows, FindEntry, UpdateEntry,
           CreateEntry, BillThrows, AssignThrows, EditOrder, EditThrows, DeleteEntries,
           RemoveThrows
      <4> QED BY <3>3, <4>1, <4>3
    <3> QED BY <3>4, <3>5, <3>6
  <2> QED BY <2>3, <2>4, <2>5, <2>6
<1> QED BY <1>4, <1>5

\* An assignment is received for sales that can be assigned.
LEMMA ReceiveAssigns ==
    ASSUME IndInv, NEW r \in Requests, Receive(r)
    PROVE  /\ pc[r] = "idle" /\ UNCHANGED <<db, found>>
           /\ \A q \in Requests : q # r => call'[q] = call[q] /\ pc'[q] = pc[q]
           /\ pc'[r] \in {"order", "entry", "commit", "assign", "edit", "erase"}
           /\ pc'[r] = "assign" =>
                /\ call'[r].driver \in DriverTypes
                /\ \A s \in call'[r].of : s \notin assigned /\ status[s] \in Assignable
<1>1. /\ pc[r] = "idle" /\ UNCHANGED <<db, found>>
      /\ \A q \in Requests : q # r => call'[q] = call[q] /\ pc'[q] = pc[q]
  BY ReceiveUnbilled DEF IndInv
<1>2. \E c \in Calls, to \in {"order", "entry", "commit", "assign", "edit", "erase"} : Goto(r, to)
  BY ReceiveBegins DEF IndInv
<1>3. pc'[r] \in {"order", "entry", "commit", "assign", "edit", "erase"}
  BY <1>2 DEF Goto, IndInv, TypeOK
<1>4. ASSUME pc'[r] = "assign"
      PROVE  /\ call'[r].driver \in DriverTypes
             /\ \A s \in call'[r].of : s \notin assigned /\ status[s] \in Assignable
  <2>1. PICK S \in (SUBSET Sales) \ {{}}, d \in DriverTypes : BeginAssign(r, S, d)
    BY <1>4 DEF Receive, BeginChange, BeginEdit, BeginDelete, AfterValidation, Goto, IndInv,
       TypeOK
  <2>2. call'[r] = [NoCall EXCEPT !.op = "assign", !.of = S, !.driver = d]
    BY <2>1 DEF BeginAssign, Begin, IndInv, TypeOK
  <2>3. call'[r].driver = d /\ call'[r].of = S BY <2>2 DEF NoCall
  <2> QED BY <2>1, <2>3 DEF BeginAssign
<1> QED BY <1>1, <1>3, <1>4

LEMMA OnceStep ==
    ASSUME DriverTypes \subseteq {"COMPANY"}, IndInv, SerialInv, OnceInv, [Next]_vars
    PROVE  OnceInv'
<1>1. CASE UNCHANGED vars
  <2> USE DEF vars, db, EntriesOf, OrdersOf, Interrupted
  <2>1. OneEntryEach' /\ NoEntryToBill' /\ NoOrderToCreate' /\ StillAssignable'
    BY <1>1 DEF OnceInv, OneEntryEach, NoEntryToBill, NoOrderToCreate, StillAssignable
  <2>2. OneOrderEach' BY <1>1 DEF OnceInv, OneOrderEach
  <2>3. OrderedIsPast' BY <1>1 DEF OnceInv, OrderedIsPast
  <2> QED BY <2>1, <2>2, <2>3 DEF OnceInv
<1>2. ASSUME NEW r \in Requests, Receive(r) \/ Cut(r)
      PROVE  OnceInv'
  <2>1. /\ UNCHANGED <<db, found>>
        /\ \A q \in Requests : q # r => call'[q] = call[q] /\ pc'[q] = pc[q]
    BY <1>2, ReceiveAssigns DEF Cut, Goto, IndInv, TypeOK
  <2>2. pc'[r] \notin {"ship", "bill", "create"}
    BY <1>2, ReceiveAssigns DEF Cut, Goto, IndInv, TypeOK
  <2>3. \A s : Interrupted(s) => Interrupted(s)' BY <1>2, InterruptedStays DEF Next
  <2>4. OneEntryEach' /\ NoEntryToBill' /\ NoOrderToCreate'
    BY <2>1, <2>2 DEF OnceInv, OneEntryEach, NoEntryToBill, NoOrderToCreate, EntriesOf,
       OrdersOf, db
  <2>5. OneOrderEach' BY <2>1, <2>3 DEF OnceInv, OneOrderEach, OrdersOf, db
  <2>6. StillAssignable'
    <3>1. CASE Cut(r)
      BY <2>1, <3>1 DEF Cut, Goto, IndInv, TypeOK, OnceInv, StillAssignable, db
    <3>2. CASE Receive(r) BY <2>1, <3>2, ReceiveAssigns DEF OnceInv, StillAssignable, db
    <3> QED BY <1>2, <3>1, <3>2
  <2>7. OrderedIsPast'
    <3> SUFFICES ASSUME NEW s \in sales \ assigned, OrdersOf(s) # {}, ~ Interrupted(s)'
                 PROVE  \/ status[s] \in Past
                        \/ \E q \in Requests : /\ pc'[q] \in {"ship", "commit"}
                                               /\ call'[q].to = "SHIPPED"
                                               /\ call'[q].of = {s}
      BY <2>1 DEF OrderedIsPast, OrdersOf, db
    <3>1. CASE status[s] \in Past BY <3>1
    <3>2. ASSUME NEW q \in Requests, pc[q] \in {"ship", "commit"}, call[q].to = "SHIPPED",
                 call[q].of = {s}
          PROVE  pc'[q] \in {"ship", "commit"} /\ call'[q] = call[q]
      <4>1. CASE q # r BY <2>1, <3>2, <4>1
      <4>2. CASE q = r
        <5>1. Cut(r) BY <1>2, <3>2, <4>2, ReceiveAssigns
        <5>2. Interrupted(s)' BY <3>2, <4>2, <5>1 DEF Cut, Goto, IndInv, TypeOK, Interrupted
        <5> QED BY <5>2
      <4> QED BY <4>1, <4>2
    <3> QED BY <2>3, <3>1, <3>2 DEF OnceInv, OrderedIsPast
  <2> QED BY <2>4, <2>5, <2>6, <2>7 DEF OnceInv
<1>3. ASSUME NEW r \in Requests, Step(r)
      PROVE  OnceInv'
  BY <1>3, OneEntryStep, NoEntryStep, OneOrderStep, OrderedStep, NoOrderStep,
     StillAssignableStep DEF OnceInv
<1> QED BY <1>1, <1>2, <1>3 DEF Next

\* When no sale is written twice at a time and drivers are the company's, no sale
\* is ever billed twice, whatever is cut off and asked for again, and none has two
\* orders but one whose shipping was cut off (handleShippedStatus,
\* handleDeliveredStatus, bulkAssignDriver).  A driver of a third party is not
\* recorded on the sale, which can then be assigned, and ordered, again.
THEOREM RowsWrittenOnce ==
    ASSUME OnePerSale, DriverTypes \subseteq {"COMPANY"}, SeedsOnce
    PROVE  Spec => []WrittenOnce
<1>1. Init => IndInv /\ SerialInv /\ OnceInv BY IndInvInit, SerialInit, OnceInit
<1>2. IndInv /\ SerialInv /\ OnceInv /\ [Next]_vars => (IndInv /\ SerialInv /\ OnceInv)'
  BY IndInvStep, SerialInvStep, OnceStep
<1>3. IndInv /\ OnceInv => WrittenOnce
  <2> SUFFICES ASSUME IndInv, OnceInv PROVE WrittenOnce OBVIOUS
  <2>1. ASSUME NEW S, \A x, y \in S : x = y
        PROVE  Cardinality(S) <= 1 /\ ~ (Cardinality(S) > 1)
    <3>1. CASE S = {} BY <3>1, FS_EmptySet
    <3>2. ASSUME NEW x \in S PROVE Cardinality(S) = 1
      <4>1. S = {x} BY <2>1
      <4> QED BY <4>1, FS_Singleton
    <3> QED BY <3>1, <3>2
  <2>2. ASSUME NEW s \in Sales PROVE Cardinality(EntriesOf(s)) <= 1
    <3>1. \A e, f \in EntriesOf(s) : e = f BY DEF OnceInv, OneEntryEach, EntriesOf
    <3> QED BY <2>1, <3>1
  <2>3. ASSUME NEW s \in sales, Cardinality(OrdersOf(s)) > 1
        PROVE  \E r \in Requests : pc[r] = "cut" /\ call[r].to = "SHIPPED" /\ call[r].of = {s}
    <3>1. ~ \A o, p \in OrdersOf(s) : o = p BY <2>1, <2>3
    <3> QED BY <3>1 DEF OnceInv, OneOrderEach, Interrupted
  <2> QED BY <2>2, <2>3 DEF WrittenOnce
<1> QED BY <1>1, <1>2, <1>3, PTL DEF Spec
==============================================================================
