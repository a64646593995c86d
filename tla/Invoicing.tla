------------------------------ MODULE Invoicing ------------------------------
(***************************************************************************)
(* Business details and invoices (InvoiceService).  A page asks for the next   *)
(* number of its store and then sends the invoice with it: a request here is   *)
(* the two calls together.  Amounts and what is printed are left out.         *)
(*                                                                         *)
(* Numbers are texts: decimal, padded to three digits, and the latest is       *)
(* looked for in the order of texts.  Base and Width are 10 and 3 in the code;  *)
(* small ones make the same happen after fewer invoices.                      *)
(***************************************************************************)
EXTENDS OfficeTables

CONSTANTS
    Base,           \* of the numeral system
    Width           \* digits a number is padded to

ASSUME InvoicingAssumption ==
    /\ Base \in Nat \ {0, 1} /\ Width \in Nat \ {0}
    /\ \A x \in In("Invoice", SeedRows) : x.no \in Nat

----------------------------------------------------------------------------
(* Numbers as texts *)

\* nextNumber.toString()
Digits[n \in Nat] == IF n < Base THEN <<n>> ELSE Append(Digits[n \div Base], n % Base)

\* padStart
Text(n) ==
    LET d == Digits[n] IN
    IF Len(d) >= Width THEN d ELSE [i \in 1..(Width - Len(d)) |-> 0] \o d

\* The order of texts: the first difference decides, a prefix comes first.
TextLess(a, b) ==
    \E k \in 1..Len(b) :
        /\ \A i \in 1..(k - 1) : i <= Len(a) /\ a[i] = b[i]
        /\ k > Len(a) \/ (k <= Len(a) /\ a[k] < b[k])

StoreOf(x) == Get("Sales", x.to["saleId"]).to["storeId"]

\* Deleted invoices keep their number.
NumbersOf(s) == {x.no : x \in {y \in In("Invoice", rows) : StoreOf(y) = s}}

GenerateInvoiceNumber(s) ==
    LET N == NumbersOf(s) IN
    IF N = {} THEN 1
    ELSE (CHOOSE n \in N : \A m \in N : ~ TextLess(Text(n), Text(m))) + 1

----------------------------------------------------------------------------
(* The business of a client *)

BusinessOf(c) == {b \in In("Business", rows) : RefersTo(b, "clientId", c)}

\* setBusinessInfo answers as well when there is a business already.
BeginSetBusiness(r, u) ==
    LET c == [op |-> "setBusiness", user |-> u, client |-> ClientOf(u)] IN
    Check(r, c, BusinessOf(ClientOf(u)) = {}, {}, "business")

\* The business commits on its own; a second one of the client violates the
\* unique index, which is answered.
CreateBusiness(r) ==
    LET c == call[r].client
        b == New("Business", r, [clientId |-> c])
    IN
    /\ pc[r] = "business"
    /\ NotDoomed(r, Parents(b))
    /\ \A x \in BusinessOf(c) : NotDoomed(r, {Key(x)})
    /\ IF BusinessOf(c) # {} THEN End(r, "refused") /\ UNCHANGED rows
       ELSE IF ~ Has("Clients", c) THEN Fails(r)
       ELSE /\ rows' = rows \cup {b}
            /\ Goto(r, "link")
            /\ UNCHANGED <<call, seen, lock, at, raced, faults>>

LinkUser(r) ==
    LET u == call[r].user IN
    /\ pc[r] = "link"
    /\ NotDoomed(r, {<<"Business", r>>})
    /\ IF Has("Business", r)
       THEN Write(r, "Users", u, [Get("Users", u) EXCEPT !.to["businessId"] = r])
       ELSE Fails(r)

\* updateBusinessInfo: a business deleted meanwhile is answered.
BeginUpdateBusiness(r, u) ==
    LET c == [op |-> "updateBusiness", client |-> ClientOf(u)] IN
    Check(r, c, BusinessOf(ClientOf(u)) # {}, {}, "editBusiness")

UpdateBusiness(r) ==
    LET B == BusinessOf(call[r].client) IN
    /\ pc[r] = "editBusiness"
    /\ Free(r, Keys(B))
    /\ End(r, IF B = {} THEN "refused" ELSE "ok")
    /\ UNCHANGED rows

----------------------------------------------------------------------------
(* Invoices *)

\* createInvoice for sale s on behalf of user u, who needs a business; the sale
\* needs a customer.  The number was asked for before.
BeginInvoice(r, u, s) ==
    LET user == Get("Users", u)
        sale == Get("Sales", s)
        b == user.to["businessId"]
        c == [op |-> "invoice", user |-> u, sale |-> s,
              no |-> GenerateInvoiceNumber(sale.to["storeId"])]
    IN
    Check(r, c, b # None /\ Has("Business", b) /\ sale.to["customerId"] # None,
          {user, sale}, "invoice")

SaleOf(r) == CHOOSE x \in seen[r] : x.t = "Sales"

InvoiceRow(r) ==
    LET user == CHOOSE x \in seen[r] : x.t = "Users"
    IN  [New("Invoice", r, [clientId |-> user.to["clientId"], saleId |-> SaleOf(r).id,
                            customerId |-> SaleOf(r).to["customerId"],
                            businessId |-> user.to["businessId"]])
         EXCEPT !.no = call[r].no]

\* invoiceNumber and clientId are unique together.
NumberTaken(r) ==
    \E x \in In("Invoice", rows) :
        x.no = call[r].no /\ RefersTo(x, "clientId", InvoiceRow(r).to["clientId"])

CreateInvoice(r) ==
    /\ pc[r] = "invoice"
    /\ IF NumberTaken(r) THEN Fails(r)
       ELSE Insert(r, {InvoiceRow(r)}) \/ InsertFails(r, {InvoiceRow(r)})

\* getInvoice: it is there and not deleted.
OpenInvoice(i) == Has("Invoice", i) /\ Get("Invoice", i).on

\* updateInvoice and softDeleteInvoice look for an invoice that is not deleted.
BeginEditInvoice(r, op, i) ==
    LET c == [op |-> op, invoice |-> i] IN
    Check(r, c, OpenInvoice(i), {}, "editInvoice")

\* What is printed is left out; a deletion meanwhile goes unnoticed.
UpdateInvoice(r) ==
    /\ pc[r] = "editInvoice"
    /\ Is(r, "updateInvoice")
    /\ Write(r, "Invoice", call[r].invoice, Get("Invoice", call[r].invoice))

SoftDeleteInvoice(r) ==
    LET i == call[r].invoice IN
    /\ pc[r] = "editInvoice"
    /\ Is(r, "softDeleteInvoice")
    /\ Write(r, "Invoice", i, [Get("Invoice", i) EXCEPT !.on = FALSE])

----------------------------------------------------------------------------

ReceiveInvoicing(r) ==
    \/ \E u \in Ids("Users", rows) :
         \/ BeginSetBusiness(r, u)
         \/ BeginUpdateBusiness(r, u)
         \/ \E s \in Own(ClientOf(u), "Sales") : BeginInvoice(r, u, s)
    \/ \E i \in Ids("Invoice", rows), op \in {"updateInvoice", "softDeleteInvoice"} :
         BeginEditInvoice(r, op, i)

StepInvoicing(r) ==
    \/ CreateBusiness(r) \/ LinkUser(r) \/ UpdateBusiness(r)
    \/ CreateInvoice(r) \/ UpdateInvoice(r) \/ SoftDeleteInvoice(r)

----------------------------------------------------------------------------
(* Properties *)

\* An invoice is refused because of its number only if another that met it took the
\* number, another store of the client uses it, or the store's numbers have
\* outgrown their padding, so that the order of texts is no longer that of numbers
\* (generateInvoiceNumber).  The page that asked for a number can use it otherwise.
NumbersClashOnlyWhen ==
    [][\A r \in Requests :
          (pc[r] = "invoice" /\ pc'[r] = "failed" /\ NumberTaken(r) /\ faults' = faults) =>
            \/ \E q \in Requests : Met(q, r) /\ Is(q, "invoice") /\ call[q].no = call[r].no
            \/ \E x \in In("Invoice", rows) :
                 x.no = call[r].no /\ ~ RefersTo(SaleOf(r), "storeId", StoreOf(x))
            \/ Len(Text(call[r].no)) > Width]_vars

\* A business reaches the user who entered it, so that somebody can write invoices,
\* unless the request failed between the two commits (setBusinessInfo).
BusinessReachesUser ==
    \A b \in In("Business", rows) :
        (b.id \in Requests /\ pc[b.id] = "ok") =>
            \E u \in In("Users", rows) : RefersTo(u, "businessId", b.id)
=============================================================================
