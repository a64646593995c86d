---------------------------- MODULE CustomerLedger ----------------------------
(***************************************************************************)
(* The ledger of a store's customers: rows of BalanceSheet, the running     *)
(* totals currentBalance and credits of Customer, and the requests that     *)
(* write them (CustomerBalanceService, CustomerService.deleteCustomer).     *)
(*                                                                         *)
(* A payment is one Read Committed transaction: it reads the customer, then *)
(* the open entries, and writes what it computed from them.  Its writes     *)
(* become visible together when it commits, and the row locks it holds make *)
(* them one step; each of its reads is a step of its own.  Refunds and the  *)
(* deletion of a customer are statements that commit one by one.            *)
(*                                                                         *)
(* Amounts are integers.  The store check and descriptions are left out.    *)
(***************************************************************************)
EXTENDS Integers, SequencesExt, SaleTypes

CONSTANTS
    Customers,      \* ids of customers
    Sales,          \* ids of sales
    Writers,        \* HTTP writes; each is received at most once
    CustomerOf,     \* the customer of each sale
    NoSale,         \* no saleId in an entry
    SeedEntries,    \* the entries at the start
    SeedBalance,    \* currentBalance of the customers at the start
    SeedStatus,     \* the status of the sales at the start
    PayAmounts,     \* the amounts payments and refunds carry
    DebtAmounts,    \* the amounts initial balances carry
    Linked          \* a subset of BOOLEAN: whether payments name a sale

EntryType == {"SALE", "PAYMENT", "REFUND", "ADJUSTMENT"}

\* A row of BalanceSheet; owe is remainingAmount, which payments leave alone,
\* and id stands for createdAt.
Entry == [id : Nat, cust : Customers, sale : Sales \cup {NoSale},
          type : EntryType, owe : Int, paid : Int, st : PaymentStatus]

ASSUME LedgerAssumption ==
    /\ Customers # {}
    /\ NoSale \notin Sales
    /\ CustomerOf \in [Sales -> Customers]
    /\ SeedEntries \subseteq Entry
    /\ IsFiniteSet(SeedEntries)
    /\ \A e, f \in SeedEntries : e.id = f.id => e = f
    /\ \A e \in SeedEntries :
        /\ e.id <= Cardinality(SeedEntries)
        /\ e.sale \in Sales => e.cust = CustomerOf[e.sale]
    /\ SeedBalance \in [Customers -> Int]
    /\ SeedStatus \in [Sales -> SaleStatus]
    /\ PayAmounts \subseteq Nat \ {0}
    /\ DebtAmounts \subseteq Nat
    /\ Linked \subseteq BOOLEAN

VARIABLES
    customers,  \* the rows of Customer
    balance,    \* currentBalance
    credits,    \* credits
    entered,    \* the rows of BalanceSheet
    nextId,     \* the createdAt of the next one
    status,     \* Sales.status
    awaits,     \* what each request awaits
    ask,        \* what it asks for
    had,        \* the totals it read of its customer
    got,        \* the entries it read
    met         \* history: the customers two requests have written at a time

ledger == <<customers, balance, credits, entered, nextId, status>>
ledgerVars == <<ledger, awaits, ask, had, got, met>>

Calls == [op : {"none", "payment", "initial", "refund", "delete"},
          cust : Customers, sale : Sales \cup {NoSale}, amount : Nat,
          linked : BOOLEAN]

NothingAsked == [op |-> "none", cust |-> CHOOSE c \in Customers : TRUE,
                 sale |-> NoSale, amount |-> 0, linked |-> FALSE]

Underway(r) == awaits[r] \notin {"idle", "ok", "refused", "cut"}

EnteredOf(c) == {e \in entered : e.cust = c}
Open(e) == e.st \in {"UNPAID", "PARTIAL"}
Owed(e) == e.owe - e.paid

TotalOwedOn(S) == MapThenSumSet(Owed, S)
TotalPaidOn(S) == MapThenSumSet(LAMBDA e : e.paid, S)

LedgerInit ==
    /\ customers = Customers
    /\ balance = SeedBalance
    /\ credits = [c \in Customers |-> 0]
    /\ entered = SeedEntries
    /\ nextId = 1 + Cardinality(SeedEntries)
    /\ status = SeedStatus
    /\ awaits = [r \in Writers |-> "idle"]
    /\ ask = [r \in Writers |-> NothingAsked]
    /\ had = [r \in Writers |-> [balance |-> 0, credits |-> 0]]
    /\ got = [r \in Writers |-> {}]
    /\ met = {}

Await(r, to) == awaits' = [awaits EXCEPT ![r] = to]

\* The customer is found, and its totals are read.
Find(r, c) ==
    /\ awaits[r] = "idle"
    /\ c.cust \in customers
    /\ ask' = [ask EXCEPT ![r] = c]
    /\ had' = [had EXCEPT ![r] =
                 [balance |-> balance[c.cust], credits |-> credits[c.cust]]]
    /\ met' = IF \E q \in Writers : Underway(q) /\ ask[q].cust = c.cust
              THEN met \cup {c.cust} ELSE met

NewEntry(c, s, type, owe, paid, st) ==
    [id |-> nextId, cust |-> c, sale |-> s, type |-> type, owe |-> owe,
     paid |-> paid, st |-> st]

\* The callback threw: nothing that went through the transaction remains.
Throw(r) ==
    /\ Await(r, "refused")
    /\ UNCHANGED <<ledger, ask, had, got, met>>

\* Its transaction expires, or the process dies.
Cut(r) ==
    /\ Underway(r)
    /\ Await(r, "cut")
    /\ UNCHANGED <<ledger, ask, had, got, met>>

----------------------------------------------------------------------------
(* POST /sales/add-payment *)

BeginPayment(r, c, a, linked) ==
    /\ Find(r, [op |-> "payment", cust |-> c, sale |-> NoSale, amount |-> a,
                linked |-> linked])
    /\ Await(r, "entries")
    /\ UNCHANGED <<ledger, got>>

\* Mutant: entries that are paid in part are forgotten.
ReadUnpaidEntries(r) ==
    /\ awaits[r] = "entries"
    /\ got' = [got EXCEPT ![r] =
                  {e \in EnteredOf(ask[r].cust) : e.st = "UNPAID"}]
    /\ Await(r, "pay")
    /\ UNCHANGED <<ledger, ask, had, met>>

ReadEntries(r) ==
    /\ awaits[r] = "entries"
    /\ got' = [got EXCEPT ![r] = {e \in EnteredOf(ask[r].cust) : Open(e)}]
    /\ Await(r, "pay")
    /\ UNCHANGED <<ledger, ask, had, met>>

\* The loop over the open entries: each takes what it is owed, while anything
\* is left.
PayOne(acc, e) ==
    IF acc.left <= 0 THEN acc
    ELSE LET x == IF acc.left < Owed(e) THEN acc.left ELSE Owed(e) IN
         [left |-> acc.left - x, pays |-> acc.pays \cup {[entry |-> e, amount |-> x]}]

Newest(S) == CHOOSE e \in S : \A f \in S : f.id <= e.id

\* What a payment does with its amount a: the newest of the entries S comes
\* after all the others.
Allocated(a, S) ==
    MapThenFoldSet(LAMBDA e, acc : PayOne(acc, e), [left |-> a, pays |-> {}],
                   LAMBDA e : e, Newest, S)

Allocation(r) == Allocated(ask[r].amount, got[r])

\* An entry or the customer deleted meanwhile throws, so does the entry of a
\* sale that is DELIVERED already, and so does the history of a linked sale,
\* whose row lacks its clientId.
Bookable(r) ==
    LET pays == Allocation(r).pays IN
    /\ ask[r].cust \in customers
    /\ ~ ask[r].linked
    /\ \A p \in pays :
        /\ \E e \in entered : e.id = p.entry.id
        /\ p.entry.sale # NoSale => status[p.entry.sale] # "DELIVERED"
    /\ \A p, q \in pays : (p # q /\ p.entry.sale # NoSale) => p.entry.sale # q.entry.sale

\* Mutant: the sum is computed by the program and not by the database.
BookedAsRead(e, pays) ==
    IF \E p \in pays : p.entry.id = e.id
    THEN LET p == CHOOSE q \in pays : q.entry.id = e.id IN
         [e EXCEPT !.paid = p.entry.paid + p.amount,
                   !.st = IF p.entry.paid + p.amount >= p.entry.owe
                          THEN "PAID" ELSE "PARTIAL"]
    ELSE e

\* An entry with what the payments pays add to it; the new status is computed
\* from the entry as it was read.
Booked(e, pays) ==
    IF \E p \in pays : p.entry.id = e.id
    THEN LET p == CHOOSE q \in pays : q.entry.id = e.id IN
         [e EXCEPT !.paid = @ + p.amount,
                   !.st = IF p.entry.paid + p.amount >= p.entry.owe
                          THEN "PAID" ELSE "PARTIAL"]
    ELSE e

\* What remains when every debt is paid is an entry of its own.
CreditEntries(c, left) ==
    IF left > 0 THEN {NewEntry(c, NoSale, "PAYMENT", 0, left, "PAID")} ELSE {}

CommitPayment(r) ==
    LET c == ask[r].cust
        pays == Allocation(r).pays
        left == Allocation(r).left
    IN
    /\ awaits[r] = "pay"
    /\ Bookable(r)
    /\ entered' = {Booked(e, pays) : e \in entered} \cup CreditEntries(c, left)
    /\ nextId' = nextId + 1
    /\ status' = [s \in Sales |-> IF \E p \in pays : p.entry.sale = s
                                  THEN "DELIVERED" ELSE status[s]]
    /\ balance' = [balance EXCEPT ![c] = had[r].balance - (ask[r].amount - left)]
    /\ credits' = [credits EXCEPT ![c] = had[r].credits + left]
    /\ Await(r, "ok")
    /\ UNCHANGED <<customers, ask, had, got, met>>

PaymentThrows(r) ==
    /\ awaits[r] = "pay"
    /\ ~ Bookable(r)
    /\ Throw(r)

----------------------------------------------------------------------------
(* POST /sales/add-initial-balance *)

BeginInitial(r, c, a) ==
    /\ Find(r, [op |-> "initial", cust |-> c, sale |-> NoSale, amount |-> a,
                linked |-> FALSE])
    /\ Await(r, "initial")
    /\ UNCHANGED <<ledger, got>>

\* Mutant: a payment status the schema does not have.
CommitInitialDue(r) ==
    LET c == ask[r].cust IN
    /\ awaits[r] = "initial"
    /\ c \in customers
    /\ entered' = entered \cup
         {NewEntry(c, NoSale, "ADJUSTMENT", ask[r].amount, 0, "DUE")}
    /\ nextId' = nextId + 1
    /\ balance' = [balance EXCEPT ![c] = had[r].balance + ask[r].amount]
    /\ Await(r, "ok")
    /\ UNCHANGED <<customers, credits, status, ask, had, got, met>>

CommitInitial(r) ==
    LET c == ask[r].cust
        a == ask[r].amount
    IN
    /\ awaits[r] = "initial"
    /\ c \in customers
    /\ entered' = entered \cup
         {NewEntry(c, NoSale, "ADJUSTMENT", a, 0, IF a > 0 THEN "UNPAID" ELSE "PAID")}
    /\ nextId' = nextId + 1
    /\ balance' = [balance EXCEPT ![c] = had[r].balance + a]
    /\ Await(r, "ok")
    /\ UNCHANGED <<customers, credits, status, ask, had, got, met>>

InitialThrows(r) ==
    /\ awaits[r] = "initial"
    /\ ask[r].cust \notin customers
    /\ Throw(r)

----------------------------------------------------------------------------
(* The refund of a return, POST /sales/returns *)

\* Some entry of the sale, if it has one.
BeginRefund(r, s, a) ==
    LET found == {e \in entered : e.sale = s} IN
    /\ Find(r, [op |-> "refund", cust |-> CustomerOf[s], sale |-> s,
                amount |-> a, linked |-> FALSE])
    /\ \/ found = {} /\ UNCHANGED got
       \/ \E e \in found : got' = [got EXCEPT ![r] = {e}]
    /\ Await(r, "refund")
    /\ UNCHANGED ledger

\* The entry that was found becomes the refund, what it was paid is overwritten;
\* or a new entry is the refund.
WriteRefund(r) ==
    LET ids == {e.id : e \in got[r]}
        refunded(e) == [e EXCEPT !.type = "REFUND", !.owe = ask[r].amount,
                                 !.paid = 0, !.st = "REFUNDED"]
    IN
    /\ awaits[r] = "refund"
    /\ IF ids = {}
       THEN /\ entered' = entered \cup
                 {NewEntry(ask[r].cust, ask[r].sale, "REFUND", ask[r].amount,
                           0, "REFUNDED")}
            /\ nextId' = nextId + 1
       ELSE /\ entered' = {IF e.id \in ids THEN refunded(e) ELSE e : e \in entered}
            /\ UNCHANGED nextId
    /\ Await(r, "ok")
    /\ UNCHANGED <<customers, balance, credits, status, ask, had, got, met>>

----------------------------------------------------------------------------
(* DELETE /customer/:id *)

BeginDelete(r, c) ==
    /\ \A s \in Sales : CustomerOf[s] # c
    /\ Find(r, [NothingAsked EXCEPT !.op = "delete", !.cust = c])
    /\ Await(r, "wipe")
    /\ UNCHANGED <<ledger, got>>

WipeEntries(r) ==
    /\ awaits[r] = "wipe"
    /\ entered' = entered \ EnteredOf(ask[r].cust)
    /\ Await(r, "erase")
    /\ UNCHANGED <<customers, balance, credits, nextId, status, ask, had, got, met>>

DeleteCustomer(r) ==
    /\ awaits[r] = "erase"
    /\ ask[r].cust \in customers
    /\ EnteredOf(ask[r].cust) = {}
    /\ customers' = customers \ {ask[r].cust}
    /\ Await(r, "ok")
    /\ UNCHANGED <<balance, credits, entered, nextId, status, ask, had, got, met>>

\* Deleted already, or an entry was written since they were wiped.
DeleteThrows(r) ==
    /\ awaits[r] = "erase"
    /\ ask[r].cust \notin customers \/ EnteredOf(ask[r].cust) # {}
    /\ Throw(r)

----------------------------------------------------------------------------
(* The specification *)

LedgerStep(r) ==
    \/ ReadEntries(r)
    \/ CommitPayment(r)
    \/ PaymentThrows(r)
    \/ CommitInitial(r)
    \/ InitialThrows(r)
    \/ WriteRefund(r)
    \/ WipeEntries(r)
    \/ DeleteCustomer(r)
    \/ DeleteThrows(r)

Accept(r) ==
    /\ awaits[r] = "idle"
    /\ \/ \E c \in Customers :
            \/ \E a \in PayAmounts, linked \in Linked : BeginPayment(r, c, a, linked)
            \/ \E a \in DebtAmounts : BeginInitial(r, c, a)
            \/ BeginDelete(r, c)
       \/ \E s \in Sales, a \in PayAmounts : BeginRefund(r, s, a)

LedgerNext == \E r \in Writers : Accept(r) \/ LedgerStep(r) \/ Cut(r)

LedgerSpec == LedgerInit /\ [][LedgerNext]_ledgerVars

----------------------------------------------------------------------------
(* Properties *)

LedgerTyped ==
    /\ customers \subseteq Customers
    /\ balance \in [Customers -> Int]
    /\ credits \in [Customers -> Int]
    /\ entered \subseteq Entry
    /\ nextId \in Nat
    /\ status \in [Sales -> SaleStatus]
    /\ awaits \in [Writers -> {"idle", "entries", "pay", "initial", "refund",
                               "wipe", "erase", "ok", "refused", "cut"}]
    /\ ask \in [Writers -> Calls]
    /\ had \in [Writers -> [balance : Int, credits : Int]]
    /\ got \in [Writers -> SUBSET Entry]
    /\ met \subseteq Customers

\* No refund and no deletion has begun on the customer.
Untouched(c) ==
    \A r \in Writers : ask[r].op \in {"refund", "delete"} => ask[r].cust # c

Received(c) ==
    MapThenSumSet(LAMBDA r : ask[r].amount,
                  {r \in Writers : /\ awaits[r] = "ok"
                                    /\ ask[r].op = "payment"
                                    /\ ask[r].cust = c})

\* However payments overlap, every unit of a payment that succeeded is in the
\* entries, and no unit of another: nothing is lost, nothing counted twice.
PaymentsAreBooked ==
    \A c \in Customers :
      Untouched(c) =>
          TotalPaidOn(EnteredOf(c)) =
            TotalPaidOn({e \in SeedEntries : e.cust = c}) + Received(c)

OpenEntries(S, c) == {e \in S : e.cust = c /\ Open(e)}

DebtIsExplained(c) ==
    balance[c] - TotalOwedOn(OpenEntries(entered, c)) =
      SeedBalance[c] - TotalOwedOn(OpenEntries(SeedEntries, c))

\* The status of an entry tells how much of it is paid, and no entry is paid
\* more than it owes.
TellsPaid(e) ==
    CASE e.st = "UNPAID"  -> e.paid = 0
      [] e.st = "PARTIAL" -> 0 < e.paid /\ e.paid < e.owe
      [] e.st = "PAID"    -> e.paid = e.owe \/ e.owe = 0
      [] OTHER            -> FALSE

\* The rows the store starts with tell what is paid on them.
SeedsTellPaid == \A e \in SeedEntries : TellsPaid(e)

\* Payments that overlap overpay an entry and leave it PARTIAL; what the next
\* ones take from it is negative, and two of those leave it PAID with less than
\* it owes.
StatusesTellPaid ==
    \A e \in entered :
        (Untouched(e.cust) /\ e.cust \notin met) => TellsPaid(e)

\* currentBalance and the entries tell the same debt: the payments and initial
\* balances of a customer, one at a time, move both by the same amount, whatever
\* happens to other customers meanwhile; and statuses tell what is paid.
BooksAgree ==
    /\ \A c \in Customers \ met : Untouched(c) => DebtIsExplained(c)
    /\ StatusesTellPaid

\* Entries hold the payments, and the balance agrees with the entries
\* (processPayment, addInitialBalance).
BooksAreKept == PaymentsAreBooked /\ BooksAgree

\* A payment becomes credit only when it leaves no debt open, unless another
\* request wrote its customer at the same time.
CreditOnlyWithoutDebt ==
    [][\A c \in Customers \ met :
         credits'[c] > credits[c] => OpenEntries(entered', c) = {}]_ledgerVars

----------------------------------------------------------------------------
(* What documents and comments of the program say, and the code does not do *)

\* sales-endpoint.decorator.ts:223: a payment updates the balance of its
\* customer.  Of two payments that read the customer before either commits, one
\* is not in the balance.
BalanceFollowsPayments ==
    \A c \in Customers : Untouched(c) => DebtIsExplained(c)

===============================================================================
