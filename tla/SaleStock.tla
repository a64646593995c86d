------------------------------ MODULE SaleStock ------------------------------
(***************************************************************************)
(* The writes of SalesService and SaleReturnService on one store's sales,   *)
(* their lines, their returns and the stock they draw on.                   *)
(*                                                                         *)
(* A handler opens a PostgreSQL transaction, but SaleInventoryService, the  *)
(* validation service and part of CustomerBalanceService use the base       *)
(* Prisma client: their statements commit on their own, one by one, while   *)
(* the transaction is still open.  Every awaited statement that another     *)
(* request can observe is therefore a step of its own; what a transaction   *)
(* wrote is kept aside (dels, gone, new) until it commits.                  *)
(*                                                                         *)
(* Data are abstracted: a slot is what one line sells (a product in one     *)
(* pack type), a bin is the counter the slot draws on (itemQuantity of a    *)
(* product or totalPacksQuantity of a pack).  Products have no variants.    *)
(***************************************************************************)
EXTENDS Integers, Sequences, FiniteSetsExt, SaleTypes

CONSTANTS
    Sales,          \* ids of the sales of the store
    Requests,       \* HTTP writes; each is received at most once
    Slots,          \* what a line can sell
    BoxSlots,       \* the slots sold with packType BOX
    Products,       \* ids of products
    ProductOf,      \* the product of a slot
    MinSelling,     \* minimumSellingQuantity of a product
    Bins,           \* stock counters
    BinOf,          \* the counter of a slot
    InitStock,      \* the counters at the start
    SeedRows,       \* the lines of the sales that exist at the start
    Seed,           \* the author of those lines
    CreateBodies,   \* the saleItems arrays POST /sales/create can carry
    UpdateBodies,   \* the saleItems arrays PATCH /sales/:id can carry
    ReturnBodies,   \* the returnItems arrays a return can carry
    NoChange,       \* no status in an update
    Statuses,       \* the statuses an update asks for, NoChange among them
    OnePerSale      \* TRUE: clients never have two writes of one sale in flight

\* A row of SaleItem: the n-th line of the body its author sent.
Row == [sale : Sales, slot : Slots, qty : Nat, by : Requests \cup {Seed}, n : Nat]

\* A row of SaleReturn; back tells whether the goods went back to stock.
Return == [sale : Sales, slot : Slots, qty : Nat, back : BOOLEAN,
           by : Requests, n : Nat]

\* A line of an update: plu tells whether the client sent its pluUpc.
Line == [slot : Slots, qty : Nat, plu : BOOLEAN]

\* A line of a return, of one unit at least: back stands for isProductReturned with
\* the category SALEABLE or SCRAP, refund for a refundAmount above zero.
ReturnLine == [slot : Slots, qty : Nat \ {0}, back : BOOLEAN, refund : BOOLEAN]

ASSUME SalesAssumption == Sales # {}

ASSUME SlotsAssumption ==
    /\ BoxSlots \subseteq Slots
    /\ ProductOf \in [Slots -> Products]
    /\ MinSelling \in [Products -> Nat]
    /\ BinOf \in [Slots -> Bins]
    /\ InitStock \in [Bins -> Nat]

ASSUME RowsAssumption ==
    /\ Seed \notin Requests
    /\ SeedRows \subseteq Row
    /\ IsFiniteSet(SeedRows)
    /\ \A row \in SeedRows : row.by = Seed

ASSUME BodiesAssumption ==
    /\ CreateBodies \subseteq Seq(Line)
    /\ UpdateBodies \subseteq Seq(Line)
    /\ ReturnBodies \subseteq Seq(ReturnLine)
    /\ NoChange \notin SaleStatus
    /\ Statuses \subseteq SaleStatus \cup {NoChange}
    /\ OnePerSale \in BOOLEAN

VARIABLES
    stock,      \* the counters of Products and Pack
    sales,      \* where each row of Sales is in its life
    walkIn,     \* the sales without a customerId
    status,     \* Sales.status
    items,      \* committed rows of SaleItem
    returns,    \* committed rows of SaleReturn
    entries,    \* the sales that BalanceSheet rows refer to
    pc,         \* what each request awaits
    tx,         \* its interactive transaction
    call,       \* what it asks for, read once
    old,        \* the lines it found in the sale
    given,      \* those it has put back into stock
    checked,    \* how many lines of its body it has validated
    done,       \* how many lines of its body it has applied to stock
    snap,       \* the rows its deleteMany has to lock
    dels,       \* the rows of SaleItem its transaction has deleted
    gone,       \* the rows of SaleReturn its transaction has deleted
    new         \* the rows its transaction has inserted

db == <<stock, sales, walkIn, status, items, returns, entries>>
locals == <<old, given, checked, done, snap, dels, gone, new>>
vars == <<db, pc, tx, call, locals>>

Calls == [op : {"none", "create", "update", "delete", "deleteAll", "return"},
          sale : Sales, body : Seq(Line) \cup Seq(ReturnLine),
          status : SaleStatus \cup {NoChange}]

InFlight(r) == pc[r] \notin {"idle", "ok", "failed"}

\* The sales a call writes: deleteAllSales takes every sale of the store.
Scope(c) == IF c.op = "deleteAll" THEN Sales ELSE {c.sale}

RowsOf(T) == {row \in items : row.sale \in T}
ReturnsOf(T) == {ret \in returns : ret.sale \in T}

Quantity(R) == MapThenSumSet(LAMBDA row : row.qty, R)

----------------------------------------------------------------------------
(* Requests and their transactions *)

NoCall == [op |-> "none", sale |-> CHOOSE s \in Sales : TRUE, body |-> <<>>,
           status |-> NoChange]

Init ==
    /\ stock = InitStock
    /\ sales = [s \in Sales |->
                  IF \E row \in SeedRows : row.sale = s THEN "present" ELSE "unused"]
    /\ walkIn = {}
    /\ status = [s \in Sales |->
                  IF \E row \in SeedRows : row.sale = s THEN "COMPLETED" ELSE "PENDING"]
    /\ items = SeedRows
    /\ returns = {}
    /\ entries = {}
    /\ pc = [r \in Requests |-> "idle"]
    /\ tx = [r \in Requests |-> "none"]
    /\ call = [r \in Requests |-> NoCall]
    /\ old = [r \in Requests |-> {}]
    /\ given = [r \in Requests |-> {}]
    /\ checked = [r \in Requests |-> 0]
    /\ done = [r \in Requests |-> 0]
    /\ snap = [r \in Requests |-> {}]
    /\ dels = [r \in Requests |-> {}]
    /\ gone = [r \in Requests |-> {}]
    /\ new = [r \in Requests |-> {}]

\* validateSaleExists and, for a return, the checks on the sale it read pass
\* before the transaction opens.
Begin(r, c) ==
    /\ pc[r] = "idle"
    /\ OnePerSale =>
         \A q \in Requests : InFlight(q) => Scope(call[q]) \cap Scope(c) = {}
    /\ call' = [call EXCEPT ![r] = c]
    /\ tx' = [tx EXCEPT ![r] = "open"]

Goto(r, to) == pc' = [pc EXCEPT ![r] = to]

\* Mutant: the error is caught and the transaction left to hold its locks.
AbortUnreleased(r) ==
    /\ Goto(r, "failed")
    /\ tx' = [tx EXCEPT ![r] = "none"]
    /\ UNCHANGED <<call, locals>>

\* The callback threw: the transaction is rolled back, which undoes nothing
\* that the base client has already committed.
Abort(r) ==
    /\ Goto(r, "failed")
    /\ tx' = [tx EXCEPT ![r] = "none"]
    /\ dels' = [dels EXCEPT ![r] = {}]
    /\ gone' = [gone EXCEPT ![r] = {}]
    /\ new' = [new EXCEPT ![r] = {}]
    /\ UNCHANGED <<call, old, given, checked, done, snap>>

Committed(r) ==
    /\ tx[r] = "open"
    /\ Goto(r, "ok")
    /\ tx' = [tx EXCEPT ![r] = "none"]
    /\ dels' = [dels EXCEPT ![r] = {}]
    /\ new' = [new EXCEPT ![r] = {}]
    /\ UNCHANGED <<call, old, given, checked, done, snap, gone>>

\* The next statement of r goes through its transaction.
AtTxStatement(r) ==
    \/ pc[r] \in {"read", "delete", "lock", "finish", "returns", "returned"}
    \/ pc[r] = "insert" /\ \E k \in DOMAIN call[r].body : call[r].body[k].plu

\* Prisma rolls an interactive transaction back after its timeout and frees
\* its locks; the callback is not interrupted and goes on with its base-client
\* statements.
Expire(r) ==
    /\ tx[r] = "open"
    /\ tx' = [tx EXCEPT ![r] = "expired"]
    /\ dels' = [dels EXCEPT ![r] = {}]
    /\ gone' = [gone EXCEPT ![r] = {}]
    /\ new' = [new EXCEPT ![r] = {}]
    /\ UNCHANGED <<db, pc, call, old, given, checked, done, snap>>

\* ... until it reaches for the transaction again.
Expired(r) ==
    /\ tx[r] = "expired"
    /\ AtTxStatement(r)
    /\ Abort(r)
    /\ UNCHANGED db

\* The process dies: what was in flight is rolled back by the database.
Crash ==
    /\ \E r \in Requests : InFlight(r)
    /\ pc' = [r \in Requests |-> IF InFlight(r) THEN "failed" ELSE pc[r]]
    /\ tx' = [r \in Requests |-> "none"]
    /\ dels' = [r \in Requests |-> IF InFlight(r) THEN {} ELSE dels[r]]
    /\ gone' = [r \in Requests |-> IF InFlight(r) THEN {} ELSE gone[r]]
    /\ new' = [r \in Requests |-> IF InFlight(r) THEN {} ELSE new[r]]
    /\ UNCHANGED <<db, call, old, given, checked, done, snap>>

----------------------------------------------------------------------------
(* POST /sales/create *)

\* validateSaleItems comes before the transaction; the id is new.
BeginCreate(r, s, body, st) ==
    /\ pc[r] = "idle"
    /\ sales[s] = "unused"
    /\ \A q \in Requests : call[q].op = "create" => call[q].sale # s
    /\ call' = [call EXCEPT ![r] = [op |-> "create", sale |-> s,
                                    body |-> body, status |-> st]]
    /\ Goto(r, IF body = <<>> THEN "insert" ELSE "check")
    /\ UNCHANGED <<db, tx, locals>>

----------------------------------------------------------------------------
(* PATCH /sales/:id, DELETE /sales/:id, DELETE /sales *)

BeginUpdate(r, s, body, st) ==
    /\ sales[s] = "present"
    /\ Begin(r, [op |-> "update", sale |-> s, body |-> body, status |-> st])
    /\ Goto(r, "read")
    /\ UNCHANGED <<db, locals>>

\* An update without saleItems goes straight to sales.update.
BeginStatusUpdate(r, s, st) ==
    /\ sales[s] = "present"
    /\ Begin(r, [op |-> "update", sale |-> s, body |-> <<>>, status |-> st])
    /\ Goto(r, "finish")
    /\ UNCHANGED <<db, locals>>

BeginDelete(r, s) ==
    /\ sales[s] = "present"
    /\ Begin(r, [op |-> "delete", sale |-> s, body |-> <<>>, status |-> NoChange])
    /\ Goto(r, "read")
    /\ UNCHANGED <<db, locals>>

BeginDeleteAll(r) ==
    /\ \E s \in Sales : sales[s] = "present"
    /\ Begin(r, [NoCall EXCEPT !.op = "deleteAll"])
    /\ Goto(r, "read")
    /\ UNCHANGED <<db, locals>>

\* tx.saleItem.findMany: the lines whose quantity is to be put back.
ReadOld(r) ==
    LET rows == RowsOf(Scope(call[r])) IN
    /\ pc[r] = "read"
    /\ tx[r] = "open"
    /\ old' = [old EXCEPT ![r] = rows]
    /\ Goto(r, IF rows = {} THEN "delete" ELSE "restore")
    /\ UNCHANGED <<db, tx, call, given, checked, done, snap, dels, gone, new>>

\* updateInventoryForSale(.., 'INCREMENT'), one line per iteration.
RestoreLine(r) ==
    /\ pc[r] = "restore"
    /\ \E row \in old[r] \ given[r] :
         /\ row.slot \notin BoxSlots
         /\ stock' = [stock EXCEPT ![BinOf[row.slot]] = @ + row.qty]
         /\ given' = [given EXCEPT ![r] = @ \cup {row}]
    /\ Goto(r, IF given'[r] = old[r] THEN "delete" ELSE "restore")
    /\ UNCHANGED <<sales, walkIn, status, items, returns, entries, tx, call,
                   old, checked, done, snap, dels, gone, new>>

\* A BOX line carries as packId the id of a product or nothing at all, so
\* validatePackRequirements finds no pack for it and throws.
RestoreLineThrows(r) ==
    /\ pc[r] = "restore"
    /\ \E row \in old[r] \ given[r] : row.slot \in BoxSlots
    /\ Abort(r)
    /\ UNCHANGED db

\* Mutant: the lines of a product that stays on the sale are kept.
DeleteRowsKeepSold(r) ==
    LET kept == {call[r].body[k].slot : k \in DOMAIN call[r].body} IN
    /\ pc[r] = "delete"
    /\ tx[r] = "open"
    /\ snap' = [snap EXCEPT ![r] =
                  {row \in RowsOf(Scope(call[r])) : row.slot \notin kept}]
    /\ Goto(r, "lock")
    /\ UNCHANGED <<db, tx, call, old, given, checked, done, dels, gone, new>>

\* saleItem.deleteMany picks its rows ...
DeleteRows(r) ==
    /\ pc[r] = "delete"
    /\ tx[r] = "open"
    /\ snap' = [snap EXCEPT ![r] = RowsOf(Scope(call[r]))]
    /\ Goto(r, "lock")
    /\ UNCHANGED <<db, tx, call, old, given, checked, done, dels, gone, new>>

AfterDelete(c) ==
    CASE c.op = "delete"    -> "entries"
      [] c.op = "deleteAll" -> "finish"
      [] OTHER              -> IF c.body = <<>> THEN "finish" ELSE "check"

\* ... waits for the transactions that have deleted one of them, and deletes
\* those that are still there.  A deletion of the sale deletes the rows of
\* SaleReturn too, and its balance entries when they go through tx.
LockRows(r) ==
    LET c == call[r] IN
    /\ pc[r] = "lock"
    /\ tx[r] = "open"
    /\ \A q \in Requests \ {r} : dels[q] \cap snap[r] = {}
    /\ dels' = [dels EXCEPT ![r] = snap[r] \cap items]
    /\ gone' = [gone EXCEPT ![r] = IF c.op = "update" THEN {} ELSE ReturnsOf(Scope(c))]
    /\ Goto(r, AfterDelete(c))
    /\ UNCHANGED <<db, tx, call, old, given, checked, done, snap, new>>

\* validateSaleItems: minimum quantity and availability of one line, against
\* the stock of this moment.
LineAvailable(line) ==
    /\ line.slot \notin BoxSlots => line.qty >= MinSelling[ProductOf[line.slot]]
    /\ line.qty <= stock[BinOf[line.slot]]

CheckLine(r) ==
    LET body == call[r].body IN
    /\ pc[r] = "check"
    /\ LineAvailable(body[checked[r] + 1])
    /\ checked' = [checked EXCEPT ![r] = @ + 1]
    /\ Goto(r, IF checked[r] + 1 = Len(body) THEN "insert" ELSE "check")
    /\ UNCHANGED <<db, tx, call, old, given, done, snap, dels, gone, new>>

CheckLineThrows(r) ==
    /\ pc[r] = "check"
    /\ ~ LineAvailable(call[r].body[checked[r] + 1])
    /\ Abort(r)
    /\ UNCHANGED db

\* calculateTotalSaleAmount prices the lines it matches by pluUpc and skips the
\* others; a row is created for each priced line.
PricedRows(r) ==
    LET c == call[r] IN
    {[sale |-> c.sale, slot |-> c.body[k].slot, qty |-> c.body[k].qty,
      by |-> r, n |-> k] : k \in {j \in DOMAIN c.body : c.body[j].plu}}

\* Mutant: the rows are created through the base client.
InsertRowsOutsideTx(r) ==
    /\ pc[r] = "insert"
    /\ call[r].op = "update"
    /\ PricedRows(r) # {} => sales[call[r].sale] = "present"
    /\ items' = items \cup PricedRows(r)
    /\ Goto(r, "take")
    /\ UNCHANGED <<stock, sales, walkIn, status, returns, entries, tx, call,
                   locals>>

InsertRows(r) ==
    /\ pc[r] = "insert"
    /\ call[r].op = "update"
    /\ PricedRows(r) # {} => tx[r] = "open" /\ sales[call[r].sale] = "present"
    /\ new' = [new EXCEPT ![r] = PricedRows(r)]
    /\ Goto(r, "take")
    /\ UNCHANGED <<db, tx, call, old, given, checked, done, snap, dels, gone>>

\* The sale was deleted meanwhile: the foreign key of the row fails.
InsertRowsThrows(r) ==
    /\ pc[r] = "insert"
    /\ call[r].op = "update"
    /\ PricedRows(r) # {}
    /\ sales[call[r].sale] # "present"
    /\ Abort(r)
    /\ UNCHANGED db

\* A new sale whose items are all given by productId alone gets no line ...
CreateRow(r) ==
    /\ pc[r] = "insert"
    /\ call[r].op = "create"
    /\ PricedRows(r) = {}
    /\ tx' = [tx EXCEPT ![r] = "open"]
    /\ Goto(r, IF call[r].body = <<>> THEN "finish" ELSE "take")
    /\ UNCHANGED <<db, call, locals>>

\* ... and the first line of any other throws: SaleItem.clientId has no default
\* and createSale does not set it.
CreateRowThrows(r) ==
    /\ pc[r] = "insert"
    /\ call[r].op = "create"
    /\ PricedRows(r) # {}
    /\ Abort(r)
    /\ UNCHANGED db

\* Mutant: a line sold by the pack is taken from the items.
TakeLineFromItems(r) ==
    LET body == call[r].body
        line == body[done[r] + 1]
        bin == IF line.slot \in BoxSlots
               THEN BinOf[CHOOSE k \in Slots \ BoxSlots : ProductOf[k] = ProductOf[line.slot]]
               ELSE BinOf[line.slot]
    IN
    /\ pc[r] = "take"
    /\ stock' = [stock EXCEPT ![bin] = @ - line.qty]
    /\ done' = [done EXCEPT ![r] = @ + 1]
    /\ Goto(r, IF done[r] + 1 = Len(body) THEN "finish" ELSE "take")
    /\ UNCHANGED <<sales, walkIn, status, items, returns, entries, tx, call,
                   old, given, checked, snap, dels, gone, new>>

\* updateInventoryForSale(.., 'DECREMENT'), one line per iteration.
TakeLine(r) ==
    LET body == call[r].body
        line == body[done[r] + 1]
    IN
    /\ pc[r] = "take"
    /\ stock' = [stock EXCEPT ![BinOf[line.slot]] = @ - line.qty]
    /\ done' = [done EXCEPT ![r] = @ + 1]
    /\ Goto(r, IF done[r] + 1 = Len(body) THEN "finish" ELSE "take")
    /\ UNCHANGED <<sales, walkIn, status, items, returns, entries, tx, call,
                   old, given, checked, snap, dels, gone, new>>

\* sales.update and the commit.
FinishUpdate(r) ==
    LET c == call[r] IN
    /\ pc[r] = "finish"
    /\ c.op = "update"
    /\ sales[c.sale] = "present"
    /\ Committed(r)
    /\ items' = (items \ dels[r]) \cup new[r]
    /\ status' = IF c.status = NoChange THEN status
                 ELSE [status EXCEPT ![c.sale] = c.status]
    /\ UNCHANGED <<stock, sales, walkIn, returns, entries>>

\* The sale of a walk-in customer is committed.
FinishCreate(r) ==
    LET c == call[r] IN
    /\ pc[r] = "finish"
    /\ c.op = "create"
    /\ Committed(r)
    /\ sales' = [sales EXCEPT ![c.sale] = "present"]
    /\ walkIn' = walkIn \cup {c.sale}
    /\ status' = [status EXCEPT ![c.sale] = c.status]
    /\ UNCHANGED <<stock, items, returns, entries>>

\* deleteBalanceEntriesForSale goes through the base client.
DeleteEntries(r) ==
    /\ pc[r] = "entries"
    /\ entries' = entries \ {call[r].sale}
    /\ Goto(r, "finish")
    /\ UNCHANGED <<stock, sales, walkIn, status, items, returns, tx, call, locals>>

\* The rows other open transactions have inserted for a sale, or deleted from
\* it, make its deletion wait.
Held(r, T) ==
    \E q \in Requests \ {r} : \E row \in new[q] \cup dels[q] : row.sale \in T

\* Mutant: the schema does not cascade, and only the rows seen before go.
FinishDeleteNoCascade(r) ==
    LET T == Scope(call[r]) IN
    /\ pc[r] = "finish"
    /\ call[r].op \in {"delete", "deleteAll"}
    /\ ~ Held(r, T)
    /\ call[r].op = "delete" => sales[call[r].sale] = "present"
    /\ ReturnsOf(T) \subseteq gone[r]
    /\ Committed(r)
    /\ sales' = [s \in Sales |->
                   IF s \in T /\ sales[s] = "present" THEN "deleted" ELSE sales[s]]
    /\ items' = items \ dels[r]
    /\ returns' = returns \ ReturnsOf(T)
    /\ entries' = entries \ T
    /\ UNCHANGED <<stock, walkIn, status>>

\* sales.delete (deleteMany for every sale): lines go with the sale, rows of
\* SaleReturn that appeared meanwhile forbid it.
FinishDelete(r) ==
    LET T == Scope(call[r]) IN
    /\ pc[r] = "finish"
    /\ call[r].op \in {"delete", "deleteAll"}
    /\ ~ Held(r, T)
    /\ call[r].op = "delete" => sales[call[r].sale] = "present"
    /\ ReturnsOf(T) \subseteq gone[r]
    /\ Committed(r)
    /\ sales' = [s \in Sales |->
                   IF s \in T /\ sales[s] = "present" THEN "deleted" ELSE sales[s]]
    /\ items' = items \ RowsOf(T)
    /\ returns' = returns \ ReturnsOf(T)
    /\ entries' = entries \ T
    /\ UNCHANGED <<stock, walkIn, status>>

\* P2025, the sale of an update or a deletion is gone; P2003, a return of the
\* sale was committed after the returns were deleted; or the new sale has a
\* customer, whose entry createBalanceSheetEntry writes without its clientId.
FinishThrows(r) ==
    LET c == call[r] IN
    /\ pc[r] \in {"finish", "returned"}
    /\ tx[r] = "open"
    /\ \/ c.op \notin {"create", "deleteAll"} /\ sales[c.sale] # "present"
       \/ c.op = "create"
       \/ /\ c.op \in {"delete", "deleteAll"}
          /\ ~ Held(r, Scope(c))
          /\ ~ (ReturnsOf(Scope(c)) \subseteq gone[r])
    /\ Abort(r)
    /\ UNCHANGED db

----------------------------------------------------------------------------
(* POST /sales/returns *)

ReturnedOf(s, p) ==
    Quantity({ret \in returns : ret.sale = s /\ ProductOf[ret.slot] = p})

\* validateReturnItems: each line on its own, against the sale as it was read;
\* what has been returned is counted per product, whatever the pack type.
Returnable(s, line) ==
    \E row \in RowsOf({s}) :
        /\ row.slot = line.slot
        /\ ReturnedOf(s, ProductOf[line.slot]) + line.qty <= row.qty

LinesQuantity(body, K) == MapThenSumSet(LAMBDA k : body[k].qty, K)

BodyQuantity(body) == LinesQuantity(body, DOMAIN body)

\* Mutant: what came back before is forgotten.
StatusAfterThisReturn(s, body) ==
    IF BodyQuantity(body) >= Quantity(RowsOf({s})) THEN "REFUNDED"
    ELSE IF BodyQuantity(body) > 0 THEN "PARTIALLY_RETURNED"
    ELSE status[s]

\* Mutant: a status the enum of the schema does not have.
StatusReturned(s, body) ==
    IF BodyQuantity(body) > 0 THEN "RETURNED" ELSE status[s]

\* updateSaleReturnStatus, computed from the same read.
StatusAfterReturn(s, body) ==
    LET back == BodyQuantity(body) + Quantity(ReturnsOf({s})) IN
    IF back >= Quantity(RowsOf({s})) THEN "REFUNDED"
    ELSE IF back > 0 THEN "PARTIALLY_RETURNED"
    ELSE status[s]

BeginReturn(r, s, body) ==
    /\ sales[s] = "present"
    /\ status[s] # "CANCELLED"
    /\ \A k \in DOMAIN body : Returnable(s, body[k])
    /\ Begin(r, [op |-> "return", sale |-> s, body |-> body,
                 status |-> StatusAfterReturn(s, body)])
    /\ Goto(r, "returns")
    /\ UNCHANGED <<db, locals>>

ReturnRows(r) ==
    LET c == call[r] IN
    {[sale |-> c.sale, slot |-> c.body[k].slot, qty |-> c.body[k].qty,
      back |-> c.body[k].back, by |-> r, n |-> k] : k \in DOMAIN c.body}

InsertReturns(r) ==
    /\ pc[r] = "returns"
    /\ tx[r] = "open"
    /\ call[r].body # <<>> => sales[call[r].sale] = "present"
    /\ new' = [new EXCEPT ![r] = ReturnRows(r)]
    /\ Goto(r, IF call[r].body = <<>> THEN "returned" ELSE "restock")
    /\ UNCHANGED <<db, tx, call, old, given, checked, done, snap, dels, gone>>

InsertReturnsThrows(r) ==
    /\ pc[r] = "returns"
    /\ call[r].body # <<>>
    /\ sales[call[r].sale] # "present"
    /\ Abort(r)
    /\ UNCHANGED db

\* restoreInventoryForReturn, one line per iteration.
RestockLine(r) ==
    LET body == call[r].body
        line == body[done[r] + 1]
    IN
    /\ pc[r] = "restock"
    /\ stock' = IF line.back
                THEN [stock EXCEPT ![BinOf[line.slot]] = @ + line.qty]
                ELSE stock
    /\ done' = [done EXCEPT ![r] = @ + 1]
    /\ Goto(r, IF done[r] + 1 < Len(body) THEN "restock"
               ELSE IF \E k \in DOMAIN body : body[k].refund THEN "refund"
               ELSE "returned")
    /\ UNCHANGED <<sales, walkIn, status, items, returns, entries, tx, call,
                   old, given, checked, snap, dels, gone, new>>

\* updateBalanceForRefund goes through the base client; a walk-in sale has no
\* customer to refer to, and a deleted sale cannot be referred to.
Refund(r) ==
    LET s == call[r].sale IN
    /\ pc[r] = "refund"
    /\ s \notin walkIn
    /\ sales[s] = "present"
    /\ entries' = entries \cup {s}
    /\ Goto(r, "returned")
    /\ UNCHANGED <<stock, sales, walkIn, status, items, returns, tx, call, locals>>

RefundThrows(r) ==
    /\ pc[r] = "refund"
    /\ call[r].sale \in walkIn \/ sales[call[r].sale] # "present"
    /\ Abort(r)
    /\ UNCHANGED db

FinishReturn(r) ==
    LET c == call[r] IN
    /\ pc[r] = "returned"
    /\ sales[c.sale] = "present"
    /\ Committed(r)
    /\ returns' = returns \cup new[r]
    /\ status' = [status EXCEPT ![c.sale] = c.status]
    /\ UNCHANGED <<stock, sales, walkIn, items, entries>>

----------------------------------------------------------------------------
(* The specification *)

Step(r) ==
    \/ ReadOld(r)
    \/ RestoreLine(r)
    \/ RestoreLineThrows(r)
    \/ DeleteRows(r)
    \/ LockRows(r)
    \/ CheckLine(r)
    \/ CheckLineThrows(r)
    \/ InsertRows(r)
    \/ InsertRowsThrows(r)
    \/ CreateRow(r)
    \/ CreateRowThrows(r)
    \/ TakeLine(r)
    \/ FinishUpdate(r)
    \/ FinishCreate(r)
    \/ DeleteEntries(r)
    \/ FinishDelete(r)
    \/ FinishThrows(r)
    \/ InsertReturns(r)
    \/ InsertReturnsThrows(r)
    \/ RestockLine(r)
    \/ Refund(r)
    \/ RefundThrows(r)
    \/ FinishReturn(r)
    \/ Expired(r)

Receive(r) ==
    /\ pc[r] = "idle"
    /\ \/ BeginDeleteAll(r)
       \/ \E s \in Sales :
            \/ BeginDelete(r, s)
            \/ \E body \in UpdateBodies, st \in Statuses : BeginUpdate(r, s, body, st)
            \/ \E st \in Statuses \ {NoChange} : BeginStatusUpdate(r, s, st)
            \/ \E body \in ReturnBodies : BeginReturn(r, s, body)
            \/ \E body \in CreateBodies, st \in {"PENDING", "CONFIRMED"} :
                  BeginCreate(r, s, body, st)

Next ==
    \/ \E r \in Requests : Receive(r) \/ Step(r) \/ Expire(r)
    \/ Crash

Spec == Init /\ [][Next]_vars

\* A request that has been received is carried on: node runs its callbacks and
\* the database answers.  Nothing forces a request to arrive, a timeout to
\* strike or the process to die.
Fairness == \A r \in Requests : WF_vars(Step(r))

FairSpec == Spec /\ Fairness

----------------------------------------------------------------------------
(* Properties *)

TypeOK ==
    /\ stock \in [Bins -> Int]
    /\ sales \in [Sales -> {"unused", "present", "deleted"}]
    /\ walkIn \subseteq Sales
    /\ status \in [Sales -> SaleStatus]
    /\ items \subseteq Row
    /\ returns \subseteq Return
    /\ entries \subseteq Sales
    /\ pc \in [Requests -> {"idle", "read", "restore", "delete", "lock", "check",
                            "insert", "take", "entries", "finish", "returns",
                            "restock", "refund", "returned", "ok", "failed"}]
    /\ tx \in [Requests -> {"none", "open", "expired"}]
    /\ call \in [Requests -> Calls]
    /\ old \in [Requests -> SUBSET Row]
    /\ given \in [Requests -> SUBSET Row]
    /\ checked \in [Requests -> Nat]
    /\ done \in [Requests -> Nat]
    /\ snap \in [Requests -> SUBSET Row]
    /\ dels \in [Requests -> SUBSET Row]
    /\ gone \in [Requests -> SUBSET Return]
    /\ new \in [Requests -> SUBSET (Row \cup Return)]

Ended(r) == pc[r] \in {"ok", "failed"}

\* Whatever overlaps, expires or dies: a request that succeeded has removed
\* every line it put back into stock, so no line is both on a sale and, by a
\* request that reported success, back on the shelf.
RestoredLinesAreGone ==
    \A r \in Requests : pc[r] = "ok" => given[r] \cap items = {}

\* Atomicity of the transactions: the rows of a request appear when it
\* commits and not before, and a request that failed leaves none.
RowsOfCommittedRequests ==
    \A row \in items \cup returns : row.by # Seed => pc[row.by] = "ok"

\* Lines and returns always belong to a sale that exists, however a deletion
\* races with updates and returns of the same sale.
NoOrphanRows ==
    \A row \in items \cup returns : sales[row.sale] = "present"

\* A request that has ended and moved no stock that its rows do not explain:
\* it touched none, or it succeeded, gave the pluUpc of every line and did
\* not delete a sale whose goods had already come back.
Clean(r) ==
    \/ pc[r] = "idle"
    \/ pc[r] = "failed" /\ given[r] = {} /\ done[r] = 0
    \/ /\ pc[r] = "ok"
       /\ call[r].op \in {"update", "create"} =>
            \A k \in DOMAIN call[r].body : call[r].body[k].plu
       /\ \A ret \in gone[r] : ~ ret.back

\* The units a counter should have, beside those in stock.
Outstanding(b) ==
    Quantity({row \in items : BinOf[row.slot] = b})
      - Quantity({ret \in returns : ret.back /\ BinOf[ret.slot] = b})

UnitsOf(b) == InitStock[b] + Quantity({row \in SeedRows : BinOf[row.slot] = b})

\* Between requests, the units in stock and the units on sales and not returned
\* add up to the units the store started with, provided every request so far
\* is clean: the statements of a successful write, scattered over autocommits
\* and a transaction and interleaved with those of other sales, amount to the
\* one change of stock its rows describe.
UnitsAddUp ==
    (\A r \in Requests : Clean(r)) =>
        \A b \in Bins : stock[b] + Outstanding(b) = UnitsOf(b)

\* The lines that were taken from a counter, by requests that ended well or not.
Taken(b) ==
    UNION {{<<r, k>> : k \in {j \in 1..done[r] : BinOf[call[r].body[j].slot] = b}} :
             r \in {q \in Requests : call[q].op \in {"create", "update"}}}

\* One line never takes more than there is, whatever happens between the check of
\* it and the decrement, which has no condition: only lines checked against the
\* same units drive a counter below zero (validateNonVariantInventory).
OneLineNeverOversells == \A b \in Bins : stock[b] < 0 => Cardinality(Taken(b)) > 1

\* The units in stock and those on sales add up, and stock that is short was taken by
\* several lines.
StockAccounted == UnitsAddUp /\ OneLineNeverOversells

\* When a return commits, the status it leaves tells what has come back: the
\* sale is REFUNDED exactly when as much was returned as was sold.
ReturnStatusTellsTruth ==
    [][\A r \in Requests :
         (FinishReturn(r) /\ call[r].body # <<>>) =>
           LET s == call[r].sale
               back == Quantity({ret \in returns' : ret.sale = s})
               sold == Quantity({row \in items' : row.sale = s})
           IN  (status'[s] = "REFUNDED") <=> (back >= sold)]_vars

\* A request that was received ends, also when it has to wait for the rows of
\* another or when its transaction has expired: nobody waits for ever.
RequestsEnd ==
    \A r \in Requests : (pc[r] # "idle") ~> Ended(r)

----------------------------------------------------------------------------
(* The inductive invariant that the proofs use *)

\* A request's new rows are its own, of the sale it writes and of one table,
\* and are gone when its transaction is.
NewRowsAreOwn ==
    \A r \in Requests :
        /\ \A row \in new[r] : row.by = r /\ row.sale = call[r].sale
        /\ pc[r] \notin {"take", "finish", "restock", "refund", "returned"}
             => new[r] = {}
        /\ pc[r] \in {"take", "finish"} => new[r] \subseteq Row
        /\ pc[r] \in {"restock", "refund", "returned"} => new[r] \subseteq Return

\* What a request found in its sales had been committed by others, and no other
\* request's commit brings it back: a request commits once.
OldRowsAreCommitted ==
    \A r \in Requests :
        /\ \A row \in old[r] :
             /\ row.sale \in Scope(call[r])
             /\ row.by # Seed => pc[row.by] = "ok"
        /\ pc[r] \in {"idle", "read", "returns", "restock", "refund", "returned"}
             => old[r] = {}

\* What it put back is on its way out: found again by deleteMany, then locked.
GivenRowsAreLeaving ==
    \A r \in Requests :
        /\ given[r] \subseteq old[r]
        /\ call[r].op = "create" => given[r] = {}
        /\ pc[r] = "lock" => given[r] \cap items \subseteq snap[r]
        /\ pc[r] \in {"check", "insert", "take", "entries", "finish"} /\ tx[r] = "open"
             => given[r] \cap items \subseteq dels[r]

\* The cursor of each loop stands on a line of the body, and the body is of the
\* kind the call reads.
CursorsInBody ==
    \A r \in Requests :
        LET c == call[r] IN
        /\ pc[r] = "check" => checked[r] < Len(c.body) /\ done[r] = 0
        /\ pc[r] = "insert" => done[r] = 0 /\ (c.op = "update" => 0 < Len(c.body))
        /\ pc[r] \in {"take", "restock"} => done[r] < Len(c.body)
        /\ pc[r] \in {"idle", "read", "restore", "delete", "lock", "returns"}
             => checked[r] = 0 /\ done[r] = 0
        /\ pc[r] \in {"read", "restore", "delete", "lock", "entries"}
             => c.op \in {"update", "delete", "deleteAll"}
        /\ pc[r] = "finish" => c.op \in {"create", "update", "delete", "deleteAll"}
        /\ pc[r] \in {"check", "insert", "take"} => c.op \in {"create", "update"}
        /\ c.op \in {"create", "update", "delete", "deleteAll"} => c.body \in Seq(Line)
        /\ pc[r] \in {"returns", "restock", "refund", "returned"} =>
             /\ c.op = "return"
             /\ c.body \in Seq(ReturnLine)
             /\ c.status \in SaleStatus
        /\ c.op = "create" => c.status \in SaleStatus

IndInv ==
    /\ TypeOK
    /\ NewRowsAreOwn
    /\ OldRowsAreCommitted
    /\ GivenRowsAreLeaving
    /\ CursorsInBody
    /\ RestoredLinesAreGone
    /\ RowsOfCommittedRequests
    /\ NoOrphanRows

\* What each request holds, whoever else is at work: its locks are of the sales it
\* writes, its loops have run to the end when it goes on, and its new rows are those
\* of its body.
HoldsItsOwn(r) ==
    LET c == call[r] IN
    /\ tx[r] # "none" => InFlight(r)
    /\ \A row \in snap[r] \cup dels[r] \cup gone[r] : row.sale \in Scope(c)
    /\ pc[r] = "idle" => snap[r] \cup dels[r] \cup gone[r] = {}
    /\ IsFiniteSet(old[r])
    /\ c.op \in {"delete", "deleteAll"} => c.body = <<>>
    /\ pc[r] # "idle" => c.op # "none"
    /\ pc[r] = "entries" => c.op = "delete" /\ done[r] = 0
    /\ pc[r] \in {"insert", "take"} => checked[r] = Len(c.body)
    /\ pc[r] \in {"finish", "refund", "returned"} => done[r] = Len(c.body)
    /\ pc[r] \in {"take", "finish"} /\ c.op = "create" => PricedRows(r) = {}
    /\ pc[r] \in {"take", "finish"} /\ c.op = "update" /\ tx[r] = "open"
         => new[r] = PricedRows(r)
    /\ pc[r] \in {"restock", "refund", "returned"} /\ tx[r] = "open"
         => new[r] = ReturnRows(r)
    /\ pc[r] \in {"delete", "lock", "check", "insert", "take", "entries", "finish"}
         /\ c.op # "create" => given[r] = old[r]
    /\ c.op = "create" /\ InFlight(r) => sales[c.sale] = "unused"
    /\ c.op \in {"update", "delete", "return"} => sales[c.sale] # "unused"

Received == {r \in Requests : pc[r] # "idle"}

HoldInv ==
    /\ IsFiniteSet(items) /\ IsFiniteSet(returns) /\ IsFiniteSet(Received)
    /\ \A r \in Requests : HoldsItsOwn(r)
    /\ \A q, r \in Requests :
         q # r /\ call[q].op = "create" /\ call[r].op = "create"
           => call[q].sale # call[r].sale

\* A line that was checked is in stock until another is taken from its counter.
CheckedInStock(r, b) ==
    pc[r] \in {"check", "insert", "take"} =>
      \A k \in 1..checked[r] :
        LET line == call[r].body[k] IN
        BinOf[line.slot] = b => line.qty <= stock[b]

CheckedLinesInStock ==
    \A b \in Bins :
        /\ IsFiniteSet(Taken(b))
        /\ stock[b] < 0 => \E x, y \in Taken(b) : x # y
        /\ Taken(b) = {} => \A r \in Requests : CheckedInStock(r, b)

\* When clients have one write of a sale in flight at a time, what a request read of
\* its sale stays true until it ends.
ReadsStayTrue(r) ==
    LET c == call[r] IN
    /\ c.op \in {"update", "delete", "deleteAll"}
         /\ pc[r] \in {"restore", "delete", "lock", "check", "insert", "take",
                       "entries", "finish"}
         /\ (pc[r] = "finish" => c.op # "update")
           => old[r] = RowsOf(Scope(c))
    /\ pc[r] = "lock" => snap[r] = RowsOf(Scope(c))
    /\ c.op # "create" /\ tx[r] = "open"
         /\ pc[r] \in {"check", "insert", "take", "entries", "finish"}
           => dels[r] = given[r] /\ dels[r] \subseteq items
    /\ c.op = "return" /\ InFlight(r) /\ c.body # <<>>
           => ((c.status = "REFUNDED") <=>
                 (BodyQuantity(c.body) + Quantity(ReturnsOf({c.sale})) >=
                    Quantity(RowsOf({c.sale}))))

WritesOld(r) == InFlight(r) /\ call[r].op # "create"

SerialInv ==
    /\ \A r \in Requests : ReadsStayTrue(r)
    /\ \A q, r \in Requests :
         q # r /\ WritesOld(q) /\ WritesOld(r) => Scope(call[q]) \cap Scope(call[r]) = {}

\* The units that a request in flight has moved and that no row explains yet.
MovedLines(r, b) ==
    {k \in 1..done[r] : LET line == call[r].body[k] IN
       BinOf[line.slot] = b /\ (call[r].op = "return" => line.back)}

Moved(r, b) ==
    IF ~ InFlight(r) THEN 0
    ELSE IF call[r].op = "return" THEN LinesQuantity(call[r].body, MovedLines(r, b))
    ELSE Quantity({row \in given[r] : BinOf[row.slot] = b})
           - LinesQuantity(call[r].body, MovedLines(r, b))

UnitsMoved(b) == MapThenSumSet(LAMBDA r : Moved(r, b), Received)

\* As long as no request has ended otherwise than clean, the units of a counter are
\* accounted for by the rows and by what requests in flight have moved.
Fine(r) == InFlight(r) \/ Clean(r)

UnitsAccounted ==
    (\A r \in Requests : Fine(r)) =>
        \A b \in Bins : stock[b] + Outstanding(b) = UnitsOf(b) + UnitsMoved(b)

----------------------------------------------------------------------------
(* What a document says, and the code does not do *)

\* FRONTEND_INTEGRATION_GUIDE.md:73: the endpoint creates the sale and deducts
\* its inventory.  A sale whose lines were all found in stock is refused when
\* the first of them is written.
AvailableSaleIsCreated == [][\A r \in Requests : ~ CreateRowThrows(r)]_vars
=============================================================================
