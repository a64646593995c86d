---------------------------- MODULE OfficeTables ----------------------------
(***************************************************************************)
(* The tables a tenant's office shares (schema.prisma) and the requests that  *)
(* read and write them.  Shops, Invoicing, Taxes, Drafts and Tenants add the   *)
(* operations; Office composes them over one database.                       *)
(*                                                                         *)
(* A row names its table, its id and the rows its foreign keys refer to.  A   *)
(* row a request creates has the request as its id.  Columns no property      *)
(* speaks of are left out.                                                  *)
(***************************************************************************)
EXTENDS Naturals, FiniteSets, Sequences

CONSTANTS
    Requests,       \* HTTP writes; each is received at most once
    Features,       \* pairs of a resource and an action a user may be kept from
    SeedRows,       \* what is in the tables at the start
    MaxFaults,      \* bound: connections, transactions and processes lost
    Suspended,      \* the status of a tenant or user that is neither active nor inactive
    None            \* null

ASSUME OfficeAssumption == None \notin Requests /\ MaxFaults \in Nat

\* Status: TRUE stands for active, FALSE for inactive or pending.
Statuses == BOOLEAN \cup {Suspended}

VARIABLES
    rows,       \* the committed rows of all tables
    pc,         \* what each request awaits
    call,       \* what it asks for
    seen,       \* rows it read earlier
    lock,       \* keys of the rows its open transaction changed or deleted
    at,         \* how many statements of its transaction have run
    raced,      \* history: the pairs of requests that were at work together
    faults      \* how many connections, transactions and processes were lost

vars == <<rows, pc, call, seen, lock, at, raced, faults>>

----------------------------------------------------------------------------
(* The schema *)

\* The table a foreign key refers to.
Parent == [clientId |-> "Clients", userId |-> "Users", storeId |-> "Stores",
           productId |-> "Products", supplierId |-> "Suppliers", saleId |-> "Sales",
           customerId |-> "Customer", businessId |-> "Business", grantedBy |-> "Users",
           createdBy |-> "Users", assignedBy |-> "Users", processedBy |-> "Users",
           driverId |-> "Users", roleTemplateId |-> "RoleTemplate",
           categoryId |-> "Category", fileUploadId |-> "FileUploadInventory",
           saleDraftId |-> "SalesDraft", taxTypeId |-> "TaxType",
           taxCodeId |-> "TaxCode", regionId |-> "Region", taxRateId |-> "TaxRate"]

\* Rows that go when what they refer to goes.
Cascades == {<<"SaleItem", "saleId">>, <<"SaleHistory", "saleId">>,
             <<"SaleAdjustment", "saleId">>, <<"Permission", "userId">>,
             <<"Permission", "storeId">>, <<"UserRole", "userId">>,
             <<"UserRole", "roleTemplateId">>, <<"PasswordResetTokens", "userId">>,
             <<"ProductSupplier", "productId">>, <<"ProductSupplier", "supplierId">>,
             <<"SalesDraftItems", "saleDraftId">>}

\* Rows that stay and lose the reference; every other reference restricts.
Nullable == {<<"Users", "businessId">>, <<"Sales", "customerId">>,
             <<"BalanceSheet", "saleId">>, <<"OrderProcessing", "saleId">>,
             <<"OrderProcessing", "driverId">>, <<"Products", "categoryId">>,
             <<"Products", "fileUploadId">>, <<"SaleItem", "productId">>,
             <<"InviteLinks", "storeId">>, <<"SalesDraft", "userId">>}

\* A fresh row: active, not numbered, nothing excluded.
New(t, id, to) == [t |-> t, id |-> id, to |-> to, on |-> TRUE, no |-> 0, out |-> {}]

Key(x) == <<x.t, x.id>>
Keys(S) == {Key(x) : x \in S}
In(t, S) == {x \in S : x.t = t}
Ids(t, S) == {x.id : x \in In(t, S)}
Has(t, id) == id \in Ids(t, rows)
Get(t, id) == CHOOSE x \in In(t, rows) : x.id = id

\* Pages offer their user what is the client's own.
ClientOf(u) == Get("Users", u).to["clientId"]
Own(c, t) == {x.id : x \in {y \in In(t, rows) : y.to["clientId"] = c}}

RefersTo(x, col, id) == col \in DOMAIN x.to /\ x.to[col] = id

\* What the row x refers to.
Parents(x) == {<<Parent[col], x.to[col]>> : col \in {k \in DOMAIN x.to : x.to[k] # None}}

\* The columns that properties and operations go by and that are never null.
Mandatory ==
    [Users |-> {"clientId"}, Stores |-> {"clientId"}, Business |-> {"clientId"},
     Customer |-> {"clientId"}, Invoice |-> {"clientId", "saleId"}, SalesDraft |-> {"clientId"},
     Sales |-> {"clientId", "storeId"}, Suppliers |-> {"clientId", "storeId"},
     UserStoreMap |-> {"clientId", "userId", "storeId"},
     SalesDraftItems |-> {"clientId", "saleDraftId"},
     TaxType |-> {"clientId"}, TaxCode |-> {"clientId", "taxTypeId"}, Region |-> {"clientId"},
     TaxRate |-> {"clientId"}, TaxAssignment |-> {"clientId", "taxRateId"}]

\* A row has columns, under their names.
AreColumns(to) == to = [col \in DOMAIN to |-> to[col]]

\* What the schema asks of each row x by itself.
IsRow(x) ==
    /\ x = [t |-> x.t, id |-> x.id, to |-> x.to, on |-> x.on, no |-> x.no, out |-> x.out]
    /\ AreColumns(x.to)
    /\ x.id # None /\ x.on \in Statuses /\ x.out \subseteq Features
    /\ DOMAIN x.to \subseteq DOMAIN Parent
    /\ x.t \in DOMAIN Mandatory => \A col \in Mandatory[x.t] : col \in DOMAIN x.to /\ x.to[col] # None
    /\ x.t = "Users" => "businessId" \in DOMAIN x.to
    /\ x.t = "TaxRate" => x.no \in Nat

\* The primary keys and the foreign keys of the tables S.
KeysHold(S) ==
    /\ \A x, y \in S : Key(x) = Key(y) => x = y
    /\ \A x \in S : Parents(x) \subseteq Keys(S)

\* No two rows of table t agree in all columns of K.
UniqueIn(S, t, K) ==
    \A x, y \in In(t, S) : (\A k \in K : x.to[k] = y.to[k]) => x = y

\* The unique indexes.
IndexesHold(S) ==
    /\ UniqueIn(S, "Business", {"clientId"}) /\ UniqueIn(S, "UserStoreMap", {"userId", "storeId"})
    /\ \A t \in {"TaxType", "TaxCode", "Region", "Invoice", "Customer"} : \A x, y \in In(t, S) :
         x.no = y.no /\ x.to["clientId"] = y.to["clientId"] => x = y
    /\ \A x, y \in In("Clients", S) : x.no = y.no => x = y

\* The rows at the start respect the schema; the ids of new rows are new.
ASSUME SeedAssumption ==
    /\ IsFiniteSet(SeedRows) /\ KeysHold(SeedRows) /\ IndexesHold(SeedRows)
    /\ \A x \in SeedRows : IsRow(x) /\ x.id \notin Requests

\* The rows of S that refer to a row of D by a foreign key of one of the kinds.
Via(S, D, kinds) ==
    LET K == Keys(D)
    IN  {x \in S : \E col \in DOMAIN x.to :
            <<x.t, col>> \in kinds /\ <<Parent[col], x.to[col]>> \in K}

\* What goes from S when the rows of D go; no cascade is longer than two.
Gone(S, D) == LET one == D \cup Via(S, D, Cascades)
              IN  one \cup Via(S, one, Cascades)

Blocked(S, D) ==
    LET gone == Gone(S, D)
        K == Keys(gone)
    IN  \E x \in S \ gone : \E col \in DOMAIN x.to :
          /\ <<Parent[col], x.to[col]>> \in K
          /\ <<x.t, col>> \notin Cascades \cup Nullable

\* The references to rows that are gone become null.
Loosen(x, gone) ==
    [x EXCEPT !.to = [col \in DOMAIN x.to |->
        IF <<Parent[col], x.to[col]>> \in gone THEN None ELSE x.to[col]]]

\* S without the rows of D.
Without(S, D) == LET gone == Gone(S, D)
                     K == Keys(gone)
                 IN  {Loosen(x, K) : x \in S \ gone}

Update(x, y) == rows' = (rows \ {x}) \cup {y}

----------------------------------------------------------------------------
(* Requests *)

Ended == {"ok", "refused", "failed"}
InFlight(r) == pc[r] \notin Ended \cup {"idle"}
Is(r, op) == call[r].op = op
Met(q, r) == {q, r} \in raced

NoCall == [op |-> "none"]

Init ==
    /\ rows = SeedRows
    /\ pc = [r \in Requests |-> "idle"]
    /\ call = [r \in Requests |-> NoCall]
    /\ seen = [r \in Requests |-> {}]
    /\ lock = [r \in Requests |-> {}]
    /\ at = [r \in Requests |-> 0]
    /\ raced = {}
    /\ faults = 0

Goto(r, to) == pc' = [pc EXCEPT ![r] = to]

\* The request c has passed its checks, having read the rows S.
Begin(r, c, S, to) ==
    /\ pc[r] = "idle"
    /\ call' = [call EXCEPT ![r] = c]
    /\ seen' = [seen EXCEPT ![r] = S]
    /\ raced' = raced \cup {{q, r} : q \in {x \in Requests : InFlight(x)}}
    /\ Goto(r, to)
    /\ UNCHANGED <<rows, lock, at, faults>>

Refuse(r) ==
    /\ pc[r] = "idle"
    /\ Goto(r, "refused")
    /\ UNCHANGED <<rows, call, seen, lock, at, raced, faults>>

\* A request goes on if what it checks holds, and is refused otherwise.
Check(r, c, ok, S, to) == IF ok THEN Begin(r, c, S, to) ELSE Refuse(r)

\* The request ends: an open transaction is over, its locks are released.
End(r, how) ==
    /\ Goto(r, how)
    /\ lock' = [lock EXCEPT ![r] = {}]
    /\ seen' = [seen EXCEPT ![r] = {}]
    /\ at' = [at EXCEPT ![r] = 0]
    /\ UNCHANGED <<call, raced, faults>>

Fails(r) == End(r, "failed") /\ UNCHANGED rows

\* Rows another transaction changed or deleted are waited for.
Free(r, K) == \A q \in Requests \ {r} : lock[q] \cap K = {}

\* A reference waits only for a transaction that deleted what it refers to.
Deletes(q) == call[q].op \in {"deleteTenant", "saveDraft"}
NotDoomed(r, K) == \A q \in Requests \ {r} : Deletes(q) => lock[q] \cap K = {}

\* Inserting the rows S, of which none but those of S and of the tables are
\* referred to; a foreign key that fails aborts.
Insert(r, S) ==
    LET needs == UNION {Parents(x) : x \in S} IN
    /\ NotDoomed(r, needs)
    /\ needs \subseteq Keys(rows \cup S)
    /\ rows' = rows \cup S
    /\ End(r, "ok")

InsertFails(r, S) ==
    LET needs == UNION {Parents(x) : x \in S} IN
    /\ NotDoomed(r, needs)
    /\ ~ (needs \subseteq Keys(rows \cup S))
    /\ Fails(r)

\* update where id = ...: it waits for the row and fails when it is not there.
Write(r, t, id, y) ==
    /\ Free(r, {<<t, id>>})
    /\ IF Has(t, id) THEN Update(Get(t, id), y) /\ End(r, "ok") ELSE Fails(r)

\* delete where id = ..., in a statement of no transaction.
Delete(r, t, id) ==
    LET D == {x \in In(t, rows) : x.id = id} IN
    /\ Free(r, Keys(Gone(rows, D)))
    /\ IF D = {} \/ Blocked(rows, D) THEN Fails(r)
       ELSE rows' = Without(rows, D) /\ End(r, "ok")

Lost(S) ==
    /\ faults < MaxFaults
    /\ faults' = faults + 1
    /\ pc' = [r \in Requests |-> IF r \in S THEN "failed" ELSE pc[r]]
    /\ lock' = [r \in Requests |-> IF r \in S THEN {} ELSE lock[r]]
    /\ seen' = [r \in Requests |-> IF r \in S THEN {} ELSE seen[r]]
    /\ at' = [r \in Requests |-> IF r \in S THEN 0 ELSE at[r]]
    /\ UNCHANGED <<rows, call, raced>>

\* The connection is lost or the transaction runs into its timeout: nothing of an
\* open transaction stays.
Fault(r) == InFlight(r) /\ Lost({r})

\* The process dies with everything it was at.
Crash == LET S == {r \in Requests : InFlight(r)} IN Cardinality(S) > 1 /\ Lost(S)
=============================================================================
