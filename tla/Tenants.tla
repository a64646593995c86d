------------------------------ MODULE Tenants -------------------------------
(***************************************************************************)
(* Tenants: creation, status and deletion (TenantService).  The no of a client  *)
(* is its e-mail address; it and its users have a status.                     *)
(***************************************************************************)
EXTENDS OfficeTables

CONSTANT Emails         \* addresses a new tenant may give

ASSUME TenantsAssumption == Emails \subseteq Nat

EmailTaken(e) == \E x \in In("Clients", rows) : x.no = e

----------------------------------------------------------------------------
(* Creation *)

BeginCreateTenant(r, e) ==
    Check(r, [op |-> "createTenant", email |-> e], ~ EmailTaken(e), {}, "tenant")

\* The address may have been taken meanwhile; the unique index refuses it then.
CreateTenant(r) ==
    /\ pc[r] = "tenant"
    /\ IF EmailTaken(call[r].email) THEN Fails(r)
       ELSE Insert(r, {[New("Clients", r, <<>>) EXCEPT !.no = call[r].email]})

----------------------------------------------------------------------------
(* Status *)

UsersOf(c) == {x \in In("Users", rows) : RefersTo(x, "clientId", c)}

\* updateTenantStatus
BeginTenantStatus(r, c, on) ==
    Check(r, [op |-> "status", client |-> c, on |-> on], Has("Clients", c), {}, "users")

\* Mutant: the users are left as they are.
UpdateNoUsers(r) ==
    /\ pc[r] = "users"
    /\ Goto(r, "client")
    /\ UNCHANGED <<rows, call, seen, lock, at, raced, faults>>

\* The first statement of the transaction takes the users whose status is another.
UpdateUsers(r) ==
    LET K == Keys({x \in UsersOf(call[r].client) : x.on # call[r].on}) IN
    /\ pc[r] = "users"
    /\ Free(r, K)
    /\ lock' = [lock EXCEPT ![r] = K]
    /\ Goto(r, "client")
    /\ UNCHANGED <<rows, call, seen, at, raced, faults>>

UpdateClient(r) ==
    LET c == call[r].client
        K == lock[r] \cup {<<"Clients", c>>}
    IN
    /\ pc[r] = "client"
    /\ Free(r, K)
    /\ IF Has("Clients", c)
       THEN /\ rows' = {IF Key(x) \in K THEN [x EXCEPT !.on = call[r].on] ELSE x : x \in rows}
            /\ End(r, "ok")
       ELSE Fails(r)

----------------------------------------------------------------------------
(* Deletion *)

\* The statements of the transaction: a table and the column by which it is
\* searched for the users, stores, products or the client that are to go.
ByUser == <<
    <<"AuditLogs", "userId">>, <<"Notifications", "userId">>, <<"ApiTokens", "userId">>,
    <<"InviteLinks", "userId">>, <<"PasswordResetTokens", "userId">>,
    <<"Permission", "grantedBy">>, <<"RoleTemplate", "createdBy">>,
    <<"UserRole", "assignedBy">>, <<"UserRole", "userId">>, <<"UserStoreMap", "userId">>,
    <<"SaleAdjustment", "userId">>, <<"Sales", "userId">>, <<"SaleReturn", "processedBy">>,
    <<"PurchaseOrders", "userId">>, <<"Expenses", "userId">>,
    <<"OrderProcessing", "driverId">> >>

ByStore == <<
    <<"StoreSettings", "storeId">>, <<"UserStoreMap", "storeId">>, <<"Suppliers", "storeId">>,
    <<"Customer", "storeId">>, <<"Sales", "storeId">>, <<"SaleAdjustment", "storeId">>,
    <<"PurchaseOrders", "storeId">>, <<"Expenses", "storeId">>, <<"Reports", "storeId">>,
    <<"OrderProcessing", "storeId">>, <<"ErrorLog", "fileUploadId">>,
    <<"FileUploadInventory", "storeId">> >>

ByProduct == <<
    <<"Pack", "productId">>, <<"SaleAdjustment", "productId">>,
    <<"PurchaseOrders", "productId">> >>

ByClient == << <<"Customer", "clientId">>, <<"Business", "clientId">>, <<"Sales", "clientId">> >>

When(cond, s) == IF cond THEN s ELSE <<>>

\* What was read before the transaction decides which statements there are.
Plan(S) ==
    LET any(t) == In(t, S) # {} IN
       When(any("Users"), ByUser) \o When(any("Stores"), ByStore)
    \o When(any("Products"), ByProduct) \o ByClient
    \o When(any("Users"), << <<"Users", "clientId">> >>)
    \o When(any("Stores"), << <<"Stores", "clientId">> >>)
    \o When(any("Products"), << <<"Products", "clientId">> >>)

ActiveData(c) ==
    {x \in rows : x.t \in {"Users", "Stores", "Products"} /\ RefersTo(x, "clientId", c)}

\* deleteTenant reads the tenant with its users, stores and products.
BeginDeleteTenant(r, c) ==
    Check(r, [op |-> "deleteTenant", client |-> c], Has("Clients", c), ActiveData(c), "statements")

\* deleteTenantSafe asks for force when there is something, and may only deactivate.
BeginDeleteTenantSafe(r, c, soft, force) ==
    IF ActiveData(c) # {} /\ ~ force THEN Refuse(r)
    ELSE IF soft THEN BeginTenantStatus(r, c, FALSE)
    ELSE BeginDeleteTenant(r, c)

\* What is left for the transaction of r.
Left(r) == {x \in rows : Key(x) \notin lock[r]}

\* Mutant: the rows of the stores are not searched for.
SoughtWithoutStores(r, t) ==
    IF t = "Clients" THEN {call[r].client} ELSE Ids(t, seen[r] \ In("Stores", seen[r]))

\* The ids a statement searches table t for.
Sought(r, t) ==
    CASE t = "Clients" -> {call[r].client}
      [] t = "FileUploadInventory" ->
            {x.id : x \in {y \in In(t, Left(r)) : y.to["storeId"] \in Ids("Stores", seen[r])}}
      [] OTHER -> Ids(t, seen[r])

Targets(r, stmt) ==
    {x \in In(stmt[1], Left(r)) : x.to[stmt[2]] \in Sought(r, Parent[stmt[2]])}

\* The next statement: it waits for rows others are at, and fails when a row that
\* is left refers to one of its own.
DeleteRows(r) ==
    LET D == Targets(r, Plan(seen[r])[at[r] + 1]) IN
    /\ pc[r] = "statements"
    /\ at[r] < Len(Plan(seen[r]))
    /\ Free(r, Keys(Gone(Left(r), D)))
    /\ IF Blocked(Left(r), D) THEN Fails(r)
       ELSE /\ lock' = [lock EXCEPT ![r] = @ \cup Keys(Gone(Left(r), D))]
            /\ at' = [at EXCEPT ![r] = @ + 1]
            /\ UNCHANGED <<rows, pc, call, seen, raced, faults>>

\* The client goes last, and with it the transaction commits.
DeleteClient(r) ==
    LET D == {x \in In("Clients", rows) : x.id = call[r].client} IN
    /\ pc[r] = "statements"
    /\ at[r] = Len(Plan(seen[r]))
    /\ Free(r, Keys(D))
    /\ IF D = {} \/ Blocked(Left(r), D) THEN Fails(r)
       ELSE /\ rows' = Without(rows, D \cup {x \in rows : Key(x) \in lock[r]})
            /\ End(r, "ok")

----------------------------------------------------------------------------

ReceiveTenants(r) ==
    \/ \E e \in Emails : BeginCreateTenant(r, e)
    \/ \E c \in Ids("Clients", rows) :
         \/ \E on \in Statuses : BeginTenantStatus(r, c, on)
         \/ BeginDeleteTenant(r, c)
         \/ \E soft, force \in BOOLEAN : BeginDeleteTenantSafe(r, c, soft, force)

StepTenants(r) ==
    \/ CreateTenant(r) \/ UpdateUsers(r) \/ UpdateClient(r)
    \/ DeleteRows(r) \/ DeleteClient(r)

----------------------------------------------------------------------------
(* Properties *)

\* The tables some statement of a deletion is about, directly or by a cascade.
Covered ==
    {stmt[1] : stmt \in UNION {{s[i] : i \in 1..Len(s)} : s \in {ByUser, ByStore, ByProduct, ByClient}}}
    \cup {k[1] : k \in Cascades} \cup {"Clients", "Users", "Stores", "Products"}

Reaches(c, x) == RefersTo(x, "clientId", c)

\* A deletion of a tenant fails without a fault only if another request met it, the
\* tenant has products, which are deleted after the stores they refer to, a return
\* or an order, which are deleted after the sales and customers they refer to, or a
\* row in a table the deletion does not know (deleteTenant).
DeletionFailsOnlyWhen ==
    [][\A r \in Requests :
          (pc[r] = "statements" /\ pc'[r] = "failed" /\ faults' = faults) =>
            \/ \E q \in Requests \ {r} : Met(q, r)
            \/ \E x \in rows :
                 /\ Reaches(call[r].client, x)
                 /\ \/ x.t \in {"Products", "SaleReturn", "OrderProcessing"}
                    \/ x.t \notin Covered]_vars

\* The columns of the tables a deletion is about, as the schema has them (left out:
\* optional ones no property speaks of, and tables whose rows are always in its way).
Columns == [
    Clients |-> {}, Users |-> {"clientId", "businessId"}, Stores |-> {"clientId"},
    AuditLogs |-> {"clientId", "userId"}, Notifications |-> {"clientId", "userId"},
    ApiTokens |-> {"clientId", "userId"}, InviteLinks |-> {"clientId", "userId", "storeId"},
    PasswordResetTokens |-> {"clientId", "userId"},
    Permission |-> {"clientId", "userId", "grantedBy", "storeId"},
    RoleTemplate |-> {"clientId", "createdBy"},
    UserRole |-> {"clientId", "userId", "assignedBy", "roleTemplateId"},
    UserStoreMap |-> {"clientId", "userId", "storeId"},
    SaleAdjustment |-> {"clientId", "saleId", "productId", "userId", "storeId"},
    Sales |-> {"clientId", "userId", "storeId", "customerId"},
    SaleItem |-> {"clientId", "saleId", "productId"},
    SaleHistory |-> {"clientId", "saleId", "userId", "storeId"},
    PurchaseOrders |-> {"clientId", "productId", "supplierId", "userId", "storeId"},
    Expenses |-> {"clientId", "userId", "storeId"}, StoreSettings |-> {"clientId", "storeId"},
    Suppliers |-> {"clientId", "storeId"}, Customer |-> {"clientId", "storeId"},
    Reports |-> {"clientId", "storeId"}, FileUploadInventory |-> {"clientId", "storeId"},
    ErrorLog |-> {"clientId", "fileUploadId"}, Business |-> {"clientId"},
    Pack |-> {"clientId", "productId"},
    ProductSupplier |-> {"clientId", "productId", "supplierId", "categoryId"},
    SalesDraftItems |-> {"clientId", "saleDraftId"}]

Optional == Nullable \cup {<<"Permission", "storeId">>, <<"ProductSupplier", "categoryId">>}

\* Row x has the columns of its table; every row but a client's own is of a client.
FitsSchema(x) ==
    /\ x.t \in DOMAIN Columns =>
         /\ DOMAIN x.to = Columns[x.t]
         /\ \A col \in DOMAIN x.to : x.to[col] = None => <<x.t, col>> \in Optional
    /\ x.t # "Clients" => "clientId" \in DOMAIN x.to

\* Rows refer to rows of their own tenant only, whatever the column.
KeepApart(S) ==
    \A x, y \in S : \A col \in DOMAIN x.to \ {"clientId"} :
        Key(y) = <<Parent[col], x.to[col]>> => x.to["clientId"] = y.to["clientId"]

\* The rows at the start fit the schema and mix no tenants.
SeedsKeepApart == KeepApart(SeedRows) /\ \A x \in SeedRows : FitsSchema(x)

\* No row of a tenant ever refers to one of another, so that what one does to its
\* rows is no matter of the others, as long as requests name what the pages show.
TenantsKeepApart == KeepApart(rows)

\* Request q gives a user u of client c a status: that of the tenant, its own, or the
\* one it is made with.
SetsStatus(q, c, u) ==
    \/ Is(q, "status") /\ call[q].client = c
    \/ Is(q, "employee") /\ call[q].user = u
    \/ u = q

\* When a change of a tenant's status commits, all its users have that status, but for
\* those another request gave theirs while both were at work (updateTenantStatus: the
\* users' rows are taken before that of the tenant).  Later on employees are let in
\* again, and users join, whatever the status of the tenant.
StatusReachesUsers ==
    [][\A r \in Requests : (pc[r] = "client" /\ pc'[r] = "ok") =>
          \A u \in In("Users", rows') :
             (RefersTo(u, "clientId", call[r].client) /\ u.on # call[r].on) =>
                \E q \in Requests \ {r} : Met(q, r) /\ SetsStatus(q, call[r].client, u.id)]_vars
=============================================================================
