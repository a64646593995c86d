------------------------------- MODULE Shops --------------------------------
(***************************************************************************)
(* Stores, suppliers, customers, users' profiles, new users and the status of   *)
(* employees (StoreService, SupplierService, CustomerService, UsersService,     *)
(* EmployeeService, AuthService).  Who may do what is the matter of Access,     *)
(* codes and invitations are that of Accounts, what a customer owes and its     *)
(* deletion that of CustomerLedger.                                          *)
(***************************************************************************)
EXTENDS OfficeTables

CONSTANTS
    FeatureSets,    \* what one request adds to or takes from the exclusions
    Phones          \* numbers a customer may give

ASSUME ShopsAssumption ==
    /\ \A F \in FeatureSets : F # {} /\ F \subseteq Features
    /\ Phones \subseteq Nat

ActiveStore(s) == Has("Stores", s) /\ Get("Stores", s).on

----------------------------------------------------------------------------
(* Stores *)

\* The stores on the pages of an administrator: all of the client.
GetStores(u) == Own(ClientOf(u), "Stores")

\* validateClientExists and validateUserExists
Known(u) == Has("Users", u) /\ Has("Clients", ClientOf(u))

\* createStore on behalf of user u: the client and the user are found first.
BeginCreateStore(r, u) ==
    LET c == [op |-> "createStore", user |-> u] IN
    Check(r, c, Known(u), {Get("Users", u)}, "store")

\* The rows of one transaction: the store, its settings, its creator's mapping.
StoreRows(r) ==
    LET u == CHOOSE x \in seen[r] : TRUE
        c == u.to["clientId"]
    IN  {New("Stores", r, [clientId |-> c]),
         New("StoreSettings", r, [clientId |-> c, storeId |-> r]),
         New("UserStoreMap", r, [clientId |-> c, storeId |-> r, userId |-> u.id])}

CreateStore(r) ==
    /\ pc[r] = "store"
    /\ Insert(r, StoreRows(r)) \/ InsertFails(r, StoreRows(r))

\* updateStore and deleteStore look for the store, whatever its status.
BeginEditStore(r, op, s) ==
    LET c == [op |-> op, store |-> s] IN
    Check(r, c, Has("Stores", s), {}, "editStore")

\* The store and its settings are written in one transaction; what is written is
\* left out.
UpdateStore(r) ==
    LET s == call[r].store IN
    /\ pc[r] = "editStore"
    /\ Is(r, "updateStore")
    /\ Free(r, {<<"Stores", s>>, <<"StoreSettings", s>>})
    /\ IF Has("Stores", s) /\ Has("StoreSettings", s)
       THEN End(r, "ok") /\ UNCHANGED rows
       ELSE Fails(r)

\* A deleted store stays, with all that refers to it.
DeleteStore(r) ==
    LET s == call[r].store IN
    /\ pc[r] = "editStore"
    /\ Is(r, "deleteStore")
    /\ Write(r, "Stores", s, [Get("Stores", s) EXCEPT !.on = FALSE])

----------------------------------------------------------------------------
(* Suppliers *)

\* Mutant: any store that is there will do.
ValidateStoreAccessNot(s) == Has("Stores", s)

\* validateStoreAccess: the store is there and active.
ValidateStoreAccess(s) == ActiveStore(s)

BeginCreateSupplier(r, s) ==
    LET c == [op |-> "createSupplier", store |-> s] IN
    Check(r, c, ValidateStoreAccess(s), {Get("Stores", s)}, "supplier")

SupplierRows(r) ==
    {New("Suppliers", r, [clientId |-> s.to["clientId"], storeId |-> s.id]) : s \in seen[r]}

CreateSupplier(r) ==
    /\ pc[r] = "supplier"
    /\ Insert(r, SupplierRows(r)) \/ InsertFails(r, SupplierRows(r))

ActiveSupplier(p) == Has("Suppliers", p) /\ Get("Suppliers", p).on

\* Only a supplier that moves has its store looked at.
BeginUpdateSupplier(r, p, s) ==
    LET c == [op |-> "updateSupplier", supplier |-> p, store |-> s]
        moves == RefersTo(Get("Suppliers", p), "storeId", s) = FALSE
    IN  Check(r, c, ActiveSupplier(p) /\ (moves => ValidateStoreAccess(s)), {}, "editSupplier")

UpdateSupplier(r) ==
    LET p == call[r].supplier IN
    /\ pc[r] = "editSupplier"
    /\ Is(r, "updateSupplier")
    /\ NotDoomed(r, {<<"Stores", call[r].store>>})
    /\ IF Has("Stores", call[r].store)
       THEN Write(r, "Suppliers", p,
                  [Get("Suppliers", p) EXCEPT !.to["storeId"] = call[r].store])
       ELSE Fails(r)

BeginDeleteSupplier(r, p) ==
    LET c == [op |-> "deleteSupplier", supplier |-> p] IN
    Check(r, c, ActiveSupplier(p), {}, "editSupplier")

\* The row is written whatever has become of its status meanwhile.
DeleteSupplier(r) ==
    LET p == call[r].supplier IN
    /\ pc[r] = "editSupplier"
    /\ Is(r, "deleteSupplier")
    /\ Write(r, "Suppliers", p, [Get("Suppliers", p) EXCEPT !.on = FALSE])

----------------------------------------------------------------------------
(* Customers: the no of one is its telephone number *)

PhoneTaken(c, n) == \E x \in In("Customer", rows) : x.no = n /\ RefersTo(x, "clientId", c)

BeginCreateCustomer(r, s, n) ==
    LET c == [op |-> "createCustomer", store |-> s, phone |-> n] IN
    Check(r, c, ~ PhoneTaken(Get("Stores", s).to["clientId"], n), {Get("Stores", s)}, "customer")

\* The rows of one transaction: the customer and its first entry.
CustomerRows(r) ==
    LET s == CHOOSE x \in seen[r] : TRUE
        c == s.to["clientId"]
    IN  {[New("Customer", r, [clientId |-> c, storeId |-> s.id]) EXCEPT !.no = call[r].phone],
         New("BalanceSheet", r, [clientId |-> c, customerId |-> r, saleId |-> None])}

\* The number may have been given meanwhile; the unique index refuses it then.
CreateCustomer(r) ==
    /\ pc[r] = "customer"
    /\ IF \E x \in seen[r] : PhoneTaken(x.to["clientId"], call[r].phone) THEN Fails(r)
       ELSE Insert(r, CustomerRows(r)) \/ InsertFails(r, CustomerRows(r))

\* The page of a store shows its customers.
GetCustomers(u, s) ==
    {x.id : x \in {y \in In("Customer", rows) :
        RefersTo(y, "storeId", s) /\ RefersTo(y, "clientId", ClientOf(u))}}

\* Nothing but the index keeps a customer from the number of another.
BeginUpdateCustomer(r, k, n) ==
    LET c == [op |-> "updateCustomer", customer |-> k, phone |-> n] IN
    Check(r, c, Has("Customer", k), {}, "editCustomer")

UpdateCustomer(r) ==
    LET k == call[r].customer
        n == call[r].phone
        taken == \E x, y \in In("Customer", rows) :
                    x.id = k /\ y.id # k /\ y.no = n /\ y.to["clientId"] = x.to["clientId"]
    IN
    /\ pc[r] = "editCustomer"
    /\ IF taken THEN Fails(r)
       ELSE Write(r, "Customer", k, [Get("Customer", k) EXCEPT !.no = n])

----------------------------------------------------------------------------
(* Employees: users whose no is 1 *)

IsEmployee(u) == Has("Users", u) /\ Get("Users", u).no = 1

\* remove, deactivate and activate, and update with a status; that of the tenant is
\* not looked at.
BeginEmployee(r, u, on) ==
    Check(r, [op |-> "employee", user |-> u, on |-> on], IsEmployee(u), {}, "employee")

SetEmployee(r) ==
    LET u == call[r].user IN
    /\ pc[r] = "employee"
    /\ Write(r, "Users", u, [Get("Users", u) EXCEPT !.on = call[r].on])

\* create, and invite, whose employee is pending, on behalf of user u.
BeginHire(r, u, m, s, on) ==
    LET c == [op |-> "hire", user |-> u, client |-> ClientOf(u), role |-> m, store |-> s,
              on |-> on] IN
    Check(r, c, Has("RoleTemplate", m), {}, "hire")

UserRow(r, c, n, on) ==
    [New("Users", r, [clientId |-> c, businessId |-> None]) EXCEPT !.no = n, !.on = on]

\* The rows of one transaction: the employee, its role, and its store if that is there.
HireRows(r) ==
    LET c == call[r] IN
    {UserRow(r, c.client, 1, c.on),
     New("UserRole", r, [clientId |-> c.client, userId |-> r, roleTemplateId |-> c.role,
                         assignedBy |-> c.user])}
    \cup {New("UserStoreMap", r, [clientId |-> c.client, userId |-> r, storeId |-> s]) :
            s \in {c.store} \cap Ids("Stores", rows)}

Hire(r) ==
    /\ pc[r] = "hire"
    /\ Insert(r, HireRows(r)) \/ InsertFails(r, HireRows(r))

----------------------------------------------------------------------------
(* Users that sign up: what follows their rows is the matter of Accounts *)

\* signupSuperAdmin, for a client that is active.
BeginSignup(r, c) ==
    Check(r, [op |-> "signup", client |-> c, no |-> 0, store |-> None],
          Has("Clients", c) /\ Get("Clients", c).on = TRUE, {}, "signup")

\* The invitation i has made a user: the address of the user is taken.
InviteUsed(i) == \E q \in Requests : Is(q, "accept") /\ call[q].invite = i /\ Has("Users", q)

\* acceptInvite; the no of an invitation is that of the user, and the tenant's status is
\* not looked at.
BeginAccept(r, i) ==
    LET x == Get("InviteLinks", i)
        u == x.to["userId"]
        c == [op |-> "accept", invite |-> i, no |-> x.no, store |-> x.to["storeId"],
              client |-> ClientOf(u)] IN
    Check(r, c, x.to["storeId"] # None /\ ~ InviteUsed(i) /\ Has("Users", u), {}, "signup")

\* The user commits on its own; an address taken meanwhile is refused by its index.
CreateUser(r) ==
    LET c == call[r].client IN
    /\ pc[r] = "signup"
    /\ NotDoomed(r, {<<"Clients", c>>})
    /\ IF ~ Has("Clients", c) \/ (Is(r, "accept") /\ InviteUsed(call[r].invite)) THEN Fails(r)
       ELSE /\ rows' = rows \cup {UserRow(r, c, call[r].no, TRUE)}
            /\ IF Is(r, "accept")
               THEN Goto(r, "mapping") /\ UNCHANGED <<call, seen, lock, at, raced, faults>>
               ELSE End(r, "ok")

MapRows(r) ==
    {New("UserStoreMap", r, [clientId |-> call[r].client, userId |-> r, storeId |-> call[r].store])}

\* Mapped(r): the user has the store already; the unique index refuses it then.
Mapped(r) ==
    \E x \in In("UserStoreMap", rows) :
        RefersTo(x, "userId", r) /\ RefersTo(x, "storeId", call[r].store)

MapUser(r) ==
    /\ pc[r] = "mapping"
    /\ IF Mapped(r) THEN Fails(r) ELSE Insert(r, MapRows(r)) \/ InsertFails(r, MapRows(r))

----------------------------------------------------------------------------
(* Users *)

\* addExclusions and removeExclusions of user u read the row first.
BeginExclusions(r, op, u, F) ==
    LET c == [op |-> op, user |-> u, features |-> F] IN
    Check(r, c, Has("Users", u), {Get("Users", u)}, op)

Excluded(r) == (CHOOSE x \in seen[r] : TRUE).out

\* The whole array is written back, whatever has been written meanwhile.
AddExclusions(r) ==
    LET u == call[r].user IN
    /\ pc[r] = "exclude"
    /\ Write(r, "Users", u,
             [Get("Users", u) EXCEPT !.out = Excluded(r) \cup call[r].features])

RemoveExclusions(r) ==
    LET u == call[r].user IN
    /\ pc[r] = "include"
    /\ Write(r, "Users", u,
             [Get("Users", u) EXCEPT !.out = Excluded(r) \ call[r].features])

\* updateMe writes names and a phone number, which are left out.
BeginUpdateMe(r, u) ==
    LET c == [op |-> "updateMe", user |-> u] IN
    Check(r, c, Has("Users", u), {}, "profile")

UpdateMe(r) ==
    /\ pc[r] = "profile"
    /\ Write(r, "Users", call[r].user, Get("Users", call[r].user))

----------------------------------------------------------------------------

ReceiveShops(r) ==
    \/ \E u \in Ids("Users", rows) :
         \/ BeginCreateStore(r, u)
         \/ BeginUpdateMe(r, u)
         \/ \E on \in Statuses : BeginEmployee(r, u, on)
         \/ \E m \in Own(ClientOf(u), "RoleTemplate"), s \in GetStores(u) \cup {None}, on \in BOOLEAN :
              BeginHire(r, u, m, s, on)
         \/ \E F \in FeatureSets : \E op \in {"exclude", "include"} : BeginExclusions(r, op, u, F)
         \/ \E s \in GetStores(u) :
              \/ \E op \in {"updateStore", "deleteStore"} : BeginEditStore(r, op, s)
              \/ BeginCreateSupplier(r, s)
              \/ \E n \in Phones :
                   \/ BeginCreateCustomer(r, s, n)
                   \/ \E k \in GetCustomers(u, s) : BeginUpdateCustomer(r, k, n)
              \/ \E p \in Own(ClientOf(u), "Suppliers") : BeginUpdateSupplier(r, p, s)
    \/ \E p \in Ids("Suppliers", rows) : BeginDeleteSupplier(r, p)
    \/ \E c \in Ids("Clients", rows) : BeginSignup(r, c)
    \/ \E i \in Ids("InviteLinks", rows) : BeginAccept(r, i)

StepShops(r) ==
    \/ CreateStore(r) \/ UpdateStore(r) \/ DeleteStore(r)
    \/ CreateSupplier(r) \/ UpdateSupplier(r) \/ DeleteSupplier(r)
    \/ CreateCustomer(r) \/ UpdateCustomer(r)
    \/ SetEmployee(r) \/ Hire(r) \/ CreateUser(r) \/ MapUser(r)
    \/ AddExclusions(r) \/ RemoveExclusions(r) \/ UpdateMe(r)

----------------------------------------------------------------------------
(* Properties *)

\* Store s was deleted by a request that was at work together with r.
StoreTakenFrom(r, s) ==
    \E q \in Requests : Met(q, r) /\ Is(q, "deleteStore") /\ call[q].store = s

SupplierMoved(r, p) ==
    \E q \in Requests : Met(q, r) /\ Is(q, "updateSupplier") /\ call[q].supplier = p

\* A supplier is put into a store that is open; only a deletion of that store that
\* was at work at the same time can have closed it (validateStoreAccess), unless
\* another request moved the supplier out of it meanwhile and this one back.
SuppliersJoinOpenStores ==
    [][\A x \in In("Suppliers", rows') : \A r \in Requests :
          (/\ pc[r] \in {"supplier", "editSupplier"} /\ pc'[r] = "ok"
           /\ \A y \in In("Suppliers", rows) : y.id = x.id => y.to # x.to)
          => \/ ActiveStore(x.to["storeId"])
             \/ StoreTakenFrom(r, x.to["storeId"])
             \/ SupplierMoved(r, x.id)]_vars

\* A change of the exclusions of user u that is about feature f.
Excludes(q, u) == call[q].op \in {"exclude", "include"} /\ call[q].user = u
AsksFor(q, f) == f \in call[q].features

\* A user gets a feature back, or loses one, only when a request asks for it, or by
\* a request that was at work together with another change of the exclusions of the
\* user, and only a feature that was asked for at some time (UsersService: read,
\* merge, write back).
ExclusionsChangeAsAsked ==
    [][\A x \in In("Users", rows), y \in In("Users", rows') :
          (x.id = y.id /\ x.out # y.out) =>
            \E r \in Requests :
               /\ pc[r] \in {"exclude", "include"} /\ pc'[r] = "ok" /\ call[r].user = x.id
               /\ \A f \in (x.out \ y.out) \cup (y.out \ x.out) :
                    \/ AsksFor(r, f) /\ (Is(r, "exclude") <=> f \in y.out)
                    \/ /\ \E q \in Requests : Met(q, r) /\ Excludes(q, x.id)
                       /\ \E q \in Requests : Excludes(q, x.id) /\ AsksFor(q, f)]_vars
=============================================================================
