---------------------------- MODULE Office_proofs ----------------------------
(***************************************************************************)
(* Theorems about Office, the tables of the stores, suppliers, invoices,    *)
(* taxes, drafts and tenants of a business, for any users, stores, requests *)
(* and rows at the start.                                                   *)
(*                                                                         *)
(* TableInv is the inductive invariant of its tables: keys, foreign keys    *)
(* and unique indexes, with what each request has read and holds locked.    *)
(* What its requests promise each other has an invariant on top: AssignInv, *)
(* DraftInv, StatusInv, BusinessInv, SupplierInv and ExclusionInv, by the   *)
(* history of who met whom (History).  NumberInv says which invoices may    *)
(* have the number that a request is about to use: it needs the order of    *)
(* the texts of numbers to be the order of the numbers (TextFollows).       *)
(* ApartInv keeps tenants apart, whatever a request has read; DeletionInv   *)
(* says what a deletion that nobody met has left behind (Clean).            *)
(***************************************************************************)
EXTENDS Office, SequencesExt, FoldTheorems, FiniteSetTheorems, SequenceTheorems,
        TLAPS

----------------------------------------------------------------------------
(* What a request is at, and what it has read *)

Waits == {"store", "editStore", "supplier", "editSupplier", "customer", "editCustomer",
          "employee", "hire", "signup", "mapping", "exclude", "include", "profile", "business", "link",
          "editBusiness", "invoice", "editInvoice", "tax", "editTax", "bundle", "replace", "assignments",
          "draft", "clear", "items", "dropItems", "dropDraft", "tenant", "users", "client",
          "statements"}

\* What a request asks for, by what it awaits.
Op == [business |-> "setBusiness", link |-> "setBusiness", exclude |-> "exclude",
       include |-> "include", replace |-> "replace", assignments |-> "replace",
       draft |-> "saveDraft", clear |-> "saveDraft", items |-> "saveDraft",
       users |-> "status", client |-> "status", statements |-> "deleteTenant",
       invoice |-> "invoice", supplier |-> "createSupplier", customer |-> "createCustomer",
       employee |-> "employee", hire |-> "hire", mapping |-> "accept"]

\* The tables of which it read rows.
Reads == [store |-> {"Users"}, supplier |-> {"Stores"}, customer |-> {"Stores"},
          exclude |-> {"Users"}, include |-> {"Users"}, invoice |-> {"Users", "Sales"},
          tax |-> TaxTables, bundle |-> {"TaxType", "TaxCode", "TaxRate"},
          assignments |-> {"TaxAssignment"}, clear |-> {"SalesDraftItems"},
          items |-> {"SalesDraftItems"}, statements |-> {"Users", "Stores", "Products"}]

Once == {"store", "supplier", "customer", "exclude", "include"}

IsOn(x) == x.on = TRUE

Unused(r) ==
    /\ pc[r] \notin {"items", "client", "statements"} => lock[r] = {}
    /\ at[r] \in Nat /\ (pc[r] # "statements" => at[r] = 0)

\* The rows S that r, asking for c, has read when it awaits stage.
SeenFits(r, stage, c, S) ==
    /\ stage \notin DOMAIN Reads => S = {}
    /\ \A x \in S : IsRow(x) /\ x.t \in Reads[stage]
    /\ stage \in Once => \E x \in S : S = {x}
    /\ stage = "invoice" => In("Users", S) # {} /\ In("Sales", S) # {}
    /\ stage = "tax" =>
         /\ IsFiniteSet(S)
         /\ \A x \in S : x.id = r /\ IsOn(x)
         /\ \A x, y \in S : x.t = y.t => x = y
         /\ c.op \in {"createTax", "createBundle", "assign"}
         /\ c.op # "assign" => In("TaxAssignment", S) = {}
    /\ stage = "bundle" => In("TaxRate", S) # {}

\* What it asks for.
CallFits(r, stage, c) ==
    /\ stage \in DOMAIN Op => c.op = Op[stage]
    /\ stage \in {"business", "draft", "clear", "items", "hire", "signup", "mapping"} =>
         c.client # None
    /\ stage = "signup" => c.op \in {"signup", "accept"} /\ (c.op = "accept" => c.store # None)
    /\ stage = "mapping" => c.store # None
    /\ stage = "hire" => c.role # None /\ c.user # None
    /\ stage \in {"replace", "assignments"} =>
         /\ IsRow(c.new) /\ Key(c.new) = <<"TaxAssignment", r>> /\ IsOn(c.new)
         /\ Parents(c.new) \subseteq {<<"Clients", c.new.to["clientId"]>>, <<"TaxRate", c.rate>>}
         /\ c.new.to["taxRateId"] = c.rate
         /\ c.rate \in Requests => pc[c.rate] = "ok"
         /\ \A x \in In("TaxRate", rows) : x.id = c.rate => x.to["clientId"] = c.new.to["clientId"]
    /\ stage \in {"exclude", "include"} => c.features \subseteq Features
    /\ stage \in {"users", "client", "employee", "hire"} => c.on \in Statuses
    /\ stage = "editTax" =>
         /\ c.table \in TaxTables
         /\ c.op = "updateTax" =>
              c.no \in Nat /\ (c.col # "none" => c.col \in RefColumns[c.table] /\ c.ref # None)

\* What a request may be at when it has made a row of table t: it does so at its end,
\* but a business and a user that was invited a step earlier.
Made(t) ==
    {"ok"} \cup {s \in {"link", "failed"} : t = "Business"}
           \cup {s \in {"mapping", "failed"} : t = "Users"}

LEMMA MadeIs ==
    /\ Made("Users") = {"ok", "mapping", "failed"} /\ Made("Business") = {"ok", "link", "failed"}
    /\ Made("TaxAssignment") = {"ok"}
  BY DEF Made

\* References that stand in the way of a deletion, or go with it.
Tight(x, K) ==
    \E col \in DOMAIN x.to : <<x.t, col>> \notin Nullable /\ <<Parent[col], x.to[col]>> \in K

LockFits(r) ==
    /\ \A k \in lock[r] : k[2] # None
    /\ \A k \in lock[r] : k[1] = "Users" /\ k[2] \in Requests => pc[k[2]] \in Made("Users")
    /\ pc[r] = "items" => \A k \in lock[r] : k[1] = "SalesDraftItems"
    /\ pc[r] = "client" => \A k \in lock[r] : k[1] = "Users"
    /\ pc[r] \in {"client", "statements"} =>
         \A x \in In("Users", rows) : Key(x) \in lock[r] => x.to["clientId"] = call[r].client
    /\ pc[r] = "statements" =>
         /\ \A k \in lock[r] : k[1] \notin {"Clients", "TaxType"}
         /\ \A x \in Left(r) : ~ Tight(x, lock[r])

RequestFits(r) ==
    /\ pc[r] \in Waits \cup Ended \cup {"idle"}
    /\ Unused(r) /\ LockFits(r)
    /\ SeenFits(r, pc[r], call[r], seen[r]) /\ CallFits(r, pc[r], call[r])

MadeBy(x) ==
    x.id \in Requests =>
        /\ pc[x.id] \in Made(x.t)
        /\ x.t = "Business" => Is(x.id, "setBusiness")

RowsSound == IsFiniteSet(rows) /\ KeysHold(rows) /\ \A x \in rows : IsRow(x)

StateFits ==
    /\ DOMAIN pc = Requests /\ DOMAIN call = Requests /\ DOMAIN seen = Requests
    /\ DOMAIN lock = Requests /\ DOMAIN at = Requests
    /\ raced \subseteq SUBSET Requests /\ faults \in 0..MaxFaults

TableInv ==
    /\ RowsSound /\ IndexesHold(rows) /\ StateFits
    /\ \A x \in rows : MadeBy(x)
    /\ \A r \in Requests : RequestFits(r)

----------------------------------------------------------------------------
(* Tables *)

\* What a row keeps when what it may refer to goes.
Loosens(x, y) ==
    /\ Key(y) = Key(x) /\ DOMAIN y.to = DOMAIN x.to
    /\ y.on = x.on /\ y.no = x.no /\ y.out = x.out
    /\ \A col \in DOMAIN x.to :
         y.to[col] = x.to[col] \/ (y.to[col] = None /\ <<x.t, col>> \in Nullable)

LEMMA RowOf ==
    ASSUME RowsSound, NEW t, NEW id, Has(t, id)
    PROVE  /\ Get(t, id) \in rows /\ Get(t, id).t = t /\ Get(t, id).id = id
           /\ \A x \in rows : x.t = t /\ x.id = id => x = Get(t, id)
  BY DEF Has, Ids, Get, In, RowsSound, KeysHold, Key

LEMMA MandatoryStays ==
    ASSUME NEW t \in DOMAIN Mandatory, NEW col \in Mandatory[t]
    PROVE  <<t, col>> \notin Nullable
  BY DEF Mandatory, Nullable

LEMMA LoosenLoosens ==
    ASSUME NEW x, IsRow(x), NEW K, ~ Tight(x, K)
    PROVE  Loosens(x, Loosen(x, K)) /\ IsRow(Loosen(x, K))
<1> DEFINE y == Loosen(x, K)
<1>1. /\ y = [t |-> y.t, id |-> y.id, to |-> y.to, on |-> y.on, no |-> y.no, out |-> y.out]
      /\ y.t = x.t /\ y.id = x.id /\ y.on = x.on /\ y.no = x.no /\ y.out = x.out
      /\ DOMAIN y.to = DOMAIN x.to /\ AreColumns(y.to)
      /\ \A col \in DOMAIN x.to :
           y.to[col] = IF <<Parent[col], x.to[col]>> \in K THEN None ELSE x.to[col]
  <2>1. x = [t |-> x.t, id |-> x.id, to |-> x.to, on |-> x.on, no |-> x.no, out |-> x.out]
    BY DEF IsRow
  <2> DEFINE to == [col \in DOMAIN x.to |->
                      IF <<Parent[col], x.to[col]>> \in K THEN None ELSE x.to[col]]
  <2>2. y = [x EXCEPT !.to = to] BY DEF Loosen
  <2>3. AreColumns(to) BY DEF AreColumns
  <2> HIDE DEF to
  <2>4. y = [t |-> x.t, id |-> x.id, to |-> to, on |-> x.on, no |-> x.no, out |-> x.out]
    BY <2>1, <2>2
  <2>5. y.to = to /\ AreColumns(y.to) BY <2>3, <2>4
  <2> QED BY <2>4, <2>5 DEF to
<1>2. Loosens(x, y) BY <1>1 DEF Loosens, Key, Tight
<1>3. IsRow(y) BY <1>1, <1>2, MandatoryStays DEF IsRow, Loosens
<1> QED BY <1>2, <1>3

\* References to what goes are to rows that go of themselves, but for cascades.
LEMMA GoneRefs ==
    ASSUME NEW S, \A x \in S : IsRow(x), NEW D, D \subseteq S, ~ Blocked(S, D),
           NEW x \in S \ Gone(S, D)
    PROVE  ~ Tight(x, Keys(Gone(S, D)))
<1> SUFFICES ASSUME NEW col \in DOMAIN x.to, <<x.t, col>> \notin Nullable,
                    <<Parent[col], x.to[col]>> \in Keys(Gone(S, D))
             PROVE  FALSE
  BY DEF Tight
<1>1. <<x.t, col>> \in Cascades BY DEF Blocked
<1> DEFINE one == D \cup Via(S, D, Cascades)
<1>2. PICK z \in Gone(S, D) : Key(z) = <<Parent[col], x.to[col]>> BY DEF Keys
<1>3. z \in D
  <2>1. SUFFICES ASSUME z \in Via(S, D, Cascades) \/ z \in Via(S, one, Cascades) PROVE FALSE
    BY <1>2 DEF Gone
  <2>2. PICK k \in DOMAIN z.to : <<z.t, k>> \in Cascades BY <2>1 DEF Via
  <2>3. z.t = Parent[col] /\ col \in DOMAIN Parent BY <1>2 DEF Key, IsRow
  <2> QED BY <1>1, <2>2, <2>3 DEF Cascades, Parent
<1>4. x \in Via(S, D, Cascades) BY <1>1, <1>2, <1>3 DEF Via, Keys
<1> QED BY <1>4 DEF Gone

LEMMA GoneFrom ==
    ASSUME NEW S, NEW D, D \subseteq S
    PROVE  D \subseteq Gone(S, D) /\ Gone(S, D) \subseteq S
  BY DEF Gone, Via

\* What is left when rows go to which nothing else holds on.
LEMMA WithoutSound ==
    ASSUME NEW S, IsFiniteSet(S), KeysHold(S), \A x \in S : IsRow(x), NEW D, D \subseteq S,
           \A x \in S \ Gone(S, D) : ~ Tight(x, Keys(Gone(S, D)))
    PROVE  /\ IsFiniteSet(Without(S, D)) /\ KeysHold(Without(S, D))
           /\ \A y \in Without(S, D) : IsRow(y) /\ \E x \in S \ Gone(S, D) : Loosens(x, y)
           /\ \A x \in S \ Gone(S, D) : \E y \in Without(S, D) : Loosens(x, y)
<1> DEFINE gone == Gone(S, D)
           K == Keys(gone)
           T == Without(S, D)
           f == [x \in S \ gone |-> Loosen(x, K)]
<1>1. T = {Loosen(x, K) : x \in S \ gone} BY DEF Without
<1>2. \A x \in S \ gone : Loosens(x, Loosen(x, K)) /\ IsRow(Loosen(x, K)) BY LoosenLoosens
<1>3. \A y \in T : IsRow(y) /\ \E x \in S \ gone : Loosens(x, y) /\ y = Loosen(x, K)
  BY <1>1, <1>2
<1>4. IsFiniteSet(T)
  <2>1. IsFiniteSet(S \ gone) BY FS_Difference
  <2>2. T = ImageOf(f, S \ gone) BY <1>1 DEF ImageOf
  <2> QED BY <2>1, <2>2, ImageFinite
<1>5. \A x, y \in T : Key(x) = Key(y) => x = y
  <2> SUFFICES ASSUME NEW x \in T, NEW y \in T, Key(x) = Key(y) PROVE x = y OBVIOUS
  <2>1. PICK u \in S \ gone : Loosens(u, x) /\ x = Loosen(u, K) BY <1>3
  <2>2. PICK v \in S \ gone : Loosens(v, y) /\ y = Loosen(v, K) BY <1>3
  <2>3. u = v BY <2>1, <2>2 DEF Loosens, KeysHold
  <2> QED BY <2>1, <2>2, <2>3
<1>6. \A y \in T : Parents(y) \subseteq Keys(T)
  <2> SUFFICES ASSUME NEW y \in T, NEW p \in Parents(y) PROVE p \in Keys(T) OBVIOUS
  <2>1. PICK x \in S \ gone : Loosens(x, y) /\ y = Loosen(x, K) BY <1>3
  <2>2. PICK col \in DOMAIN y.to : y.to[col] # None /\ p = <<Parent[col], y.to[col]>>
    BY DEF Parents
  <2>3. /\ DOMAIN y.to = DOMAIN x.to
        /\ y.to[col] = IF <<Parent[col], x.to[col]>> \in K THEN None ELSE x.to[col]
    BY <2>1, <2>2 DEF Loosen, Loosens, IsRow
  <2>4. p \in Parents(x) /\ p \notin K BY <2>2, <2>3 DEF Parents
  <2>5. PICK z \in S : Key(z) = p BY <2>4 DEF KeysHold, Keys
  <2>6. z \in S \ gone BY <2>4, <2>5 DEF Keys
  <2>7. Key(Loosen(z, K)) = p /\ Loosen(z, K) \in T BY <1>1, <1>2, <2>5, <2>6 DEF Loosens
  <2> QED BY <2>7 DEF Keys
<1> QED BY <1>1, <1>2, <1>3, <1>4, <1>5, <1>6 DEF KeysHold

----------------------------------------------------------------------------
(* What a step of a request does to the tables *)

\* The columns a request writes at a stage; next to these, references become null.
Writes ==
    {<<"editStore", "Stores", "on">>, <<"editSupplier", "Suppliers", "on">>,
     <<"editSupplier", "Suppliers", "storeId">>, <<"editCustomer", "Customer", "no">>,
     <<"employee", "Users", "on">>, <<"client", "Users", "on">>, <<"client", "Clients", "on">>,
     <<"exclude", "Users", "out">>, <<"include", "Users", "out">>,
     <<"link", "Users", "businessId">>, <<"editInvoice", "Invoice", "on">>,
     <<"bundle", "TaxRate", "taxTypeId">>, <<"editTax", "TaxType", "no">>,
     <<"editTax", "TaxCode", "taxTypeId">>, <<"editTax", "TaxRate", "taxTypeId">>,
     <<"editTax", "TaxRate", "taxCodeId">>, <<"editTax", "TaxRate", "regionId">>,
     <<"editTax", "TaxAssignment", "taxRateId">>,
     <<"editTax", "TaxCode", "no">>, <<"editTax", "Region", "no">>, <<"editTax", "TaxRate", "no">>,
     <<"editTax", "TaxAssignment", "no">>}

Loosening == {"statements", "editTax", "dropDraft"}

RowMoves(stage, x, y) ==
    /\ Key(y) = Key(x) /\ DOMAIN y.to = DOMAIN x.to
    /\ y.on = x.on \/ <<stage, x.t, "on">> \in Writes
    /\ y.no = x.no \/ <<stage, x.t, "no">> \in Writes
    /\ y.out = x.out \/ <<stage, x.t, "out">> \in Writes
    /\ \A col \in DOMAIN x.to :
         \/ y.to[col] = x.to[col]
         \/ <<stage, x.t, col>> \in Writes
         \/ y.to[col] = None /\ <<x.t, col>> \in Nullable /\ stage \in Loosening

\* The rows it makes, and those it may remove.
Makes == [store |-> {"Stores", "StoreSettings", "UserStoreMap"}, supplier |-> {"Suppliers"},
          customer |-> {"Customer", "BalanceSheet"}, business |-> {"Business"},
          invoice |-> {"Invoice"}, tax |-> TaxTables, assignments |-> {"TaxAssignment"},
          draft |-> {"SalesDraft", "SalesDraftItems"}, items |-> {"SalesDraftItems"},
          tenant |-> {"Clients"}, hire |-> {"Users", "UserRole", "UserStoreMap"},
          signup |-> {"Users"}, mapping |-> {"UserStoreMap"}]

Removes(stage, t) ==
    \/ stage = "statements"
    \/ stage \in {"editTax", "bundle", "assignments"} /\ t \in TaxTables
    \/ stage = "items" /\ t = "SalesDraftItems"
    \/ stage = "dropItems" /\ t = "SalesDraftItems"
    \/ stage = "dropDraft" /\ t \in {"SalesDraft", "SalesDraftItems"}

\* A new user has no business, any other row is active.
Fresh(y) == IF y.t = "Users" THEN y.to["businessId"] = None ELSE IsOn(y)

IsNew(r, y) ==
    /\ y.id = r /\ Key(y) \notin Keys(rows) /\ Fresh(y)
    /\ pc[r] \in DOMAIN Makes /\ y.t \in Makes[pc[r]]

\* A row that refers to another did so before, or the other is not about to go.
RefersWell(r, y) ==
    \A col \in DOMAIN y.to : y.to[col] # None =>
        \/ \E x \in rows : Key(x) = Key(y) /\ col \in DOMAIN x.to /\ x.to[col] = y.to[col]
        \/ NotDoomed(r, {<<Parent[col], y.to[col]>>})

Effect(r) ==
    /\ \A y \in rows' : RefersWell(r, y) /\ (IsNew(r, y) \/ \E x \in rows : RowMoves(pc[r], x, y))
    /\ \A x \in rows : Removes(pc[r], x.t) \/ \E y \in rows' : RowMoves(pc[r], x, y)

\* The others stay where they are.
Local(r) ==
    /\ call' = call /\ raced' = raced /\ faults' = faults
    /\ DOMAIN pc' = Requests /\ DOMAIN seen' = Requests /\ DOMAIN lock' = Requests
    /\ DOMAIN at' = Requests
    /\ \A q \in Requests \ {r} :
         pc'[q] = pc[q] /\ seen'[q] = seen[q] /\ lock'[q] = lock[q] /\ at'[q] = at[q]

Over(r, how) == pc'[r] = how /\ seen'[r] = {} /\ lock'[r] = {} /\ at'[r] = 0

\* A step of r, and one that ends it.
Outcome(r) == RowsSound' /\ IndexesHold(rows)' /\ Effect(r) /\ Local(r)

Done(r) ==
    /\ Outcome(r)
    /\ Over(r, "ok") \/ (UNCHANGED rows /\ (Over(r, "failed") \/ Over(r, "refused")))

\* Two rows in the way of one index.
Numbered == {"TaxType", "TaxCode", "Region", "Invoice", "Customer"}
Collide(x, y) ==
    /\ x.t = y.t
    /\ \/ x.t = "Business" /\ x.to["clientId"] = y.to["clientId"]
       \/ x.t = "UserStoreMap" /\ x.to["userId"] = y.to["userId"] /\ x.to["storeId"] = y.to["storeId"]
       \/ x.t \in Numbered /\ x.no = y.no /\ x.to["clientId"] = y.to["clientId"]
       \/ x.t = "Clients" /\ x.no = y.no

LEMMA IndexesMean ==
    ASSUME NEW S
    PROVE  IndexesHold(S) <=> \A x, y \in S : Collide(x, y) => x = y
  BY DEF IndexesHold, UniqueIn, Collide, Numbered, In

LEMMA CollideSym == \A x, y : Collide(x, y) <=> Collide(y, x)
  BY DEF Collide

LEMMA EndLocal ==
    ASSUME StateFits, NEW r \in Requests, NEW how, End(r, how)
    PROVE  Local(r) /\ Over(r, how)
  BY DEF StateFits, End, Goto, Local, Over

LEMMA SameRows ==
    ASSUME RowsSound, IndexesHold(rows), UNCHANGED rows, NEW r
    PROVE  RowsSound' /\ IndexesHold(rows)' /\ Effect(r)
<1>1. RowsSound' BY DEF RowsSound
<1>2. IndexesHold(rows)' OBVIOUS
<1>3. \A x \in rows : RowMoves(pc[r], x, x) /\ RefersWell(r, x) BY DEF RowMoves, RefersWell
<1> QED BY <1>1, <1>2, <1>3 DEF Effect

LEMMA StaysDone ==
    ASSUME TableInv, NEW r \in Requests, NEW how \in Ended, End(r, how), UNCHANGED rows
    PROVE  Done(r)
  BY SameRows, EndLocal DEF TableInv, Ended, Outcome, Done

LEMMA FailsDone ==
    ASSUME TableInv, NEW r \in Requests, Fails(r)
    PROVE  Done(r)
  BY StaysDone DEF Fails, Ended

\* A request that is not over has made no rows, but a business or a user.
LEMMA NoneMadeYet ==
    ASSUME TableInv, NEW r \in Requests, pc[r] \notin {"ok", "link", "mapping", "failed"},
           NEW x \in rows
    PROVE  x.id # r
  BY DEF TableInv, MadeBy, Made

LEMMA KeysOfUnion ==
    ASSUME NEW S, NEW T
    PROVE  Keys(S \cup T) = Keys(S) \cup Keys(T)
  BY DEF Keys

\* New rows, one for a table, that refer to rows that are there and stay.
Fits(r, S) ==
    /\ IsFiniteSet(S) /\ pc[r] \in DOMAIN Makes
    /\ \A x \in S : IsRow(x) /\ x.id = r /\ Fresh(x) /\ x.t \in Makes[pc[r]]
    /\ \A x, y \in S : x.t = y.t => x = y
    /\ \A x \in S, y \in rows : ~ Collide(x, y)

\* They take the place of others, to which nothing refers.
LEMMA SwapSound ==
    ASSUME TableInv, NEW r \in Requests, NEW S, Fits(r, S), NEW D, D \subseteq rows,
           \A x \in rows \cup S : Parents(x) \cap Keys(D) = {},
           \A x \in D : Removes(pc[r], x.t),
           UNION {Parents(x) : x \in S} \subseteq Keys(rows \cup S),
           NotDoomed(r, UNION {Parents(x) : x \in S}), rows' = (rows \ D) \cup S
    PROVE  RowsSound' /\ IndexesHold(rows)' /\ Effect(r)
<1> DEFINE T == (rows \ D) \cup S
<1>1. \A x \in S : Key(x) \notin Keys(rows)
  <2>1. \A x \in S : pc[r] \notin Made(x.t) BY DEF Fits, Makes, Made
  <2> QED BY <2>1 DEF Fits, Keys, Key, TableInv, MadeBy
<1>2. \A x, y \in T : Key(x) = Key(y) => x = y
  BY <1>1 DEF Keys, Key, Fits, TableInv, RowsSound, KeysHold
<1>3. \A x \in T : Parents(x) \subseteq Keys(T)
  <2> SUFFICES ASSUME NEW x \in T, NEW p \in Parents(x) PROVE p \in Keys(T) OBVIOUS
  <2>1. p \in Keys(rows \cup S) /\ p \notin Keys(D)
    BY KeysOfUnion DEF TableInv, RowsSound, KeysHold
  <2> QED BY <2>1 DEF Keys
<1>4. RowsSound'
  <2>1. IsFiniteSet(rows \ D) BY FS_Difference DEF TableInv, RowsSound
  <2>2. IsFiniteSet(T) BY <2>1, FS_Union DEF Fits
  <2>3. \A x \in T : IsRow(x) BY DEF Fits, TableInv, RowsSound
  <2> QED BY <1>2, <1>3, <2>2, <2>3 DEF RowsSound, KeysHold
<1>5. IndexesHold(rows)'
  <2>1. \A x, y \in rows : Collide(x, y) => x = y BY IndexesMean DEF TableInv
  <2>2. \A x, y \in S : Collide(x, y) => x = y BY DEF Fits, Collide
  <2>3. \A x, y \in T : Collide(x, y) => x = y BY <2>1, <2>2, CollideSym DEF Fits
  <2> QED BY <2>3, IndexesMean
<1>6. Effect(r)
  <2>1. \A x \in rows : RowMoves(pc[r], x, x) /\ RefersWell(r, x) BY DEF RowMoves, RefersWell
  <2>2. ASSUME NEW y \in S PROVE RefersWell(r, y) /\ IsNew(r, y)
    <3>1. IsNew(r, y) BY <1>1 DEF IsNew, Fits
    <3>2. \A col \in DOMAIN y.to : y.to[col] # None => <<Parent[col], y.to[col]>> \in Parents(y)
      BY DEF Parents
    <3> QED BY <3>1, <3>2 DEF RefersWell, NotDoomed
  <2> QED BY <2>1, <2>2 DEF Effect
<1> QED BY <1>4, <1>5, <1>6

LEMMA NewSound ==
    ASSUME TableInv, NEW r \in Requests, NEW S, Fits(r, S),
           UNION {Parents(x) : x \in S} \subseteq Keys(rows \cup S),
           NotDoomed(r, UNION {Parents(x) : x \in S}), rows' = rows \cup S
    PROVE  RowsSound' /\ IndexesHold(rows)' /\ Effect(r)
<1>1. /\ {} \subseteq rows /\ rows' = (rows \ {}) \cup S
      /\ \A x \in rows \cup S : Parents(x) \cap Keys({}) = {}
      /\ \A x \in {} : Removes(pc[r], x.t)
  BY DEF Keys
<1> QED BY <1>1, SwapSound

LEMMA InsertDone ==
    ASSUME TableInv, NEW r \in Requests, NEW S, Fits(r, S), Insert(r, S) \/ InsertFails(r, S)
    PROVE  Done(r)
<1>1. CASE Insert(r, S) BY <1>1, NewSound, EndLocal DEF TableInv, Insert, Done, Outcome
<1>2. CASE InsertFails(r, S) BY <1>2, FailsDone DEF InsertFails
<1> QED BY <1>1, <1>2

\* A row is written that keeps its key and its place in the indexes.
Rewrites(r, x, y) ==
    /\ IsRow(y) /\ RowMoves(pc[r], x, y)
    /\ \A z \in rows \ {x} : ~ Collide(y, z)
    /\ \A col \in DOMAIN y.to : y.to[col] # None =>
         \/ y.to[col] = x.to[col]
         \/ <<Parent[col], y.to[col]>> \in Keys(rows) /\ NotDoomed(r, {<<Parent[col], y.to[col]>>})

LEMMA UpdateSound ==
    ASSUME TableInv, NEW r \in Requests, NEW x \in rows, NEW y, Rewrites(r, x, y), Update(x, y)
    PROVE  RowsSound' /\ IndexesHold(rows)' /\ Effect(r)
<1> DEFINE T == (rows \ {x}) \cup {y}
<1>1. rows' = T /\ Key(y) = Key(x) /\ DOMAIN y.to = DOMAIN x.to
  BY DEF Update, Rewrites, RowMoves
<1>2. Keys(T) = Keys(rows) BY <1>1 DEF Keys
<1>3. \A u, v \in T : Key(u) = Key(v) => u = v BY <1>1 DEF TableInv, RowsSound, KeysHold
<1>4. Parents(y) \subseteq Keys(rows)
  <2> SUFFICES ASSUME NEW p \in Parents(y) PROVE p \in Keys(rows) OBVIOUS
  <2>1. PICK col \in DOMAIN y.to : y.to[col] # None /\ p = <<Parent[col], y.to[col]>>
    BY DEF Parents
  <2>2. CASE y.to[col] = x.to[col]
    BY <1>1, <2>1, <2>2 DEF Parents, TableInv, RowsSound, KeysHold
  <2>3. CASE p \in Keys(rows) BY <2>3
  <2> QED BY <2>1, <2>2, <2>3 DEF Rewrites
<1>5. RowsSound'
  <2>1. IsFiniteSet(T) BY FS_AddElement, FS_RemoveElement DEF TableInv, RowsSound
  <2> QED BY <1>1, <1>2, <1>3, <1>4, <2>1 DEF RowsSound, KeysHold, TableInv, Rewrites
<1>6. IndexesHold(rows)'
  <2>1. \A u, v \in rows : Collide(u, v) => u = v BY IndexesMean DEF TableInv
  <2>2. \A u, v \in T : Collide(u, v) => u = v BY <2>1, CollideSym DEF Rewrites
  <2> QED BY <1>1, <2>2, IndexesMean
<1>7. Effect(r)
  <2>1. \A u \in rows : RowMoves(pc[r], u, u) /\ RefersWell(r, u) BY DEF RowMoves, RefersWell
  <2>2. RefersWell(r, y) /\ RowMoves(pc[r], x, y) BY <1>1 DEF RefersWell, Rewrites
  <2> QED BY <1>1, <2>1, <2>2 DEF Effect
<1> QED BY <1>5, <1>6, <1>7

LEMMA WriteDone ==
    ASSUME TableInv, NEW r \in Requests, NEW t, NEW id, NEW y, Write(r, t, id, y),
           Has(t, id) => Rewrites(r, Get(t, id), y)
    PROVE  Done(r)
<1>1. CASE Has(t, id)
  <2>1. Update(Get(t, id), y) /\ End(r, "ok") /\ Get(t, id) \in rows
    BY <1>1, RowOf DEF Write, TableInv
  <2> QED BY <1>1, <2>1, UpdateSound, EndLocal DEF TableInv, Done, Outcome
<1>2. CASE ~ Has(t, id) BY <1>2, FailsDone DEF Write
<1> QED BY <1>1, <1>2

\* Rows go, and with them what hangs on them; nothing else refers to them.
LEMMA WithoutOutcome ==
    ASSUME TableInv, NEW r \in Requests, pc[r] \in Loosening, NEW D, D \subseteq rows,
           \A x \in rows \ Gone(rows, D) : ~ Tight(x, Keys(Gone(rows, D))),
           \A x \in Gone(rows, D) : Removes(pc[r], x.t), rows' = Without(rows, D)
    PROVE  RowsSound' /\ IndexesHold(rows)' /\ Effect(r)
<1> DEFINE T == Without(rows, D)
           gone == Gone(rows, D)
<1>1. /\ IsFiniteSet(T) /\ KeysHold(T)
      /\ \A y \in T : IsRow(y) /\ \E x \in rows \ gone : Loosens(x, y)
      /\ \A x \in rows \ gone : \E y \in T : Loosens(x, y)
  BY WithoutSound DEF TableInv, RowsSound
<1>2. RowsSound' BY <1>1 DEF RowsSound
<1>3. IndexesHold(rows)'
  <2> SUFFICES ASSUME NEW x \in T, NEW y \in T, Collide(x, y) PROVE x = y BY IndexesMean
  <2>1. PICK u \in rows \ gone : Loosens(u, x) BY <1>1
  <2>2. PICK v \in rows \ gone : Loosens(v, y) BY <1>1
  <2>3. u.t = x.t /\ v.t = y.t /\ IsRow(u) /\ IsRow(v) /\ IsRow(x) /\ IsRow(y)
    BY <1>1, <2>1, <2>2 DEF Loosens, Key, TableInv, RowsSound
  <2>4. Collide(u, v)
    <3>1. ASSUME x.t \in DOMAIN Mandatory, NEW col \in Mandatory[x.t]
          PROVE  u.to[col] = x.to[col] /\ v.to[col] = y.to[col]
      <4>1. y.t = x.t BY DEF Collide
      <4>2. x.to[col] # None /\ y.to[col] # None /\ col \in DOMAIN x.to /\ col \in DOMAIN y.to
        BY <2>3, <3>1, <4>1 DEF IsRow
      <4> QED BY <2>1, <2>2, <4>2 DEF Loosens
    <3>2. u.no = x.no /\ v.no = y.no BY <2>1, <2>2 DEF Loosens
    <3>3. x.t = "UserStoreMap" => u.to["userId"] = x.to["userId"] /\ v.to["userId"] = y.to["userId"]
                                /\ u.to["storeId"] = x.to["storeId"] /\ v.to["storeId"] = y.to["storeId"]
      BY <3>1 DEF Mandatory
    <3>4. x.t \in Numbered \cup {"Business"} =>
            u.to["clientId"] = x.to["clientId"] /\ v.to["clientId"] = y.to["clientId"]
      BY <3>1 DEF Mandatory, Numbered
    <3> QED BY <2>3, <3>2, <3>3, <3>4 DEF Collide
  <2>5. u = v BY <2>4, IndexesMean DEF TableInv
  <2> QED BY <1>1, <2>1, <2>2, <2>5 DEF Loosens, KeysHold
<1>4. Effect(r)
  <2>1. ASSUME NEW x, NEW y, Loosens(x, y) PROVE RowMoves(pc[r], x, y)
    BY <2>1 DEF Loosens, RowMoves
  <2>2. ASSUME NEW y \in T PROVE RefersWell(r, y) /\ \E x \in rows : RowMoves(pc[r], x, y)
    BY <1>1, <2>1 DEF RefersWell, Loosens
  <2>3. ASSUME NEW x \in rows PROVE Removes(pc[r], x.t) \/ \E y \in T : RowMoves(pc[r], x, y)
    BY <1>1, <2>1
  <2> QED BY <2>2, <2>3 DEF Effect
<1> QED BY <1>2, <1>3, <1>4

\* Rows go that nothing refers to.
LEMMA DropOutcome ==
    ASSUME TableInv, NEW r \in Requests, NEW D, D \subseteq rows,
           \A x \in rows \ D : Parents(x) \cap Keys(D) = {},
           \A x \in D : Removes(pc[r], x.t), rows' = rows \ D
    PROVE  RowsSound' /\ IndexesHold(rows)' /\ Effect(r)
<1>1. RowsSound'
  <2>1. IsFiniteSet(rows \ D) BY FS_Difference DEF TableInv, RowsSound
  <2>2. \A x \in rows \ D : Parents(x) \subseteq Keys(rows \ D)
    BY DEF Keys, TableInv, RowsSound, KeysHold
  <2> QED BY <2>1, <2>2 DEF RowsSound, KeysHold, TableInv
<1>2. IndexesHold(rows)' BY IndexesMean DEF TableInv
<1>3. \A x \in rows : RowMoves(pc[r], x, x) /\ RefersWell(r, x) BY DEF RowMoves, RefersWell
<1> QED BY <1>1, <1>2, <1>3 DEF Effect

\* Tables to which nothing refers.
LEMMA NoReference ==
    ASSUME NEW x, IsRow(x), NEW D, \A y \in D : y.t \in {"TaxAssignment", "SalesDraftItems"}
    PROVE  Parents(x) \cap Keys(D) = {}
<1> SUFFICES ASSUME NEW y \in D, NEW col \in DOMAIN x.to, <<Parent[col], x.to[col]>> = Key(y)
             PROVE  FALSE
  BY DEF Parents, Keys
<1>1. Parent[col] \in {"TaxAssignment", "SalesDraftItems"} /\ col \in DOMAIN Parent
  BY DEF Key, IsRow
<1> QED BY <1>1 DEF Parent

LEMMA DeleteDone ==
    ASSUME TableInv, NEW r \in Requests, NEW t, NEW id, Delete(r, t, id),
           \/ pc[r] = "editTax" /\ t \in TaxTables
           \/ pc[r] = "dropDraft" /\ t = "SalesDraft"
    PROVE  Done(r)
<1> DEFINE D == {x \in In(t, rows) : x.id = id}
<1>1. CASE Fails(r) BY <1>1, FailsDone
<1>2. CASE ~ Blocked(rows, D) /\ rows' = Without(rows, D) /\ End(r, "ok")
  <2>1. D \subseteq rows /\ \A x \in rows : IsRow(x) BY DEF In, TableInv, RowsSound
  <2>2. \A x \in rows \ Gone(rows, D) : ~ Tight(x, Keys(Gone(rows, D)))
    BY <1>2, <2>1, GoneRefs
  <2>3. \A x \in Gone(rows, D) : Removes(pc[r], x.t)
    <3> DEFINE one == D \cup Via(rows, D, Cascades)
    <3>1. \A x \in D : x.t = t BY DEF In
    <3>2. ASSUME NEW x \in Via(rows, D, Cascades) PROVE t = "SalesDraft" /\ x.t = "SalesDraftItems"
      <4>1. PICK col \in DOMAIN x.to : <<x.t, col>> \in Cascades /\ Parent[col] = t
        BY <3>1 DEF Via, Keys, Key
      <4> QED BY <4>1 DEF Cascades, Parent, TaxTables
    <3>3. ASSUME NEW x \in Via(rows, one, Cascades) PROVE t = "SalesDraft" /\ x.t = "SalesDraftItems"
      <4>1. PICK col \in DOMAIN x.to : <<x.t, col>> \in Cascades /\ Parent[col] \in {t, "SalesDraftItems"}
        BY <3>1, <3>2 DEF Via, Keys, Key
      <4> QED BY <4>1 DEF Cascades, Parent, TaxTables
    <3> QED BY <3>1, <3>2, <3>3 DEF Gone, Removes, TaxTables
  <2>4. pc[r] \in Loosening BY DEF Loosening
  <2> QED BY <1>2, <2>1, <2>2, <2>3, <2>4, WithoutOutcome, EndLocal DEF TableInv, Done, Outcome
<1> QED BY <1>1, <1>2 DEF Delete

----------------------------------------------------------------------------
(* The requests that do not move *)

LEMMA KeysEvolve ==
    ASSUME NEW st, NEW x, NEW y, RowMoves(st, x, y)
    PROVE  y.t = x.t /\ y.id = x.id /\ Key(y) = Key(x) /\ DOMAIN y.to = DOMAIN x.to
  BY DEF RowMoves, Key

\* Columns that keep a row where it is.
LEMMA Anchored ==
    ASSUME NEW st, NEW x, NEW y, RowMoves(st, x, y), NEW col \in DOMAIN x.to,
           col \in {"clientId", "userId", "saleDraftId"}, <<x.t, col>> \notin Nullable
    PROVE  y.to[col] = x.to[col]
  BY DEF RowMoves, Writes

LEMMA ClientStays ==
    ASSUME NEW st, NEW x, NEW y, RowMoves(st, x, y), "clientId" \in DOMAIN x.to
    PROVE  y.to["clientId"] = x.to["clientId"]
  BY Anchored DEF Nullable

\* What is known of rows and the other requests lasts.
LEMMA OthersFit ==
    ASSUME TableInv, NEW r \in Requests, Effect(r), Local(r), pc[r] \notin {"ok", "refused", "failed", "idle"},
           pc[r] = "mapping" => pc'[r] \in {"ok", "failed"}, NEW q \in Requests \ {r}
    PROVE  RequestFits(q)'
<1>1. /\ pc'[q] = pc[q] /\ call' = call /\ seen'[q] = seen[q] /\ lock'[q] = lock[q]
      /\ at'[q] = at[q] /\ RequestFits(q)
  BY DEF Local, TableInv
<1>2. Unused(q)' /\ SeenFits(q, pc[q], call[q], seen[q])'
  BY <1>1 DEF RequestFits, Unused, SeenFits
<1>3. CallFits(q, pc[q], call[q])'
  <2>1. ASSUME pc[q] \in {"replace", "assignments"}
        PROVE  /\ call[q].rate \in Requests => pc'[call[q].rate] = "ok"
               /\ \A x \in In("TaxRate", rows)' :
                    x.id = call[q].rate => x.to["clientId"] = call[q].new.to["clientId"]
    <3>1. call[q].rate \in Requests => call[q].rate # r
      BY <1>1, <2>1 DEF RequestFits, CallFits
    <3>2. call[q].rate \in Requests => pc'[call[q].rate] = "ok"
      BY <1>1, <2>1, <3>1 DEF RequestFits, CallFits, Local
    <3>3. ASSUME NEW y \in rows', y.t = "TaxRate", y.id = call[q].rate
          PROVE  y.to["clientId"] = call[q].new.to["clientId"]
      <4>1. ~ IsNew(r, y) BY <3>1, <3>3 DEF IsNew
      <4>2. PICK x \in rows : RowMoves(pc[r], x, y) BY <4>1 DEF Effect
      <4>3. x.t = "TaxRate" /\ x.id = call[q].rate /\ IsRow(x)
        BY <3>3, <4>2, KeysEvolve DEF TableInv, RowsSound
      <4>4. x.to["clientId"] = call[q].new.to["clientId"]
        BY <1>1, <2>1, <4>3 DEF RequestFits, CallFits, In
      <4>5. "clientId" \in DOMAIN x.to BY <4>3 DEF IsRow, Mandatory
      <4> QED BY <4>2, <4>4, <4>5, ClientStays
    <3> QED BY <3>2, <3>3 DEF In
  <2> QED BY <1>1, <2>1 DEF RequestFits, CallFits, Is
<1>4. LockFits(q)'
  <2>1. ASSUME pc[q] \in {"client", "statements"}, NEW y \in rows', y.t = "Users", Key(y) \in lock[q]
        PROVE  y.to["clientId"] = call[q].client
    <3>1. ~ IsNew(r, y)
      <4> SUFFICES ASSUME IsNew(r, y) PROVE FALSE OBVIOUS
      <4>1. Key(y)[1] = "Users" /\ Key(y)[2] = r BY <2>1 DEF IsNew, Key
      <4>2. pc[r] \in Made("Users") BY <1>1, <2>1, <4>1 DEF RequestFits, LockFits
      <4>3. pc[r] = "mapping" BY <4>2 DEF Made
      <4> QED BY <2>1, <4>3 DEF IsNew, Makes
    <3>2. PICK x \in rows : RowMoves(pc[r], x, y) BY <3>1 DEF Effect
    <3>3. x.t = "Users" /\ Key(x) = Key(y) /\ IsRow(x)
      BY <2>1, <3>2, KeysEvolve DEF TableInv, RowsSound
    <3>4. x.to["clientId"] = call[q].client /\ "clientId" \in DOMAIN x.to
      BY <1>1, <2>1, <3>3 DEF RequestFits, LockFits, In, IsRow, Mandatory
    <3> QED BY <3>2, <3>4, ClientStays
  <2>2. ASSUME pc[q] = "statements", NEW y \in rows', Key(y) \notin lock[q], NEW col \in DOMAIN y.to,
               <<y.t, col>> \notin Nullable, <<Parent[col], y.to[col]>> \in lock[q]
        PROVE  FALSE
    <3>1. call[q].op = "deleteTenant" /\ y.to[col] # None
      BY <1>1, <2>2 DEF RequestFits, CallFits, LockFits, Op
    <3>2. ~ NotDoomed(r, {<<Parent[col], y.to[col]>>}) BY <2>2, <3>1 DEF NotDoomed, Deletes
    <3>3. PICK x \in rows : Key(x) = Key(y) /\ col \in DOMAIN x.to /\ x.to[col] = y.to[col]
      BY <3>1, <3>2 DEF Effect, RefersWell
    <3>4. x \in Left(q) /\ x.t = y.t BY <2>2, <3>3 DEF Left, Key
    <3>5. Tight(x, lock[q]) BY <2>2, <3>3, <3>4 DEF Tight
    <3> QED BY <1>1, <2>2, <3>4, <3>5 DEF RequestFits, LockFits
  <2>3. pc[q] = "statements" => \A y \in Left(q)' : ~ Tight(y, lock'[q])
    BY <1>1, <2>2 DEF Tight, Left
  <2>4. \A k \in lock[q] : k[1] = "Users" /\ k[2] \in Requests => pc'[k[2]] \in Made("Users")
    BY <1>1 DEF RequestFits, LockFits, Made, Local
  <2> QED BY <1>1, <2>1, <2>3, <2>4 DEF RequestFits, LockFits, In
<1> QED BY <1>1, <1>2, <1>3, <1>4 DEF RequestFits

LEMMA StillMade ==
    ASSUME TableInv, NEW r \in Requests, Effect(r), Local(r), 
           pc'[r] \in {"ok", "link", "mapping"} \/ \A y \in rows' : ~ IsNew(r, y),
           pc[r] \notin {"ok", "refused", "failed", "idle"},
           pc[r] \in {"link", "mapping"} => pc'[r] \in {"ok", "failed"},
           pc'[r] = "link" => pc[r] = "business", pc'[r] = "mapping" => pc[r] = "signup"
    PROVE  \A y \in rows' : MadeBy(y)'
<1> SUFFICES ASSUME NEW y \in rows', y.id \in Requests
             PROVE  /\ pc'[y.id] \in Made(y.t)
                    /\ y.t = "Business" => call'[y.id].op = "setBusiness"
  BY DEF MadeBy, Is
<1>1. CASE IsNew(r, y)
  <2>1. y.id = r /\ pc[r] \in DOMAIN Makes /\ y.t \in Makes[pc[r]] BY <1>1 DEF IsNew
  <2>2. y.t = "Business" => pc[r] = "business" BY <2>1 DEF Makes, TaxTables
  <2>3. pc[r] = "business" => y.t = "Business" BY <2>1 DEF Makes
  <2>4. pc[r] = "business" => call[r].op = "setBusiness"
    BY DEF TableInv, RequestFits, CallFits, Op
  <2>5. pc[r] = "signup" => y.t = "Users" BY <2>1 DEF Makes
  <2>6. pc'[y.id] \in Made(y.t) BY <1>1, <2>1, <2>3, <2>5 DEF Made
  <2> QED BY <2>1, <2>2, <2>4, <2>6 DEF Local
<1>2. ASSUME NEW x \in rows, RowMoves(pc[r], x, y)
      PROVE  /\ pc'[y.id] \in Made(y.t)
             /\ y.t = "Business" => call'[y.id].op = "setBusiness"
  <2>1. y.t = x.t /\ y.id = x.id BY <1>2, KeysEvolve
  <2>2. /\ pc[y.id] \in Made(y.t)
        /\ y.t = "Business" => call[y.id].op = "setBusiness"
    BY <2>1 DEF TableInv, MadeBy, Is
  <2>3. pc'[y.id] \in Made(y.t) BY <2>2 DEF Made, Local
  <2> QED BY <2>2, <2>3 DEF Local
<1> QED BY <1>1, <1>2 DEF Effect

----------------------------------------------------------------------------
(* Requests that are received *)

LEMMA BeginKeeps ==
    ASSUME TableInv, NEW r \in Requests, NEW c, NEW S, NEW to \in Waits, Begin(r, c, S, to),
           SeenFits(r, to, c, S), CallFits(r, to, c)
    PROVE  TableInv'
<1>1. /\ pc[r] = "idle" /\ pc' = [pc EXCEPT ![r] = to] /\ call' = [call EXCEPT ![r] = c]
      /\ seen' = [seen EXCEPT ![r] = S] /\ UNCHANGED <<rows, lock, at, faults>>
      /\ raced' = raced \cup {{q, r} : q \in {x \in Requests : InFlight(x)}}
  BY DEF Begin, Goto
<1>2. \A x \in rows : x.id # r BY <1>1, NoneMadeYet
<1>3. RowsSound' /\ IndexesHold(rows)' /\ StateFits'
  BY <1>1 DEF TableInv, RowsSound, StateFits
<1>4. \A x \in rows : MadeBy(x)' BY <1>1, <1>2 DEF TableInv, MadeBy, StateFits, Is
<1>7. pc[r] \notin Made("Users") BY <1>1 DEF Made
<1>5. RequestFits(r)'
  <2>1. lock[r] = {} /\ at[r] = 0 BY <1>1 DEF TableInv, RequestFits, Unused
  <2>2. /\ pc'[r] = to /\ call'[r] = c /\ seen'[r] = S /\ lock'[r] = {} /\ at'[r] = 0
    BY <1>1, <2>1 DEF TableInv, StateFits
  <2>3. SeenFits(r, pc[r], call[r], seen[r])' BY <2>2 DEF SeenFits
  <2>4. CallFits(r, pc[r], call[r])'
    <3>1. \A q \in Requests : pc[q] = "ok" => pc'[q] = "ok" BY <1>1 DEF TableInv, StateFits
    <3> QED BY <1>1, <2>2, <3>1 DEF CallFits
  <2>5. LockFits(r)' /\ Unused(r)' BY <2>2 DEF LockFits, Unused, Tight
  <2> QED BY <2>2, <2>3, <2>4, <2>5 DEF RequestFits
<1>6. ASSUME NEW q \in Requests \ {r} PROVE RequestFits(q)'
  <2>1. /\ pc'[q] = pc[q] /\ call'[q] = call[q] /\ seen'[q] = seen[q] /\ lock'[q] = lock[q]
        /\ at'[q] = at[q] /\ RequestFits(q)
    BY <1>1 DEF TableInv, StateFits
  <2>2. CallFits(q, pc[q], call[q])'
    <3>1. \A p \in Requests : pc[p] = "ok" => pc'[p] = "ok" BY <1>1 DEF TableInv, StateFits
    <3> QED BY <1>1, <2>1, <3>1 DEF CallFits, RequestFits
  <2>3. Unused(q)' /\ SeenFits(q, pc[q], call[q], seen[q])'
    BY <1>1, <2>1 DEF Unused, SeenFits, RequestFits
  <2>4. \A p \in Requests : pc[p] \in Made("Users") => pc'[p] = pc[p]
    BY <1>1, <1>7 DEF TableInv, StateFits
  <2>5. LockFits(q)' BY <1>1, <2>1, <2>4 DEF LockFits, RequestFits, Tight, Left
  <2> QED BY <2>1, <2>2, <2>3, <2>5 DEF RequestFits
<1> QED BY <1>1, <1>3, <1>4, <1>5, <1>6 DEF TableInv

LEMMA RefuseKeeps ==
    ASSUME TableInv, NEW r \in Requests, Refuse(r)
    PROVE  TableInv'
<1>1. /\ pc[r] = "idle" /\ pc' = [pc EXCEPT ![r] = "refused"]
      /\ UNCHANGED <<rows, call, seen, lock, at, raced, faults>>
  BY DEF Refuse, Goto
<1>2. \A x \in rows : x.id # r BY <1>1, NoneMadeYet
<1>3. RowsSound' /\ IndexesHold(rows)' /\ StateFits'
  BY <1>1 DEF TableInv, RowsSound, StateFits
<1>4. \A x \in rows : MadeBy(x)' BY <1>1, <1>2 DEF TableInv, MadeBy, StateFits, Is
<1>7. pc[r] \notin Made("Users") BY <1>1 DEF Made
<1>5. RequestFits(r)'
  <2>1. lock[r] = {} /\ at[r] = 0 /\ seen[r] = {} /\ pc'[r] = "refused"
    BY <1>1 DEF TableInv, RequestFits, Unused, SeenFits, Reads, StateFits
  <2> QED
    BY <1>1, <2>1 DEF RequestFits, Unused, SeenFits, CallFits, LockFits, Reads, Op, Once, Ended
<1>6. ASSUME NEW q \in Requests \ {r} PROVE RequestFits(q)'
  <2>1. pc'[q] = pc[q] /\ RequestFits(q) BY <1>1 DEF TableInv, StateFits
  <2>2. CallFits(q, pc[q], call[q])'
    <3>1. \A p \in Requests : pc[p] = "ok" => pc'[p] = "ok" BY <1>1 DEF TableInv, StateFits
    <3> QED BY <1>1, <2>1, <3>1 DEF CallFits, RequestFits
  <2>3. Unused(q)' /\ SeenFits(q, pc[q], call[q], seen[q])'
    BY <1>1, <2>1 DEF Unused, SeenFits, RequestFits
  <2>4. \A p \in Requests : pc[p] \in Made("Users") => pc'[p] = pc[p]
    BY <1>1, <1>7 DEF TableInv, StateFits
  <2>5. LockFits(q)' BY <1>1, <2>1, <2>4 DEF LockFits, RequestFits, Tight, Left
  <2> QED BY <2>1, <2>2, <2>3, <2>5 DEF RequestFits
<1> QED BY <1>1, <1>3, <1>4, <1>5, <1>6 DEF TableInv

LEMMA CheckKeeps ==
    ASSUME TableInv, NEW r \in Requests, NEW c, NEW ok, NEW S, NEW to, Check(r, c, ok, S, to),
           ok => to \in Waits /\ SeenFits(r, to, c, S) /\ CallFits(r, to, c)
    PROVE  TableInv'
  BY BeginKeeps, RefuseKeeps DEF Check

\* Most requests read nothing that they go by later.
LEMMA PlainFits ==
    ASSUME NEW r, NEW c, NEW to \in Waits,
           to \notin DOMAIN Reads \cup DOMAIN Op \cup {"editTax", "signup"}
    PROVE  SeenFits(r, to, c, {}) /\ CallFits(r, to, c)
  BY DEF SeenFits, CallFits, Reads, Op, Once

\* A request that read one row.
LEMMA CheckOne ==
    ASSUME TableInv, NEW r \in Requests, NEW c, NEW ok, NEW x, NEW to \in Once,
           Check(r, c, ok, {x}, to), IsRow(x), x.t \in Reads[to],
           to \in DOMAIN Op => c.op = Op[to],
           to \in {"exclude", "include"} => c.features \subseteq Features
    PROVE  TableInv'
<1>1. to \in Waits /\ SeenFits(r, to, c, {x}) /\ CallFits(r, to, c)
  BY DEF SeenFits, CallFits, Reads, Op, Once, Waits
<1> QED BY <1>1, CheckKeeps

LEMMA RowFor ==
    ASSUME TableInv, NEW t, NEW id \in Ids(t, rows)
    PROVE  /\ Has(t, id) /\ Get(t, id) \in rows /\ Get(t, id).t = t /\ Get(t, id).id = id
           /\ IsRow(Get(t, id)) /\ id # None
           /\ id \in Requests => pc[id] \in {"ok", "link", "mapping", "failed"}
           /\ (id \in Requests /\ t \notin {"Business", "Users"}) => pc[id] = "ok"
           /\ \A x \in rows : x.t = t /\ x.id = id => x = Get(t, id)
<1>1. Has(t, id) BY DEF Has
<1> QED BY <1>1, RowOf DEF TableInv, RowsSound, MadeBy, Made, IsRow

LEMMA ClientOfUser ==
    ASSUME TableInv, NEW u \in Ids("Users", rows)
    PROVE  ClientOf(u) # None
  BY RowFor DEF ClientOf, IsRow, Mandatory

LEMMA ReceiveShopsKeeps ==
    ASSUME TableInv, NEW r \in Requests, ReceiveShops(r)
    PROVE  TableInv'
<1>1. ASSUME NEW u \in Ids("Users", rows), BeginCreateStore(r, u) PROVE TableInv'
  <2>1. /\ IsRow(Get("Users", u)) /\ Get("Users", u).t = "Users"
        /\ "store" \in Once /\ "Users" \in Reads["store"] /\ "store" \notin DOMAIN Op
    BY RowFor DEF Once, Reads, Op
  <2> QED BY <1>1, <2>1, CheckOne DEF BeginCreateStore
<1>2. ASSUME NEW u \in Ids("Users", rows), BeginUpdateMe(r, u) PROVE TableInv'
  BY <1>2, PlainFits, CheckKeeps DEF BeginUpdateMe, Reads, Op, Waits
<1>3. ASSUME NEW u, NEW on \in Statuses, BeginEmployee(r, u, on) PROVE TableInv'
  <2> DEFINE c == [op |-> "employee", user |-> u, on |-> on]
  <2>1. SeenFits(r, "employee", c, {}) /\ CallFits(r, "employee", c)
    BY DEF SeenFits, CallFits, Reads, Op, Once
  <2> QED BY <1>3, <2>1, CheckKeeps DEF BeginEmployee, Waits
<1>4. ASSUME NEW u \in Ids("Users", rows), NEW F, F \subseteq Features,
             NEW op \in {"exclude", "include"}, BeginExclusions(r, op, u, F)
      PROVE  TableInv'
  <2> DEFINE c == [op |-> op, user |-> u, features |-> F]
             x == Get("Users", u)
  <2>1. Check(r, c, Has("Users", u), {x}, op) BY <1>4 DEF BeginExclusions
  <2>2. c.op = op /\ c.features \subseteq Features BY <1>4
  <2>3. IsRow(x) /\ x.t = "Users" BY RowFor
  <2>4. op \in Once /\ "Users" \in Reads[op] /\ Op[op] = op BY DEF Once, Reads, Op
  <2> HIDE DEF c, x
  <2> QED BY <2>1, <2>2, <2>3, <2>4, CheckOne
<1>5. ASSUME NEW s, NEW op, BeginEditStore(r, op, s) PROVE TableInv'
  BY <1>5, PlainFits, CheckKeeps DEF BeginEditStore, Reads, Op, Waits
<1>6. ASSUME NEW s \in Ids("Stores", rows), BeginCreateSupplier(r, s) PROVE TableInv'
  <2>1. /\ IsRow(Get("Stores", s)) /\ Get("Stores", s).t = "Stores"
        /\ "supplier" \in Once /\ "Stores" \in Reads["supplier"]
        /\ Op["supplier"] = "createSupplier"
    BY RowFor DEF Once, Reads, Op
  <2> QED BY <1>6, <2>1, CheckOne DEF BeginCreateSupplier
<1>7. ASSUME NEW s \in Ids("Stores", rows), NEW n, BeginCreateCustomer(r, s, n) PROVE TableInv'
  BY <1>7, RowFor, CheckOne DEF BeginCreateCustomer, Once, Reads, Op
<1>8. ASSUME NEW k, NEW n, BeginUpdateCustomer(r, k, n) PROVE TableInv'
  BY <1>8, PlainFits, CheckKeeps DEF BeginUpdateCustomer, Reads, Op, Waits
<1>9. ASSUME NEW p, NEW s, BeginUpdateSupplier(r, p, s) PROVE TableInv'
  BY <1>9, PlainFits, CheckKeeps DEF BeginUpdateSupplier, Reads, Op, Waits
<1>10. ASSUME NEW p, BeginDeleteSupplier(r, p) PROVE TableInv'
  BY <1>10, PlainFits, CheckKeeps DEF BeginDeleteSupplier, Reads, Op, Waits
<1>11. \A u : GetStores(u) \subseteq Ids("Stores", rows) BY DEF GetStores, Own, Ids
<1>12. ASSUME NEW u \in Ids("Users", rows), NEW m \in Own(ClientOf(u), "RoleTemplate"), NEW s,
              NEW on \in BOOLEAN, BeginHire(r, u, m, s, on)
       PROVE  TableInv'
  <2> DEFINE c == [op |-> "hire", user |-> u, client |-> ClientOf(u), role |-> m, store |-> s,
                   on |-> on]
  <2>4. m \in Ids("RoleTemplate", rows) BY DEF Own, Ids
  <2>1. u # None /\ m # None BY <2>4, RowFor
  <2>2. SeenFits(r, "hire", c, {}) BY DEF SeenFits, Reads, Once
  <2>3. CallFits(r, "hire", c) BY <2>1, ClientOfUser DEF CallFits, Op, Statuses
  <2> QED BY <1>12, <2>2, <2>3, CheckKeeps DEF BeginHire, Waits
<1>13. ASSUME NEW k \in Ids("Clients", rows), BeginSignup(r, k) PROVE TableInv'
  <2> DEFINE c == [op |-> "signup", client |-> k, no |-> 0, store |-> None]
  <2>1. SeenFits(r, "signup", c, {}) BY DEF SeenFits, Reads, Once
  <2>2. CallFits(r, "signup", c) BY RowFor DEF CallFits, Op
  <2> QED BY <1>13, <2>1, <2>2, CheckKeeps DEF BeginSignup, Waits
<1>14. ASSUME NEW i, BeginAccept(r, i) PROVE TableInv'
  <2> DEFINE x == Get("InviteLinks", i)
             u == x.to["userId"]
             c == [op |-> "accept", invite |-> i, no |-> x.no, store |-> x.to["storeId"],
                   client |-> ClientOf(u)]
  <2>1. SeenFits(r, "signup", c, {}) BY DEF SeenFits, Reads, Once
  <2>2. ASSUME x.to["storeId"] # None, Has("Users", u) PROVE CallFits(r, "signup", c)
    BY <2>2, ClientOfUser DEF CallFits, Op, Has
  <2> QED BY <1>14, <2>1, <2>2, CheckKeeps DEF BeginAccept, Waits
<1> QED
  BY <1>1, <1>2, <1>3, <1>4, <1>5, <1>6, <1>7, <1>8, <1>9, <1>10, <1>11, <1>12, <1>13, <1>14,
     ShopsAssumption DEF ReceiveShops

LEMMA ReceiveInvoicingKeeps ==
    ASSUME TableInv, NEW r \in Requests, ReceiveInvoicing(r)
    PROVE  TableInv'
<1>1. ASSUME NEW u \in Ids("Users", rows), BeginSetBusiness(r, u) PROVE TableInv'
  <2> DEFINE c == [op |-> "setBusiness", user |-> u, client |-> ClientOf(u)]
  <2>1. SeenFits(r, "business", c, {}) /\ CallFits(r, "business", c) /\ "business" \in Waits
    BY ClientOfUser DEF SeenFits, CallFits, Reads, Op, Once, Waits
  <2> QED BY <1>1, <2>1, CheckKeeps DEF BeginSetBusiness
<1>2. ASSUME NEW u, BeginUpdateBusiness(r, u) PROVE TableInv'
  BY <1>2, PlainFits, CheckKeeps DEF BeginUpdateBusiness, Reads, Op, Waits
<1>3. ASSUME NEW u \in Ids("Users", rows), NEW s \in Ids("Sales", rows), BeginInvoice(r, u, s)
      PROVE  TableInv'
  <2> DEFINE S == {Get("Users", u), Get("Sales", s)}
  <2>1. ASSUME NEW c, c.op = "invoice"
        PROVE  SeenFits(r, "invoice", c, S) /\ CallFits(r, "invoice", c) /\ "invoice" \in Waits
    BY <2>1, RowFor DEF SeenFits, CallFits, Reads, Op, Once, Waits, In
  <2> QED BY <1>3, <2>1, CheckKeeps DEF BeginInvoice
<1>4. ASSUME NEW op, NEW i, BeginEditInvoice(r, op, i) PROVE TableInv'
  BY <1>4, PlainFits, CheckKeeps DEF BeginEditInvoice, Reads, Op, Waits
<1>5. \A c : Own(c, "Sales") \subseteq Ids("Sales", rows) BY DEF Own, Ids
<1> QED BY <1>1, <1>2, <1>3, <1>4, <1>5 DEF ReceiveInvoicing

LEMMA NamedIs ==
    ASSUME NEW t, NEW id, NEW to, NEW n, NEW x, x = Named(t, id, to, n)
    PROVE  x = [t |-> t, id |-> id, to |-> to, on |-> TRUE, no |-> n, out |-> {}]
  BY DEF Named, New

\* A row of a request, with the columns its table needs.
LEMMA NewRow ==
    ASSUME NEW t, t # "Users", NEW id, id # None, NEW to, AreColumns(to), DOMAIN to \subseteq DOMAIN Parent,
           t \in DOMAIN Mandatory => \A col \in Mandatory[t] : col \in DOMAIN to /\ to[col] # None,
           NEW n, NEW x, x = Named(t, id, to, n), t = "TaxRate" => n \in Nat
    PROVE  IsRow(x) /\ x.t = t /\ x.id = id /\ x.to = to /\ IsOn(x) /\ x.no = n
<1>1. x = [t |-> t, id |-> id, to |-> to, on |-> TRUE, no |-> n, out |-> {}] BY NamedIs
<1>2. x.t = t /\ x.id = id /\ x.to = to /\ IsOn(x) /\ x.no = n /\ x.out = {} BY <1>1 DEF IsOn
<1>3. x = [t |-> x.t, id |-> x.id, to |-> x.to, on |-> x.on, no |-> x.no, out |-> x.out]
  BY <1>1, <1>2
<1>4. x.t \in DOMAIN Mandatory =>
        \A col \in Mandatory[x.t] : col \in DOMAIN x.to /\ x.to[col] # None
  BY <1>2
<1> QED BY <1>2, <1>3, <1>4 DEF IsRow, IsOn, Statuses

LEMMA PlainRow ==
    ASSUME NEW t, t \notin {"Users", "TaxRate"}, NEW id, id # None, NEW to,
           AreColumns(to), DOMAIN to \subseteq DOMAIN Parent,
           t \in DOMAIN Mandatory => \A col \in Mandatory[t] : col \in DOMAIN to /\ to[col] # None
    PROVE  /\ IsRow(New(t, id, to)) /\ New(t, id, to).t = t /\ New(t, id, to).id = id
           /\ New(t, id, to).to = to /\ IsOn(New(t, id, to))
<1> DEFINE x == New(t, id, to)
<1>1. x = [t |-> t, id |-> id, to |-> to, on |-> TRUE, no |-> 0, out |-> {}] BY DEF New
<1>2. Named(t, id, to, 0) = [t |-> t, id |-> id, to |-> to, on |-> TRUE, no |-> 0, out |-> {}]
  BY NamedIs
<1>4. x = Named(t, id, to, 0) BY <1>1, <1>2
<1> HIDE DEF x
<1>3. IsRow(x) /\ x.t = t /\ x.id = id /\ x.to = to /\ IsOn(x) BY <1>4, NewRow
<1> QED BY <1>3 DEF x

LEMMA TaxCallers ==
    ASSUME TableInv, NEW c \in Callers
    PROVE  c # None
  BY ClientOfUser DEF Callers

LEMMA TaxRowFits ==
    ASSUME TableInv, NEW r \in Requests, NEW c, c # None, NEW x \in NewTaxRows(r, c)
    PROVE  /\ IsRow(x) /\ x.id = r /\ IsOn(x)
           /\ x.t \in {"TaxType", "TaxCode", "Region", "TaxRate"}
<1> USE OfficeAssumption
<1>1. ASSUME NEW t \in {"TaxType", "Region"}, NEW n \in Names,
             x = Named(t, r, [clientId |-> c], n)
      PROVE  IsRow(x) /\ x.id = r /\ IsOn(x) /\ x.t = t
  <2> DEFINE to == [clientId |-> c]
  <2>1. /\ AreColumns(to) /\ DOMAIN to \subseteq DOMAIN Parent
        /\ t \in DOMAIN Mandatory => \A col \in Mandatory[t] : col \in DOMAIN to /\ to[col] # None
    BY DEF AreColumns, Parent, Mandatory
  <2>2. x = Named(t, r, to, n) BY <1>1 
  <2> HIDE DEF to
  <2> QED BY <2>1, <2>2, NewRow
<1>2. ASSUME NEW y \in Own(c, "TaxType"), NEW n \in Names,
             x = Named("TaxCode", r, [clientId |-> c, taxTypeId |-> y], n)
      PROVE  IsRow(x) /\ x.id = r /\ IsOn(x) /\ x.t = "TaxCode"
  <2> DEFINE to == [clientId |-> c, taxTypeId |-> y]
  <2>1. y # None
    <3>1. y \in Ids("TaxType", rows) BY DEF Own, Ids
    <3> QED BY <3>1, RowFor
  <2>2. /\ AreColumns(to) /\ DOMAIN to \subseteq DOMAIN Parent
        /\ \A col \in Mandatory["TaxCode"] : col \in DOMAIN to /\ to[col] # None
    BY <2>1 DEF AreColumns, Parent, Mandatory
  <2>3. x = Named("TaxCode", r, to, n) BY <1>2 
  <2> HIDE DEF to
  <2> QED BY <2>2, <2>3, NewRow
<1>3. ASSUME NEW y, NEW k, NEW g,
             x = Named("TaxRate", r, [clientId |-> c, taxTypeId |-> y, taxCodeId |-> k, regionId |-> g], 1)
      PROVE  IsRow(x) /\ x.id = r /\ IsOn(x) /\ x.t = "TaxRate"
  <2> DEFINE to == [clientId |-> c, taxTypeId |-> y, taxCodeId |-> k, regionId |-> g]
  <2>1. /\ AreColumns(to) /\ DOMAIN to \subseteq DOMAIN Parent
        /\ \A col \in Mandatory["TaxRate"] : col \in DOMAIN to /\ to[col] # None
    BY DEF AreColumns, Parent, Mandatory
  <2>2. x = Named("TaxRate", r, to, 1) BY <1>3 
  <2> HIDE DEF to
  <2> QED BY <2>1, <2>2, NewRow
<1>4. \/ \E t \in {"TaxType", "Region"}, n \in Names : x = Named(t, r, [clientId |-> c], n)
      \/ \E y \in Own(c, "TaxType"), n \in Names :
           x = Named("TaxCode", r, [clientId |-> c, taxTypeId |-> y], n)
      \/ \E y \in Own(c, "TaxType"), k \in Own(c, "TaxCode"), g \in Own(c, "Region") :
           x = Named("TaxRate", r, [clientId |-> c, taxTypeId |-> y, taxCodeId |-> k, regionId |-> g], 1)
  BY DEF NewTaxRows
<1> QED BY <1>1, <1>2, <1>3, <1>4

LEMMA TaxFits ==
    ASSUME NEW r \in Requests, NEW c, c.op \in {"createTax", "createBundle", "assign"}, NEW S,
           IsFiniteSet(S), \A x \in S : IsRow(x) /\ x.id = r /\ IsOn(x) /\ x.t \in TaxTables,
           \A x, y \in S : x.t = y.t => x = y,
           c.op # "assign" => \A x \in S : x.t # "TaxAssignment"
    PROVE  "tax" \in Waits /\ SeenFits(r, "tax", c, S) /\ CallFits(r, "tax", c)
  BY DEF SeenFits, CallFits, Reads, Op, Once, Waits, In

LEMMA BundleFits ==
    ASSUME NEW r \in Requests, NEW c, c # None, NEW name, NEW code, NEW type, NEW region,
           NEW S, S = BundleRows(r, c, name, code, type, region)
    PROVE  /\ IsFiniteSet(S) /\ \A x, y \in S : x.t = y.t => x = y
           /\ \A x \in S : IsRow(x) /\ x.id = r /\ IsOn(x)
                           /\ x.t \in {"TaxType", "TaxCode", "TaxRate"}
<1> USE OfficeAssumption
<1> DEFINE a == Named("TaxType", r, [clientId |-> c], name)
           b == Named("TaxCode", r, [clientId |-> c, taxTypeId |-> r], code)
           d == Named("TaxRate", r, [clientId |-> c, taxTypeId |-> type, taxCodeId |-> r,
                                     regionId |-> region], 1)
<1>1. IsRow(a) /\ a.id = r /\ IsOn(a) /\ a.t = "TaxType"
  <2> DEFINE to == [clientId |-> c]
  <2>1. /\ AreColumns(to) /\ DOMAIN to \subseteq DOMAIN Parent
        /\ \A col \in Mandatory["TaxType"] : col \in DOMAIN to /\ to[col] # None
    BY DEF AreColumns, Parent, Mandatory
  <2>2. a = Named("TaxType", r, to, name) OBVIOUS
  <2> HIDE DEF to, a
  <2> QED BY <2>1, <2>2, NewRow
<1>2. IsRow(b) /\ b.id = r /\ IsOn(b) /\ b.t = "TaxCode"
  <2> DEFINE to == [clientId |-> c, taxTypeId |-> r]
  <2>1. /\ AreColumns(to) /\ DOMAIN to \subseteq DOMAIN Parent
        /\ \A col \in Mandatory["TaxCode"] : col \in DOMAIN to /\ to[col] # None
    BY DEF AreColumns, Parent, Mandatory
  <2>2. b = Named("TaxCode", r, to, code) OBVIOUS
  <2> HIDE DEF to, b
  <2> QED BY <2>1, <2>2, NewRow
<1>3. IsRow(d) /\ d.id = r /\ IsOn(d) /\ d.t = "TaxRate"
  <2> DEFINE to == [clientId |-> c, taxTypeId |-> type, taxCodeId |-> r, regionId |-> region]
  <2>1. /\ AreColumns(to) /\ DOMAIN to \subseteq DOMAIN Parent
        /\ \A col \in Mandatory["TaxRate"] : col \in DOMAIN to /\ to[col] # None
    BY DEF AreColumns, Parent, Mandatory
  <2>2. d = Named("TaxRate", r, to, 1) OBVIOUS
  <2> HIDE DEF to, d
  <2> QED BY <2>1, <2>2, NewRow
<1>4. S = {a, b, d} BY DEF BundleRows
<1> HIDE DEF a, b, d
<1>5. IsFiniteSet(S)
  <2>1. IsFiniteSet({a}) /\ IsFiniteSet({b}) /\ IsFiniteSet({d}) BY FS_Singleton
  <2>2. IsFiniteSet({a} \cup {b}) BY <2>1, FS_Union
  <2>3. IsFiniteSet(({a} \cup {b}) \cup {d}) BY <2>1, <2>2, FS_Union
  <2>4. S = ({a} \cup {b}) \cup {d} BY <1>4
  <2> QED BY <2>3, <2>4
<1> QED BY <1>1, <1>2, <1>3, <1>4, <1>5

LEMMA AssignmentFits ==
    ASSUME TableInv, NEW r \in Requests, NEW rate \in Ids("TaxRate", rows), NEW e,
           NEW x, x = Assignment(r, rate, e)
    PROVE  /\ IsRow(x) /\ x.id = r /\ IsOn(x) /\ x.t = "TaxAssignment"
           /\ x.to["taxRateId"] = rate /\ x.to["clientId"] = Get("TaxRate", rate).to["clientId"]
           /\ Parents(x) \subseteq {<<"Clients", x.to["clientId"]>>, <<"TaxRate", rate>>}
<1> USE OfficeAssumption
<1> DEFINE to == [clientId |-> Get("TaxRate", rate).to["clientId"], taxRateId |-> rate]
<1>1. Get("TaxRate", rate).to["clientId"] # None /\ rate # None BY RowFor DEF IsRow, Mandatory
<1>2. /\ AreColumns(to) /\ DOMAIN to \subseteq DOMAIN Parent /\ DOMAIN to = {"clientId", "taxRateId"}
      /\ \A col \in Mandatory["TaxAssignment"] : col \in DOMAIN to /\ to[col] # None
  BY <1>1 DEF AreColumns, Parent, Mandatory
<1>3. IsRow(x) /\ x.id = r /\ IsOn(x) /\ x.t = "TaxAssignment" /\ x.to = to
  <2>1. x = Named("TaxAssignment", r, to, e) BY DEF Assignment
  <2> HIDE DEF to
  <2> QED BY <1>2, <2>1, NewRow
<1>4. Parents(x) \subseteq {<<"Clients", x.to["clientId"]>>, <<"TaxRate", rate>>}
  BY <1>2, <1>3 DEF Parents, Parent
<1> QED BY <1>3, <1>4

LEMMA ReceiveTaxesKeeps ==
    ASSUME TableInv, NEW r \in Requests, ReceiveTaxes(r)
    PROVE  TableInv'
<1> DEFINE kinds == {"TaxType", "TaxCode", "Region", "TaxRate"}
<1>1. ASSUME NEW c \in Callers, NEW x \in NewTaxRows(r, c), BeginCreateTax(r, x) PROVE TableInv'
  <2>1. IsRow(x) /\ x.id = r /\ IsOn(x) /\ x.t \in kinds BY TaxCallers, TaxRowFits
  <2>2. IsFiniteSet({x}) BY FS_Singleton
  <2>3. "tax" \in Waits /\ SeenFits(r, "tax", [op |-> "createTax"], {x})
                       /\ CallFits(r, "tax", [op |-> "createTax"])
    <3> DEFINE asks == [op |-> "createTax"]
               S == {x}
    <3>1. asks.op = "createTax" /\ \A y \in S : y = x OBVIOUS
    <3> HIDE DEF asks
    <3>2. \A y \in S : IsRow(y) /\ y.id = r /\ IsOn(y) /\ y.t \in TaxTables /\ y.t # "TaxAssignment"
      BY <2>1, <3>1 DEF TaxTables
    <3>3. \A y, z \in S : y.t = z.t => y = z BY <3>1
    <3> HIDE DEF S
    <3>4. "tax" \in Waits /\ SeenFits(r, "tax", asks, S) /\ CallFits(r, "tax", asks)
      <4>1. IsFiniteSet(S) BY <2>2 DEF S
      <4> QED BY <3>1, <3>2, <3>3, <4>1, TaxFits
    <3> QED BY <3>4 DEF asks, S
  <2> QED BY <1>1, <2>3, BeginKeeps DEF BeginCreateTax
<1>2. ASSUME NEW c \in Callers, NEW name, NEW code, NEW type, NEW g,
             BeginCreateBundle(r, c, name, code, type, g)
      PROVE  TableInv'
  <2> DEFINE S == BundleRows(r, c, name, code, type, g)
  <2>1. "tax" \in Waits /\ SeenFits(r, "tax", [op |-> "createBundle"], S)
                       /\ CallFits(r, "tax", [op |-> "createBundle"])
    <3> DEFINE asks == [op |-> "createBundle"]
    <3>1. asks.op = "createBundle" OBVIOUS
    <3>2. c # None BY TaxCallers
    <3> HIDE DEF asks, S
    <3>3. /\ IsFiniteSet(S) /\ \A x, y \in S : x.t = y.t => x = y
          /\ \A x \in S : IsRow(x) /\ x.id = r /\ IsOn(x) /\ x.t \in {"TaxType", "TaxCode", "TaxRate"}
      BY <3>2, BundleFits DEF S
    <3>4. "tax" \in Waits /\ SeenFits(r, "tax", asks, S) /\ CallFits(r, "tax", asks)
      BY <3>1, <3>3, TaxFits DEF TaxTables
    <3> QED BY <3>4 DEF asks, S
  <2> QED BY <1>2, <2>1, CheckKeeps DEF BeginCreateBundle
<1>3. ASSUME NEW t \in TaxTables, NEW id, NEW op, NEW n, NEW col, NEW ref,
             BeginEditTax(r, op, t, id, n, col, ref),
             op = "updateTax" => n \in Nat /\ (col # "none" => col \in RefColumns[t] /\ ref # None)
      PROVE  TableInv'
  <2> DEFINE c == [op |-> op, table |-> t, id |-> id, no |-> n, col |-> col, ref |-> ref]
  <2>1. "editTax" \in Waits /\ SeenFits(r, "editTax", c, {}) /\ CallFits(r, "editTax", c)
    BY <1>3 DEF SeenFits, CallFits, Reads, Op, Once, Waits
  <2> QED BY <1>3, <2>1, CheckKeeps DEF BeginEditTax
<1>4. ASSUME NEW k \in Ids("TaxCode", rows), NEW rate \in Ids("TaxRate", rows), NEW type, NEW op,
             BeginBundle(r, op, k, rate, type)
      PROVE  TableInv'
  <2> DEFINE code == Get("TaxCode", k)
             x == Get("TaxRate", rate)
             y == Get("TaxType", code.to["taxTypeId"])
             c == [op |-> op, type |-> type]
  <2>1. IsRow(code) /\ code \in rows /\ code.t = "TaxCode" /\ IsRow(x) /\ x.t = "TaxRate"
    BY RowFor
  <2>2. "taxTypeId" \in DOMAIN code.to /\ code.to["taxTypeId"] # None
    BY <2>1 DEF IsRow, Mandatory
  <2>3. <<"TaxType", code.to["taxTypeId"]>> \in Keys(rows)
    BY <2>1, <2>2 DEF TableInv, RowsSound, KeysHold, Parents, Parent
  <2>4. code.to["taxTypeId"] \in Ids("TaxType", rows) BY <2>3 DEF Keys, Key, Ids, In
  <2>5. IsRow(y) /\ y.t = "TaxType" BY <2>4, RowFor
  <2>6. "bundle" \in Waits /\ SeenFits(r, "bundle", c, {code, y, x}) /\ CallFits(r, "bundle", c)
    BY <2>1, <2>5 DEF SeenFits, CallFits, Reads, Op, Once, Waits, In
  <2> QED BY <1>4, <2>6, CheckKeeps DEF BeginBundle
<1>5. ASSUME NEW rate \in Ids("TaxRate", rows), NEW e, BeginAssign(r, rate, e) PROVE TableInv'
  <2> DEFINE x == Assignment(r, rate, e)
             c == [op |-> "assign", rate |-> rate]
  <2>1. IsFiniteSet({x}) BY FS_Singleton
  <2>2. c.op = "assign" /\ IsRow(x) /\ x.id = r /\ IsOn(x) /\ x.t \in TaxTables
    BY AssignmentFits DEF TaxTables
  <2>3. Begin(r, c, {x}, "tax") BY <1>5 DEF BeginAssign
  <2> HIDE DEF c, x
  <2>4. "tax" \in Waits /\ SeenFits(r, "tax", c, {x}) /\ CallFits(r, "tax", c)
    BY <2>1, <2>2, TaxFits
  <2> QED BY <2>3, <2>4, BeginKeeps
<1>6. ASSUME NEW rate \in Ids("TaxRate", rows), NEW e, BeginReplace(r, rate, e) PROVE TableInv'
  <2> DEFINE x == Assignment(r, rate, e)
             c == [op |-> "replace", rate |-> rate, new |-> x]
  <2>1. \A y \in In("TaxRate", rows) : y.id = rate => y.to["clientId"] = x.to["clientId"]
    <3>1. x.to["clientId"] = Get("TaxRate", rate).to["clientId"] BY AssignmentFits
    <3> QED BY <3>1, RowFor DEF In
  <2>2. rate \in Requests => pc[rate] = "ok" BY RowFor
  <2>3. IsRow(x) /\ Key(x) = <<"TaxAssignment", r>> /\ IsOn(x) /\ x.to["taxRateId"] = rate
        /\ Parents(x) \subseteq {<<"Clients", x.to["clientId"]>>, <<"TaxRate", rate>>}
    BY AssignmentFits DEF Key
  <2>4. c.op = "replace" /\ c.rate = rate /\ c.new = x OBVIOUS
  <2> HIDE DEF x, c
  <2>5. "replace" \in Waits /\ SeenFits(r, "replace", c, {}) /\ CallFits(r, "replace", c)
    BY <2>1, <2>2, <2>3, <2>4 DEF SeenFits, CallFits, Reads, Op, Once, Waits
  <2>6. Begin(r, c, {}, "replace") BY <1>6 DEF BeginReplace, c, x
  <2> QED BY <2>5, <2>6, BeginKeeps
<1>7. \A t, c : Own(c, t) \subseteq Ids(t, rows) BY DEF Own, Ids
<1>8. \A t, c : \A ref \in Own(c, t) : ref # None BY <1>7, RowFor
<1>9. ASSUME NEW t \in TaxTables, NEW id,
             \/ \E n \in Names : BeginEditTax(r, "updateTax", t, id, n, "none", None)
             \/ \E n \in Names, col \in RefColumns[t] :
                   \E ref \in Own(Get(t, id).to["clientId"], Parent[col]) :
                      BeginEditTax(r, "updateTax", t, id, n, col, ref)
             \/ BeginEditTax(r, "deleteTax", t, id, 0, "none", None)
      PROVE  TableInv'
  BY <1>3, <1>8, <1>9, TaxesAssumption
<1> QED
  BY <1>1, <1>2, <1>4, <1>5, <1>6, <1>7, <1>9, TaxesAssumption DEF ReceiveTaxes, GetAllTaxRates

LEMMA ReceiveDraftsKeeps ==
    ASSUME TableInv, NEW r \in Requests, ReceiveDrafts(r)
    PROVE  TableInv'
<1>1. ASSUME NEW u, NEW s \in Ids("Stores", rows), NEW d, BeginSaveDraft(r, u, s, d) PROVE TableInv'
  <2> DEFINE c == [op |-> "saveDraft", user |-> u, store |-> s, draft |-> d,
                   client |-> Get("Stores", s).to["clientId"]]
  <2>1. Begin(r, c, {}, "draft") BY <1>1 DEF BeginSaveDraft
  <2>2. c.op = "saveDraft" /\ c.client # None BY RowFor DEF IsRow, Mandatory
  <2> HIDE DEF c
  <2>3. "draft" \in Waits /\ SeenFits(r, "draft", c, {}) /\ CallFits(r, "draft", c)
    BY <2>2 DEF SeenFits, CallFits, Reads, Op, Once, Waits
  <2> QED BY <2>1, <2>3, BeginKeeps
<1>2. ASSUME NEW d, BeginDeleteDraft(r, d) PROVE TableInv'
  <2> DEFINE c == [op |-> "deleteDraft", draft |-> d]
             to == IF ItemsOf(d) = {} THEN "dropDraft" ELSE "dropItems"
  <2>1. Check(r, c, Has("SalesDraft", d), {}, to) BY <1>2 DEF BeginDeleteDraft
  <2>2. to \in Waits /\ to \notin DOMAIN Reads \cup DOMAIN Op \cup {"editTax", "signup"}
    BY DEF Waits, Reads, Op
  <2> HIDE DEF c, to
  <2> QED BY <2>1, <2>2, PlainFits, CheckKeeps
<1>3. \A c : Own(c, "Stores") \subseteq Ids("Stores", rows) BY DEF Own, Ids
<1> QED BY <1>1, <1>2, <1>3 DEF ReceiveDrafts

LEMMA ReceiveTenantsKeeps ==
    ASSUME TableInv, NEW r \in Requests, ReceiveTenants(r)
    PROVE  TableInv'
<1>1. ASSUME NEW e, BeginCreateTenant(r, e) PROVE TableInv'
  BY <1>1, PlainFits, CheckKeeps DEF BeginCreateTenant, Reads, Op, Waits
<1>2. ASSUME NEW k, NEW on \in Statuses, BeginTenantStatus(r, k, on) PROVE TableInv'
  <2> DEFINE c == [op |-> "status", client |-> k, on |-> on]
  <2>1. Check(r, c, Has("Clients", k), {}, "users") BY <1>2 DEF BeginTenantStatus
  <2>2. c.op = "status" /\ c.on \in Statuses OBVIOUS
  <2> HIDE DEF c
  <2>3. "users" \in Waits /\ SeenFits(r, "users", c, {}) /\ CallFits(r, "users", c)
    BY <2>2 DEF SeenFits, CallFits, Reads, Op, Once, Waits
  <2> QED BY <2>1, <2>3, CheckKeeps
<1>3. ASSUME NEW k, BeginDeleteTenant(r, k) PROVE TableInv'
  <2> DEFINE c == [op |-> "deleteTenant", client |-> k]
             S == ActiveData(k)
  <2>1. Check(r, c, Has("Clients", k), S, "statements") BY <1>3 DEF BeginDeleteTenant
  <2>2. c.op = "deleteTenant" OBVIOUS
  <2>3. \A x \in S : IsRow(x) /\ x.t \in {"Users", "Stores", "Products"}
    BY DEF ActiveData, TableInv, RowsSound
  <2> HIDE DEF c, S
  <2>4. "statements" \in Waits /\ SeenFits(r, "statements", c, S) /\ CallFits(r, "statements", c)
    BY <2>2, <2>3 DEF SeenFits, CallFits, Reads, Op, Once, Waits
  <2> QED BY <2>1, <2>4, CheckKeeps
<1>4. ASSUME NEW k, NEW soft, NEW force, BeginDeleteTenantSafe(r, k, soft, force) PROVE TableInv'
  BY <1>2, <1>3, <1>4, RefuseKeeps DEF BeginDeleteTenantSafe, Statuses
<1> QED BY <1>1, <1>2, <1>3, <1>4 DEF ReceiveTenants

LEMMA ReceiveKeeps ==
    ASSUME TableInv, NEW r \in Requests, Receive(r)
    PROVE  TableInv'
  BY ReceiveShopsKeeps, ReceiveInvoicingKeeps, ReceiveTaxesKeeps, ReceiveDraftsKeeps,
     ReceiveTenantsKeeps DEF Receive

----------------------------------------------------------------------------
(* What the steps do *)

\* A request at work has made no rows.
LEMMA NoKeyYet ==
    ASSUME TableInv, NEW r \in Requests, pc[r] \notin {"ok", "link", "mapping", "failed"},
           NEW t
    PROVE  <<t, r>> \notin Keys(rows)
  BY NoneMadeYet DEF Keys, Key

\* Nothing refers to what it has yet to make.
LEMMA NoneRefersYet ==
    ASSUME TableInv, NEW r \in Requests, pc[r] \notin {"ok", "link", "mapping", "failed"},
           NEW x \in rows,
           NEW col \in DOMAIN x.to
    PROVE  x.to[col] # r
<1> SUFFICES ASSUME x.to[col] = r PROVE FALSE OBVIOUS
<1>1. <<Parent[col], r>> \in Parents(x) BY OfficeAssumption DEF Parents
<1>2. <<Parent[col], r>> \in Keys(rows) BY <1>1 DEF TableInv, RowsSound, KeysHold
<1> QED BY <1>2, NoKeyYet

\* Writing one column.
LEMMA OnWritten ==
    ASSUME NEW x, IsRow(x), NEW b \in Statuses, NEW y, y = [x EXCEPT !.on = b]
    PROVE  IsRow(y) /\ Key(y) = Key(x) /\ y.to = x.to /\ y.no = x.no /\ y.out = x.out /\ y.on = b
<1>1. /\ y = [t |-> y.t, id |-> y.id, to |-> y.to, on |-> y.on, no |-> y.no, out |-> y.out]
      /\ y.t = x.t /\ y.id = x.id /\ y.to = x.to /\ y.on = b /\ y.no = x.no /\ y.out = x.out
  BY DEF IsRow
<1> QED BY <1>1 DEF IsRow, Key

Numbers(x, n) == [x EXCEPT !.no = n]

LEMMA NoWritten ==
    ASSUME NEW x, IsRow(x), NEW n, x.t = "TaxRate" => n \in Nat, NEW y, y = Numbers(x, n)
    PROVE  IsRow(y) /\ Key(y) = Key(x) /\ y.to = x.to /\ y.no = n /\ y.out = x.out /\ y.on = x.on
<1>1. /\ y = [t |-> y.t, id |-> y.id, to |-> y.to, on |-> y.on, no |-> y.no, out |-> y.out]
      /\ y.t = x.t /\ y.id = x.id /\ y.to = x.to /\ y.on = x.on /\ y.no = n /\ y.out = x.out
  BY DEF IsRow, Numbers
<1> QED BY <1>1 DEF IsRow, Key

LEMMA OutWritten ==
    ASSUME NEW x, IsRow(x), NEW F, F \subseteq Features, NEW y, y = [x EXCEPT !.out = F]
    PROVE  IsRow(y) /\ Key(y) = Key(x) /\ y.to = x.to /\ y.no = x.no /\ y.out = F /\ y.on = x.on
<1>1. /\ y = [t |-> y.t, id |-> y.id, to |-> y.to, on |-> y.on, no |-> y.no, out |-> y.out]
      /\ y.t = x.t /\ y.id = x.id /\ y.to = x.to /\ y.on = x.on /\ y.no = x.no /\ y.out = F
  BY DEF IsRow
<1> QED BY <1>1 DEF IsRow, Key

Moved(x, k, v) == [x EXCEPT !.to[k] = v]

LEMMA ToWritten ==
    ASSUME NEW x, IsRow(x), NEW k, NEW v, v # None, NEW y, y = Moved(x, k, v)
    PROVE  /\ IsRow(y) /\ Key(y) = Key(x) /\ y.no = x.no /\ y.out = x.out /\ y.on = x.on
           /\ DOMAIN y.to = DOMAIN x.to
           /\ \A col \in DOMAIN x.to : y.to[col] = IF col = k THEN v ELSE x.to[col]
<1> DEFINE to == [x.to EXCEPT ![k] = v]
<1>1. /\ y = [t |-> y.t, id |-> y.id, to |-> y.to, on |-> y.on, no |-> y.no, out |-> y.out]
      /\ y.t = x.t /\ y.id = x.id /\ y.to = to /\ y.on = x.on /\ y.no = x.no /\ y.out = x.out
  BY DEF IsRow, Moved
<1>2. DOMAIN to = DOMAIN x.to /\ \A col \in DOMAIN x.to : to[col] = IF col = k THEN v ELSE x.to[col]
  OBVIOUS
<1>3. AreColumns(to) BY DEF AreColumns
<1>4. /\ DOMAIN y.to = DOMAIN x.to /\ AreColumns(y.to)
      /\ \A col \in DOMAIN x.to : y.to[col] = IF col = k THEN v ELSE x.to[col]
  BY <1>1, <1>2, <1>3
<1> HIDE DEF to
<1>5. IsRow(y) BY <1>1, <1>4 DEF IsRow
<1> QED BY <1>1, <1>4, <1>5 DEF Key

\* Rows of tables without an index never collide, others as long as they keep the
\* columns of the index.
LEMMA NoCollision ==
    ASSUME TableInv, NEW x \in rows, NEW y, Key(y) = Key(x), y.no = x.no \/ x.t \notin Numbered \cup {"Clients"},
           \A col \in {"clientId", "userId", "storeId"} :
             x.t \in Numbered \cup {"Business", "UserStoreMap"} => y.to[col] = x.to[col]
    PROVE  \A z \in rows \ {x} : ~ Collide(y, z)
<1> SUFFICES ASSUME NEW z \in rows \ {x}, Collide(y, z) PROVE FALSE OBVIOUS
<1>1. Collide(x, z) BY DEF Collide, Key
<1> QED BY <1>1, IndexesMean DEF TableInv

LEMMA WriteOnDone ==
    ASSUME TableInv, NEW r \in Requests, NEW t, NEW id, NEW b \in Statuses, NEW x, x = Get(t, id),
           Write(r, t, id, [x EXCEPT !.on = b]), <<pc[r], t, "on">> \in Writes
    PROVE  Done(r)
<1> DEFINE y == [x EXCEPT !.on = b]
<1>1. ASSUME Has(t, id) PROVE Rewrites(r, x, y)
  <2>1. x \in rows /\ IsRow(x) /\ x.t = t BY <1>1, RowOf DEF TableInv, RowsSound
  <2>2. IsRow(y) /\ Key(y) = Key(x) /\ y.to = x.to /\ y.no = x.no /\ y.out = x.out /\ y.on = b
    BY <2>1, OnWritten
  <2> HIDE DEF y
  <2>3. \A z \in rows \ {x} : ~ Collide(y, z) BY <2>1, <2>2, NoCollision
  <2> QED BY <2>1, <2>2, <2>3 DEF Rewrites, RowMoves
<1> HIDE DEF y
<1>2. Write(r, t, id, y) BY DEF y
<1> QED BY <1>1, <1>2, WriteDone

LEMMA WriteNoDone ==
    ASSUME TableInv, NEW r \in Requests, NEW t, NEW id, NEW n, NEW x, x = Get(t, id),
           Write(r, t, id, Numbers(x, n)), <<pc[r], t, "no">> \in Writes,
           t = "TaxRate" => n \in Nat,
           (Has(t, id) /\ t \in Numbered) => \A z \in rows \ {x} :
             ~ (z.t = t /\ z.no = n /\ z.to["clientId"] = x.to["clientId"])
    PROVE  Done(r)
<1> DEFINE y == Numbers(x, n)
<1>1. ASSUME Has(t, id) PROVE Rewrites(r, x, y)
  <2>1. x \in rows /\ IsRow(x) /\ x.t = t BY <1>1, RowOf DEF TableInv, RowsSound
  <2>2. IsRow(y) /\ Key(y) = Key(x) /\ y.to = x.to /\ y.no = n /\ y.out = x.out /\ y.on = x.on
    BY <2>1, NoWritten
  <2> HIDE DEF y
  <2>3. \A z \in rows \ {x} : ~ Collide(y, z)
    <3>1. t \notin {"Business", "UserStoreMap", "Clients"} BY DEF Writes
    <3>2. y.t = t BY <2>1, <2>2 DEF Key
    <3> QED BY <1>1, <2>2, <3>1, <3>2 DEF Collide
  <2> QED BY <2>1, <2>2, <2>3 DEF Rewrites, RowMoves
<1> HIDE DEF y
<1>2. Write(r, t, id, y) BY DEF y
<1> QED BY <1>1, <1>2, WriteDone

LEMMA WriteOutDone ==
    ASSUME TableInv, NEW r \in Requests, NEW id, NEW F, F \subseteq Features,
           NEW x, x = Get("Users", id), Write(r, "Users", id, [x EXCEPT !.out = F]),
           <<pc[r], "Users", "out">> \in Writes
    PROVE  Done(r)
<1> DEFINE y == [x EXCEPT !.out = F]
<1>1. ASSUME Has("Users", id) PROVE Rewrites(r, x, y)
  <2>1. x \in rows /\ IsRow(x) /\ x.t = "Users" BY <1>1, RowOf DEF TableInv, RowsSound
  <2>2. IsRow(y) /\ Key(y) = Key(x) /\ y.to = x.to /\ y.no = x.no /\ y.out = F /\ y.on = x.on
    BY <2>1, OutWritten
  <2> HIDE DEF y
  <2>3. \A z \in rows \ {x} : ~ Collide(y, z) BY <2>1, <2>2, NoCollision
  <2> QED BY <2>1, <2>2, <2>3 DEF Rewrites, RowMoves
<1> HIDE DEF y
<1>2. Write(r, "Users", id, y) BY DEF y
<1> QED BY <1>1, <1>2, WriteDone

LEMMA WriteToDone ==
    ASSUME TableInv, NEW r \in Requests, NEW t \in {"Users", "Suppliers"}, NEW id, NEW k, NEW v,
           NEW x, x = Get(t, id), Write(r, t, id, [x EXCEPT !.to[k] = v]),
           <<pc[r], t, k>> \in Writes, <<Parent[k], v>> \in Keys(rows), NotDoomed(r, {<<Parent[k], v>>})
    PROVE  Done(r)
<1> DEFINE y == [x EXCEPT !.to[k] = v]
<1>1. ASSUME Has(t, id) PROVE Rewrites(r, x, y)
  <2>1. x \in rows /\ IsRow(x) /\ x.t = t BY <1>1, RowOf DEF TableInv, RowsSound
  <2>2. v # None BY DEF Keys, Key, TableInv, RowsSound, IsRow
  <2>7. y = Moved(x, k, v) BY DEF Moved
  <2> HIDE DEF y
  <2>3. /\ IsRow(y) /\ Key(y) = Key(x) /\ y.no = x.no /\ y.out = x.out /\ y.on = x.on
        /\ DOMAIN y.to = DOMAIN x.to
        /\ \A col \in DOMAIN x.to : y.to[col] = IF col = k THEN v ELSE x.to[col]
    BY <2>1, <2>2, <2>7, ToWritten
  <2>4. y.t = t BY <2>1, <2>3 DEF Key
  <2>5. \A z \in rows \ {x} : ~ Collide(y, z) BY <2>4 DEF Collide, Numbered
  <2>6. RowMoves(pc[r], x, y) BY <2>1, <2>3 DEF RowMoves
  <2> QED BY <2>1, <2>3, <2>5, <2>6 DEF Rewrites
<1> HIDE DEF y
<1>2. Write(r, t, id, y) BY DEF y
<1> QED BY <1>1, <1>2, WriteDone

LEMMA WriteSameDone ==
    ASSUME TableInv, NEW r \in Requests, NEW t, NEW id, Write(r, t, id, Get(t, id))
    PROVE  Done(r)
<1>1. ASSUME Has(t, id) PROVE Rewrites(r, Get(t, id), Get(t, id))
  <2>1. Get(t, id) \in rows /\ IsRow(Get(t, id)) BY <1>1, RowOf DEF TableInv, RowsSound
  <2> QED BY <2>1, NoCollision DEF Rewrites, RowMoves
<1> QED BY <1>1, WriteDone

\* Rows of a request for one table each, plain ones.
LEMMA SeenOnce ==
    ASSUME TableInv, NEW r \in Requests, pc[r] \in Once
    PROVE  \E x : seen[r] = {x} /\ IsRow(x) /\ x.t \in Reads[pc[r]]
  BY DEF TableInv, RequestFits, SeenFits

LEMMA CreateStoreDone ==
    ASSUME TableInv, NEW r \in Requests, CreateStore(r)
    PROVE  Done(r)
<1>1. pc[r] = "store" BY DEF CreateStore
<1>2. PICK u : seen[r] = {u} /\ IsRow(u) /\ u.t = "Users" BY <1>1, SeenOnce DEF Once, Reads
<1> DEFINE c == u.to["clientId"]
           toA == [clientId |-> c]
           toB == [clientId |-> c, storeId |-> r]
           toC == [clientId |-> c, storeId |-> r, userId |-> u.id]
           a == New("Stores", r, toA)
           b == New("StoreSettings", r, toB)
           d == New("UserStoreMap", r, toC)
           S == StoreRows(r)
<1>3. c # None /\ u.id # None /\ r # None BY <1>2, OfficeAssumption DEF IsRow, Mandatory
<1>4. S = {a, b, d}
  <2>1. (CHOOSE x \in seen[r] : TRUE) = u BY <1>2
  <2> QED BY <2>1 DEF StoreRows
<1>5. IsRow(a) /\ a.t = "Stores" /\ a.id = r /\ IsOn(a)
  <2>1. AreColumns(toA) /\ DOMAIN toA \subseteq DOMAIN Parent /\ \A col \in Mandatory["Stores"] : col \in DOMAIN toA /\ toA[col] # None
    BY <1>3 DEF AreColumns, Parent, Mandatory
  <2> HIDE DEF toA
  <2> QED BY <1>3, <2>1, PlainRow
<1>6. IsRow(b) /\ b.t = "StoreSettings" /\ b.id = r /\ IsOn(b)
  <2>1. AreColumns(toB) /\ DOMAIN toB \subseteq DOMAIN Parent /\ "StoreSettings" \notin DOMAIN Mandatory
    BY DEF AreColumns, Parent, Mandatory
  <2> HIDE DEF toB
  <2> QED BY <1>3, <2>1, PlainRow
<1>7. IsRow(d) /\ d.t = "UserStoreMap" /\ d.id = r /\ IsOn(d) /\ d.to["storeId"] = r
  <2>1. /\ AreColumns(toC) /\ DOMAIN toC \subseteq DOMAIN Parent
        /\ \A col \in Mandatory["UserStoreMap"] : col \in DOMAIN toC /\ toC[col] # None
        /\ toC["storeId"] = r
    BY <1>3 DEF AreColumns, Parent, Mandatory
  <2> HIDE DEF toC
  <2> QED BY <1>3, <2>1, PlainRow
<1> HIDE DEF a, b, d, S
<1>8. IsFiniteSet(S)
  <2>1. IsFiniteSet({a}) /\ IsFiniteSet({b}) /\ IsFiniteSet({d}) BY FS_Singleton
  <2>2. IsFiniteSet({a} \cup {b}) BY <2>1, FS_Union
  <2>3. IsFiniteSet(({a} \cup {b}) \cup {d}) BY <2>1, <2>2, FS_Union
  <2>4. S = ({a} \cup {b}) \cup {d} BY <1>4
  <2> QED BY <2>3, <2>4
<1>9. ASSUME NEW y \in rows PROVE ~ Collide(d, y)
  <2> SUFFICES ASSUME Collide(d, y) PROVE FALSE OBVIOUS
  <2>1. y.t = "UserStoreMap" /\ y.to["storeId"] = r BY <1>7 DEF Collide, Numbered
  <2>2. "storeId" \in DOMAIN y.to BY <2>1 DEF TableInv, RowsSound, IsRow, Mandatory
  <2> QED BY <1>1, <2>1, <2>2, NoneRefersYet
<1>10. Fits(r, S)
  <2>1. \A x \in S, y \in rows : ~ Collide(x, y)
    BY <1>4, <1>5, <1>6, <1>9 DEF Collide, Numbered
  <2> QED BY <1>1, <1>4, <1>5, <1>6, <1>7, <1>8, <2>1 DEF Fits, Fresh, Makes
<1> QED BY <1>10, InsertDone DEF CreateStore, S

LEMMA UpdateStoreDone ==
    ASSUME TableInv, NEW r \in Requests, UpdateStore(r)
    PROVE  Done(r)
  BY StaysDone, FailsDone DEF UpdateStore, Ended

LEMMA DeleteStoreDone ==
    ASSUME TableInv, NEW r \in Requests, DeleteStore(r)
    PROVE  Done(r)
<1>1. <<pc[r], "Stores", "on">> \in Writes BY DEF DeleteStore, Writes
<1> QED BY <1>1, WriteOnDone DEF DeleteStore, Statuses

\* One row, of a table without an index or in nobody's way.
LEMMA OneFits ==
    ASSUME TableInv, NEW r \in Requests, pc[r] \in DOMAIN Makes, NEW x, IsRow(x), x.id = r, Fresh(x),
           x.t \in Makes[pc[r]], \A y \in rows : ~ Collide(x, y)
    PROVE  Fits(r, {x})
<1>1. IsFiniteSet({x}) BY FS_Singleton
<1> QED BY <1>1 DEF Fits, Fresh

LEMMA CreateSupplierDone ==
    ASSUME TableInv, NEW r \in Requests, CreateSupplier(r)
    PROVE  Done(r)
<1>1. pc[r] = "supplier" BY DEF CreateSupplier
<1>2. PICK s : seen[r] = {s} /\ IsRow(s) /\ s.t = "Stores" BY <1>1, SeenOnce DEF Once, Reads
<1> DEFINE to == [clientId |-> s.to["clientId"], storeId |-> s.id]
           x == New("Suppliers", r, to)
<1>3. SupplierRows(r) = {x} BY <1>2 DEF SupplierRows
<1>4. /\ AreColumns(to) /\ DOMAIN to \subseteq DOMAIN Parent
      /\ \A col \in Mandatory["Suppliers"] : col \in DOMAIN to /\ to[col] # None
  BY <1>2 DEF AreColumns, Parent, Mandatory, IsRow
<1> HIDE DEF to
<1>5. IsRow(x) /\ x.id = r /\ IsOn(x) /\ x.t = "Suppliers" BY <1>4, PlainRow, OfficeAssumption
<1> HIDE DEF x
<1>6. Fits(r, {x}) BY <1>1, <1>5, OneFits DEF Makes, Fresh, Collide, Numbered
<1> QED BY <1>3, <1>6, InsertDone DEF CreateSupplier

LEMMA UpdateSupplierDone ==
    ASSUME TableInv, NEW r \in Requests, UpdateSupplier(r)
    PROVE  Done(r)
<1> DEFINE p == call[r].supplier
           s == call[r].store
           x == Get("Suppliers", p)
<1>1. CASE Fails(r) BY <1>1, FailsDone
<1>2. CASE Has("Stores", s) /\ Write(r, "Suppliers", p, [x EXCEPT !.to["storeId"] = s])
  <2>1. /\ pc[r] = "editSupplier" /\ NotDoomed(r, {<<Parent["storeId"], s>>})
        /\ <<"editSupplier", "Suppliers", "storeId">> \in Writes
    BY DEF UpdateSupplier, Parent, Writes
  <2>2. <<Parent["storeId"], s>> \in Keys(rows) BY <1>2 DEF Has, Ids, In, Keys, Key, Parent
  <2>3. Write(r, "Suppliers", p, [x EXCEPT !.to["storeId"] = s]) BY <1>2
  <2> HIDE DEF p, s
  <2> QED BY <2>1, <2>2, <2>3, WriteToDone
<1> QED BY <1>1, <1>2 DEF UpdateSupplier

LEMMA DeleteSupplierDone ==
    ASSUME TableInv, NEW r \in Requests, DeleteSupplier(r)
    PROVE  Done(r)
<1>1. <<pc[r], "Suppliers", "on">> \in Writes BY DEF DeleteSupplier, Writes
<1> QED BY <1>1, WriteOnDone DEF DeleteSupplier, Statuses

LEMMA CreateCustomerDone ==
    ASSUME TableInv, NEW r \in Requests, CreateCustomer(r)
    PROVE  Done(r)
<1>1. pc[r] = "customer" BY DEF CreateCustomer
<1>2. PICK s : seen[r] = {s} /\ IsRow(s) /\ s.t = "Stores" BY <1>1, SeenOnce DEF Once, Reads
<1> DEFINE c == s.to["clientId"]
           n == call[r].phone
           toA == [clientId |-> c, storeId |-> s.id]
           toB == [clientId |-> c, customerId |-> r, saleId |-> None]
           a == Named("Customer", r, toA, n)
           b == New("BalanceSheet", r, toB)
           S == CustomerRows(r)
<1>3. c # None /\ s.id # None /\ r # None BY <1>2, OfficeAssumption DEF IsRow, Mandatory
<1>4. S = {a, b}
  <2>1. (CHOOSE x \in seen[r] : TRUE) = s BY <1>2
  <2> QED BY <2>1 DEF CustomerRows, Named
<1>5. IsRow(a) /\ a.t = "Customer" /\ a.id = r /\ IsOn(a) /\ a.no = n /\ a.to["clientId"] = c
  <2>1. /\ AreColumns(toA) /\ DOMAIN toA \subseteq DOMAIN Parent /\ toA["clientId"] = c
        /\ \A col \in Mandatory["Customer"] : col \in DOMAIN toA /\ toA[col] # None
    BY <1>3 DEF AreColumns, Parent, Mandatory
  <2>2. a = Named("Customer", r, toA, n) OBVIOUS
  <2> HIDE DEF toA, a, c, n
  <2> QED BY <1>3, <2>1, <2>2, NewRow
<1>6. IsRow(b) /\ b.t = "BalanceSheet" /\ b.id = r /\ IsOn(b)
  <2>1. AreColumns(toB) /\ DOMAIN toB \subseteq DOMAIN Parent /\ "BalanceSheet" \notin DOMAIN Mandatory
    BY DEF AreColumns, Parent, Mandatory
  <2> HIDE DEF toB
  <2> QED BY <1>3, <2>1, PlainRow
<1> HIDE DEF a, b, S
<1>7. IsFiniteSet(S)
  <2>1. IsFiniteSet({a}) /\ IsFiniteSet({b}) BY FS_Singleton
  <2>2. IsFiniteSet({a} \cup {b}) BY <2>1, FS_Union
  <2>3. S = {a} \cup {b} BY <1>4
  <2> QED BY <2>2, <2>3
<1>8. CASE Fails(r) BY <1>8, FailsDone
<1>9. CASE ~ PhoneTaken(c, n) /\ (Insert(r, S) \/ InsertFails(r, S))
  <2>1. ASSUME NEW y \in rows, Collide(a, y) PROVE FALSE
    <3>1. y.t = "Customer" /\ y.no = n /\ y.to["clientId"] = c
      BY <1>5, <2>1 DEF Collide, Numbered
    <3>2. "clientId" \in DOMAIN y.to BY <3>1 DEF TableInv, RowsSound, IsRow, Mandatory
    <3> QED BY <1>9, <3>1, <3>2 DEF PhoneTaken, RefersTo, In
  <2>2. \A x \in S, y \in rows : ~ Collide(x, y) BY <1>4, <1>6, <2>1 DEF Collide, Numbered
  <2>3. Fits(r, S) BY <1>1, <1>4, <1>5, <1>6, <1>7, <2>2 DEF Fits, Fresh, Makes
  <2> QED BY <1>9, <2>3, InsertDone
<1> QED BY <1>2, <1>8, <1>9 DEF CreateCustomer, S

LEMMA UpdateCustomerDone ==
    ASSUME TableInv, NEW r \in Requests, UpdateCustomer(r)
    PROVE  Done(r)
<1> DEFINE k == call[r].customer
           n == call[r].phone
           x == Get("Customer", k)
           taken == \E u, y \in In("Customer", rows) :
                      u.id = k /\ y.id # k /\ y.no = n /\ y.to["clientId"] = u.to["clientId"]
<1>1. CASE Fails(r) BY <1>1, FailsDone
<1>2. CASE ~ taken /\ Write(r, "Customer", k, [x EXCEPT !.no = n])
  <2>1. <<pc[r], "Customer", "no">> \in Writes BY DEF UpdateCustomer, Writes
  <2>2. ASSUME Has("Customer", k), NEW z \in rows \ {x}, z.t = "Customer", z.no = n,
               z.to["clientId"] = x.to["clientId"]
        PROVE  FALSE
    BY <1>2, <2>2, RowOf DEF TableInv, In
  <2>5. (Has("Customer", k) /\ "Customer" \in Numbered) => \A z \in rows \ {x} :
          ~ (z.t = "Customer" /\ z.no = n /\ z.to["clientId"] = x.to["clientId"])
    BY <2>2
  <2>3. Write(r, "Customer", k, Numbers(x, n)) BY <1>2 DEF Numbers
  <2>4. x = Get("Customer", k) OBVIOUS
  <2> HIDE DEF k, n, x
  <2> QED BY <2>1, <2>3, <2>4, <2>5, WriteNoDone
<1> QED BY <1>1, <1>2 DEF UpdateCustomer

LEMMA SetEmployeeDone ==
    ASSUME TableInv, NEW r \in Requests, SetEmployee(r)
    PROVE  Done(r)
<1>1. <<pc[r], "Users", "on">> \in Writes BY DEF SetEmployee, Writes
<1>2. call[r].on \in Statuses BY DEF SetEmployee, TableInv, RequestFits, CallFits
<1> QED BY <1>1, <1>2, WriteOnDone DEF SetEmployee

LEMMA ExcludedIs ==
    ASSUME TableInv, NEW r \in Requests, pc[r] \in {"exclude", "include"}
    PROVE  /\ Excluded(r) \subseteq Features /\ call[r].features \subseteq Features
           /\ \E x : seen[r] = {x} /\ x.out = Excluded(r)
<1>1. PICK x : seen[r] = {x} /\ IsRow(x) BY SeenOnce DEF Once
<1>2. Excluded(r) = x.out BY <1>1 DEF Excluded
<1>3. call[r].features \subseteq Features BY DEF TableInv, RequestFits, CallFits
<1> QED BY <1>1, <1>2, <1>3 DEF IsRow

LEMMA AddExclusionsDone ==
    ASSUME TableInv, NEW r \in Requests, AddExclusions(r)
    PROVE  Done(r)
<1> DEFINE u == call[r].user
           F == Excluded(r) \cup call[r].features
           x == Get("Users", u)
<1>1. <<pc[r], "Users", "out">> \in Writes /\ F \subseteq Features
  BY ExcludedIs DEF AddExclusions, Writes
<1>2. Write(r, "Users", u, [x EXCEPT !.out = F]) BY DEF AddExclusions
<1> HIDE DEF F, u
<1> QED BY <1>1, <1>2, WriteOutDone

LEMMA RemoveExclusionsDone ==
    ASSUME TableInv, NEW r \in Requests, RemoveExclusions(r)
    PROVE  Done(r)
<1> DEFINE u == call[r].user
           F == Excluded(r) \ call[r].features
           x == Get("Users", u)
<1>1. <<pc[r], "Users", "out">> \in Writes /\ F \subseteq Features
  BY ExcludedIs DEF RemoveExclusions, Writes
<1>2. Write(r, "Users", u, [x EXCEPT !.out = F]) BY DEF RemoveExclusions
<1> HIDE DEF F, u
<1> QED BY <1>1, <1>2, WriteOutDone

IsUserRow(x, r, c, on) ==
    /\ IsRow(x) /\ x.t = "Users" /\ x.id = r /\ x.on = on /\ Fresh(x)
    /\ x.to["clientId"] = c /\ x.to["businessId"] = None
    /\ DOMAIN x.to = {"clientId", "businessId"} /\ Parents(x) = {<<"Clients", c>>}

LEMMA UserRowIs ==
    ASSUME NEW r \in Requests, NEW c, c # None, NEW n, NEW on \in Statuses
    PROVE  IsUserRow(UserRow(r, c, n, on), r, c, on)
<1> DEFINE x == UserRow(r, c, n, on)
           to == [clientId |-> c, businessId |-> None]
<1>1. x = [t |-> "Users", id |-> r, to |-> to, on |-> on, no |-> n, out |-> {}]
  <2>1. x = [Named("Users", r, to, n) EXCEPT !.on = on] BY DEF UserRow, Named
  <2> HIDE DEF to
  <2>2. Named("Users", r, to, n) = [t |-> "Users", id |-> r, to |-> to, on |-> TRUE, no |-> n, out |-> {}]
    BY NamedIs
  <2> QED BY <2>1, <2>2
<1>2. x.t = "Users" /\ x.id = r /\ x.to = to /\ x.on = on /\ x.no = n /\ x.out = {} BY <1>1
<1>3. /\ DOMAIN to = {"clientId", "businessId"} /\ to["clientId"] = c /\ to["businessId"] = None
      /\ AreColumns(to)
  BY DEF AreColumns
<1>4. x = [t |-> x.t, id |-> x.id, to |-> x.to, on |-> x.on, no |-> x.no, out |-> x.out]
  BY <1>1, <1>2
<1> HIDE DEF to
<1>5. DOMAIN x.to \subseteq DOMAIN Parent /\ Mandatory["Users"] = {"clientId"} BY <1>2, <1>3 DEF Parent, Mandatory
<1>6. IsRow(x) BY <1>2, <1>3, <1>4, <1>5, OfficeAssumption DEF IsRow
<1>7. Parents(x) = {<<"Clients", c>>} BY <1>2, <1>3 DEF Parents, Parent
<1>8. IsUserRow(x, r, c, on) BY <1>2, <1>3, <1>6, <1>7 DEF Fresh, IsUserRow
<1> QED BY <1>8

LEMMA HireDone ==
    ASSUME TableInv, NEW r \in Requests, Hire(r)
    PROVE  Done(r)
<1>1. pc[r] = "hire" BY DEF Hire
<1> DEFINE c == call[r]
           toB == [clientId |-> c.client, userId |-> r, roleTemplateId |-> c.role,
                   assignedBy |-> c.user]
           toD == [clientId |-> c.client, userId |-> r, storeId |-> c.store]
           a == UserRow(r, c.client, 1, c.on)
           b == New("UserRole", r, toB)
           d == New("UserStoreMap", r, toD)
           M == {New("UserStoreMap", r, [clientId |-> c.client, userId |-> r, storeId |-> s]) :
                   s \in {c.store} \cap Ids("Stores", rows)}
           S == HireRows(r)
<1>2. c.client # None /\ c.on \in Statuses /\ r # None
  BY <1>1, OfficeAssumption DEF TableInv, RequestFits, CallFits
<1>3. M \subseteq {d} /\ S = {a, b} \cup M BY DEF HireRows
<1>4. M # {} => c.store # None
  <2>1. M # {} => c.store \in Ids("Stores", rows) OBVIOUS
  <2> HIDE DEF M, c
  <2> QED BY <2>1, RowFor
<1>5. IsRow(a) /\ a.t = "Users" /\ a.id = r /\ Fresh(a)
  <2>1. IsUserRow(a, r, c.client, c.on)
    <3> HIDE DEF c
    <3> QED BY <1>2, UserRowIs
  <2> HIDE DEF a, c
  <2> QED BY <2>1 DEF IsUserRow
<1>6. IsRow(b) /\ b.t = "UserRole" /\ b.id = r /\ IsOn(b)
  <2>1. AreColumns(toB) /\ DOMAIN toB \subseteq DOMAIN Parent /\ "UserRole" \notin DOMAIN Mandatory
    BY DEF AreColumns, Parent, Mandatory
  <2> HIDE DEF toB
  <2> QED BY <1>2, <2>1, PlainRow
<1>7. ASSUME c.store # None
      PROVE  IsRow(d) /\ d.t = "UserStoreMap" /\ d.id = r /\ IsOn(d) /\ d.to["userId"] = r
  <2>1. /\ AreColumns(toD) /\ DOMAIN toD \subseteq DOMAIN Parent /\ toD["userId"] = r
        /\ \A col \in Mandatory["UserStoreMap"] : col \in DOMAIN toD /\ toD[col] # None
    BY <1>2, <1>7 DEF AreColumns, Parent, Mandatory
  <2> HIDE DEF toD, c
  <2> QED BY <1>2, <2>1, PlainRow
<1> HIDE DEF a, b, d, M, S
<1>8. IsFiniteSet(S)
  <2>1. IsFiniteSet({a}) /\ IsFiniteSet({b}) /\ IsFiniteSet({d}) BY FS_Singleton
  <2>2. IsFiniteSet({a} \cup {b}) /\ IsFiniteSet(M) BY <1>3, <2>1, FS_Union, FS_Subset
  <2>3. IsFiniteSet(({a} \cup {b}) \cup M) BY <2>2, FS_Union
  <2>4. S = ({a} \cup {b}) \cup M BY <1>3
  <2> QED BY <2>3, <2>4
<1>9. ASSUME NEW x \in M
      PROVE  IsRow(x) /\ x.t = "UserStoreMap" /\ x.id = r /\ IsOn(x) /\ x.to["userId"] = r
  <2>1. x = d /\ c.store # None BY <1>3, <1>4
  <2> QED BY <1>7, <2>1
<1>10. \A x, y \in M : x = y BY <1>3
<1>11. ASSUME NEW x \in M, NEW y \in rows PROVE ~ Collide(x, y)
  <2> SUFFICES ASSUME Collide(x, y) PROVE FALSE OBVIOUS
  <2>1. y.t = "UserStoreMap" /\ y.to["userId"] = r BY <1>9 DEF Collide, Numbered
  <2>2. "userId" \in DOMAIN y.to BY <2>1 DEF TableInv, RowsSound, IsRow, Mandatory
  <2> QED BY <1>1, <2>1, <2>2, NoneRefersYet
<1>12. \A x \in S, y \in rows : ~ Collide(x, y) BY <1>3, <1>5, <1>6, <1>11 DEF Collide, Numbered
<1>13. \A x, y \in S : x.t = y.t => x = y BY <1>3, <1>5, <1>6, <1>9, <1>10
<1>14. \A x \in S : IsRow(x) /\ x.id = r /\ Fresh(x) /\ x.t \in Makes[pc[r]]
  BY <1>1, <1>3, <1>5, <1>6, <1>9 DEF Fresh, Makes
<1>15. Fits(r, S) BY <1>1, <1>8, <1>12, <1>13, <1>14 DEF Fits, Makes
<1> QED BY <1>15, InsertDone DEF Hire, S

\* The row a user who signs up gets.
NewUser(r) == UserRow(r, call[r].client, call[r].no, TRUE)

LEMMA UserMade ==
    ASSUME TableInv, NEW r \in Requests, CreateUser(r), ~ Fails(r)
    PROVE  /\ RowsSound' /\ IndexesHold(rows)' /\ Effect(r) /\ rows' = rows \cup {NewUser(r)}
           /\ NewUser(r).to["clientId"] = call[r].client /\ NewUser(r).to["businessId"] = None
           /\ DOMAIN NewUser(r).to = {"clientId", "businessId"}
           /\ NewUser(r).t = "Users" /\ NewUser(r).id = r
<1> DEFINE c == call[r].client
           b == NewUser(r)
<1>1. /\ pc[r] = "signup" /\ NotDoomed(r, {<<"Clients", c>>}) /\ Has("Clients", c)
      /\ rows' = rows \cup {b}
  BY DEF CreateUser, NewUser
<1>2. c # None BY <1>1 DEF TableInv, RequestFits, CallFits
<1>3. /\ IsRow(b) /\ b.t = "Users" /\ b.id = r /\ Fresh(b) /\ Parents(b) = {<<"Clients", c>>}
      /\ b.to["clientId"] = c /\ b.to["businessId"] = None
      /\ DOMAIN b.to = {"clientId", "businessId"}
  <2>1. TRUE \in Statuses BY DEF Statuses
  <2>2. IsUserRow(b, r, c, TRUE) BY <1>2, <2>1, UserRowIs DEF NewUser
  <2> HIDE DEF c, b
  <2> QED BY <2>2 DEF IsUserRow
<1> HIDE DEF b
<1>5. Fits(r, {b}) BY <1>1, <1>3, OneFits DEF Makes, Collide, Numbered
<1>6. UNION {Parents(x) : x \in {b}} = {<<"Clients", c>>} BY <1>3
<1>7. {<<"Clients", c>>} \subseteq Keys(rows \cup {b})
  <2>1. <<"Clients", c>> \in Keys(rows) BY <1>1 DEF Has, Ids, In, Keys, Key
  <2> QED BY <2>1, KeysOfUnion
<1>8. RowsSound' /\ IndexesHold(rows)' /\ Effect(r) BY <1>1, <1>5, <1>6, <1>7, NewSound
<1> QED BY <1>1, <1>3, <1>8 DEF b

\* A user who was invited commits before it is mapped to its store.
LEMMA CreateUserEnds ==
    ASSUME TableInv, NEW r \in Requests, CreateUser(r), pc'[r] # "mapping"
    PROVE  Done(r)
<1>1. CASE Fails(r) BY <1>1, FailsDone
<1>2. CASE Goto(r, "mapping") BY <1>2 DEF Goto, TableInv, StateFits
<1>3. CASE End(r, "ok") /\ ~ Fails(r)
  <2>1. Local(r) /\ Over(r, "ok") BY <1>3, EndLocal DEF TableInv
  <2> QED BY <1>3, <2>1, UserMade DEF Done, Outcome
<1> QED BY <1>1, <1>2, <1>3 DEF CreateUser

LEMMA MapUserDone ==
    ASSUME TableInv, NEW r \in Requests, MapUser(r)
    PROVE  Done(r)
<1>1. pc[r] = "mapping" BY DEF MapUser
<1> DEFINE c == call[r].client
           to == [clientId |-> c, userId |-> r, storeId |-> call[r].store]
           x == New("UserStoreMap", r, to)
<1>2. c # None /\ call[r].store # None /\ r # None
  BY <1>1, OfficeAssumption DEF TableInv, RequestFits, CallFits
<1>3. /\ AreColumns(to) /\ DOMAIN to \subseteq DOMAIN Parent
      /\ \A col \in Mandatory["UserStoreMap"] : col \in DOMAIN to /\ to[col] # None
      /\ to["userId"] = r /\ to["storeId"] = call[r].store
  BY <1>2 DEF AreColumns, Parent, Mandatory
<1>4. MapRows(r) = {x} BY DEF MapRows
<1> HIDE DEF to
<1>5. IsRow(x) /\ x.id = r /\ IsOn(x) /\ x.t = "UserStoreMap" /\ x.to = to
  BY <1>2, <1>3, PlainRow
<1> HIDE DEF x
<1>6. CASE Fails(r) BY <1>6, FailsDone
<1>7. CASE ~ Mapped(r) /\ (Insert(r, {x}) \/ InsertFails(r, {x}))
  <2>1. ASSUME NEW y \in rows, Collide(x, y) PROVE FALSE
    <3>1. y.t = "UserStoreMap" /\ y.to["userId"] = r /\ y.to["storeId"] = call[r].store
      BY <1>3, <1>5, <2>1 DEF Collide, Numbered
    <3>2. "userId" \in DOMAIN y.to /\ "storeId" \in DOMAIN y.to
      BY <3>1 DEF TableInv, RowsSound, IsRow, Mandatory
    <3> QED BY <1>7, <3>1, <3>2 DEF Mapped, RefersTo, In
  <2>2. Fits(r, {x}) BY <1>1, <1>5, <2>1, OneFits DEF Makes, Fresh
  <2> QED BY <1>7, <2>2, InsertDone
<1> QED BY <1>4, <1>6, <1>7 DEF MapUser

LEMMA StepShopsKinds ==
    ASSUME TableInv, NEW r \in Requests, StepShops(r)
    PROVE  Done(r) \/ (CreateUser(r) /\ pc'[r] = "mapping")
<1>1. ASSUME UpdateMe(r) PROVE Done(r) BY <1>1, WriteSameDone DEF UpdateMe
<1> QED
  BY <1>1, CreateStoreDone, UpdateStoreDone, DeleteStoreDone, CreateSupplierDone,
     UpdateSupplierDone, DeleteSupplierDone, CreateCustomerDone, UpdateCustomerDone,
     SetEmployeeDone, HireDone, CreateUserEnds, MapUserDone, AddExclusionsDone,
     RemoveExclusionsDone DEF StepShops

\* A business commits before its user is linked to it.
LEMMA CreateBusinessEnds ==
    ASSUME TableInv, NEW r \in Requests, CreateBusiness(r), pc'[r] # "link"
    PROVE  Done(r)
<1>1. CASE End(r, "refused") /\ UNCHANGED rows BY <1>1, StaysDone DEF Ended
<1>2. CASE Fails(r) BY <1>2, FailsDone
<1>3. CASE Goto(r, "link") BY <1>3 DEF Goto, TableInv, StateFits
<1> QED BY <1>1, <1>2, <1>3 DEF CreateBusiness

BusinessRow(r) == New("Business", r, [clientId |-> call[r].client])

LEMMA BusinessMade ==
    ASSUME TableInv, NEW r \in Requests, CreateBusiness(r), pc'[r] = "link"
    PROVE  /\ Outcome(r) /\ seen'[r] = seen[r] /\ lock'[r] = lock[r] /\ at'[r] = at[r]
           /\ rows' = rows \cup {BusinessRow(r)} /\ BusinessRow(r).to["clientId"] = call[r].client
           /\ BusinessRow(r).t = "Business" /\ BusinessRow(r).id = r
<1> DEFINE c == call[r].client
           to == [clientId |-> c]
           b == BusinessRow(r)
<1>1. ASSUME End(r, "refused") \/ Fails(r) PROVE FALSE
  <2>1. pc'[r] \in {"refused", "failed"} BY <1>1, EndLocal DEF Fails, Over, TableInv
  <2> QED BY <2>1
<1>2. /\ pc[r] = "business" /\ NotDoomed(r, Parents(b)) /\ BusinessOf(c) = {} /\ Has("Clients", c)
      /\ rows' = rows \cup {b} /\ Goto(r, "link") /\ UNCHANGED <<call, seen, lock, at, raced, faults>>
  BY <1>1 DEF CreateBusiness, BusinessRow
<1>3. c # None BY <1>2 DEF TableInv, RequestFits, CallFits
<1>4. /\ DOMAIN to = {"clientId"} /\ to["clientId"] = c /\ AreColumns(to) /\ DOMAIN to \subseteq DOMAIN Parent
      /\ \A col \in Mandatory["Business"] : col \in DOMAIN to /\ to[col] # None
  BY <1>3 DEF AreColumns, Parent, Mandatory
<1>5. b = New("Business", r, to) BY DEF BusinessRow
<1> HIDE DEF to, b
<1>6. IsRow(b) /\ b.t = "Business" /\ b.id = r /\ IsOn(b) /\ b.to = to
  BY <1>4, <1>5, PlainRow, OfficeAssumption
<1>7. ASSUME NEW y \in rows, Collide(b, y) PROVE FALSE
  <2>1. y.t = "Business" /\ y.to["clientId"] = c BY <1>4, <1>6, <1>7 DEF Collide, Numbered
  <2>2. "clientId" \in DOMAIN y.to BY <2>1 DEF TableInv, RowsSound, IsRow, Mandatory
  <2> QED BY <1>2, <2>1, <2>2 DEF BusinessOf, RefersTo, In
<1>8. Fits(r, {b}) BY <1>2, <1>6, <1>7, OneFits DEF Makes, Fresh
<1>9. UNION {Parents(x) : x \in {b}} = Parents(b) OBVIOUS
<1>10. Parents(b) \subseteq Keys(rows \cup {b})
  <2>1. Parents(b) \subseteq {<<"Clients", c>>} BY <1>4, <1>6 DEF Parents, Parent
  <2>2. <<"Clients", c>> \in Keys(rows) BY <1>2 DEF Has, Ids, In, Keys, Key
  <2> QED BY <2>1, <2>2, KeysOfUnion
<1>11. RowsSound' /\ IndexesHold(rows)' /\ Effect(r) BY <1>2, <1>8, <1>9, <1>10, NewSound
<1>12. Local(r) BY <1>2 DEF Goto, Local, TableInv, StateFits
<1> QED BY <1>2, <1>4, <1>6, <1>11, <1>12 DEF Outcome, b

LEMMA LinkUserDone ==
    ASSUME TableInv, NEW r \in Requests, LinkUser(r)
    PROVE  Done(r)
<1> DEFINE u == call[r].user
           x == Get("Users", u)
<1>1. CASE Fails(r) BY <1>1, FailsDone
<1>2. CASE Has("Business", r) /\ Write(r, "Users", u, [x EXCEPT !.to["businessId"] = r])
  <2>1. /\ pc[r] = "link" /\ NotDoomed(r, {<<Parent["businessId"], r>>})
        /\ <<"link", "Users", "businessId">> \in Writes
    BY DEF LinkUser, Parent, Writes
  <2>2. <<Parent["businessId"], r>> \in Keys(rows) BY <1>2 DEF Has, Ids, In, Keys, Key, Parent
  <2>3. Write(r, "Users", u, [x EXCEPT !.to["businessId"] = r]) BY <1>2
  <2> HIDE DEF u
  <2> QED BY <2>1, <2>2, <2>3, WriteToDone
<1> QED BY <1>1, <1>2 DEF LinkUser

LEMMA CreateInvoiceDone ==
    ASSUME TableInv, NEW r \in Requests, CreateInvoice(r)
    PROVE  Done(r)
<1>1. /\ pc[r] = "invoice" /\ In("Users", seen[r]) # {} /\ In("Sales", seen[r]) # {}
      /\ \A x \in seen[r] : IsRow(x)
  BY DEF CreateInvoice, TableInv, RequestFits, SeenFits
<1> DEFINE user == CHOOSE x \in seen[r] : x.t = "Users"
           sale == SaleOf(r)
           n == call[r].no
           to == [clientId |-> user.to["clientId"], saleId |-> sale.id,
                  customerId |-> sale.to["customerId"], businessId |-> user.to["businessId"]]
           x == InvoiceRow(r)
<1>2. user \in seen[r] /\ user.t = "Users" BY <1>1 DEF In
<1>3. user.to["clientId"] # None /\ sale.id # None
  BY <1>1, <1>2 DEF IsRow, Mandatory, SaleOf, In
<1>4. x = Named("Invoice", r, to, n) BY DEF InvoiceRow, Named
<1>5. /\ AreColumns(to) /\ DOMAIN to \subseteq DOMAIN Parent
      /\ \A col \in Mandatory["Invoice"] : col \in DOMAIN to /\ to[col] # None
  <2>1. DOMAIN to = {"clientId", "saleId", "customerId", "businessId"} /\ to["clientId"] = user.to["clientId"]
        /\ to["saleId"] = sale.id /\ AreColumns(to)
    BY DEF AreColumns
  <2> HIDE DEF to, user, sale
  <2> QED BY <1>3, <2>1 DEF Parent, Mandatory
<1> HIDE DEF to, x, n
<1>6. IsRow(x) /\ x.t = "Invoice" /\ x.id = r /\ IsOn(x) /\ x.no = n
  BY <1>4, <1>5, NewRow, OfficeAssumption
<1>7. CASE Fails(r) BY <1>7, FailsDone
<1>8. CASE ~ NumberTaken(r) /\ (Insert(r, {x}) \/ InsertFails(r, {x}))
  <2>1. ASSUME NEW y \in rows, Collide(x, y) PROVE FALSE
    <3>1. y.t = "Invoice" /\ y.no = n /\ y.to["clientId"] = x.to["clientId"]
      BY <1>6, <2>1 DEF Collide, Numbered
    <3>2. "clientId" \in DOMAIN y.to BY <3>1 DEF TableInv, RowsSound, IsRow, Mandatory
    <3> QED BY <1>8, <3>1, <3>2 DEF NumberTaken, RefersTo, In, x, n
  <2>2. Fits(r, {x}) BY <1>1, <1>6, <2>1, OneFits DEF Makes, Fresh
  <2> QED BY <1>8, <2>2, InsertDone
<1> QED BY <1>7, <1>8 DEF CreateInvoice, x

LEMMA StepInvoicingKinds ==
    ASSUME TableInv, NEW r \in Requests, StepInvoicing(r)
    PROVE  Done(r) \/ (CreateBusiness(r) /\ pc'[r] = "link")
<1>1. ASSUME UpdateBusiness(r) PROVE Done(r)
  <2>1. PICK how \in Ended : End(r, how) /\ UNCHANGED rows BY <1>1 DEF UpdateBusiness, Ended
  <2> QED BY <2>1, StaysDone
<1>2. ASSUME UpdateInvoice(r) PROVE Done(r) BY <1>2, WriteSameDone DEF UpdateInvoice
<1>3. ASSUME SoftDeleteInvoice(r) PROVE Done(r)
  <2>1. <<pc[r], "Invoice", "on">> \in Writes BY <1>3 DEF SoftDeleteInvoice, Writes
  <2> QED BY <1>3, <2>1, WriteOnDone DEF SoftDeleteInvoice, Statuses
<1> QED BY <1>1, <1>2, <1>3, CreateBusinessEnds, LinkUserDone, CreateInvoiceDone DEF StepInvoicing

LEMMA CreateTaxDone ==
    ASSUME TableInv, NEW r \in Requests, CreateTax(r)
    PROVE  Done(r)
<1> DEFINE S == seen[r]
<1>1. /\ pc[r] = "tax" /\ IsFiniteSet(S) /\ \A x, y \in S : x.t = y.t => x = y
      /\ \A x \in S : IsRow(x) /\ x.t \in TaxTables /\ x.id = r /\ IsOn(x)
  BY DEF CreateTax, TableInv, RequestFits, SeenFits, Reads
<1>2. CASE Fails(r) BY <1>2, FailsDone
<1>3. CASE ~ Clash(S) /\ (Insert(r, S) \/ InsertFails(r, S))
  <2>1. ASSUME NEW x \in S, NEW y \in rows, Collide(x, y) PROVE FALSE
    <3>1. x.t \in {"TaxType", "TaxCode", "Region"} /\ y.t = x.t /\ y.no = x.no
          /\ y.to["clientId"] = x.to["clientId"]
      BY <1>1, <2>1 DEF Collide, Numbered, TaxTables
    <3>2. y.id # x.id BY <1>1, NoneMadeYet
    <3> QED BY <1>3, <3>1, <3>2 DEF Clash, Taken, In
  <2>3. \A x \in S : Fresh(x) BY <1>1 DEF Fresh, TaxTables
  <2>2. Fits(r, S) BY <1>1, <2>1, <2>3 DEF Fits, Makes
  <2> QED BY <1>3, <2>2, InsertDone
<1> QED BY <1>2, <1>3 DEF CreateTax, InsertTaxes

LEMMA RewrittenIs ==
    ASSUME NEW x, IsRow(x), NEW c, c.no \in Nat, c.col # "none" => c.ref # None,
           NEW y, y = Rewritten(x, c)
    PROVE  /\ IsRow(y) /\ Key(y) = Key(x) /\ y.no = c.no /\ y.out = x.out /\ y.on = x.on
           /\ DOMAIN y.to = DOMAIN x.to
           /\ \A col \in DOMAIN x.to : y.to[col] = IF col = c.col THEN c.ref ELSE x.to[col]
<1> DEFINE to == [col \in DOMAIN x.to |-> IF col = c.col THEN c.ref ELSE x.to[col]]
<1>1. /\ y = [t |-> y.t, id |-> y.id, to |-> y.to, on |-> y.on, no |-> y.no, out |-> y.out]
      /\ y.t = x.t /\ y.id = x.id /\ y.to = to /\ y.on = x.on /\ y.no = c.no /\ y.out = x.out
  BY DEF IsRow, Rewritten
<1>2. /\ DOMAIN y.to = DOMAIN x.to /\ AreColumns(y.to)
      /\ \A col \in DOMAIN x.to : y.to[col] = IF col = c.col THEN c.ref ELSE x.to[col]
  BY <1>1 DEF AreColumns
<1> HIDE DEF to
<1>3. "none" \notin DOMAIN x.to BY DEF IsRow, Parent
<1>4. IsRow(y) BY <1>1, <1>2, <1>3 DEF IsRow
<1> QED BY <1>1, <1>2, <1>4 DEF Key

LEMMA UpdateTaxDone ==
    ASSUME TableInv, NEW r \in Requests, UpdateTax(r)
    PROVE  Done(r)
<1> DEFINE c == call[r]
           t == c.table
           id == c.id
           x == Get(t, id)
           y == Rewritten(x, c)
<1>1. /\ pc[r] = "editTax" /\ t \in TaxTables /\ c.no \in Nat
      /\ c.col # "none" => c.col \in RefColumns[t] /\ c.ref # None
  BY DEF UpdateTax, TableInv, RequestFits, CallFits, Is
<1>2. CASE Fails(r) BY <1>2, FailsDone
<1>3. CASE /\ ~ (Has(t, id) /\ (Clash({y}) \/ ~ (NamedBy(c) \subseteq Keys(rows))))
           /\ NotDoomed(r, NamedBy(c)) /\ Write(r, t, id, y)
  <2>1. ASSUME Has(t, id) PROVE Rewrites(r, x, y)
    <3>1. x \in rows /\ IsRow(x) /\ x.t = t /\ x.id = id
      BY <2>1, RowOf DEF TableInv, RowsSound
    <3>2. /\ IsRow(y) /\ Key(y) = Key(x) /\ y.no = c.no /\ y.out = x.out /\ y.on = x.on
          /\ DOMAIN y.to = DOMAIN x.to
          /\ \A col \in DOMAIN x.to : y.to[col] = IF col = c.col THEN c.ref ELSE x.to[col]
      BY <1>1, <3>1, RewrittenIs
    <3>3. \A z \in rows : z.t = t /\ z.id = id => z = x BY <2>1, RowOf DEF TableInv
    <3>4. y.t = t /\ y.id = id BY <3>1, <3>2 DEF Key
    <3>9. ~ Clash({y}) /\ NamedBy(c) \subseteq Keys(rows) BY <1>3, <2>1
    <3> HIDE DEF x, y, t, id
    <3>5. ASSUME NEW z \in rows \ {x}, Collide(y, z) PROVE FALSE
      <4>1. /\ t \in {"TaxType", "TaxCode", "Region"} /\ z.t = t /\ z.no = y.no
            /\ z.to["clientId"] = y.to["clientId"]
        BY <1>1, <3>4, <3>5 DEF Collide, Numbered, TaxTables
      <4>2. z.id # id BY <3>3, <4>1
      <4> QED BY <3>4, <3>9, <4>1, <4>2 DEF Clash, Taken, In
    <3>6. <<"editTax", t, "no">> \in Writes BY <1>1 DEF TaxTables, Writes
    <3>7. c.col # "none" => <<"editTax", t, c.col>> \in Writes
      BY <1>1 DEF TaxTables, Writes, RefColumns
    <3>8. "none" \notin DOMAIN x.to BY <3>1 DEF IsRow, Parent
    <3>10. RowMoves(pc[r], x, y) BY <1>1, <3>1, <3>2, <3>6, <3>7, <3>8 DEF RowMoves
    <3>11. ASSUME NEW col \in DOMAIN y.to, y.to[col] # x.to[col]
           PROVE  <<Parent[col], y.to[col]>> \in NamedBy(c)
      BY <3>2, <3>8, <3>11 DEF NamedBy
    <3>12. \A col \in DOMAIN y.to : y.to[col] # x.to[col] =>
             /\ <<Parent[col], y.to[col]>> \in Keys(rows)
             /\ NotDoomed(r, {<<Parent[col], y.to[col]>>})
      BY <1>3, <3>9, <3>11 DEF NotDoomed
    <3> QED BY <3>2, <3>5, <3>10, <3>12 DEF Rewrites
  <2>2. Write(r, t, id, y) BY <1>3
  <2> HIDE DEF x, y, t, id
  <2> QED BY <2>1, <2>2, WriteDone DEF x
<1> QED BY <1>2, <1>3 DEF UpdateTax

LEMMA DeleteTaxDone ==
    ASSUME TableInv, NEW r \in Requests, DeleteTax(r)
    PROVE  Done(r)
<1>1. pc[r] = "editTax" /\ call[r].table \in TaxTables
  BY DEF DeleteTax, TableInv, RequestFits, CallFits
<1> QED BY <1>1, DeleteDone DEF DeleteTax

\* No transaction that deletes holds a tax type, or a client.
LEMMA NeverDoomed ==
    ASSUME TableInv, NEW r \in Requests, NEW K, \A k \in K : k[1] \in {"Clients", "TaxType"}
    PROVE  NotDoomed(r, K)
<1> SUFFICES ASSUME NEW q \in Requests \ {r}, Deletes(q), NEW k \in lock[q] \cap K PROVE FALSE
  BY DEF NotDoomed
<1>1. pc[q] \in {"items", "client", "statements"} /\ RequestFits(q)
  BY DEF TableInv, RequestFits, Unused
<1>2. pc[q] # "client" BY <1>1 DEF RequestFits, CallFits, Op, Deletes
<1> QED BY <1>1, <1>2 DEF RequestFits, LockFits

LEMMA UpdateBundleDone ==
    ASSUME TableInv, NEW r \in Requests, UpdateBundle(r)
    PROVE  Done(r)
<1> DEFINE rate == CHOOSE x \in seen[r] : x.t = "TaxRate"
           v == call[r].type
           x == Get("TaxRate", rate.id)
           y == [x EXCEPT !.to["taxTypeId"] = v]
<1>1. pc[r] = "bundle" /\ In("TaxRate", seen[r]) # {}
  BY DEF UpdateBundle, TableInv, RequestFits, SeenFits
<1>2. rate \in seen[r] /\ rate.t = "TaxRate" BY <1>1 DEF In
<1>3. CASE Fails(r) BY <1>3, FailsDone
<1>4. CASE /\ Keys(seen[r]) \subseteq Keys(rows) /\ Has("TaxType", v)
           /\ Update(x, y) /\ End(r, "ok")
  <2>1. Has("TaxRate", rate.id)
    <3> HIDE DEF rate, v, x, y
    <3>1. Key(rate) \in Keys(seen[r]) BY <1>2 DEF Keys
    <3>2. PICK z \in rows : Key(z) = Key(rate) BY <1>4, <3>1 DEF Keys
    <3>3. z.t = "TaxRate" /\ z.id = rate.id BY <1>2, <3>2 DEF Key
    <3> QED BY <3>3 DEF Has, Ids, In
  <2>2. x \in rows /\ x.t = "TaxRate" /\ IsRow(x) BY <2>1, RowOf DEF TableInv, RowsSound
  <2>3. <<"TaxType", v>> \in Keys(rows) BY <1>4 DEF Has, Ids, In, Keys, Key
  <2>4. v # None BY <2>3 DEF Keys, Key, TableInv, RowsSound, IsRow
  <2>5. y = Moved(x, "taxTypeId", v) BY DEF Moved
  <2>6. NotDoomed(r, {<<"TaxType", v>>}) BY NeverDoomed
  <2> HIDE DEF x, y, v, rate
  <2>7. /\ IsRow(y) /\ Key(y) = Key(x) /\ y.no = x.no /\ y.out = x.out /\ y.on = x.on
        /\ DOMAIN y.to = DOMAIN x.to
        /\ \A col \in DOMAIN x.to : y.to[col] = IF col = "taxTypeId" THEN v ELSE x.to[col]
    BY <2>2, <2>4, <2>5, ToWritten
  <2>8. y.t = "TaxRate" /\ \A z \in rows \ {x} : ~ Collide(y, z)
    BY <2>2, <2>7 DEF Key, Collide, Numbered
  <2>9. RowMoves(pc[r], x, y) BY <1>1, <2>2, <2>7 DEF RowMoves, Writes
  <2>10. Parent["taxTypeId"] = "TaxType" BY DEF Parent
  <2>11. Rewrites(r, x, y) BY <2>3, <2>6, <2>7, <2>8, <2>9, <2>10 DEF Rewrites
  <2> QED BY <1>4, <2>2, <2>11, UpdateSound, EndLocal DEF TableInv, Done, Outcome
<1> QED BY <1>3, <1>4 DEF UpdateBundle

\* Nothing cascades from a tax table, so that what is not blocked is not referred to.
LEMMA TaxUnblocked ==
    ASSUME NEW S, \A x \in S : IsRow(x), NEW D, D \subseteq S, \A x \in D : x.t \in TaxTables,
           ~ Blocked(S, D), NEW x \in S \ D
    PROVE  Parents(x) \cap Keys(D) = {}
<1>1. ASSUME NEW E, \A y \in E : y.t \in TaxTables, NEW y \in Via(S, E, Cascades) PROVE FALSE
  <2>1. PICK col \in DOMAIN y.to : <<y.t, col>> \in Cascades /\ Parent[col] \in TaxTables
    BY <1>1 DEF Via, Keys, Key
  <2> QED BY <2>1 DEF Cascades, Parent, TaxTables
<1>2. Gone(S, D) = D BY <1>1 DEF Gone
<1> SUFFICES ASSUME NEW col \in DOMAIN x.to, <<Parent[col], x.to[col]>> \in Keys(D) PROVE FALSE
  BY DEF Parents
<1>3. <<x.t, col>> \in Cascades \cup Nullable BY <1>2 DEF Blocked
<1>4. Parent[col] \in TaxTables BY DEF Keys, Key
<1> QED BY <1>3, <1>4 DEF Cascades, Nullable, Parent, TaxTables

LEMMA DeleteBundleDone ==
    ASSUME TableInv, NEW r \in Requests, DeleteBundle(r)
    PROVE  Done(r)
<1> DEFINE D(t) == {x \in In(t, rows) : Key(x) \in Keys(seen[r])}
           noRate == rows \ D("TaxRate")
           noCode == noRate \ D("TaxCode")
           E == D("TaxRate") \cup D("TaxCode") \cup D("TaxType")
<1>1. CASE Fails(r) BY <1>1, FailsDone
<1>2. CASE /\ ~ Blocked(rows, D("TaxRate")) /\ ~ Blocked(noRate, D("TaxCode"))
           /\ ~ Blocked(noCode, D("TaxType"))
           /\ rows' = noCode \ D("TaxType") /\ End(r, "ok")
  <2>1. pc[r] = "bundle" /\ \A x \in rows : IsRow(x) BY DEF DeleteBundle, TableInv, RowsSound
  <2>2. \A t : D(t) \subseteq rows /\ \A x \in D(t) : x.t = t BY DEF In
  <2>3. D("TaxCode") \subseteq noRate /\ D("TaxType") \subseteq noCode BY <2>2
  <2>4. \A t \in {"TaxRate", "TaxCode", "TaxType"} : \A x \in D(t) : x.t \in TaxTables
    BY <2>2 DEF TaxTables
  <2>5. E \subseteq rows /\ rows' = rows \ E BY <1>2, <2>2
  <2>6. \A x \in E : Removes(pc[r], x.t) BY <2>1, <2>4 DEF Removes
  <2>7. ASSUME NEW x \in rows \ E PROVE Parents(x) \cap Keys(E) = {}
    <3>1. x \in rows \ D("TaxRate") /\ x \in noRate \ D("TaxCode") /\ x \in noCode \ D("TaxType")
      OBVIOUS
    <3>2. Keys(E) = Keys(D("TaxRate")) \cup Keys(D("TaxCode")) \cup Keys(D("TaxType"))
      BY DEF Keys
    <3>3. /\ \A u \in D("TaxRate") : u.t \in TaxTables
          /\ \A u \in D("TaxCode") : u.t \in TaxTables
          /\ \A u \in D("TaxType") : u.t \in TaxTables
      BY <2>4
    <3> HIDE DEF D, E
    <3>4. Parents(x) \cap Keys(D("TaxRate")) = {}
      BY <1>2, <2>1, <2>2, <3>1, <3>3, TaxUnblocked
    <3>5. Parents(x) \cap Keys(D("TaxCode")) = {}
      BY <1>2, <2>1, <2>3, <3>1, <3>3, TaxUnblocked
    <3>6. Parents(x) \cap Keys(D("TaxType")) = {}
      BY <1>2, <2>1, <2>3, <3>1, <3>3, TaxUnblocked
    <3> QED BY <3>2, <3>4, <3>5, <3>6
  <2> HIDE DEF E
  <2>8. RowsSound' /\ IndexesHold(rows)' /\ Effect(r) BY <2>5, <2>6, <2>7, DropOutcome
  <2> QED BY <1>2, <2>8, EndLocal DEF TableInv, Done, Outcome
<1> QED BY <1>1, <1>2 DEF DeleteBundle

LEMMA ReplaceAssignmentsDone ==
    ASSUME TableInv, NEW r \in Requests, ReplaceAssignments(r)
    PROVE  Done(r)
<1> DEFINE new == call[r].new
           rate == call[r].rate
           D == {x \in rows : Key(x) \in Keys(seen[r])}
<1>1. /\ pc[r] = "assignments" /\ \A x \in seen[r] : x.t = "TaxAssignment"
      /\ IsRow(new) /\ Key(new) = <<"TaxAssignment", r>> /\ IsOn(new)
      /\ Parents(new) \subseteq {<<"Clients", new.to["clientId"]>>, <<"TaxRate", rate>>}
      /\ \A x \in In("TaxRate", rows) : x.id = rate => x.to["clientId"] = new.to["clientId"]
      /\ NotDoomed(r, Parents(new))
  BY DEF ReplaceAssignments, TableInv, RequestFits, SeenFits, CallFits, Reads
<1>2. CASE Fails(r) BY <1>2, FailsDone
<1>3. CASE /\ Has("TaxRate", rate) /\ End(r, "ok")
           /\ rows' = {x \in rows : Key(x) \notin Keys(seen[r])} \cup {new}
  <2> HIDE DEF new, rate
  <2>1. new.t = "TaxAssignment" /\ new.id = r BY <1>1 DEF Key
  <2>2. Fits(r, {new}) BY <1>1, <2>1, OneFits DEF Makes, Fresh, TaxTables, Collide, Numbered
  <2>3. D \subseteq rows /\ \A x \in D : x.t = "TaxAssignment" BY <1>1 DEF Keys, Key
  <2>4. rows' = (rows \ D) \cup {new} BY <1>3
  <2>5. \A x \in D : Removes(pc[r], x.t) BY <1>1, <2>3 DEF Removes, TaxTables
  <2>6. UNION {Parents(x) : x \in {new}} = Parents(new) OBVIOUS
  <2>7. Parents(new) \subseteq Keys(rows)
    <3> DEFINE x == Get("TaxRate", rate)
    <3>1. x \in rows /\ x.t = "TaxRate" /\ x.id = rate /\ IsRow(x)
      BY <1>3, RowOf DEF TableInv, RowsSound
    <3>2. x.to["clientId"] = new.to["clientId"] BY <1>1, <3>1 DEF In
    <3>3. <<"Clients", x.to["clientId"]>> \in Parents(x)
      BY <3>1 DEF Parents, Parent, IsRow, Mandatory
    <3>4. <<"Clients", x.to["clientId"]>> \in Keys(rows)
      BY <3>1, <3>3 DEF TableInv, RowsSound, KeysHold
    <3>5. <<"TaxRate", rate>> \in Keys(rows) BY <3>1 DEF Keys, Key
    <3> QED BY <1>1, <3>2, <3>4, <3>5
  <2> HIDE DEF D
  <2>8. \A x \in rows \cup {new} : Parents(x) \cap Keys(D) = {}
    BY <1>1, <2>3, NoReference DEF TableInv, RowsSound
  <2>9. UNION {Parents(x) : x \in {new}} \subseteq Keys(rows \cup {new})
    BY <2>6, <2>7, KeysOfUnion
  <2>10. NotDoomed(r, UNION {Parents(x) : x \in {new}}) BY <1>1, <2>6 DEF new
  <2>11. RowsSound' /\ IndexesHold(rows)' /\ Effect(r)
    BY <2>2, <2>3, <2>4, <2>5, <2>8, <2>9, <2>10, SwapSound
  <2> QED BY <1>3, <2>11, EndLocal DEF TableInv, Done, Outcome
<1> QED BY <1>2, <1>3 DEF ReplaceAssignments

LEMMA StepTaxesKinds ==
    ASSUME TableInv, NEW r \in Requests, StepTaxes(r)
    PROVE  Done(r) \/ ReadAssignments(r)
  BY CreateTaxDone, UpdateTaxDone, DeleteTaxDone, UpdateBundleDone, DeleteBundleDone,
     ReplaceAssignmentsDone DEF StepTaxes

LEMMA CreateDraftDone ==
    ASSUME TableInv, NEW r \in Requests, CreateDraft(r)
    PROVE  Done(r)
<1> DEFINE c == call[r].client
           toA == [clientId |-> c, storeId |-> call[r].store, userId |-> call[r].user]
           toB == [clientId |-> c, saleDraftId |-> r]
           a == DraftRow(r)
           b == ItemRow(r, r, c)
           S == {a, b}
<1>1. pc[r] = "draft" /\ c # None /\ r # None
  BY OfficeAssumption DEF CreateDraft, TableInv, RequestFits, CallFits
<1>2. a = New("SalesDraft", r, toA) /\ b = New("SalesDraftItems", r, toB)
  BY DEF DraftRow, ItemRow
<1>3. IsRow(a) /\ a.t = "SalesDraft" /\ a.id = r /\ IsOn(a)
  <2>1. /\ AreColumns(toA) /\ DOMAIN toA \subseteq DOMAIN Parent
        /\ \A col \in Mandatory["SalesDraft"] : col \in DOMAIN toA /\ toA[col] # None
    BY <1>1 DEF AreColumns, Parent, Mandatory
  <2> HIDE DEF toA, a
  <2> QED BY <1>1, <1>2, <2>1, PlainRow
<1>4. IsRow(b) /\ b.t = "SalesDraftItems" /\ b.id = r /\ IsOn(b)
  <2>1. /\ AreColumns(toB) /\ DOMAIN toB \subseteq DOMAIN Parent
        /\ \A col \in Mandatory["SalesDraftItems"] : col \in DOMAIN toB /\ toB[col] # None
    BY <1>1 DEF AreColumns, Parent, Mandatory
  <2> HIDE DEF toB, b
  <2> QED BY <1>1, <1>2, <2>1, PlainRow
<1> HIDE DEF a, b
<1>5. IsFiniteSet(S)
  <2>1. IsFiniteSet({a}) /\ IsFiniteSet({b}) BY FS_Singleton
  <2>2. IsFiniteSet({a} \cup {b}) /\ S = {a} \cup {b} BY <2>1, FS_Union
  <2> QED BY <2>2
<1>6. \A x \in S : x.t \in {"SalesDraft", "SalesDraftItems"} /\ IsRow(x) /\ x.id = r /\ IsOn(x)
  BY <1>3, <1>4
<1>7. \A x, y \in S : x.t = y.t => x = y BY <1>3, <1>4
<1>8. Insert(r, S) \/ InsertFails(r, S) BY DEF CreateDraft, a, b
<1> HIDE DEF S
<1>9. \A x \in S, y \in rows : ~ Collide(x, y) BY <1>6 DEF Collide, Numbered
<1>10. Fits(r, S) BY <1>1, <1>5, <1>6, <1>7, <1>9 DEF Fits, Fresh, Makes
<1> QED BY <1>8, <1>10, InsertDone

LEMMA FillDraftDone ==
    ASSUME TableInv, NEW r \in Requests, FillDraft(r)
    PROVE  Done(r)
<1> DEFINE d == call[r].draft
           c == call[r].client
           to == [clientId |-> c, saleDraftId |-> d]
           b == ItemRow(r, d, c)
           D == {x \in rows : Key(x) \in lock[r]}
<1>1. pc[r] = "items" /\ c # None /\ \A k \in lock[r] : k[1] = "SalesDraftItems"
  BY DEF FillDraft, TableInv, RequestFits, CallFits, LockFits
<1>2. CASE Fails(r) BY <1>2, FailsDone
<1>3. CASE /\ Has("SalesDraft", d) /\ Has("Clients", c) /\ Free(r, {<<"SalesDraft", d>>})
           /\ rows' = {x \in rows : Key(x) \notin lock[r]} \cup {b} /\ End(r, "ok")
  <2>1. b = New("SalesDraftItems", r, to) BY DEF ItemRow
  <2>2. <<"SalesDraft", d>> \in Keys(rows) /\ <<"Clients", c>> \in Keys(rows)
    BY <1>3 DEF Has, Ids, In, Keys, Key
  <2>3. d # None BY <2>2 DEF Keys, Key, TableInv, RowsSound, IsRow
  <2>4. /\ DOMAIN to = {"clientId", "saleDraftId"} /\ to["clientId"] = c /\ to["saleDraftId"] = d
        /\ AreColumns(to) /\ DOMAIN to \subseteq DOMAIN Parent
        /\ \A col \in Mandatory["SalesDraftItems"] : col \in DOMAIN to /\ to[col] # None
    BY <1>1, <2>3 DEF AreColumns, Parent, Mandatory
  <2> HIDE DEF to, b, c, d
  <2>5. IsRow(b) /\ b.t = "SalesDraftItems" /\ b.id = r /\ IsOn(b) /\ b.to = to
    BY <2>1, <2>4, PlainRow, OfficeAssumption
  <2>6. Parents(b) \subseteq {<<"Clients", c>>, <<"SalesDraft", d>>}
    BY <2>4, <2>5 DEF Parents, Parent
  <2>7. Fits(r, {b}) BY <1>1, <2>5, OneFits DEF Makes, Fresh, Collide, Numbered
  <2>8. D \subseteq rows /\ (\A x \in D : x.t = "SalesDraftItems") /\ rows' = (rows \ D) \cup {b}
    BY <1>1, <1>3 DEF Key
  <2> HIDE DEF D
  <2>9. \A x \in D : Removes(pc[r], x.t) BY <1>1, <2>8 DEF Removes
  <2>10. \A x \in rows \cup {b} : Parents(x) \cap Keys(D) = {}
    BY <2>5, <2>8, NoReference DEF TableInv, RowsSound
  <2>11. UNION {Parents(x) : x \in {b}} = Parents(b) OBVIOUS
  <2>12. UNION {Parents(x) : x \in {b}} \subseteq Keys(rows \cup {b})
    BY <2>2, <2>6, <2>11, KeysOfUnion
  <2>13. NotDoomed(r, UNION {Parents(x) : x \in {b}})
    <3>1. NotDoomed(r, {<<"Clients", c>>}) BY NeverDoomed
    <3> QED BY <1>3, <2>6, <2>11, <3>1 DEF NotDoomed, Free
  <2>14. RowsSound' /\ IndexesHold(rows)' /\ Effect(r)
    BY <2>7, <2>8, <2>9, <2>10, <2>12, <2>13, SwapSound
  <2> QED BY <1>3, <2>14, EndLocal DEF TableInv, Done, Outcome
<1> QED BY <1>2, <1>3 DEF FillDraft

LEMMA ItemsDropped ==
    ASSUME TableInv, NEW r \in Requests, DropItems(r)
    PROVE  Outcome(r)
<1> DEFINE D == ItemsOf(call[r].draft)
<1>1. /\ pc[r] = "dropItems" /\ rows' = rows \ D /\ D \subseteq rows
      /\ \A x \in D : x.t = "SalesDraftItems"
  BY DEF DropItems, ItemsOf, In
<1> HIDE DEF D
<1>2. \A x \in D : Removes(pc[r], x.t) BY <1>1 DEF Removes
<1>3. \A x \in rows \ D : Parents(x) \cap Keys(D) = {}
  BY <1>1, NoReference DEF TableInv, RowsSound
<1>4. RowsSound' /\ IndexesHold(rows)' /\ Effect(r) BY <1>1, <1>2, <1>3, DropOutcome
<1>5. Local(r) BY DEF DropItems, Goto, Local, TableInv, StateFits
<1> QED BY <1>4, <1>5 DEF Outcome

LEMMA StepDraftsKinds ==
    ASSUME TableInv, NEW r \in Requests, StepDrafts(r)
    PROVE  Done(r) \/ ReadDraft(r) \/ ClearDraft(r) \/ DropItems(r)
<1>1. ASSUME DropDraft(r) PROVE Done(r) BY <1>1, DeleteDone DEF DropDraft
<1> QED BY <1>1, CreateDraftDone, FillDraftDone DEF StepDrafts

LEMMA CreateTenantDone ==
    ASSUME TableInv, NEW r \in Requests, CreateTenant(r)
    PROVE  Done(r)
<1> DEFINE n == call[r].email
           x == Named("Clients", r, <<>>, n)
<1>1. pc[r] = "tenant" BY DEF CreateTenant
<1>2. IsRow(x) /\ x.t = "Clients" /\ x.id = r /\ IsOn(x) /\ x.no = n
  <2>1. AreColumns(<<>>) /\ DOMAIN <<>> \subseteq DOMAIN Parent /\ "Clients" \notin DOMAIN Mandatory
    BY DEF AreColumns, Mandatory
  <2> QED BY <2>1, NewRow, OfficeAssumption
<1>3. CASE Fails(r) BY <1>3, FailsDone
<1>4. CASE ~ EmailTaken(n) /\ Insert(r, {x})
  <2> HIDE DEF x, n
  <2>1. \A y \in rows : ~ Collide(x, y) BY <1>2, <1>4 DEF Collide, Numbered, EmailTaken, In
  <2>2. Fits(r, {x}) BY <1>1, <1>2, <2>1, OneFits DEF Makes, Fresh
  <2> QED BY <1>4, <2>2, InsertDone
<1> QED BY <1>3, <1>4 DEF CreateTenant, Named

LEMMA UpdateClientDone ==
    ASSUME TableInv, NEW r \in Requests, UpdateClient(r)
    PROVE  Done(r)
<1> DEFINE c == call[r].client
           K == lock[r] \cup {<<"Clients", c>>}
           on == call[r].on
           f == [x \in rows |-> IF Key(x) \in K THEN [x EXCEPT !.on = on] ELSE x]
           T == {IF Key(x) \in K THEN [x EXCEPT !.on = on] ELSE x : x \in rows}
<1>1. pc[r] = "client" /\ on \in Statuses /\ \A k \in lock[r] : k[1] = "Users"
  BY DEF UpdateClient, TableInv, RequestFits, CallFits, LockFits
<1>2. CASE Fails(r) BY <1>2, FailsDone
<1>3. CASE rows' = T /\ End(r, "ok")
  <2>1. \A x \in rows : /\ IsRow(f[x]) /\ Key(f[x]) = Key(x) /\ f[x].to = x.to
                        /\ f[x].no = x.no /\ f[x].out = x.out
                        /\ f[x].on = x.on \/ (Key(x) \in K /\ f[x].on = on)
    <3> SUFFICES ASSUME NEW x \in rows
                 PROVE  /\ IsRow(f[x]) /\ Key(f[x]) = Key(x) /\ f[x].to = x.to
                        /\ f[x].no = x.no /\ f[x].out = x.out
                        /\ f[x].on = x.on \/ (Key(x) \in K /\ f[x].on = on)
      OBVIOUS
    <3>1. IsRow(x) BY DEF TableInv, RowsSound
    <3> DEFINE y == [x EXCEPT !.on = on]
    <3>2. f[x] = IF Key(x) \in K THEN y ELSE x OBVIOUS
    <3>3. IsRow(y) /\ Key(y) = Key(x) /\ y.to = x.to /\ y.no = x.no /\ y.out = x.out /\ y.on = on
      BY <1>1, <3>1, OnWritten
    <3> HIDE DEF y, f, K, on
    <3> QED BY <3>1, <3>2, <3>3
  <2>2. T = ImageOf(f, rows) BY DEF ImageOf
  <2>3. \A x \in rows : f[x] \in T OBVIOUS
  <2>4. \A y \in T : \E x \in rows : y = f[x] OBVIOUS
  <2>5. Keys(T) = Keys(rows)
    <3> HIDE DEF T, f, K
    <3> QED BY <2>1, <2>3, <2>4 DEF Keys
  <2>6. \A x \in rows : Parents(f[x]) = Parents(x)
    <3> HIDE DEF T, f, K
    <3> QED BY <2>1 DEF Parents
  <2>7. \A x \in rows : Key(x) \in K => x.t \in {"Users", "Clients"} BY <1>1 DEF Key
  <2> HIDE DEF T, f, K, on
  <2>8. RowsSound'
    <3>1. IsFiniteSet(T) BY <2>2, ImageFinite DEF TableInv, RowsSound
    <3>2. \A x, y \in T : Key(x) = Key(y) => x = y
      BY <2>1, <2>4 DEF TableInv, RowsSound, KeysHold
    <3>3. \A y \in T : IsRow(y) /\ Parents(y) \subseteq Keys(T)
      BY <2>1, <2>4, <2>5, <2>6 DEF TableInv, RowsSound, KeysHold
    <3> QED BY <1>3, <3>1, <3>2, <3>3 DEF RowsSound, KeysHold
  <2>9. IndexesHold(rows)'
    <3>1. ASSUME NEW x \in rows, NEW y \in rows, Collide(f[x], f[y]) PROVE f[x] = f[y]
      <4>1. f[x].t = x.t /\ f[y].t = y.t BY <2>1 DEF Key
      <4>2. Collide(x, y) BY <2>1, <3>1, <4>1 DEF Collide
      <4> QED BY <4>2, IndexesMean DEF TableInv
    <3>2. \A x, y \in T : Collide(x, y) => x = y BY <2>4, <3>1
    <3> QED BY <1>3, <3>2, IndexesMean
  <2>10. Effect(r)
    <3>1. ASSUME NEW x \in rows PROVE RowMoves(pc[r], x, f[x]) /\ RefersWell(r, f[x])
      <4>1. RowMoves(pc[r], x, f[x]) BY <1>1, <2>1, <2>7 DEF RowMoves, Writes
      <4> QED BY <2>1, <4>1 DEF RefersWell
    <3> QED BY <1>3, <2>3, <2>4, <3>1 DEF Effect
  <2> QED BY <1>3, <2>8, <2>9, <2>10, EndLocal DEF TableInv, Done, Outcome
<1> QED BY <1>2, <1>3 DEF UpdateClient

\* The statements of a deletion are not about clients and tax types, and the users
\* they are about are searched for by their client.
Searches ==
    {<<"AuditLogs", "userId">>, <<"Notifications", "userId">>, <<"ApiTokens", "userId">>,
     <<"InviteLinks", "userId">>, <<"PasswordResetTokens", "userId">>,
     <<"Permission", "grantedBy">>, <<"RoleTemplate", "createdBy">>,
     <<"UserRole", "assignedBy">>, <<"UserRole", "userId">>, <<"UserStoreMap", "userId">>,
     <<"SaleAdjustment", "userId">>, <<"Sales", "userId">>,
     <<"SaleReturn", "processedBy">>, <<"PurchaseOrders", "userId">>,
     <<"Expenses", "userId">>, <<"OrderProcessing", "driverId">>,
     <<"StoreSettings", "storeId">>, <<"UserStoreMap", "storeId">>,
     <<"Suppliers", "storeId">>, <<"Customer", "storeId">>, <<"Sales", "storeId">>,
     <<"SaleAdjustment", "storeId">>, <<"PurchaseOrders", "storeId">>,
     <<"Expenses", "storeId">>, <<"Reports", "storeId">>, <<"OrderProcessing", "storeId">>,
     <<"ErrorLog", "fileUploadId">>, <<"FileUploadInventory", "storeId">>,
     <<"Pack", "productId">>, <<"SaleAdjustment", "productId">>,
     <<"PurchaseOrders", "productId">>, <<"Customer", "clientId">>,
     <<"Business", "clientId">>, <<"Sales", "clientId">>, <<"Users", "clientId">>,
     <<"Stores", "clientId">>, <<"Products", "clientId">>}

LEMMA SearchesAre ==
    \A s \in Searches : s[1] \notin {"Clients", "TaxType"} /\ (s[1] = "Users" => s[2] = "clientId")
  BY DEF Searches

LEMMA WhenIs ==
    ASSUME NEW cond \in BOOLEAN, NEW s \in Seq(Searches)
    PROVE  When(cond, s) \in Seq(Searches)
  BY DEF When

LEMMA PlanIs ==
    ASSUME NEW S
    PROVE  Plan(S) \in Seq(Searches)
<1>1. ByUser \in Seq(Searches) BY DEF ByUser, Searches
<1>2. ByStore \in Seq(Searches) BY DEF ByStore, Searches
<1>3. ByProduct \in Seq(Searches) BY DEF ByProduct, Searches
<1>4. ByClient \in Seq(Searches) BY DEF ByClient, Searches
<1>5. /\ << <<"Users", "clientId">> >> \in Seq(Searches)
      /\ << <<"Stores", "clientId">> >> \in Seq(Searches)
      /\ << <<"Products", "clientId">> >> \in Seq(Searches)
  BY DEF Searches
<1> DEFINE a == When(In("Users", S) # {}, ByUser)
           b == When(In("Stores", S) # {}, ByStore)
           c == When(In("Products", S) # {}, ByProduct)
           d == When(In("Users", S) # {}, << <<"Users", "clientId">> >>)
           e == When(In("Stores", S) # {}, << <<"Stores", "clientId">> >>)
           f == When(In("Products", S) # {}, << <<"Products", "clientId">> >>)
<1>6. /\ a \in Seq(Searches) /\ b \in Seq(Searches) /\ c \in Seq(Searches)
      /\ d \in Seq(Searches) /\ e \in Seq(Searches) /\ f \in Seq(Searches)
  BY <1>1, <1>2, <1>3, <1>5, WhenIs
<1>7. Plan(S) = a \o b \o c \o ByClient \o d \o e \o f BY DEF Plan
<1> HIDE DEF a, b, c, d, e, f
<1> QED BY <1>4, <1>6, <1>7

LEMMA RowsDeleted ==
    ASSUME TableInv, NEW r \in Requests, DeleteRows(r)
    PROVE  Done(r) \/ (Outcome(r) /\ pc' = pc /\ RequestFits(r)')
<1> DEFINE L == Left(r)
           stmt == Plan(seen[r])[at[r] + 1]
           D == Targets(r, stmt)
           gone == Gone(L, D)
<1>1. CASE Fails(r) BY <1>1, FailsDone
<1>2. CASE /\ ~ Blocked(L, D) /\ lock' = [lock EXCEPT ![r] = @ \cup Keys(gone)]
           /\ at' = [at EXCEPT ![r] = @ + 1] /\ UNCHANGED <<rows, pc, call, seen, raced, faults>>
  <2>1. pc[r] = "statements" /\ RequestFits(r) /\ at[r] \in Nat /\ at[r] < Len(Plan(seen[r]))
    BY DEF DeleteRows, TableInv, RequestFits, Unused
  <2>2. stmt \in Searches
    <3>1. at[r] + 1 \in 1..Len(Plan(seen[r])) /\ Plan(seen[r]) \in Seq(Searches)
      BY <2>1, PlanIs
    <3> QED BY <3>1
  <2>3. L \subseteq rows /\ D \subseteq L /\ \A x \in D : x.t = stmt[1]
    BY DEF Targets, In, Left
  <2>4. gone \subseteq L /\ \A x \in L : IsRow(x) BY <2>3, GoneFrom DEF TableInv, RowsSound
  <2>5. \A x \in gone : /\ x.t \notin {"Clients", "TaxType"}
                        /\ x.t = "Users" => x.to["clientId"] = call[r].client
    <3>1. ASSUME NEW x \in D
          PROVE  x.t \notin {"Clients", "TaxType"} /\ (x.t = "Users" => x.to["clientId"] = call[r].client)
      <4>1. x.t = stmt[1] /\ x.to[stmt[2]] \in Sought(r, Parent[stmt[2]]) BY <2>3 DEF Targets
      <4>2. stmt[1] \notin {"Clients", "TaxType"} /\ (stmt[1] = "Users" => stmt[2] = "clientId")
        BY <2>2, SearchesAre
      <4>3. Sought(r, "Clients") = {call[r].client} /\ Parent["clientId"] = "Clients"
        BY DEF Sought, Parent
      <4> HIDE DEF stmt, D, gone
      <4> QED BY <4>1, <4>2, <4>3
    <3>2. ASSUME NEW E, NEW x \in Via(L, E, Cascades) PROVE x.t \notin {"Clients", "TaxType", "Users"}
      BY DEF Via, Cascades
    <3> QED BY <3>1, <3>2 DEF Gone
  <2>6. \A x \in L \ gone : ~ Tight(x, Keys(gone)) BY <1>2, <2>3, <2>4, GoneRefs
  <2> HIDE DEF stmt, D, gone
  <2>7. /\ lock'[r] = lock[r] \cup Keys(gone) /\ pc'[r] = pc[r] /\ call'[r] = call[r]
        /\ seen'[r] = seen[r] /\ at'[r] = at[r] + 1 /\ rows' = rows
    BY <1>2 DEF TableInv, StateFits
  <2>8. LockFits(r)'
    <3>1. \A k \in Keys(gone) : k[2] # None /\ k[1] \notin {"Clients", "TaxType"}
      BY <2>4, <2>5 DEF Keys, Key, IsRow
    <3>2. ASSUME NEW x \in rows, x.t = "Users", Key(x) \in lock[r] \cup Keys(gone)
          PROVE  x.to["clientId"] = call[r].client
      <4>1. CASE Key(x) \in lock[r] BY <2>1, <3>2, <4>1 DEF RequestFits, LockFits, In
      <4>2. CASE Key(x) \in Keys(gone)
        <5>1. x \in gone BY <2>3, <2>4, <4>2 DEF Keys, TableInv, RowsSound, KeysHold
        <5> QED BY <2>5, <3>2, <5>1
      <4> QED BY <3>2, <4>1, <4>2
    <3>3. ASSUME NEW x \in rows, Key(x) \notin lock[r] \cup Keys(gone)
          PROVE  ~ Tight(x, lock[r] \cup Keys(gone))
      <4>1. x \in L \ gone BY <3>3 DEF Left, Keys
      <4>2. ~ Tight(x, lock[r]) /\ ~ Tight(x, Keys(gone))
        BY <2>1, <2>6, <4>1 DEF RequestFits, LockFits
      <4> QED BY <4>2 DEF Tight
    <3>4. \A k \in lock'[r] : k[2] # None /\ k[1] \notin {"Clients", "TaxType"}
      BY <2>1, <2>7, <3>1 DEF RequestFits, LockFits
    <3>6. \A k \in lock'[r] : k[1] = "Users" /\ k[2] \in Requests => pc'[k[2]] \in Made("Users")
      <4>1. \A k \in Keys(gone) : k[1] = "Users" /\ k[2] \in Requests => pc[k[2]] \in Made("Users")
        BY <2>3, <2>4 DEF Keys, Key, TableInv, MadeBy
      <4> QED BY <1>2, <2>1, <2>7, <4>1 DEF RequestFits, LockFits
    <3>5. \A x \in Left(r)' : ~ Tight(x, lock[r])' BY <2>7, <3>3 DEF Left, Tight
    <3> QED BY <2>1, <2>7, <3>2, <3>4, <3>5, <3>6 DEF LockFits, In
  <2>9. RequestFits(r)'
    BY <2>1, <2>7, <2>8 DEF RequestFits, Unused, SeenFits, CallFits, Reads, Op, Once
  <2>10. Outcome(r)
    <3>1. Local(r) BY <1>2 DEF Local, TableInv, StateFits
    <3> QED BY <1>2, <3>1, SameRows DEF Outcome, TableInv
  <2> QED BY <1>2, <2>9, <2>10
<1> QED BY <1>1, <1>2 DEF DeleteRows

LEMMA DeleteClientDone ==
    ASSUME TableInv, NEW r \in Requests, DeleteClient(r)
    PROVE  Done(r)
<1> DEFINE L == Left(r)
           D == {x \in In("Clients", rows) : x.id = call[r].client}
           E == {x \in rows : Key(x) \in lock[r]}
           F == D \cup E
<1>1. CASE Fails(r) BY <1>1, FailsDone
<1>2. CASE ~ Blocked(L, D) /\ rows' = Without(rows, F) /\ End(r, "ok")
  <2>1. /\ pc[r] = "statements" /\ \A x \in L : ~ Tight(x, lock[r])
        /\ \A k \in lock[r] : k[1] # "Clients"
    BY DEF DeleteClient, TableInv, RequestFits, LockFits
  <2>2. D \subseteq L /\ L = rows \ E /\ \A x \in D : x.t = "Clients"
    BY <2>1 DEF Left, In, Key
  <2>3. \A x \in rows : IsRow(x) BY DEF TableInv, RowsSound
  <2>4. \A S, x : x \in Via(S, D, Cascades) => FALSE
    <3> SUFFICES ASSUME NEW S, NEW x \in Via(S, D, Cascades) PROVE FALSE OBVIOUS
    <3>1. PICK col \in DOMAIN x.to : <<x.t, col>> \in Cascades /\ Parent[col] = "Clients"
      BY <2>2 DEF Via, Keys, Key
    <3> QED BY <3>1 DEF Cascades, Parent
  <2>5. Gone(L, D) = D BY <2>4 DEF Gone
  <2> HIDE DEF L
  <2>6. \A x \in L \ D : ~ Tight(x, Keys(D)) BY <1>2, <2>2, <2>3, <2>5, GoneRefs
  <2>7. Keys(E) \subseteq lock[r] BY DEF Keys
  <2> HIDE DEF D, E
  <2>8. \A x \in rows : x \in Via(rows, F, Cascades) => x \in F
    <3> SUFFICES ASSUME NEW x \in rows, x \in Via(rows, F, Cascades), x \notin E PROVE FALSE
      OBVIOUS
    <3>1. PICK col \in DOMAIN x.to : <<x.t, col>> \in Cascades /\ <<Parent[col], x.to[col]>> \in Keys(F)
      BY DEF Via
    <3>2. <<Parent[col], x.to[col]>> \in Keys(E)
      <4>1. <<Parent[col], x.to[col]>> \in Keys(D) => x \in Via(rows, D, Cascades)
        BY <3>1 DEF Via
      <4> QED BY <2>4, <3>1, <4>1, KeysOfUnion
    <3>3. <<x.t, col>> \notin Nullable BY <3>1 DEF Cascades, Nullable
    <3> QED BY <2>1, <2>2, <2>7, <3>2, <3>3 DEF Tight
  <2>9. F \subseteq rows BY DEF D, E, In
  <2>10. Gone(rows, F) = F
    <3>1. Via(rows, F, Cascades) \subseteq F BY <2>8 DEF Via
    <3>2. F \cup Via(rows, F, Cascades) = F BY <3>1
    <3> HIDE DEF F
    <3> QED BY <3>1, <3>2 DEF Gone
  <2>c. Keys(F) = Keys(D) \cup Keys(E) BY KeysOfUnion
  <2>11. ASSUME NEW x \in rows \ F
         PROVE  ~ Tight(x, Keys(F))
    <3>1. x \in L /\ x \notin D BY <2>2
    <3>2. ~ Tight(x, lock[r]) /\ ~ Tight(x, Keys(D)) BY <2>1, <2>6, <3>1
    <3> QED BY <2>7, <2>c, <3>2 DEF Tight
  <2> HIDE DEF F
  <2>a. pc[r] \in Loosening /\ \A x \in F : Removes(pc[r], x.t) BY <2>1 DEF Loosening, Removes
  <2>b. rows' = Without(rows, F) BY <1>2
  <2>12. RowsSound' /\ IndexesHold(rows)' /\ Effect(r)
    BY <2>9, <2>10, <2>11, <2>a, <2>b, WithoutOutcome
  <2> QED BY <1>2, <2>12, EndLocal DEF TableInv, Done, Outcome
<1> QED BY <1>1, <1>2 DEF DeleteClient

----------------------------------------------------------------------------
(* Steps *)

ShopStages == {"store", "editStore", "supplier", "editSupplier", "customer", "editCustomer",
               "employee", "hire", "signup", "mapping", "exclude", "include", "profile"}
InvoicingStages == {"business", "link", "editBusiness", "invoice", "editInvoice"}
TaxStages == {"tax", "editTax", "bundle", "replace", "assignments"}
DraftStages == {"draft", "clear", "items", "dropItems", "dropDraft"}
TenantStages == {"tenant", "users", "client", "statements"}

LEMMA ShopsAt ==
    \A r : StepShops(r) => pc[r] \in ShopStages /\ (pc[r] = "mapping" => MapUser(r))
  BY DEF StepShops, ShopStages, CreateStore, UpdateStore, DeleteStore, CreateSupplier, UpdateSupplier,
         DeleteSupplier, CreateCustomer, UpdateCustomer, SetEmployee, Hire, CreateUser, MapUser,
         AddExclusions, RemoveExclusions, UpdateMe

LEMMA InvoicingAt ==
    \A r : StepInvoicing(r) => pc[r] \in InvoicingStages /\ (pc[r] = "link" => LinkUser(r))
  BY DEF StepInvoicing, InvoicingStages, CreateBusiness, LinkUser, UpdateBusiness, CreateInvoice,
         UpdateInvoice, SoftDeleteInvoice

LEMMA TaxesAt == \A r : StepTaxes(r) => pc[r] \in TaxStages
  BY DEF StepTaxes, TaxStages, CreateTax, UpdateTax, DeleteTax, UpdateBundle, DeleteBundle,
         ReadAssignments, ReplaceAssignments

LEMMA DraftsAt == \A r : StepDrafts(r) => pc[r] \in DraftStages
  BY DEF StepDrafts, DraftStages, CreateDraft, ReadDraft, ClearDraft, FillDraft, DropItems, DropDraft

LEMMA TenantsAt == \A r : StepTenants(r) => pc[r] \in TenantStages
  BY DEF StepTenants, TenantStages, CreateTenant, UpdateUsers, UpdateClient, DeleteRows, DeleteClient

\* A request at work moves, and it ends once its business or its user is made.
LEMMA StepAt ==
    ASSUME TableInv, NEW r \in Requests, Step(r)
    PROVE  pc[r] \in Waits /\ (pc[r] \in {"link", "mapping"} => pc'[r] \in {"ok", "failed"})
<1>1. pc[r] \in Waits
  BY ShopsAt, InvoicingAt, TaxesAt, DraftsAt, TenantsAt
  DEF Step, Waits, ShopStages, InvoicingStages, TaxStages, DraftStages, TenantStages
<1>2. ASSUME pc[r] \in {"link", "mapping"} PROVE LinkUser(r) \/ MapUser(r)
  BY <1>2, ShopsAt, InvoicingAt, TaxesAt, DraftsAt, TenantsAt
  DEF Step, ShopStages, InvoicingStages, TaxStages, DraftStages, TenantStages
<1>3. ASSUME LinkUser(r) \/ MapUser(r) PROVE \E how \in {"ok", "failed"} : End(r, how)
  BY <1>3 DEF LinkUser, MapUser, Insert, InsertFails, Write, Fails
<1> QED BY <1>1, <1>2, <1>3, EndLocal DEF TableInv, Over

\* A transaction reads, or locks.
Passes(r, to) ==
    /\ UNCHANGED <<rows, call, raced, faults>> /\ pc' = [pc EXCEPT ![r] = to]
    /\ \A q \in Requests \ {r} : seen'[q] = seen[q] /\ lock'[q] = lock[q] /\ at'[q] = at[q]
    /\ DOMAIN seen' = Requests /\ DOMAIN lock' = Requests /\ DOMAIN at' = Requests

LEMMA PassesOutcome ==
    ASSUME TableInv, NEW r \in Requests, NEW to, Passes(r, to)
    PROVE  Outcome(r) /\ pc'[r] = to /\ call'[r] = call[r] /\ rows' = rows
<1>1. Local(r) /\ pc'[r] = to BY DEF Passes, Local, TableInv, StateFits
<1> QED BY <1>1, SameRows DEF Passes, Outcome, TableInv

Moves(r) ==
    /\ Outcome(r) /\ RequestFits(r)' /\ pc'[r] \in Waits
    /\ pc'[r] \in {"link", "mapping"} \/ rows' \subseteq rows
    /\ pc'[r] = "link" => pc[r] = "business"
    /\ pc'[r] = "mapping" => pc[r] = "signup"

LEMMA ReadAssignmentsMoves ==
    ASSUME TableInv, NEW r \in Requests, ReadAssignments(r)
    PROVE  Moves(r)
<1>1. /\ pc[r] = "replace" /\ Passes(r, "assignments") /\ seen'[r] = AssignmentsOf(call[r].rate)
      /\ lock'[r] = lock[r] /\ at'[r] = at[r]
  BY DEF ReadAssignments, Passes, Goto, TableInv, StateFits
<1>2. Outcome(r) /\ pc'[r] = "assignments" /\ call'[r] = call[r] /\ rows' = rows
  BY <1>1, PassesOutcome
<1>3. RequestFits(r) BY DEF TableInv
<1>4. \A x \in AssignmentsOf(call[r].rate) : IsRow(x) /\ x.t = "TaxAssignment"
  BY DEF AssignmentsOf, In, TableInv, RowsSound
<1>5. SeenFits(r, pc[r], call[r], seen[r])' BY <1>1, <1>2, <1>4 DEF SeenFits, Reads, Once
<1>6. call[r].rate \in Requests => pc'[call[r].rate] = "ok"
  <2>1. call[r].rate \in Requests => pc[call[r].rate] = "ok"
    BY <1>1, <1>3 DEF RequestFits, CallFits
  <2> QED BY <1>1, <2>1 DEF Passes, TableInv, StateFits
<1>7. CallFits(r, pc[r], call[r])' BY <1>1, <1>2, <1>3, <1>6 DEF RequestFits, CallFits, Op
<1>8. Unused(r)' /\ LockFits(r)' BY <1>1, <1>2, <1>3 DEF RequestFits, Unused, LockFits
<1> QED BY <1>2, <1>5, <1>7, <1>8 DEF Moves, RequestFits, Waits

LEMMA ReadDraftMoves ==
    ASSUME TableInv, NEW r \in Requests, ReadDraft(r)
    PROVE  Moves(r)
<1>1. /\ pc[r] = "draft" /\ Passes(r, "clear") /\ seen'[r] = ItemsOf(call[r].draft)
      /\ lock'[r] = lock[r] /\ at'[r] = at[r]
  BY DEF ReadDraft, Passes, Goto, TableInv, StateFits
<1>2. Outcome(r) /\ pc'[r] = "clear" /\ call'[r] = call[r] /\ rows' = rows
  BY <1>1, PassesOutcome
<1>3. RequestFits(r) BY DEF TableInv
<1>4. \A x \in ItemsOf(call[r].draft) : IsRow(x) /\ x.t = "SalesDraftItems"
  BY DEF ItemsOf, In, TableInv, RowsSound
<1>5. SeenFits(r, pc[r], call[r], seen[r])' BY <1>1, <1>2, <1>4 DEF SeenFits, Reads, Once
<1>6. CallFits(r, pc[r], call[r])' BY <1>1, <1>2, <1>3 DEF RequestFits, CallFits, Op
<1>7. Unused(r)' /\ LockFits(r)' BY <1>1, <1>2, <1>3 DEF RequestFits, Unused, LockFits
<1> QED BY <1>2, <1>5, <1>6, <1>7 DEF Moves, RequestFits, Waits

LEMMA ClearDraftMoves ==
    ASSUME TableInv, NEW r \in Requests, ClearDraft(r)
    PROVE  Moves(r)
<1>1. /\ pc[r] = "clear" /\ Passes(r, "items") /\ seen'[r] = seen[r]
      /\ lock'[r] = Keys(seen[r] \cap rows) /\ at'[r] = at[r]
  BY DEF ClearDraft, Passes, Goto, TableInv, StateFits
<1>2. Outcome(r) /\ pc'[r] = "items" /\ call'[r] = call[r] /\ rows' = rows
  BY <1>1, PassesOutcome
<1>3. RequestFits(r) BY DEF TableInv
<1>4. \A x \in seen[r] : IsRow(x) /\ x.t = "SalesDraftItems"
  BY <1>1, <1>3 DEF RequestFits, SeenFits, Reads
<1>5. SeenFits(r, pc[r], call[r], seen[r])' BY <1>1, <1>2, <1>4 DEF SeenFits, Reads, Once
<1>6. CallFits(r, pc[r], call[r])' BY <1>1, <1>2, <1>3 DEF RequestFits, CallFits, Op
<1>7. \A k \in lock'[r] : k[2] # None /\ k[1] = "SalesDraftItems"
  BY <1>1, <1>4 DEF Keys, Key, IsRow
<1>8. Unused(r)' /\ LockFits(r)' BY <1>1, <1>2, <1>3, <1>7 DEF RequestFits, Unused, LockFits
<1> QED BY <1>2, <1>5, <1>6, <1>8 DEF Moves, RequestFits, Waits

LEMMA DropItemsMoves ==
    ASSUME TableInv, NEW r \in Requests, DropItems(r)
    PROVE  Moves(r)
<1>1. /\ pc[r] = "dropItems" /\ pc'[r] = "dropDraft" /\ seen'[r] = seen[r] /\ call'[r] = call[r]
      /\ lock'[r] = lock[r] /\ at'[r] = at[r] /\ rows' \subseteq rows
  BY DEF DropItems, Goto, TableInv, StateFits
<1>2. RequestFits(r) BY DEF TableInv
<1>3. SeenFits(r, pc[r], call[r], seen[r])' /\ CallFits(r, pc[r], call[r])'
  BY <1>1, <1>2 DEF RequestFits, SeenFits, CallFits, Reads, Once, Op
<1>4. Unused(r)' /\ LockFits(r)' BY <1>1, <1>2 DEF RequestFits, Unused, LockFits
<1> QED BY <1>1, <1>3, <1>4, ItemsDropped DEF Moves, RequestFits, Waits

LEMMA UpdateUsersMoves ==
    ASSUME TableInv, NEW r \in Requests, UpdateUsers(r)
    PROVE  Moves(r)
<1> DEFINE K == Keys({x \in UsersOf(call[r].client) : x.on # call[r].on})
<1>1. /\ pc[r] = "users" /\ Passes(r, "client") /\ seen'[r] = seen[r]
      /\ lock'[r] = K /\ at'[r] = at[r]
  BY DEF UpdateUsers, Passes, Goto, TableInv, StateFits
<1>2. Outcome(r) /\ pc'[r] = "client" /\ call'[r] = call[r] /\ rows' = rows
  BY <1>1, PassesOutcome
<1>3. RequestFits(r) BY DEF TableInv
<1>4. SeenFits(r, pc[r], call[r], seen[r])' /\ CallFits(r, pc[r], call[r])'
  BY <1>1, <1>2, <1>3 DEF RequestFits, SeenFits, CallFits, Reads, Once, Op
<1>5. \A x \in UsersOf(call[r].client) : x \in rows /\ x.t = "Users" /\ x.to["clientId"] = call[r].client
  BY DEF UsersOf, RefersTo, In
<1>6. \A k \in K : k[2] # None /\ k[1] = "Users"
  BY <1>5 DEF Keys, Key, TableInv, RowsSound, IsRow
<1>7. \A x \in In("Users", rows) : Key(x) \in K => x.to["clientId"] = call[r].client
  <2> SUFFICES ASSUME NEW x \in rows, Key(x) \in K PROVE x.to["clientId"] = call[r].client
    BY DEF In
  <2>1. PICK y \in UsersOf(call[r].client) : Key(x) = Key(y) BY DEF Keys
  <2> QED BY <1>5, <2>1 DEF TableInv, RowsSound, KeysHold
<1>9. \A k \in K : k[2] \in Requests => pc'[k[2]] \in Made("Users")
  <2>1. \A x \in rows : x.t = "Users" /\ x.id \in Requests => pc[x.id] \in Made("Users")
    BY DEF TableInv, MadeBy
  <2>2. pc[r] \notin Made("Users") BY <1>1 DEF Made
  <2>3. \A k \in K : k[2] \in Requests => pc[k[2]] \in Made("Users")
    BY <1>5, <2>1 DEF Keys, Key
  <2> QED BY <1>1, <2>2, <2>3 DEF Passes, TableInv, StateFits
<1> HIDE DEF K
<1>8. Unused(r)' /\ LockFits(r)'
  BY <1>1, <1>2, <1>3, <1>6, <1>7, <1>9 DEF RequestFits, Unused, LockFits, In
<1> QED BY <1>2, <1>4, <1>8 DEF Moves, RequestFits, Waits

LEMMA CreateBusinessMoves ==
    ASSUME TableInv, NEW r \in Requests, CreateBusiness(r), pc'[r] = "link"
    PROVE  Moves(r)
<1>1. /\ pc[r] = "business" /\ Outcome(r) /\ seen'[r] = seen[r] /\ lock'[r] = lock[r]
      /\ at'[r] = at[r] /\ call'[r] = call[r]
  BY BusinessMade DEF CreateBusiness, Outcome, Local
<1>2. RequestFits(r) BY DEF TableInv
<1>3. SeenFits(r, pc[r], call[r], seen[r])' /\ CallFits(r, pc[r], call[r])'
  BY <1>1, <1>2 DEF RequestFits, SeenFits, CallFits, Reads, Once, Op
<1>4. Unused(r)' /\ LockFits(r)' BY <1>1, <1>2 DEF RequestFits, Unused, LockFits
<1> QED BY <1>1, <1>3, <1>4 DEF Moves, RequestFits, Waits

LEMMA CreateUserMoves ==
    ASSUME TableInv, NEW r \in Requests, CreateUser(r), pc'[r] = "mapping"
    PROVE  Moves(r)
<1>1. ~ Fails(r)
  <2> SUFFICES ASSUME Fails(r) PROVE FALSE OBVIOUS
  <2> QED BY EndLocal DEF Fails, TableInv, Over
<1>2. ASSUME End(r, "ok") PROVE FALSE BY <1>2, EndLocal DEF TableInv, Over
<1>3. /\ pc[r] = "signup" /\ Is(r, "accept") /\ Goto(r, "mapping")
      /\ UNCHANGED <<call, seen, lock, at, raced, faults>>
  BY <1>1, <1>2 DEF CreateUser
<1>4. Local(r) BY <1>3 DEF Goto, Local, TableInv, StateFits
<1>5. RequestFits(r) BY DEF TableInv
<1>6. call[r].op = "accept" /\ call[r].store # None /\ call[r].client # None
  BY <1>3, <1>5 DEF Is, RequestFits, CallFits
<1>7. SeenFits(r, pc[r], call[r], seen[r])' BY <1>3, <1>5 DEF RequestFits, SeenFits, Reads, Once
<1>8. CallFits(r, pc[r], call[r])' BY <1>3, <1>6 DEF CallFits, Op
<1>9. Unused(r)' /\ LockFits(r)' BY <1>3, <1>5 DEF RequestFits, Unused, LockFits
<1>10. Outcome(r) BY <1>1, <1>4, UserMade DEF Outcome
<1> QED BY <1>3, <1>7, <1>8, <1>9, <1>10 DEF Moves, RequestFits, Waits

LEMMA DeleteRowsMoves ==
    ASSUME TableInv, NEW r \in Requests, DeleteRows(r)
    PROVE  Done(r) \/ Moves(r)
<1>1. pc[r] = "statements" /\ rows' = rows BY DEF DeleteRows, Fails
<1>2. pc' = pc => pc'[r] = "statements" BY <1>1
<1> QED BY <1>1, <1>2, RowsDeleted DEF Moves, Waits

\* A step ends a request or moves it on.
LEMMA StepKinds ==
    ASSUME TableInv, NEW r \in Requests, Step(r)
    PROVE  Done(r) \/ Moves(r)
<1>1. CASE StepShops(r) BY <1>1, StepShopsKinds, CreateUserMoves
<1>2. CASE StepInvoicing(r) BY <1>2, StepInvoicingKinds, CreateBusinessMoves
<1>3. CASE StepTaxes(r) BY <1>3, StepTaxesKinds, ReadAssignmentsMoves
<1>4. CASE StepDrafts(r)
  BY <1>4, StepDraftsKinds, ReadDraftMoves, ClearDraftMoves, DropItemsMoves
<1>5. CASE StepTenants(r)
  BY <1>5, CreateTenantDone, UpdateUsersMoves, UpdateClientDone, DeleteRowsMoves, DeleteClientDone
  DEF StepTenants
<1> QED BY <1>1, <1>2, <1>3, <1>4, <1>5 DEF Step

LEMMA OverFits ==
    ASSUME NEW r, NEW how \in Ended, Over(r, how)
    PROVE  RequestFits(r)'
  BY DEF Over, RequestFits, Ended, Unused, LockFits, SeenFits, CallFits, Reads, Once, Op

LEMMA StepKeeps ==
    ASSUME TableInv, NEW r \in Requests, Step(r)
    PROVE  TableInv' /\ Outcome(r)
<1>1. Outcome(r) /\ RequestFits(r)' BY StepKinds, OverFits DEF Done, Moves, Ended
<1>2. /\ pc[r] \notin {"ok", "refused", "failed", "idle"}
      /\ pc[r] \in {"link", "mapping"} => pc'[r] \in {"ok", "failed"}
  BY StepAt DEF Waits
<1>3. /\ pc'[r] \in {"ok", "link", "mapping"} \/ \A y \in rows' : ~ IsNew(r, y)
      /\ pc'[r] = "link" => pc[r] = "business"
      /\ pc'[r] = "mapping" => pc[r] = "signup"
  <2>1. \A y \in rows : ~ IsNew(r, y) BY DEF IsNew, Keys
  <2>2. CASE Done(r) BY <2>1, <2>2 DEF Done, Over
  <2>3. CASE Moves(r) BY <2>1, <2>3 DEF Moves
  <2> QED BY <2>2, <2>3, StepKinds
<1>4. \A q \in Requests : RequestFits(q)' BY <1>1, <1>2, OthersFit DEF Outcome
<1>5. \A y \in rows' : MadeBy(y)' BY <1>1, <1>2, <1>3, StillMade DEF Outcome
<1>6. StateFits' BY <1>1 DEF Outcome, Local, StateFits, TableInv
<1> QED BY <1>1, <1>4, <1>5, <1>6 DEF TableInv, Outcome

\* Requests that are lost leave the tables as they are.
LEMMA LostKeeps ==
    ASSUME TableInv, NEW S, \A r \in S : r \in Requests /\ InFlight(r), Lost(S)
    PROVE  TableInv'
<1>1. /\ rows' = rows /\ call' = call /\ raced' = raced /\ faults' \in 0..MaxFaults
      /\ DOMAIN pc' = Requests /\ DOMAIN seen' = Requests /\ DOMAIN lock' = Requests
      /\ DOMAIN at' = Requests
      /\ \A r \in S : Over(r, "failed")
      /\ \A r \in Requests \ S :
           pc'[r] = pc[r] /\ seen'[r] = seen[r] /\ lock'[r] = lock[r] /\ at'[r] = at[r]
  BY OfficeAssumption DEF Lost, Over, TableInv, StateFits
<1>2. \A r \in S : pc[r] \notin {"ok", "idle"} BY DEF InFlight, Ended
<1>3. ASSUME NEW r \in Requests PROVE RequestFits(r)'
  <2>1. CASE r \in S BY <1>1, <2>1, OverFits DEF Ended
  <2>2. CASE r \notin S
    <3>1. RequestFits(r) /\ pc'[r] = pc[r] /\ seen'[r] = seen[r] /\ lock'[r] = lock[r] /\ at'[r] = at[r]
      BY <1>1, <2>2 DEF TableInv
    <3>2. Unused(r)' /\ SeenFits(r, pc[r], call[r], seen[r])'
      BY <1>1, <3>1 DEF RequestFits, Unused, SeenFits
    <3>3. CallFits(r, pc[r], call[r])'
      <4>1. ASSUME pc[r] \in {"replace", "assignments"}, call[r].rate \in Requests
            PROVE  pc'[call[r].rate] = "ok"
        BY <1>1, <1>2, <3>1, <4>1 DEF RequestFits, CallFits
      <4> QED BY <1>1, <3>1, <4>1 DEF RequestFits, CallFits
    <3>5. \A q \in Requests : pc[q] \in Made("Users") => pc'[q] \in Made("Users")
      BY <1>1 DEF Made, Over
    <3>4. LockFits(r)' BY <1>1, <3>1, <3>5 DEF RequestFits, LockFits, Left
    <3> QED BY <3>1, <3>2, <3>3, <3>4 DEF RequestFits
  <2> QED BY <2>1, <2>2
<1>4. ASSUME NEW x \in rows PROVE MadeBy(x)'
  <2>1. MadeBy(x) /\ (x.id \in S => pc'[x.id] = "failed") BY <1>1 DEF TableInv, Over
  <2> QED BY <1>1, <1>2, <2>1 DEF MadeBy, Made, Is
<1>5. RowsSound' /\ IndexesHold(rows)' /\ StateFits'
  BY <1>1 DEF TableInv, RowsSound, StateFits
<1> QED BY <1>1, <1>3, <1>4, <1>5 DEF TableInv

LEMMA InitTables ==
    ASSUME Init
    PROVE  TableInv
<1>1. RowsSound /\ IndexesHold(rows) /\ \A x \in rows : x.id \notin Requests
  BY SeedAssumption DEF Init, RowsSound
<1>2. StateFits BY OfficeAssumption DEF Init, StateFits
<1>3. ASSUME NEW r \in Requests PROVE RequestFits(r)
  BY DEF Init, RequestFits, Unused, LockFits, SeenFits, CallFits, Reads, Once, Op
<1> QED BY <1>1, <1>2, <1>3 DEF TableInv, MadeBy

LEMMA NextTables ==
    ASSUME TableInv, [Next]_vars
    PROVE  TableInv'
<1>1. ASSUME NEW r \in Requests, Receive(r) PROVE TableInv' BY <1>1, ReceiveKeeps
<1>2. ASSUME NEW r \in Requests, Step(r) PROVE TableInv' BY <1>2, StepKeeps
<1>3. ASSUME NEW r \in Requests, Fault(r) PROVE TableInv' BY <1>3, LostKeeps DEF Fault
<1>4. CASE Crash BY <1>4, LostKeeps DEF Crash
<1>5. CASE UNCHANGED vars
  BY <1>5 DEF vars, TableInv, RowsSound, StateFits, MadeBy, Is, RequestFits, Unused, SeenFits,
              CallFits, LockFits, Left
<1> QED BY <1>1, <1>2, <1>3, <1>4, <1>5 DEF Next, Finished

----------------------------------------------------------------------------
(* The type *)

LEMMA KeysCount ==
    ASSUME RowsSound
    PROVE  Cardinality(Keys(rows)) = Cardinality(rows)
<1> DEFINE f == [x \in rows |-> Key(x)]
<1>1. f \in Bijection(rows, Keys(rows))
  <2>1. f \in [rows -> Keys(rows)] BY DEF Keys
  <2>2. IsInjective(f) BY DEF IsInjective, RowsSound, KeysHold
  <2>3. \A k \in Keys(rows) : \E x \in rows : f[x] = k BY DEF Keys
  <2> QED BY <2>1, <2>2, <2>3 DEF Bijection, Injection, Surjection
<1>2. IsFiniteSet(rows) /\ ExistsBijection(rows, Keys(rows))
  BY <1>1 DEF ExistsBijection, RowsSound
<1> QED BY <1>2, FS_Bijection

LEMMA TablesType ==
    ASSUME TableInv
    PROVE  TypeOK
<1>1. \A x \in In("Users", rows) : x.out \subseteq Features
  BY DEF In, TableInv, RowsSound, IsRow
<1>2. ASSUME NEW r \in Requests, ~ InFlight(r)
      PROVE  lock[r] = {} /\ seen[r] = {} /\ at[r] = 0
  BY <1>2 DEF TableInv, RequestFits, Unused, SeenFits, InFlight, Ended, Reads
<1> QED BY <1>1, <1>2, KeysCount DEF TableInv, RowsSound, StateFits, TypeOK

\* The state has its type: the tables respect their keys, foreign keys and unique
\* indexes whatever requests are at work together, and what is over holds no lock.
THEOREM OfficeTypeCorrect == Spec => []TypeOK
<1>1. Init => TableInv BY InitTables
<1>2. TableInv /\ [Next]_vars => TableInv' BY NextTables
<1>3. TableInv => TypeOK BY TablesType
<1> QED BY <1>1, <1>2, <1>3, PTL DEF Spec

----------------------------------------------------------------------------
(* What has happened stays *)

History ==
    /\ \A q, r \in Requests : InFlight(q) /\ InFlight(r) /\ q # r => Met(q, r)
    /\ \A r \in Requests : pc[r] = "idle" => call[r] = NoCall

\* What a step may not change.
Past ==
    /\ raced \subseteq raced'
    /\ \A q \in Requests :
         /\ pc[q] # "idle" => call'[q] = call[q] /\ pc'[q] # "idle"
         /\ pc[q] \in Ended => pc'[q] = pc[q]

\* What a request has found out when it is received.
Starts == Waits \ {"link", "assignments", "clear", "items", "client", "mapping"}

\* The sale an invoice is for, and its number.
NumberFor(c, S) ==
    \E x \in rows : In("Sales", S) = {x} /\ x.t = "Sales" /\ c.no = GenerateInvoiceNumber(x.to["storeId"])

AsksAt(c, S, to) ==
    /\ to \in Starts
    /\ to = "business" => c.user \in Ids("Users", rows) /\ c.client = ClientOf(c.user)
    /\ to = "supplier" => \E s : S = {Get("Stores", s)} /\ ActiveStore(s)
    /\ (to = "editSupplier" /\ c.op = "updateSupplier") =>
         /\ ActiveSupplier(c.supplier)
         /\ ~ RefersTo(Get("Suppliers", c.supplier), "storeId", c.store) => ActiveStore(c.store)
    /\ to \in {"exclude", "include"} => S = {Get("Users", c.user)} /\ Has("Users", c.user)
    /\ to = "invoice" => NumberFor(c, S)
    /\ to = "statements" => S = ActiveData(c.client) /\ Has("Clients", c.client)

Accepted(r) == Refuse(r) \/ \E c, S, to : Begin(r, c, S, to) /\ AsksAt(c, S, to)

LEMMA ShopsReceived ==
    ASSUME TableInv, NEW r \in Requests, ReceiveShops(r)
    PROVE  Accepted(r)
<1>1. ASSUME NEW u, BeginCreateStore(r, u) PROVE Accepted(r)
  BY <1>1 DEF BeginCreateStore, Check, Accepted, AsksAt, Starts, Waits
<1>2. ASSUME NEW u, BeginUpdateMe(r, u) PROVE Accepted(r)
  BY <1>2 DEF BeginUpdateMe, Check, Accepted, AsksAt, Starts, Waits
<1>3. ASSUME NEW u, NEW on, BeginEmployee(r, u, on) PROVE Accepted(r)
  BY <1>3 DEF BeginEmployee, Check, Accepted, AsksAt, Starts, Waits
<1>4. ASSUME NEW u, NEW F, NEW op \in {"exclude", "include"}, BeginExclusions(r, op, u, F)
      PROVE  Accepted(r)
  BY <1>4 DEF BeginExclusions, Check, Accepted, AsksAt, Starts, Waits
<1>5. ASSUME NEW s, NEW op, BeginEditStore(r, op, s) PROVE Accepted(r)
  BY <1>5 DEF BeginEditStore, Check, Accepted, AsksAt, Starts, Waits
<1>6. ASSUME NEW s, BeginCreateSupplier(r, s) PROVE Accepted(r)
  BY <1>6 DEF BeginCreateSupplier, ValidateStoreAccess, Check, Accepted, AsksAt, Starts, Waits
<1>7. ASSUME NEW s, NEW n, BeginCreateCustomer(r, s, n) PROVE Accepted(r)
  BY <1>7 DEF BeginCreateCustomer, Check, Accepted, AsksAt, Starts, Waits
<1>8. ASSUME NEW k, NEW n, BeginUpdateCustomer(r, k, n) PROVE Accepted(r)
  BY <1>8 DEF BeginUpdateCustomer, Check, Accepted, AsksAt, Starts, Waits
<1>9. ASSUME NEW p, NEW s, BeginUpdateSupplier(r, p, s) PROVE Accepted(r)
  BY <1>9 DEF BeginUpdateSupplier, ValidateStoreAccess, Check, Accepted, AsksAt, Starts, Waits
<1>10. ASSUME NEW p, BeginDeleteSupplier(r, p) PROVE Accepted(r)
  BY <1>10 DEF BeginDeleteSupplier, Check, Accepted, AsksAt, Starts, Waits
<1>11. ASSUME NEW u, NEW m, NEW s, NEW on, BeginHire(r, u, m, s, on) PROVE Accepted(r)
  BY <1>11 DEF BeginHire, Check, Accepted, AsksAt, Starts, Waits
<1>12. ASSUME NEW c, BeginSignup(r, c) PROVE Accepted(r)
  BY <1>12 DEF BeginSignup, Check, Accepted, AsksAt, Starts, Waits
<1>13. ASSUME NEW i, BeginAccept(r, i) PROVE Accepted(r)
  BY <1>13 DEF BeginAccept, Check, Accepted, AsksAt, Starts, Waits
<1> QED
  BY <1>1, <1>2, <1>3, <1>4, <1>5, <1>6, <1>7, <1>8, <1>9, <1>10, <1>11, <1>12, <1>13
  DEF ReceiveShops

LEMMA InvoicingReceived ==
    ASSUME TableInv, NEW r \in Requests, ReceiveInvoicing(r)
    PROVE  Accepted(r)
<1>1. ASSUME NEW u \in Ids("Users", rows), BeginSetBusiness(r, u) PROVE Accepted(r)
  BY <1>1 DEF BeginSetBusiness, Check, Accepted, AsksAt, Starts, Waits
<1>2. ASSUME NEW u, BeginUpdateBusiness(r, u) PROVE Accepted(r)
  BY <1>2 DEF BeginUpdateBusiness, Check, Accepted, AsksAt, Starts, Waits
<1>3. ASSUME NEW u \in Ids("Users", rows), NEW s \in Ids("Sales", rows), BeginInvoice(r, u, s)
      PROVE  Accepted(r)
  <2> DEFINE user == Get("Users", u)
             sale == Get("Sales", s)
  <2>1. user.t = "Users" /\ sale \in rows /\ sale.t = "Sales" BY RowFor
  <2>2. In("Sales", {user, sale}) = {sale} BY <2>1 DEF In
  <2>3. ASSUME NEW c, c.no = GenerateInvoiceNumber(sale.to["storeId"])
        PROVE  AsksAt(c, {user, sale}, "invoice")
    BY <2>1, <2>2, <2>3 DEF NumberFor, AsksAt, Starts, Waits
  <2> QED BY <1>3, <2>3 DEF BeginInvoice, Check, Accepted
<1>4. ASSUME NEW op, NEW i, BeginEditInvoice(r, op, i) PROVE Accepted(r)
  BY <1>4 DEF BeginEditInvoice, Check, Accepted, AsksAt, Starts, Waits
<1>5. \A c : Own(c, "Sales") \subseteq Ids("Sales", rows) BY DEF Own, Ids
<1> QED BY <1>1, <1>2, <1>3, <1>4, <1>5 DEF ReceiveInvoicing

LEMMA TaxesReceived ==
    ASSUME TableInv, NEW r \in Requests, ReceiveTaxes(r)
    PROVE  Accepted(r)
<1>1. ASSUME NEW x, BeginCreateTax(r, x) PROVE Accepted(r)
  BY <1>1 DEF BeginCreateTax, Accepted, AsksAt, Starts, Waits
<1>2. ASSUME NEW c, NEW name, NEW code, NEW type, NEW g,
             BeginCreateBundle(r, c, name, code, type, g)
      PROVE  Accepted(r)
  BY <1>2 DEF BeginCreateBundle, Check, Accepted, AsksAt, Starts, Waits
<1>3. ASSUME NEW op, NEW t, NEW id, NEW n, NEW col, NEW ref, BeginEditTax(r, op, t, id, n, col, ref)
      PROVE  Accepted(r)
  BY <1>3 DEF BeginEditTax, Check, Accepted, AsksAt, Starts, Waits
<1>4. ASSUME NEW op, NEW k, NEW rate, NEW type, BeginBundle(r, op, k, rate, type) PROVE Accepted(r)
  BY <1>4 DEF BeginBundle, Check, Accepted, AsksAt, Starts, Waits
<1>5. ASSUME NEW rate, NEW e, BeginAssign(r, rate, e) PROVE Accepted(r)
  BY <1>5 DEF BeginAssign, Accepted, AsksAt, Starts, Waits
<1>6. ASSUME NEW rate, NEW e, BeginReplace(r, rate, e) PROVE Accepted(r)
  BY <1>6 DEF BeginReplace, Accepted, AsksAt, Starts, Waits
<1> QED BY <1>1, <1>2, <1>3, <1>4, <1>5, <1>6 DEF ReceiveTaxes

LEMMA DraftsReceived ==
    ASSUME TableInv, NEW r \in Requests, ReceiveDrafts(r)
    PROVE  Accepted(r)
<1>1. ASSUME NEW u, NEW s, NEW d, BeginSaveDraft(r, u, s, d) PROVE Accepted(r)
  BY <1>1 DEF BeginSaveDraft, Accepted, AsksAt, Starts, Waits
<1>2. ASSUME NEW d, BeginDeleteDraft(r, d) PROVE Accepted(r)
  BY <1>2 DEF BeginDeleteDraft, Check, Accepted, AsksAt, Starts, Waits
<1> QED BY <1>1, <1>2 DEF ReceiveDrafts

LEMMA TenantsReceived ==
    ASSUME TableInv, NEW r \in Requests, ReceiveTenants(r)
    PROVE  Accepted(r)
<1>1. ASSUME NEW e, BeginCreateTenant(r, e) PROVE Accepted(r)
  BY <1>1 DEF BeginCreateTenant, Check, Accepted, AsksAt, Starts, Waits
<1>2. ASSUME NEW c, NEW on, BeginTenantStatus(r, c, on) PROVE Accepted(r)
  BY <1>2 DEF BeginTenantStatus, Check, Accepted, AsksAt, Starts, Waits
<1>3. ASSUME NEW c, BeginDeleteTenant(r, c) PROVE Accepted(r)
  BY <1>3 DEF BeginDeleteTenant, Check, Accepted, AsksAt, Starts, Waits
<1> QED BY <1>1, <1>2, <1>3 DEF ReceiveTenants, BeginDeleteTenantSafe, Accepted

LEMMA ReceiveIs ==
    ASSUME TableInv, NEW r \in Requests, Receive(r)
    PROVE  Accepted(r)
  BY ShopsReceived, InvoicingReceived, TaxesReceived, DraftsReceived, TenantsReceived DEF Receive

LEMMA BeginPast ==
    ASSUME TableInv, NEW r \in Requests, NEW c, NEW S, NEW to, Begin(r, c, S, to), AsksAt(c, S, to)
    PROVE  /\ Past /\ pc'[r] = to /\ call'[r] = c /\ seen'[r] = S /\ rows' = rows
           /\ \A q \in Requests \ {r} : pc'[q] = pc[q] /\ call'[q] = call[q] /\ seen'[q] = seen[q]
           /\ lock' = lock /\ at' = at /\ pc[r] = "idle" /\ InFlight(r)'
           /\ \A q \in Requests : InFlight(q) => {q, r} \in raced'
  BY DEF Begin, Goto, TableInv, StateFits, Past, Ended, AsksAt, Starts, Waits, InFlight

LEMMA RefusePast ==
    ASSUME TableInv, NEW r \in Requests, Refuse(r)
    PROVE  /\ Past /\ pc[r] = "idle" /\ pc'[r] = "refused" /\ UNCHANGED <<rows, call, seen, lock, at, raced>>
           /\ \A q \in Requests \ {r} : pc'[q] = pc[q]
  BY DEF Refuse, Goto, TableInv, StateFits, Past, Ended

LEMMA StepPast ==
    ASSUME TableInv, NEW r \in Requests, Step(r)
    PROVE  /\ Past /\ InFlight(r) /\ call' = call /\ raced' = raced
           /\ \A q \in Requests \ {r} :
                pc'[q] = pc[q] /\ seen'[q] = seen[q] /\ lock'[q] = lock[q]
<1>1. Local(r) /\ pc[r] \in Waits BY StepKeeps, StepAt DEF Outcome
<1>2. InFlight(r) BY <1>1 DEF InFlight, Waits, Ended
<1>3. pc'[r] # "idle" BY StepKinds DEF Done, Over, Moves, Waits
<1> QED BY <1>1, <1>2, <1>3 DEF Past, Local, InFlight

LEMMA LostPast ==
    ASSUME TableInv, NEW S, \A r \in S : r \in Requests /\ InFlight(r), Lost(S)
    PROVE  /\ Past /\ UNCHANGED <<rows, call, raced>>
           /\ \A q \in Requests : pc'[q] = "failed" \/
                (pc'[q] = pc[q] /\ seen'[q] = seen[q] /\ lock'[q] = lock[q] /\ at'[q] = at[q])
  BY DEF Lost, Past, InFlight, Ended

----------------------------------------------------------------------------
(* Which steps there are *)

\* A step of the specification that is none of a request at work.
Quiet ==
    /\ rows' = rows /\ Past
    /\ \A q \in Requests :
         \/ /\ pc'[q] = pc[q] /\ call'[q] = call[q] /\ seen'[q] = seen[q] /\ lock'[q] = lock[q]
            /\ at'[q] = at[q]
         \/ pc'[q] = "failed" \/ (pc'[q] = "refused" /\ pc[q] = "idle")
         \/ /\ pc[q] = "idle" /\ pc'[q] \in Starts /\ AsksAt(call'[q], seen'[q], pc'[q])
            /\ at'[q] = at[q]

LEMMA NextIs ==
    ASSUME TableInv, [Next]_vars
    PROVE  Quiet \/ \E r \in Requests : Step(r)
<1>1. ASSUME NEW r \in Requests, Receive(r) PROVE Quiet
  <2>1. ASSUME Refuse(r) PROVE Quiet BY <2>1, RefusePast DEF Quiet
  <2>2. ASSUME NEW c, NEW S, NEW to, Begin(r, c, S, to), AsksAt(c, S, to) PROVE Quiet
    BY <2>2, BeginPast DEF Quiet, AsksAt
  <2> QED BY <1>1, <2>1, <2>2, ReceiveIs DEF Accepted
<1>2. ASSUME NEW S, \A r \in S : r \in Requests /\ InFlight(r), Lost(S) PROVE Quiet
  BY <1>2, LostPast DEF Quiet
<1>3. ASSUME NEW r \in Requests, Fault(r) PROVE Quiet BY <1>2, <1>3 DEF Fault
<1>4. CASE Crash BY <1>2, <1>4 DEF Crash
<1>5. CASE UNCHANGED vars BY <1>5 DEF vars, Quiet, Past
<1> QED BY <1>1, <1>3, <1>4, <1>5 DEF Next, Finished

LEMMA HistoryKeeps ==
    ASSUME TableInv, History, [Next]_vars
    PROVE  History'
<1>1. ASSUME NEW r \in Requests, Step(r) PROVE History'
  <2>1. \A q \in Requests : InFlight(q)' => InFlight(q) BY <1>1, StepPast DEF InFlight
  <2>2. \A q \in Requests : pc'[q] = "idle" => pc[q] = "idle" /\ call'[q] = call[q]
    BY <1>1, StepPast DEF Past
  <2> QED BY <1>1, <2>1, <2>2, StepPast DEF History, Met
<1>2. ASSUME NEW r \in Requests, Receive(r) PROVE History'
  <2>1. ASSUME Refuse(r) PROVE History' BY <2>1, RefusePast DEF History, Met, InFlight, Ended
  <2>2. ASSUME NEW c, NEW S, NEW to, Begin(r, c, S, to), AsksAt(c, S, to) PROVE History'
    <3>1. /\ Past /\ pc'[r] # "idle" /\ \A q \in Requests : InFlight(q) => {q, r} \in raced'
          /\ \A q \in Requests \ {r} : pc'[q] = pc[q] /\ call'[q] = call[q]
      BY <2>2, BeginPast DEF AsksAt, Starts, Waits
    <3>2. ASSUME NEW p \in Requests, NEW q \in Requests, InFlight(p)', InFlight(q)', p # q
          PROVE  {p, q} \in raced'
      <4>1. CASE p # r /\ q # r BY <3>1, <3>2, <4>1 DEF InFlight, History, Met, Past
      <4>2. CASE p = r
        <5>1. {q, p} \in raced' /\ {q, p} = {p, q} BY <3>1, <3>2, <4>2 DEF InFlight
        <5> QED BY <5>1
      <4>3. CASE q = r /\ p # r BY <3>1, <3>2, <4>3 DEF InFlight
      <4> QED BY <4>1, <4>2, <4>3
    <3>3. ASSUME NEW q \in Requests, pc'[q] = "idle" PROVE call'[q] = NoCall
      BY <3>1, <3>3 DEF History
    <3> QED BY <3>2, <3>3 DEF History, Met, NoCall
  <2> QED BY <1>2, <2>1, <2>2, ReceiveIs DEF Accepted
<1>3. ASSUME NEW S, \A r \in S : r \in Requests /\ InFlight(r), Lost(S) PROVE History'
  <2>1. \A q \in Requests : InFlight(q)' => InFlight(q) BY <1>3, LostPast DEF InFlight, Ended
  <2>2. \A q \in Requests : pc'[q] = "idle" => pc[q] = "idle" BY <1>3, LostPast
  <2> QED BY <1>3, <2>1, <2>2, LostPast DEF History, Met, NoCall
<1>4. CASE UNCHANGED vars BY <1>4 DEF vars, History, InFlight, Met, NoCall
<1> QED BY <1>1, <1>2, <1>3, <1>4 DEF Next, Fault, Crash, Finished

LEMMA InitHistory ==
    ASSUME Init
    PROVE  History
  BY DEF Init, History, InFlight, Ended

\* A row after a step was there before or is new.
LEMMA Carried ==
    ASSUME TableInv, NEW r \in Requests, Step(r), NEW y \in rows'
    PROVE  IsNew(r, y) \/ \E x \in rows : RowMoves(pc[r], x, y)
  BY StepKeeps DEF Outcome, Effect

LEMMA ShopsStepIs ==
    ASSUME NEW r, StepShops(r)
    PROVE  /\ pc[r] = "store" => CreateStore(r)
           /\ pc[r] = "customer" => CreateCustomer(r)
           /\ pc[r] = "editStore" => UpdateStore(r) \/ DeleteStore(r)
           /\ pc[r] = "supplier" => CreateSupplier(r)
           /\ pc[r] = "editSupplier" => UpdateSupplier(r) \/ DeleteSupplier(r)
           /\ pc[r] = "employee" => SetEmployee(r)
           /\ pc[r] = "hire" => Hire(r)
           /\ pc[r] = "signup" => CreateUser(r)
           /\ pc[r] = "mapping" => MapUser(r)
           /\ pc[r] = "exclude" => AddExclusions(r)
           /\ pc[r] = "include" => RemoveExclusions(r)
  BY DEF StepShops, CreateStore, UpdateStore, DeleteStore, CreateSupplier, UpdateSupplier,
         DeleteSupplier, CreateCustomer, UpdateCustomer, SetEmployee, Hire, CreateUser, MapUser,
         AddExclusions, RemoveExclusions, UpdateMe

LEMMA InvoicingStepIs ==
    ASSUME NEW r, StepInvoicing(r)
    PROVE  /\ pc[r] = "business" => CreateBusiness(r)
           /\ pc[r] = "link" => LinkUser(r)
           /\ pc[r] = "invoice" => CreateInvoice(r)
  BY DEF StepInvoicing, CreateBusiness, LinkUser, UpdateBusiness, CreateInvoice, UpdateInvoice,
         SoftDeleteInvoice

LEMMA TaxesStepIs ==
    ASSUME NEW r, StepTaxes(r)
    PROVE  /\ pc[r] = "tax" => CreateTax(r)
           /\ pc[r] = "bundle" => UpdateBundle(r) \/ DeleteBundle(r)
           /\ pc[r] = "replace" => ReadAssignments(r)
           /\ pc[r] = "assignments" => ReplaceAssignments(r)
           /\ pc[r] = "editTax" => UpdateTax(r) \/ DeleteTax(r)
  BY DEF StepTaxes, CreateTax, UpdateTax, DeleteTax, UpdateBundle, DeleteBundle, ReadAssignments,
         ReplaceAssignments

LEMMA DraftsStepIs ==
    ASSUME NEW r, StepDrafts(r)
    PROVE  /\ pc[r] = "draft" => CreateDraft(r) \/ ReadDraft(r)
           /\ pc[r] = "clear" => ClearDraft(r)
           /\ pc[r] = "items" => FillDraft(r)
           /\ pc[r] = "dropDraft" => DropDraft(r)
           /\ pc[r] = "dropItems" => DropItems(r)
  BY DEF StepDrafts, CreateDraft, ReadDraft, ClearDraft, FillDraft, DropItems, DropDraft

LEMMA TenantsStepIs ==
    ASSUME NEW r, StepTenants(r)
    PROVE  /\ pc[r] = "tenant" => CreateTenant(r)
           /\ pc[r] = "users" => UpdateUsers(r)
           /\ pc[r] = "client" => UpdateClient(r)
           /\ pc[r] = "statements" => DeleteRows(r) \/ DeleteClient(r)
  BY DEF StepTenants, CreateTenant, UpdateUsers, UpdateClient, DeleteRows, DeleteClient

\* What a request at work does is what it awaits.
LEMMA StepIs ==
    ASSUME NEW r, Step(r)
    PROVE  /\ pc[r] \in ShopStages => StepShops(r)
           /\ pc[r] \in InvoicingStages => StepInvoicing(r)
           /\ pc[r] \in TaxStages => StepTaxes(r)
           /\ pc[r] \in DraftStages => StepDrafts(r)
           /\ pc[r] \in TenantStages => StepTenants(r)
  BY ShopsAt, InvoicingAt, TaxesAt, DraftsAt, TenantsAt
  DEF Step, ShopStages, InvoicingStages, TaxStages, DraftStages, TenantStages

LEMMA NextStage ==
    ASSUME TableInv, NEW r \in Requests, Step(r)
    PROVE  \/ pc'[r] \in Ended
           \/ pc[r] = "business" /\ pc'[r] = "link"
           \/ pc[r] = "signup" /\ pc'[r] = "mapping"
           \/ pc[r] = "replace" /\ pc'[r] = "assignments"
           \/ pc[r] = "draft" /\ pc'[r] = "clear"
           \/ pc[r] = "clear" /\ pc'[r] = "items"
           \/ pc[r] = "dropItems" /\ pc'[r] = "dropDraft"
           \/ pc[r] = "users" /\ pc'[r] = "client"
           \/ pc[r] = "statements" /\ pc'[r] = "statements"
<1>1. Done(r) => pc'[r] \in Ended BY DEF Done, Over, Ended
<1>2. CASE StepShops(r) BY <1>1, <1>2, StepShopsKinds DEF CreateUser
<1>3. CASE StepInvoicing(r) BY <1>1, <1>3, StepInvoicingKinds DEF CreateBusiness
<1>4. CASE StepTaxes(r)
  BY <1>1, <1>4, StepTaxesKinds DEF ReadAssignments, Goto, TableInv, StateFits
<1>5. CASE StepDrafts(r)
  <2>1. ReadDraft(r) => pc[r] = "draft" /\ pc'[r] = "clear"
    BY DEF ReadDraft, Goto, TableInv, StateFits
  <2>2. ClearDraft(r) => pc[r] = "clear" /\ pc'[r] = "items"
    BY DEF ClearDraft, Goto, TableInv, StateFits
  <2>3. DropItems(r) => pc[r] = "dropItems" /\ pc'[r] = "dropDraft"
    BY DEF DropItems, Goto, TableInv, StateFits
  <2> QED BY <1>1, <1>5, <2>1, <2>2, <2>3, StepDraftsKinds
<1>6. CASE StepTenants(r)
  <2>1. CASE UpdateUsers(r) BY <2>1 DEF UpdateUsers, Goto, TableInv, StateFits
  <2>2. CASE DeleteRows(r)
    <3>1. Done(r) \/ pc' = pc BY <2>2, RowsDeleted
    <3>2. pc[r] = "statements" BY <2>2 DEF DeleteRows
    <3> QED BY <1>1, <3>1, <3>2
  <2> QED
    BY <1>1, <1>6, <2>1, <2>2, CreateTenantDone, UpdateClientDone, DeleteClientDone DEF StepTenants
<1> QED BY <1>2, <1>3, <1>4, <1>5, <1>6 DEF Step

\* The user u is not yet to be made.
MadeUser(u) == u \in Requests => pc[u] \in {"ok", "mapping", "failed"}

LEMMA MadeUserStays ==
    ASSUME TableInv, Quiet \/ \E r \in Requests : Step(r)
    PROVE  \A u : MadeUser(u) => (u \in Requests => pc'[u] \in {"ok", "mapping", "failed"})
<1>1. CASE Quiet BY <1>1 DEF Quiet, Past, Ended, MadeUser
<1>2. CASE \E r \in Requests : Step(r)
  <2>1. PICK r \in Requests : Step(r) BY <1>2
  <2>2. /\ pc[r] = "mapping" => pc'[r] \in {"ok", "failed"}
        /\ InFlight(r)
        /\ \A q \in Requests \ {r} : pc'[q] = pc[q]
    BY <2>1, StepPast, StepAt
  <2> SUFFICES ASSUME NEW u \in Requests, MadeUser(u)
               PROVE  pc'[u] \in {"ok", "mapping", "failed"}
    OBVIOUS
  <2>3. pc[u] \in {"ok", "mapping", "failed"} BY DEF MadeUser
  <2>4. CASE u = r BY <2>2, <2>3, <2>4 DEF InFlight, Ended
  <2>5. CASE u # r BY <2>2, <2>3, <2>5
  <2> QED BY <2>4, <2>5
<1> QED BY <1>1, <1>2

LEMMA UserIsMade ==
    ASSUME TableInv, NEW u \in Ids("Users", rows)
    PROVE  MadeUser(u)
  BY MadeIs DEF TableInv, MadeBy, Ids, In, MadeUser

LEMMA NotNewUser ==
    ASSUME TableInv, NEW r \in Requests, NEW y \in In("Users", rows'), MadeUser(y.id)
    PROVE  ~ IsNew(r, y)
<1> SUFFICES ASSUME IsNew(r, y) PROVE FALSE OBVIOUS
<1>1. y.id = r /\ pc[r] \in DOMAIN Makes /\ "Users" \in Makes[pc[r]] BY DEF IsNew, In
<1>2. pc[r] \in {"hire", "signup"} BY <1>1 DEF Makes, TaxTables
<1> QED BY <1>1, <1>2 DEF MadeUser

\* Rows with the same key are the same.
LEMMA SameKey ==
    ASSUME TableInv, NEW x \in rows, NEW y \in rows, x.t = y.t, x.id = y.id
    PROVE  x = y
  BY DEF TableInv, RowsSound, KeysHold, Key

----------------------------------------------------------------------------
(* What was assigned *)

\* A replacement under way knows of all assignments but those of requests it met.
AssignInv ==
    /\ AssignmentsStandAlone
    /\ \A r \in Requests : pc[r] = "assignments" => \A y \in AssignmentsOf(call[r].rate) :
         Key(y) \in Keys(seen[r]) \/ MovedOnto(y) \/ (y.id \in Requests /\ Met(y.id, r))

LEMMA AssignmentIs ==
    ASSUME TableInv, NEW x \in In("TaxAssignment", rows)
    PROVE  /\ x \in rows /\ x.t = "TaxAssignment" /\ {"clientId", "taxRateId"} \subseteq DOMAIN x.to
           /\ x.id \in Requests => pc[x.id] = "ok"
<1>1. x \in rows /\ x.t = "TaxAssignment" BY DEF In
<1>2. {"clientId", "taxRateId"} \subseteq DOMAIN x.to
  BY <1>1 DEF TableInv, RowsSound, IsRow, Mandatory
<1>3. x.id \in Requests => pc[x.id] = "ok" BY <1>1, MadeIs DEF TableInv, MadeBy
<1> QED BY <1>1, <1>2, <1>3

\* Only the update of a row gives it a reference.
LEMMA EditGives ==
    ASSUME TableInv, NEW r \in Requests, Step(r), pc[r] = "editTax", NEW x \in rows,
           NEW y \in rows', RowMoves(pc[r], x, y), NEW col \in DOMAIN x.to,
           y.to[col] # x.to[col], y.to[col] # None \/ <<x.t, col>> \notin Nullable
    PROVE  /\ Is(r, "updateTax") /\ pc'[r] = "ok" /\ x.t = call[r].table /\ x.id = call[r].id
           /\ col = call[r].col /\ y.to[col] = call[r].ref
<1>1. IsRow(x) /\ Key(y) = Key(x) /\ y.t = x.t /\ y.id = x.id
  <2>1. Key(y) = Key(x) /\ y.t = x.t /\ y.id = x.id BY KeysEvolve
  <2> QED BY <2>1 DEF TableInv, RowsSound
<1>3. UpdateTax(r) \/ DeleteTax(r) BY StepIs, TaxesStepIs DEF TaxStages
<1>4. ASSUME y \in rows PROVE FALSE BY <1>1, <1>4 DEF TableInv, RowsSound, KeysHold
<1>5. CASE DeleteTax(r)
  <2> DEFINE D == {z \in In(call[r].table, rows) : z.id = call[r].id}
             K == Keys(Gone(rows, D))
  <2>1. ~ Blocked(rows, D) /\ rows' = Without(rows, D) BY <1>4, <1>5 DEF DeleteTax, Delete, Fails
  <2>2. D \subseteq rows BY DEF In
  <2> HIDE DEF D
  <2>3. PICK z \in rows \ Gone(rows, D) : y = Loosen(z, K) BY <2>1 DEF Without
  <2>4. IsRow(z) /\ ~ Tight(z, K) BY <2>1, <2>2, <2>3, GoneRefs DEF TableInv, RowsSound
  <2>5. Loosens(z, y) BY <2>3, <2>4, LoosenLoosens
  <2>6. z = x BY <1>1, <2>3, <2>5 DEF Loosens, TableInv, RowsSound, KeysHold
  <2> QED BY <1>1, <2>5, <2>6 DEF Loosens
<1>6. CASE UpdateTax(r)
  <2> DEFINE c == call[r]
             g == Get(c.table, c.id)
  <2>1. /\ Is(r, "updateTax") /\ c.no \in Nat /\ (c.col # "none" => c.ref # None)
        /\ Has(c.table, c.id) /\ rows' = (rows \ {g}) \cup {Rewritten(g, c)} /\ End(r, "ok")
    BY <1>4, <1>6 DEF UpdateTax, Write, Update, Fails, TableInv, RequestFits, CallFits, Is
  <2>2. g \in rows /\ IsRow(g) /\ g.t = c.table /\ g.id = c.id
    BY <2>1, RowOf DEF TableInv, RowsSound
  <2>3. pc'[r] = "ok" BY <2>1, EndLocal DEF TableInv, Over
  <2> HIDE DEF c, g
  <2>4. y = Rewritten(g, c) BY <1>4, <2>1
  <2>5. /\ Key(y) = Key(g)
        /\ \A k \in DOMAIN g.to : y.to[k] = IF k = c.col THEN c.ref ELSE g.to[k]
    BY <2>1, <2>2, <2>4, RewrittenIs
  <2>6. g = x BY <1>1, <2>2, <2>5 DEF TableInv, RowsSound, KeysHold
  <2>7. col = c.col /\ c.ref = y.to[col] BY <2>5, <2>6
  <2> QED BY <2>1, <2>2, <2>3, <2>6, <2>7 DEF c
<1> QED BY <1>3, <1>5, <1>6

\* Only an update moves an assignment, and it stays where it was moved.
LEMMA RateMoves ==
    ASSUME TableInv, NEW r \in Requests, Step(r), NEW x \in In("TaxAssignment", rows),
           NEW y \in rows', RowMoves(pc[r], x, y), y.to["taxRateId"] # x.to["taxRateId"]
    PROVE  MovedOnto(y)'
<1>1. /\ x \in rows /\ x.t = "TaxAssignment" /\ "taxRateId" \in DOMAIN x.to
      /\ y.id = x.id /\ call' = call
  BY AssignmentIs, StepPast, KeysEvolve
<1>2. <<x.t, "taxRateId">> \notin Nullable BY <1>1 DEF Nullable
<1>3. pc[r] = "editTax"
  <2>1. <<pc[r], "TaxAssignment", "taxRateId">> \in Writes BY <1>1, <1>2 DEF RowMoves
  <2> QED BY <2>1 DEF Writes
<1>4. /\ Is(r, "updateTax") /\ pc'[r] = "ok" /\ x.t = call[r].table /\ x.id = call[r].id
      /\ "taxRateId" = call[r].col /\ y.to["taxRateId"] = call[r].ref
  BY <1>1, <1>2, <1>3, EditGives
<1> QED BY <1>1, <1>4 DEF MovedOnto, Is

LEMMA MovedStays ==
    ASSUME Past, NEW x, NEW y, y.id = x.id, y.to["taxRateId"] = x.to["taxRateId"], MovedOnto(x)
    PROVE  MovedOnto(y)'
  BY DEF MovedOnto, Past, Is, Ended

LEMMA QuietAssign ==
    ASSUME TableInv, AssignInv, Quiet
    PROVE  AssignInv'
<1>1. ASSUME NEW x \in In("TaxAssignment", rows), Replaced(x.id)'
      PROVE  Replaced(x.id)
  BY <1>1, AssignmentIs DEF Replaced, Is, Quiet, Past
<1>5. \A x : MovedOnto(x) => MovedOnto(x)' BY MovedStays DEF Quiet
<1>2. AssignmentsStandAlone'
  BY <1>1, <1>5 DEF AssignInv, AssignmentsStandAlone, Quiet, Past, In, Met
<1>3. \A r \in Requests : pc'[r] = "assignments" =>
        pc[r] = "assignments" /\ call'[r] = call[r] /\ seen'[r] = seen[r]
  BY DEF Quiet, Starts
<1>4. ASSUME NEW r \in Requests, pc'[r] = "assignments", NEW y \in AssignmentsOf(call[r].rate)
      PROVE  Key(y) \in Keys(seen[r]) \/ MovedOnto(y)' \/ (y.id \in Requests /\ Met(y.id, r))
  BY <1>3, <1>4, <1>5 DEF AssignInv
<1> QED BY <1>2, <1>3, <1>4 DEF AssignInv, AssignmentsOf, Met, Quiet, Past, In, Key

LEMMA StepAssign ==
    ASSUME TableInv, History, AssignInv, NEW r \in Requests, Step(r)
    PROVE  AssignInv'
<1>1. /\ TableInv' /\ InFlight(r) /\ call' = call /\ raced' = raced
      /\ \A q \in Requests \ {r} : pc'[q] = pc[q] /\ seen'[q] = seen[q]
  BY StepKeeps, StepPast
<1>2. \A q \in Requests : InFlight(q) /\ q # r => Met(q, r) /\ Met(r, q) BY <1>1 DEF History
<1>3. ASSUME NEW y \in In("TaxAssignment", rows'), ~ IsNew(r, y), ~ MovedOnto(y)'
      PROVE  \E x \in In("TaxAssignment", rows) :
               /\ Key(x) = Key(y) /\ x.id = y.id /\ x.to["taxRateId"] = y.to["taxRateId"]
               /\ x.id # r /\ DOMAIN y.to = DOMAIN x.to /\ ~ MovedOnto(x)
  <2>1. PICK x \in rows : RowMoves(pc[r], x, y) BY <1>3, Carried DEF In
  <2>2. x \in In("TaxAssignment", rows) /\ Key(x) = Key(y) /\ x.id = y.id /\ DOMAIN y.to = DOMAIN x.to
    BY <1>3, <2>1, KeysEvolve DEF In
  <2>3. x.to["taxRateId"] = y.to["taxRateId"] BY <1>3, <2>1, <2>2, RateMoves DEF In
  <2>4. x.id # r BY <1>1, <2>2, AssignmentIs DEF InFlight, Ended
  <2>5. ~ MovedOnto(x) BY <1>3, <2>2, <2>3, StepPast, MovedStays
  <2> QED BY <2>2, <2>3, <2>4, <2>5
<1>4. ASSUME NEW y \in In("TaxAssignment", rows'), IsNew(r, y), Replaced(r)'
      PROVE  /\ pc[r] = "assignments" /\ y.to["taxRateId"] = call[r].rate
             /\ \A x \in rows : Key(x) \in Keys(rows') => Key(x) \notin Keys(seen[r])
  <2>1. pc[r] \in {"tax", "assignments"} BY <1>4 DEF IsNew, Makes, In
  <2>2. call[r].op = "replace" /\ pc'[r] = "ok" BY <1>1, <1>4 DEF Replaced, Is
  <2>3. pc[r] # "tax" BY <2>2 DEF TableInv, RequestFits, SeenFits
  <2>4. ReplaceAssignments(r) /\ pc[r] = "assignments"
    BY <2>1, <2>3, StepIs, TaxesStepIs DEF TaxStages
  <2>5. ~ Fails(r) BY <2>2, EndLocal DEF Fails, Over, TableInv
  <2>6. rows' = {x \in rows : Key(x) \notin Keys(seen[r])} \cup {call[r].new}
    BY <2>4, <2>5 DEF ReplaceAssignments
  <2>7. Key(call[r].new) = <<"TaxAssignment", r>> /\ call[r].new.to["taxRateId"] = call[r].rate
    BY <2>4 DEF TableInv, RequestFits, CallFits
  <2>8. y = call[r].new BY <1>4, <2>6 DEF IsNew, Keys, In
  <2>9. ASSUME NEW x \in rows, Key(x) \in Keys(rows') PROVE Key(x) \notin Keys(seen[r])
    <3>1. Key(x) # Key(call[r].new) BY <1>4, <2>8 DEF IsNew, Keys
    <3>2. PICK z \in rows' : Key(x) = Key(z) BY <2>9 DEF Keys
    <3> QED BY <2>6, <3>1, <3>2
  <2> QED BY <2>4, <2>7, <2>8, <2>9
<1>5. ASSUME NEW x \in In("TaxAssignment", rows'), NEW y \in In("TaxAssignment", rows'), x # y,
             x.to["taxRateId"] = y.to["taxRateId"], Replaced(x.id)', ~ MovedOnto(x)', ~ MovedOnto(y)'
      PROVE  y.id \in Requests /\ (Replaced(y.id)' => Met(x.id, y.id)')
  <2>1. CASE IsNew(r, x) /\ IsNew(r, y)
    <3>1. Key(x) = Key(y) BY <2>1, <1>5 DEF IsNew, Key, In
    <3> QED BY <1>1, <1>5, <3>1 DEF TableInv, RowsSound, KeysHold, In
  <2>2. CASE IsNew(r, x) /\ ~ IsNew(r, y)
    <3>1. PICK z \in In("TaxAssignment", rows) :
            /\ Key(z) = Key(y) /\ z.id = y.id /\ z.to["taxRateId"] = y.to["taxRateId"]
            /\ DOMAIN y.to = DOMAIN z.to /\ ~ MovedOnto(z)
      BY <1>3, <1>5, <2>2
    <3>2. pc[r] = "assignments" /\ x.to["taxRateId"] = call[r].rate /\ x.id = r
          /\ \A u \in rows : Key(u) \in Keys(rows') => Key(u) \notin Keys(seen[r])
      <4>1. x.id = r BY <2>2 DEF IsNew
      <4> QED BY <1>4, <1>5, <2>2, <4>1
    <3>3. z \in AssignmentsOf(call[r].rate) /\ Key(z) \notin Keys(seen[r])
      <4>1. Key(z) \in Keys(rows') /\ z \in rows BY <3>1 DEF Keys, In
      <4> QED BY <1>5, <3>1, <3>2, <4>1, AssignmentIs DEF AssignmentsOf, RefersTo
    <3>4. z.id \in Requests /\ Met(z.id, r) BY <3>1, <3>2, <3>3 DEF AssignInv
    <3> QED BY <1>1, <3>1, <3>2, <3>4 DEF Met
  <2>3. CASE ~ IsNew(r, x) /\ IsNew(r, y)
    <3>1. PICK z \in In("TaxAssignment", rows) :
            /\ Key(z) = Key(x) /\ z.id = x.id /\ z.to["taxRateId"] = x.to["taxRateId"]
            /\ DOMAIN x.to = DOMAIN z.to /\ ~ MovedOnto(z)
      BY <1>3, <1>5, <2>3
    <3>2. y.id = r BY <2>3 DEF IsNew
    <3>3. ASSUME Replaced(r)' PROVE Met(x.id, r)
      <4>1. pc[r] = "assignments" /\ y.to["taxRateId"] = call[r].rate
            /\ \A u \in rows : Key(u) \in Keys(rows') => Key(u) \notin Keys(seen[r])
        BY <1>4, <2>3, <3>3
      <4>2. z \in AssignmentsOf(call[r].rate) /\ Key(z) \notin Keys(seen[r])
        <5>1. Key(z) \in Keys(rows') /\ z \in rows BY <3>1 DEF Keys, In
        <5> QED BY <1>5, <3>1, <4>1, <5>1, AssignmentIs DEF AssignmentsOf, RefersTo
      <4> QED BY <3>1, <4>1, <4>2 DEF AssignInv
    <3> QED BY <1>1, <3>2, <3>3 DEF Met
  <2>4. CASE ~ IsNew(r, x) /\ ~ IsNew(r, y)
    <3>1. PICK u \in In("TaxAssignment", rows) :
            /\ Key(u) = Key(x) /\ u.id = x.id /\ u.to["taxRateId"] = x.to["taxRateId"] /\ u.id # r
            /\ ~ MovedOnto(u)
      BY <1>3, <1>5, <2>4
    <3>2. PICK v \in In("TaxAssignment", rows) :
            /\ Key(v) = Key(y) /\ v.id = y.id /\ v.to["taxRateId"] = y.to["taxRateId"] /\ v.id # r
            /\ ~ MovedOnto(v)
      BY <1>3, <1>5, <2>4
    <3>3. u # v BY <1>1, <1>5, <3>1, <3>2 DEF TableInv, RowsSound, KeysHold, In
    <3>4. Replaced(u.id) /\ (Replaced(y.id)' => Replaced(v.id))
      BY <1>1, <1>5, <3>1, <3>2 DEF Replaced, Is
    <3> QED BY <1>1, <1>5, <3>1, <3>2, <3>3, <3>4 DEF AssignInv, AssignmentsStandAlone, Met
  <2> QED BY <2>1, <2>2, <2>3, <2>4
<1>6. ASSUME NEW q \in Requests, pc'[q] = "assignments", NEW y \in In("TaxAssignment", rows'),
             RefersTo(y, "taxRateId", call[q].rate), ~ MovedOnto(y)'
      PROVE  Key(y) \in Keys(seen'[q]) \/ (y.id \in Requests /\ Met(y.id, q))
  <2>1. CASE q = r
    <3>1. ReadAssignments(r)
      BY <1>6, <2>1, NextStage, StepIs, TaxesStepIs DEF TaxStages, Ended
    <3>2. seen'[r] = AssignmentsOf(call[r].rate) /\ rows' = rows
      BY <3>1 DEF ReadAssignments, TableInv, StateFits
    <3> QED BY <1>6, <2>1, <3>2 DEF AssignmentsOf, Keys
  <2>2. CASE q # r /\ IsNew(r, y)
    <3>1. InFlight(q) /\ y.id = r BY <1>1, <1>6, <2>2 DEF InFlight, Ended, IsNew
    <3> QED BY <1>2, <2>2, <3>1
  <2>3. CASE q # r /\ ~ IsNew(r, y)
    <3>1. PICK v \in In("TaxAssignment", rows) :
            /\ Key(v) = Key(y) /\ v.id = y.id /\ v.to["taxRateId"] = y.to["taxRateId"]
            /\ DOMAIN y.to = DOMAIN v.to /\ ~ MovedOnto(v)
      BY <1>3, <1>6, <2>3
    <3>2. v \in AssignmentsOf(call[q].rate) /\ pc[q] = "assignments" /\ seen'[q] = seen[q]
      BY <1>1, <1>6, <2>3, <3>1 DEF AssignmentsOf, RefersTo
    <3> QED BY <3>1, <3>2 DEF AssignInv
  <2> QED BY <2>1, <2>2, <2>3
<1>7. AssignmentsStandAlone' BY <1>5 DEF AssignmentsStandAlone, In
<1>8. \A q \in Requests : pc'[q] = "assignments" => \A y \in AssignmentsOf(call[q].rate)' :
        Key(y) \in Keys(seen[q])' \/ MovedOnto(y)' \/ (y.id \in Requests /\ Met(y.id, q)')
  <2>1. \A q, y : y \in AssignmentsOf(call[q].rate)' =>
          y \in In("TaxAssignment", rows') /\ RefersTo(y, "taxRateId", call[q].rate)
    BY <1>1 DEF AssignmentsOf, In, RefersTo
  <2> QED BY <1>1, <1>6, <2>1 DEF Keys, Met
<1> QED BY <1>7, <1>8 DEF AssignInv

----------------------------------------------------------------------------
(* What a draft holds *)

\* A save under way knows of all items of its draft but those of saves it met.
DraftInv ==
    /\ DraftsHoldOneSave
    /\ \A r \in Requests : pc[r] \in {"clear", "items"} => \A y \in ItemsOf(call[r].draft) :
         \/ pc[r] = "clear" /\ y \in seen[r]
         \/ pc[r] = "items" /\ Key(y) \in lock[r]
         \/ y.id \in Requests /\ Met(y.id, r)

\* An item is never written.
LEMMA ItemsStay ==
    ASSUME NEW st, NEW x, NEW y, IsRow(x), IsRow(y), RowMoves(st, x, y), x.t = "SalesDraftItems"
    PROVE  y = x
<1>1. /\ y.t = x.t /\ y.id = x.id /\ DOMAIN y.to = DOMAIN x.to
      /\ \A f \in {"on", "no", "out"} : <<st, x.t, f>> \notin Writes
      /\ \A col \in DOMAIN x.to : <<st, x.t, col>> \notin Writes /\ <<x.t, col>> \notin Nullable
  BY KeysEvolve DEF Writes, Nullable
<1>2. y.on = x.on /\ y.no = x.no /\ y.out = x.out /\ \A col \in DOMAIN x.to : y.to[col] = x.to[col]
  BY <1>1 DEF RowMoves
<1>3. y.to = x.to
  <2>1. /\ x.to = [col \in DOMAIN x.to |-> x.to[col]]
        /\ y.to = [col \in DOMAIN y.to |-> y.to[col]]
    BY DEF IsRow, AreColumns
  <2> QED BY <1>1, <1>2, <2>1
<1>4. /\ x = [t |-> x.t, id |-> x.id, to |-> x.to, on |-> x.on, no |-> x.no, out |-> x.out]
      /\ y = [t |-> y.t, id |-> y.id, to |-> y.to, on |-> y.on, no |-> y.no, out |-> y.out]
  BY DEF IsRow
<1> QED BY <1>1, <1>2, <1>3, <1>4

LEMMA QuietDrafts ==
    ASSUME TableInv, DraftInv, Quiet
    PROVE  DraftInv'
<1>1. DraftsHoldOneSave' BY DEF DraftInv, DraftsHoldOneSave, Quiet, Past, In, Met
<1>2. ASSUME NEW r \in Requests, pc'[r] \in {"clear", "items"}
      PROVE  pc'[r] = pc[r] /\ call'[r] = call[r] /\ seen'[r] = seen[r] /\ lock'[r] = lock[r]
  BY <1>2 DEF Quiet, Starts
<1>3. ASSUME NEW r \in Requests, pc'[r] \in {"clear", "items"}, NEW y \in ItemsOf(call[r].draft)
      PROVE  \/ pc[r] = "clear" /\ y \in seen[r]
             \/ pc[r] = "items" /\ Key(y) \in lock[r]
             \/ y.id \in Requests /\ {y.id, r} \in raced
  BY <1>2, <1>3 DEF DraftInv, Met
<1>4. \A r \in Requests : pc'[r] \in {"clear", "items"} => ItemsOf(call[r].draft)' = ItemsOf(call[r].draft)
  BY <1>2 DEF ItemsOf, In, RefersTo, Quiet
<1>5. raced \subseteq raced' BY DEF Quiet, Past
<1> QED BY <1>1, <1>2, <1>3, <1>4, <1>5 DEF DraftInv, Met, Key

LEMMA ItemIs ==
    ASSUME TableInv, NEW x \in In("SalesDraftItems", rows)
    PROVE  /\ x \in rows /\ x.t = "SalesDraftItems" /\ IsRow(x)
           /\ "saleDraftId" \in DOMAIN x.to /\ x.to["saleDraftId"] # None
           /\ <<"SalesDraft", x.to["saleDraftId"]>> \in Keys(rows)
<1>1. /\ x \in rows /\ x.t = "SalesDraftItems" /\ IsRow(x)
      /\ "saleDraftId" \in DOMAIN x.to /\ x.to["saleDraftId"] # None
  BY DEF In, TableInv, RowsSound, IsRow, Mandatory
<1>2. <<"SalesDraft", x.to["saleDraftId"]>> \in Parents(x) BY <1>1 DEF Parents, Parent
<1> QED BY <1>1, <1>2 DEF TableInv, RowsSound, KeysHold

LEMMA StepDraftsKeep ==
    ASSUME TableInv, History, DraftInv, NEW r \in Requests, Step(r)
    PROVE  DraftInv'
<1>1. /\ TableInv' /\ InFlight(r) /\ call' = call /\ raced' = raced
      /\ \A q \in Requests \ {r} : pc'[q] = pc[q] /\ seen'[q] = seen[q] /\ lock'[q] = lock[q]
  BY StepKeeps, StepPast
<1>2. ASSUME NEW y \in In("SalesDraftItems", rows'), ~ IsNew(r, y)
      PROVE  y \in In("SalesDraftItems", rows)
  <2>1. PICK x \in rows : RowMoves(pc[r], x, y) BY <1>2, Carried DEF In
  <2>2. IsRow(x) /\ IsRow(y) /\ x.t = "SalesDraftItems"
    BY <1>1, <1>2, <2>1, KeysEvolve DEF In, TableInv, RowsSound
  <2> QED BY <2>1, <2>2, ItemsStay DEF In
<1>3. ASSUME NEW x \in In("SalesDraftItems", rows'), IsNew(r, x),
             NEW y \in In("SalesDraftItems", rows'), ~ IsNew(r, y),
             x.to["saleDraftId"] = y.to["saleDraftId"]
      PROVE  y.id \in Requests /\ Met(y.id, r)
  <2>1. y \in In("SalesDraftItems", rows) BY <1>2, <1>3
  <2>2. pc[r] \in {"draft", "items"} BY <1>3 DEF IsNew, Makes, In, TaxTables
  <2>3. x \notin rows BY <1>3 DEF IsNew, Keys
  <2>4. CASE pc[r] = "draft"
    <3>1. CreateDraft(r) \/ ReadDraft(r) BY <2>4, StepIs, DraftsStepIs DEF DraftStages
    <3>2. rows' = rows \cup {DraftRow(r), ItemRow(r, r, call[r].client)}
      BY <1>3, <2>3, <3>1 DEF CreateDraft, ReadDraft, Insert, InsertFails, Fails, In
    <3>3. x = ItemRow(r, r, call[r].client) BY <1>3, <2>3, <3>2 DEF In, DraftRow, New
    <3>4. x.to["saleDraftId"] = r BY <3>3 DEF ItemRow, New
    <3>5. PICK z \in rows : z.id = r BY <1>3, <2>1, <3>4, ItemIs DEF Keys, Key
    <3> QED BY <2>4, <3>5, NoneMadeYet
  <2>5. CASE pc[r] = "items"
    <3>1. FillDraft(r) BY <2>5, StepIs, DraftsStepIs DEF DraftStages
    <3>2. rows' = {z \in rows : Key(z) \notin lock[r]} \cup {ItemRow(r, call[r].draft, call[r].client)}
      BY <1>3, <2>3, <3>1 DEF FillDraft, Fails, In
    <3>3. x = ItemRow(r, call[r].draft, call[r].client) /\ Key(y) \notin lock[r]
      <4>1. y # ItemRow(r, call[r].draft, call[r].client) BY <1>3, <2>1, <2>3, <3>2 DEF In
      <4> QED BY <1>3, <2>3, <3>2, <4>1 DEF In
    <3>4. x.to["saleDraftId"] = call[r].draft BY <3>3 DEF ItemRow, New
    <3>5. y \in ItemsOf(call[r].draft) BY <1>3, <2>1, <3>4, ItemIs DEF ItemsOf, RefersTo
    <3> QED BY <2>5, <3>3, <3>5 DEF DraftInv
  <2> QED BY <2>2, <2>4, <2>5
<1>4. ASSUME NEW x \in In("SalesDraftItems", rows'), NEW y \in In("SalesDraftItems", rows'), x # y,
             x.to["saleDraftId"] = y.to["saleDraftId"]
      PROVE  x.id \in Requests /\ y.id \in Requests /\ {x.id, y.id} \in raced
  <2>1. CASE IsNew(r, x) /\ IsNew(r, y)
    <3>1. Key(x) = Key(y) /\ x \in rows' /\ y \in rows' BY <2>1 DEF IsNew, Key, In
    <3> QED BY <1>1, <1>4, <3>1 DEF TableInv, RowsSound, KeysHold
  <2>2. CASE IsNew(r, x) /\ ~ IsNew(r, y)
    <3>1. y.id \in Requests /\ {y.id, r} \in raced /\ x.id = r
      BY <1>3, <1>4, <2>2 DEF IsNew, Met
    <3>2. {y.id, r} = {r, y.id} OBVIOUS
    <3> QED BY <3>1, <3>2
  <2>3. CASE ~ IsNew(r, x) /\ IsNew(r, y) BY <1>3, <1>4, <2>3 DEF IsNew, Met
  <2>4. CASE ~ IsNew(r, x) /\ ~ IsNew(r, y)
    BY <1>2, <1>4, <2>4 DEF DraftInv, DraftsHoldOneSave, Met
  <2> QED BY <2>1, <2>2, <2>3, <2>4
<1>5. ASSUME NEW q \in Requests, pc'[q] \in {"clear", "items"}, NEW y \in In("SalesDraftItems", rows'),
             RefersTo(y, "saleDraftId", call[q].draft)
      PROVE  \/ pc'[q] = "clear" /\ y \in seen'[q]
             \/ pc'[q] = "items" /\ Key(y) \in lock'[q]
             \/ y.id \in Requests /\ {y.id, q} \in raced
  <2>1. CASE q = r /\ pc'[r] = "clear"
    <3>1. ReadDraft(r)
      <4>1. pc[r] = "draft" BY <2>1, NextStage DEF Ended
      <4>2. CreateDraft(r) => Done(r) BY CreateDraftDone
      <4> QED BY <2>1, <4>1, <4>2, StepIs, DraftsStepIs DEF DraftStages, Done, Over
    <3>2. seen'[r] = ItemsOf(call[r].draft) /\ rows' = rows
      BY <3>1 DEF ReadDraft, TableInv, StateFits
    <3> QED BY <1>5, <2>1, <3>2 DEF ItemsOf
  <2>2. CASE q = r /\ pc'[r] = "items"
    <3>1. pc[r] = "clear" /\ ClearDraft(r)
      BY <2>2, NextStage, StepIs, DraftsStepIs DEF DraftStages, Ended
    <3>2. lock'[r] = Keys(seen[r] \cap rows) /\ rows' = rows
      BY <3>1 DEF ClearDraft, TableInv, StateFits
    <3>3. y \in ItemsOf(call[r].draft) /\ y \in rows BY <1>5, <2>2, <3>2 DEF ItemsOf, In
    <3> QED BY <2>2, <3>1, <3>2, <3>3 DEF DraftInv, Met, Keys
  <2>3. CASE q # r /\ IsNew(r, y)
    <3>1. InFlight(q) /\ y.id = r BY <1>1, <1>5, <2>3 DEF InFlight, Ended, IsNew
    <3> QED BY <1>1, <2>3, <3>1 DEF History, Met
  <2>4. CASE q # r /\ ~ IsNew(r, y)
    <3>1. y \in ItemsOf(call[q].draft) BY <1>2, <1>5, <2>4 DEF ItemsOf
    <3> QED BY <1>1, <1>5, <2>4, <3>1 DEF DraftInv, Met
  <2> QED BY <1>5, <2>1, <2>2, <2>3, <2>4
<1>6. DraftsHoldOneSave' BY <1>1, <1>4 DEF DraftsHoldOneSave, In, Met
<1>7. \A q, y : y \in ItemsOf(call[q].draft)' =>
        y \in In("SalesDraftItems", rows') /\ RefersTo(y, "saleDraftId", call[q].draft)
  BY <1>1 DEF ItemsOf, In, RefersTo
<1> QED BY <1>1, <1>5, <1>6, <1>7 DEF DraftInv, Met, Key

ReplaceInv == TableInv /\ History /\ AssignInv /\ DraftInv

\* What a save of a draft or a replacement of assignments wrote in the place of
\* something else is mixed only with what requests wrote that met it, with later
\* assignments, and with those an update moved onto the same rate, however many
\* requests of all kinds there are (replaceAssignmentsByTaxRate, saveDraftSale).
THEOREM OfficeReplacementsStandAlone ==
    ASSUME SeedsHoldOneSave
    PROVE  Spec => []ReplacementsStandAlone
<1>1. Init => ReplaceInv
  <2> SUFFICES ASSUME Init PROVE ReplaceInv OBVIOUS
  <2>1. AssignInv
    <3>1. \A r \in Requests : pc[r] = "idle" BY DEF Init
    <3> QED BY <3>1 DEF AssignInv, AssignmentsStandAlone, Replaced
  <2>2. DraftInv BY DEF Init, DraftInv, DraftsHoldOneSave, SeedsHoldOneSave
  <2> QED BY <2>1, <2>2, InitTables, InitHistory DEF ReplaceInv
<1>2. ReplaceInv /\ [Next]_vars => ReplaceInv'
  <2> SUFFICES ASSUME ReplaceInv, [Next]_vars PROVE ReplaceInv' OBVIOUS
  <2>1. TableInv' /\ History' BY NextTables, HistoryKeeps DEF ReplaceInv
  <2>2. CASE Quiet BY <2>1, <2>2, QuietAssign, QuietDrafts DEF ReplaceInv
  <2>3. ASSUME NEW r \in Requests, Step(r) PROVE ReplaceInv'
    BY <2>1, <2>3, StepAssign, StepDraftsKeep DEF ReplaceInv
  <2> QED BY <2>2, <2>3, NextIs DEF ReplaceInv
<1>3. ReplaceInv => ReplacementsStandAlone
  BY DEF ReplaceInv, AssignInv, DraftInv, ReplacementsStandAlone
<1> QED BY <1>1, <1>2, <1>3, PTL DEF Spec

----------------------------------------------------------------------------
(* The status of a tenant and its users *)

\* Another request gave user u its status while r was at work.
Excused(r, u) == \E q \in Requests \ {r} : Met(q, r) /\ SetsStatus(q, call[r].client, u)

\* A change of status about to commit holds the users it is for, but for the excused.
StatusInv ==
    \A r \in Requests : pc[r] = "client" => \A u \in UsersOf(call[r].client) :
         u.on # call[r].on => Key(u) \in lock[r] \/ Excused(r, u.id)

LEMMA ExcusedStays ==
    ASSUME History, Past, NEW r \in Requests, pc[r] = "client", NEW u, Excused(r, u)
    PROVE  Excused(r, u)'
<1>1. PICK q \in Requests \ {r} : Met(q, r) /\ SetsStatus(q, call[r].client, u) BY DEF Excused
<1>2. Met(q, r)' /\ call'[r] = call[r] BY <1>1 DEF Past, Met
<1>3. Is(q, "status") \/ Is(q, "employee") => call'[q] = call[q]
  BY DEF Is, History, NoCall, Past
<1>4. SetsStatus(q, call[r].client, u)' BY <1>1, <1>2, <1>3 DEF SetsStatus, Is
<1> QED BY <1>2, <1>4 DEF Excused

LEMMA UserIs ==
    ASSUME TableInv, NEW u \in In("Users", rows)
    PROVE  u \in rows /\ u.t = "Users" /\ IsRow(u) /\ {"clientId", "businessId"} \subseteq DOMAIN u.to
  BY DEF In, TableInv, RowsSound, IsRow, Mandatory

\* Requests leave users with their client.
LEMMA UserBefore ==
    ASSUME TableInv, NEW r \in Requests, Step(r), NEW y \in In("Users", rows'), ~ IsNew(r, y)
    PROVE  \E x \in In("Users", rows) :
             RowMoves(pc[r], x, y) /\ x.id = y.id /\ Key(x) = Key(y) /\ DOMAIN y.to = DOMAIN x.to
             /\ y.to["clientId"] = x.to["clientId"]
<1>2. PICK x \in rows : RowMoves(pc[r], x, y) BY Carried DEF In
<1>3. x \in In("Users", rows) /\ x.id = y.id /\ Key(x) = Key(y) /\ DOMAIN y.to = DOMAIN x.to
  BY <1>2, KeysEvolve DEF In
<1>4. y.to["clientId"] = x.to["clientId"] BY <1>2, <1>3, UserIs, ClientStays
<1> QED BY <1>2, <1>3, <1>4

LEMMA EmployeeSet ==
    ASSUME TableInv, NEW r \in Requests, Step(r), pc[r] = "employee", NEW y \in rows'
    PROVE  y \in rows \/ (y.t = "Users" /\ y.id = call[r].user)
<1> DEFINE u == call[r].user
           x == Get("Users", u)
           z == [x EXCEPT !.on = call[r].on]
<1>1. SetEmployee(r) /\ call[r].on \in Statuses
  BY StepIs, ShopsStepIs DEF ShopStages, TableInv, RequestFits, CallFits
<1>2. CASE Has("Users", u) /\ Update(x, z)
  <2>1. x \in rows /\ x.t = "Users" /\ x.id = u /\ IsRow(x)
    BY <1>2, RowOf DEF TableInv, RowsSound
  <2> HIDE DEF x
  <2>3. Key(z) = Key(x) BY <1>1, <2>1, OnWritten
  <2> HIDE DEF z
  <2>4. y \in rows \/ y = z BY <1>2 DEF Update
  <2> QED BY <2>1, <2>3, <2>4 DEF Key
<1>3. CASE Fails(r) BY <1>3 DEF Fails
<1> QED BY <1>1, <1>2, <1>3 DEF SetEmployee, Write

\* What the end of a change of status writes.
Switched(r) == lock[r] \cup {<<"Clients", call[r].client>>}

LEMMA ClientSet ==
    ASSUME TableInv, NEW r \in Requests, Step(r), pc[r] = "client", rows' # rows \/ pc'[r] = "ok"
    PROVE  \A x \in rows, y \in rows' : Key(x) = Key(y) =>
             IF Key(x) \in Switched(r) THEN y.on = call[r].on ELSE y = x
<1> DEFINE K == Switched(r)
           on == call[r].on
<1>1. UpdateClient(r) /\ on \in Statuses
  BY StepIs, TenantsStepIs DEF TenantStages, TableInv, RequestFits, CallFits
<1>2. rows' = {IF Key(z) \in K THEN [z EXCEPT !.on = on] ELSE z : z \in rows}
  <2>1. ASSUME Fails(r) PROVE FALSE BY <2>1, EndLocal DEF Fails, TableInv, Over
  <2> QED BY <1>1, <2>1 DEF UpdateClient, Switched
<1>4. ASSUME NEW x \in rows, NEW y \in rows', Key(x) = Key(y)
      PROVE  IF Key(x) \in K THEN y.on = on ELSE y = x
  <2>1. PICK z \in rows : y = IF Key(z) \in K THEN [z EXCEPT !.on = on] ELSE z BY <1>2
  <2>2. IsRow(z) BY DEF TableInv, RowsSound
  <2> HIDE DEF K, on
  <2>3. CASE Key(z) \in K
    <3>1. y = [z EXCEPT !.on = on] BY <2>1, <2>3
    <3>2. Key(y) = Key(z) /\ y.on = on BY <1>1, <2>2, <3>1, OnWritten
    <3> QED BY <1>4, <2>3, <3>2
  <2>4. CASE Key(z) \notin K BY <1>4, <2>1, <2>4, SameKey DEF Key
  <2> QED BY <2>3, <2>4
<1> QED BY <1>4

LEMMA QuietStatus ==
    ASSUME TableInv, History, StatusInv, Quiet
    PROVE  StatusInv'
<1>1. Past /\ rows' = rows BY DEF Quiet
<1>2. ASSUME NEW r \in Requests, pc'[r] = "client", NEW u \in UsersOf(call[r].client),
             u.on # call'[r].on
      PROVE  Key(u) \in lock'[r] \/ Excused(r, u.id)'
  <2>1. pc[r] = "client" /\ call'[r] = call[r] /\ lock'[r] = lock[r] BY <1>2 DEF Quiet, Starts
  <2>2. Key(u) \in lock[r] \/ Excused(r, u.id) BY <1>2, <2>1 DEF StatusInv
  <2> QED BY <1>1, <2>1, <2>2, ExcusedStays
<1>3. \A r \in Requests : pc'[r] = "client" => call'[r] = call[r] BY DEF Quiet, Starts
<1>4. \A r \in Requests : pc'[r] = "client" => UsersOf(call[r].client)' = UsersOf(call[r].client)
  BY <1>1, <1>3 DEF UsersOf, In, RefersTo
<1> QED BY <1>2, <1>4 DEF StatusInv, Key

LEMMA StepStatus ==
    ASSUME TableInv, History, StatusInv, NEW r \in Requests, Step(r)
    PROVE  StatusInv'
<1>1. /\ TableInv' /\ Past /\ InFlight(r) /\ call' = call /\ raced' = raced
      /\ \A q \in Requests \ {r} : pc'[q] = pc[q] /\ lock'[q] = lock[q]
  BY StepKeeps, StepPast
<1>2. ASSUME NEW q \in Requests, pc'[q] = "client", NEW u \in In("Users", rows'),
             u.to["clientId"] = call[q].client, u.on # call[q].on
      PROVE  Key(u) \in lock'[q] \/ Excused(q, u.id)
  <2>1. CASE q = r
    <3>1. UpdateUsers(r)
      BY <1>2, <2>1, NextStage, StepIs, TenantsStepIs DEF TenantStages, Ended
    <3>2. rows' = rows /\ lock'[r] = Keys({x \in UsersOf(call[r].client) : x.on # call[r].on})
      BY <3>1 DEF UpdateUsers, TableInv, StateFits
    <3>3. u \in UsersOf(call[r].client) BY <1>2, <2>1, <3>2, UserIs DEF UsersOf, RefersTo
    <3> QED BY <1>2, <2>1, <3>2, <3>3 DEF Keys
  <2>2. ASSUME q # r, SetsStatus(r, call[q].client, u.id) PROVE Excused(q, u.id)
    <3>1. Met(r, q) BY <1>1, <1>2, <2>2 DEF History, InFlight, Ended
    <3> QED BY <2>2, <3>1 DEF Excused
  <2>3. CASE q # r /\ IsNew(r, u) BY <2>2, <2>3 DEF IsNew, SetsStatus
  <2>4. CASE q # r /\ ~ IsNew(r, u)
    <3>1. PICK v \in In("Users", rows) :
            /\ RowMoves(pc[r], v, u) /\ v.id = u.id /\ Key(v) = Key(u)
            /\ u.to["clientId"] = v.to["clientId"]
      BY <2>4, UserBefore
    <3>2. CASE v.on = u.on
      <4>1. v \in UsersOf(call[q].client) BY <1>2, <3>1, UserIs DEF UsersOf, RefersTo
      <4> QED BY <1>1, <1>2, <2>4, <3>1, <3>2, <4>1 DEF StatusInv
    <3>3. CASE v.on # u.on
      <4>1. pc[r] \in {"employee", "client"} BY <3>1, <3>3, UserIs DEF RowMoves, Writes
      <4>2. u \notin rows
        <5> SUFFICES ASSUME u \in rows PROVE FALSE OBVIOUS
        <5>1. u = v BY <3>1, UserIs DEF TableInv, RowsSound, KeysHold
        <5> QED BY <3>3, <5>1
      <4>3. u \in rows' BY DEF In
      <4>4. CASE pc[r] = "employee"
        <5>1. u.id = call[r].user BY <4>2, <4>3, <4>4, EmployeeSet
        <5>2. Is(r, "employee") BY <4>4 DEF TableInv, RequestFits, CallFits, Op, Is
        <5> QED BY <2>2, <2>4, <5>1, <5>2 DEF SetsStatus
      <4>5. CASE pc[r] = "client"
        <5>1. Key(v) \in Switched(r) BY <3>1, <3>3, <4>2, <4>3, <4>5, ClientSet, UserIs
        <5>2. \A x \in In("Users", rows) : Key(x) \in lock[r] => x.to["clientId"] = call[r].client
          BY <4>5 DEF TableInv, RequestFits, LockFits
        <5>3. call[r].client = call[q].client
          BY <1>2, <3>1, <5>1, <5>2, UserIs DEF Switched, Key
        <5>4. Is(r, "status") BY <4>5 DEF TableInv, RequestFits, CallFits, Op, Is
        <5> QED BY <2>2, <2>4, <5>3, <5>4 DEF SetsStatus
      <4> QED BY <4>1, <4>4, <4>5
    <3> QED BY <3>2, <3>3
  <2> QED BY <2>1, <2>2, <2>3, <2>4
<1>3. \A q, u : Excused(q, u) => Excused(q, u)' BY <1>1 DEF Excused, SetsStatus, Is, Met
<1>4. \A q, u : u \in UsersOf(call[q].client)' =>
        u \in In("Users", rows') /\ u.to["clientId"] = call[q].client
  BY <1>1 DEF UsersOf, In, RefersTo
<1>5. \A q \in Requests : pc'[q] = "client" => \A u \in UsersOf(call[q].client)' :
        u.on # call[q].on => Key(u) \in lock'[q] \/ Excused(q, u.id)'
  BY <1>2, <1>3, <1>4
<1> QED BY <1>1, <1>5 DEF StatusInv, Key

\* What a change of status commits has reached its users.
LEMMA StatusReached ==
    ASSUME TableInv, StatusInv, NEW r \in Requests, [Next]_vars, pc[r] = "client", pc'[r] = "ok",
           NEW u \in In("Users", rows'), RefersTo(u, "clientId", call[r].client), u.on # call[r].on
    PROVE  Excused(r, u.id)
<1>1. Step(r)
  <2>1. ~ Quiet BY DEF Quiet, Starts
  <2>2. \A q \in Requests \ {r} : ~ Step(q) BY StepPast
  <2> QED BY <2>1, <2>2, NextIs
<1>2. ~ IsNew(r, u) BY DEF IsNew, Makes
<1>3. PICK v \in In("Users", rows) :
        v.id = u.id /\ Key(v) = Key(u) /\ u.to["clientId"] = v.to["clientId"]
  BY <1>1, <1>2, UserBefore
<1>4. u = v /\ Key(v) \notin Switched(r) BY <1>1, <1>3, ClientSet, UserIs DEF In
<1>5. v \in UsersOf(call[r].client) BY <1>3, <1>4, UserIs DEF UsersOf, RefersTo
<1> QED BY <1>4, <1>5 DEF StatusInv, Switched

----------------------------------------------------------------------------
(* The business of a user *)

\* A row that is left when others go, and what it refers to.
LEMMA LeftIs ==
    ASSUME RowsSound, NEW D, D \subseteq rows, NEW y \in Without(rows, D)
    PROVE  \E x \in rows \ Gone(rows, D) :
             /\ Key(y) = Key(x) /\ DOMAIN y.to = DOMAIN x.to
             /\ \A col \in DOMAIN x.to :
                  y.to[col] = IF <<Parent[col], x.to[col]>> \in Keys(Gone(rows, D)) THEN None ELSE x.to[col]
<1> DEFINE K == Keys(Gone(rows, D))
<1>1. PICK x \in rows \ Gone(rows, D) : y = Loosen(x, K) BY DEF Without
<1> DEFINE to == [col \in DOMAIN x.to |->
                    IF <<Parent[col], x.to[col]>> \in K THEN None ELSE x.to[col]]
<1>2. x = [t |-> x.t, id |-> x.id, to |-> x.to, on |-> x.on, no |-> x.no, out |-> x.out]
  BY DEF RowsSound, IsRow
<1>3. y = [x EXCEPT !.to = to] BY <1>1 DEF Loosen
<1>4. /\ DOMAIN to = DOMAIN x.to
      /\ \A col \in DOMAIN x.to : to[col] = IF <<Parent[col], x.to[col]>> \in K THEN None ELSE x.to[col]
  OBVIOUS
<1> HIDE DEF to
<1>5. y.t = x.t /\ y.id = x.id /\ y.to = to BY <1>2, <1>3
<1> QED BY <1>4, <1>5 DEF Key

\* What goes has a key that is not left.
LEMMA GoneKeys ==
    ASSUME RowsSound, NEW D, D \subseteq rows, NEW x \in Gone(rows, D), NEW y \in Without(rows, D)
    PROVE  Key(y) # Key(x)
<1>1. PICK z \in rows \ Gone(rows, D) : Key(y) = Key(z) BY LeftIs
<1>2. x \in rows BY GoneFrom
<1> QED BY <1>1, <1>2 DEF RowsSound, KeysHold

\* The rows that go at a step that loosens references.
Leave(r, D) ==
    /\ D \subseteq rows /\ rows' = Without(rows, D)
    /\ \/ \A x \in D : x.t # "Users"
       \/ D = {x \in In("Clients", rows) : x.id = call[r].client} \cup {x \in rows : Key(x) \in lock[r]}
          /\ pc[r] = "statements" /\ \E x \in D : Key(x) = <<"Clients", call[r].client>>

LEMMA DeleteLeaves ==
    ASSUME NEW r, NEW t, NEW id, t # "Users", Delete(r, t, id)
    PROVE  rows' = rows \/ \E D : Leave(r, D)
<1> DEFINE D == {x \in In(t, rows) : x.id = id}
<1>1. D \subseteq rows /\ \A x \in D : x.t # "Users" BY DEF In
<1>2. rows' = rows \/ rows' = Without(rows, D) BY DEF Delete, Fails
<1> QED BY <1>1, <1>2 DEF Leave

LEMMA LooseningIs ==
    ASSUME TableInv, NEW r \in Requests, Step(r), pc[r] \in Loosening
    PROVE  In("Users", rows) \subseteq rows' \/ \E D : Leave(r, D)
<1>1. CASE pc[r] = "statements"
  <2>1. DeleteRows(r) \/ DeleteClient(r) BY <1>1, StepIs, TenantsStepIs DEF TenantStages
  <2>2. CASE rows' = rows BY <2>2 DEF In
  <2>3. CASE DeleteClient(r) /\ rows' # rows
    <3> DEFINE C == {x \in In("Clients", rows) : x.id = call[r].client}
               D == C \cup {x \in rows : Key(x) \in lock[r]}
    <3>1. C # {} /\ rows' = Without(rows, D) BY <2>3 DEF DeleteClient, Fails
    <3>2. PICK x \in C : TRUE BY <3>1
    <3>3. x \in D /\ Key(x) = <<"Clients", call[r].client>> /\ D \subseteq rows
      BY <3>2 DEF Key, In
    <3>4. Leave(r, D) BY <1>1, <3>1, <3>3 DEF Leave
    <3> QED BY <3>4
  <2> QED BY <2>1, <2>2, <2>3 DEF DeleteRows, Fails
<1>2. CASE pc[r] = "dropDraft"
  <2>1. DropDraft(r) BY <1>2, StepIs, DraftsStepIs DEF DraftStages
  <2> QED BY <2>1, DeleteLeaves DEF DropDraft, In
<1>3. CASE pc[r] = "editTax"
  <2>1. UpdateTax(r) \/ DeleteTax(r) BY <1>3, StepIs, TaxesStepIs DEF TaxStages
  <2>2. call[r].table # "Users" BY <1>3 DEF TableInv, RequestFits, CallFits, TaxTables
  <2>3. CASE DeleteTax(r) BY <2>2, <2>3, DeleteLeaves DEF DeleteTax, In
  <2>4. CASE UpdateTax(r)
    <3> DEFINE t == call[r].table
               x == Get(t, call[r].id)
    <3>1. rows' = rows \/ (Has(t, call[r].id) /\ rows \ {x} \subseteq rows')
      BY <2>4 DEF UpdateTax, Write, Update, Fails
    <3>2. Has(t, call[r].id) => x.t = t BY RowOf DEF TableInv
    <3> HIDE DEF x
    <3> QED BY <2>2, <3>1, <3>2 DEF In
  <2> QED BY <2>1, <2>3, <2>4
<1> QED BY <1>1, <1>2, <1>3 DEF Loosening

\* A user loses no reference to what is still there.
LEMMA UserKeeps ==
    ASSUME TableInv, NEW r \in Requests, Step(r), NEW u \in In("Users", rows),
           NEW col \in DOMAIN u.to, <<pc[r], "Users", col>> \notin Writes,
           <<Parent[col], u.to[col]>> \in Keys(rows'), NEW y \in rows', Key(y) = Key(u)
    PROVE  y.to[col] = u.to[col]
<1>0. /\ TableInv' /\ u.t = "Users" /\ u \in rows /\ y \in In("Users", rows')
      /\ y.t = u.t /\ y.id = u.id
  BY StepKeeps DEF In, Key
<1>1. CASE pc[r] \notin Loosening
  <2>3. ~ IsNew(r, y) BY <1>0 DEF IsNew, Keys
  <2>1. PICK x \in In("Users", rows) : RowMoves(pc[r], x, y) /\ Key(x) = Key(y)
    BY <1>0, <2>3, UserBefore
  <2>2. x = u BY <1>0, <2>1 DEF In, TableInv, RowsSound, KeysHold
  <2> QED BY <1>0, <1>1, <2>1, <2>2 DEF RowMoves
<1>2. CASE u \in rows'
  <2>1. y = u BY <1>0, <1>2 DEF TableInv, RowsSound, KeysHold
  <2> QED BY <2>1
<1>3. ASSUME NEW D, Leave(r, D) PROVE y.to[col] = u.to[col]
  <2>1. RowsSound /\ D \subseteq rows /\ rows' = Without(rows, D) BY <1>3 DEF Leave, TableInv
  <2>2. PICK x \in rows \ Gone(rows, D) :
          /\ Key(y) = Key(x)
          /\ \A k \in DOMAIN x.to :
               y.to[k] = IF <<Parent[k], x.to[k]>> \in Keys(Gone(rows, D)) THEN None ELSE x.to[k]
    BY <2>1, LeftIs
  <2>3. x = u BY <1>0, <2>1, <2>2 DEF RowsSound, KeysHold
  <2>4. <<Parent[col], u.to[col]>> \notin Keys(Gone(rows, D)) BY <2>1, GoneKeys DEF Keys
  <2> QED BY <2>2, <2>3, <2>4
<1> QED BY <1>0, <1>1, <1>2, <1>3, LooseningIs DEF In

\* A user goes only with its client.
LEMMA UserGoes ==
    ASSUME TableInv, NEW r \in Requests, Step(r), NEW u \in In("Users", rows),
           Key(u) \notin Keys(rows')
    PROVE  <<"Clients", u.to["clientId"]>> \notin Keys(rows')
<1>0. u \in rows /\ u.t = "Users" /\ RowsSound BY DEF In, TableInv
<1>1. pc[r] = "statements"
  <2>1. Removes(pc[r], "Users")
    <3>1. Removes(pc[r], u.t) \/ \E y \in rows' : RowMoves(pc[r], u, y)
      BY <1>0, StepKeeps DEF Outcome, Effect
    <3> QED BY <1>0, <3>1, KeysEvolve DEF Keys
  <2> QED BY <2>1 DEF Removes, TaxTables
<1>2. u \notin rows' BY DEF Keys
<1>3. PICK D : Leave(r, D) BY <1>1, <1>2, LooseningIs DEF Loosening
<1>4. D \subseteq rows /\ rows' = Without(rows, D) BY <1>3 DEF Leave
<1>5. u \in D
  <2>1. u \in Gone(rows, D)
    <3> SUFFICES ASSUME u \notin Gone(rows, D) PROVE FALSE OBVIOUS
    <3> DEFINE v == Loosen(u, Keys(Gone(rows, D)))
    <3>1. v \in rows' BY <1>0, <1>4 DEF Without
    <3>2. Key(v) = Key(u)
      <4> DEFINE to == [col \in DOMAIN u.to |->
                          IF <<Parent[col], u.to[col]>> \in Keys(Gone(rows, D)) THEN None ELSE u.to[col]]
      <4>1. v = [u EXCEPT !.to = to] BY DEF Loosen
      <4>2. u = [t |-> u.t, id |-> u.id, to |-> u.to, on |-> u.on, no |-> u.no, out |-> u.out]
        BY <1>0 DEF RowsSound, IsRow
      <4> HIDE DEF to, v
      <4> QED BY <4>1, <4>2 DEF Key
    <3> QED BY <3>1, <3>2 DEF Keys
  <2>2. \A S, T : u \notin Via(S, T, Cascades) BY <1>0 DEF Via, Cascades
  <2> QED BY <2>1, <2>2 DEF Gone
<1>6. PICK x \in D : Key(x) = <<"Clients", call[r].client>> /\ Key(u) \in lock[r]
  BY <1>0, <1>3, <1>5 DEF Leave, In
<1>7. u.to["clientId"] = call[r].client BY <1>1, <1>6 DEF TableInv, RequestFits, LockFits
<1>8. \A y \in rows' : Key(y) # Key(x) BY <1>0, <1>4, <1>6, GoneFrom, GoneKeys
<1> QED BY <1>6, <1>7, <1>8 DEF Keys

BusinessInv ==
    /\ BusinessReachesUser
    /\ \A x \in In("Business", rows) : x.id \in Requests => x.to["clientId"] = call[x.id].client
    /\ \A u \in In("Users", rows) : LET b == u.to["businessId"] IN
         b \in Requests => pc[b] = "ok" /\ Is(b, "setBusiness") /\ call[b].client = u.to["clientId"]
    /\ \A r \in Requests : pc[r] \in {"business", "link"} =>
         /\ MadeUser(call[r].user)
         /\ \A u \in In("Users", rows) : u.id = call[r].user => u.to["clientId"] = call[r].client

LEMMA BusinessIs ==
    ASSUME TableInv, NEW b \in In("Business", rows)
    PROVE  /\ b \in rows /\ b.t = "Business" /\ "clientId" \in DOMAIN b.to
           /\ <<"Clients", b.to["clientId"]>> \in Keys(rows)
           /\ b.id \in Requests => pc[b.id] \in {"ok", "link", "failed"}
<1>1. b \in rows /\ b.t = "Business" /\ "clientId" \in DOMAIN b.to /\ b.to["clientId"] # None
  BY DEF In, TableInv, RowsSound, IsRow, Mandatory
<1>2. <<Parent["clientId"], b.to["clientId"]>> \in Parents(b) BY <1>1 DEF Parents
<1> QED BY <1>1, <1>2, MadeIs DEF TableInv, RowsSound, KeysHold, MadeBy, Parent

LEMMA QuietBusiness ==
    ASSUME TableInv, BusinessInv, Quiet
    PROVE  BusinessInv'
<1>1. rows' = rows /\ Past /\ \A q \in Requests : pc'[q] = "ok" => pc[q] = "ok"
  BY DEF Quiet, Starts, Waits
<1>2. BusinessReachesUser' BY <1>1 DEF BusinessInv, BusinessReachesUser, In, RefersTo
<1>3. \A x \in In("Business", rows) : x.id \in Requests => x.to["clientId"] = call'[x.id].client
  <2> SUFFICES ASSUME NEW x \in In("Business", rows), x.id \in Requests
               PROVE  x.to["clientId"] = call'[x.id].client
    OBVIOUS
  <2>1. pc[x.id] # "idle" BY BusinessIs
  <2> QED BY <1>1, <2>1 DEF Past, BusinessInv
<1>4. \A u \in In("Users", rows) : u.to["businessId"] \in Requests =>
        /\ pc'[u.to["businessId"]] = "ok" /\ call'[u.to["businessId"]].op = "setBusiness"
        /\ call'[u.to["businessId"]].client = u.to["clientId"]
  BY <1>1 DEF BusinessInv, Past, Ended, Is
<1>5. ASSUME NEW r \in Requests, pc'[r] \in {"business", "link"}, NEW u \in In("Users", rows),
             u.id = call'[r].user
      PROVE  u.to["clientId"] = call'[r].client
  <2>1. CASE pc'[r] = pc[r] /\ call'[r] = call[r] BY <1>5, <2>1 DEF BusinessInv
  <2>2. CASE AsksAt(call'[r], seen'[r], pc'[r]) /\ pc'[r] = "business"
    <3> DEFINE c == call'[r]
    <3>1. c.user \in Ids("Users", rows) /\ c.client = ClientOf(c.user) BY <2>2 DEF AsksAt
    <3> HIDE DEF c
    <3>2. \A x \in rows : x.t = "Users" /\ x.id = c.user => x = Get("Users", c.user)
      BY <3>1, RowFor
    <3>3. u = Get("Users", c.user) BY <1>5, <3>2 DEF In, c
    <3>4. u.to["clientId"] = c.client BY <3>1, <3>3 DEF ClientOf
    <3> QED BY <3>4 DEF c
  <2> QED BY <1>5, <2>1, <2>2 DEF Quiet, Starts
<1>6. ASSUME NEW r \in Requests, pc'[r] \in {"business", "link"}
      PROVE  MadeUser(call[r].user)'
  <2>1. MadeUser(call'[r].user)
    <3>1. CASE pc'[r] = pc[r] /\ call'[r] = call[r] BY <1>6, <3>1 DEF BusinessInv
    <3>2. CASE AsksAt(call'[r], seen'[r], pc'[r]) /\ pc'[r] = "business"
      BY <1>6, <3>2, UserIsMade DEF AsksAt
    <3> QED BY <1>6, <3>1, <3>2 DEF Quiet, Starts
  <2> QED BY <2>1, MadeUserStays DEF MadeUser
<1> QED BY <1>1, <1>2, <1>3, <1>4, <1>5, <1>6 DEF BusinessInv, In, Is

\* What the two commits write.
LEMMA BusinessAdded ==
    ASSUME TableInv, NEW r \in Requests, Step(r), pc[r] = "business"
    PROVE  \/ rows' = rows
           \/ /\ rows' = rows \cup {BusinessRow(r)} /\ BusinessRow(r).to["clientId"] = call[r].client
              /\ BusinessRow(r).t = "Business" /\ BusinessRow(r).id = r /\ pc'[r] = "link"
<1>1. CreateBusiness(r) BY StepIs, InvoicingStepIs DEF InvoicingStages
<1>2. CASE pc'[r] = "link" BY <1>1, <1>2, BusinessMade
<1>3. CASE pc'[r] # "link" BY <1>1, <1>3 DEF CreateBusiness, Fails, Goto, TableInv, StateFits
<1> QED BY <1>2, <1>3

LEMMA UserLinked ==
    ASSUME TableInv, NEW r \in Requests, Step(r), pc[r] = "link"
    PROVE  \/ rows' = rows /\ pc'[r] = "failed"
           \/ /\ pc'[r] = "ok" /\ Has("Business", r)
              /\ \E x \in In("Users", rows) : \E y :
                      /\ rows' = (rows \ {x}) \cup {y} /\ x.id = call[r].user
                      /\ y.t = "Users" /\ RefersTo(y, "businessId", r)
                      /\ y.to["clientId"] = x.to["clientId"]
<1> DEFINE u == call[r].user
           x == Get("Users", u)
           y == Moved(x, "businessId", r)
<1>1. LinkUser(r) BY StepIs, InvoicingStepIs DEF InvoicingStages
<1>2. CASE Fails(r) BY <1>2, EndLocal DEF Fails, TableInv, Over
<1>3. CASE Has("Business", r) /\ Has("Users", u) /\ Update(x, y) /\ End(r, "ok")
  <2>1. pc'[r] = "ok" BY <1>3, EndLocal DEF TableInv, Over
  <2>2. x \in rows /\ x.t = "Users" /\ x.id = u /\ IsRow(x)
    BY <1>3, RowOf DEF TableInv, RowsSound
  <2>3. {"businessId", "clientId"} \subseteq DOMAIN x.to BY <2>2, UserIs DEF In
  <2> HIDE DEF x
  <2>4. /\ Key(y) = Key(x) /\ DOMAIN y.to = DOMAIN x.to
        /\ \A col \in DOMAIN x.to : y.to[col] = IF col = "businessId" THEN r ELSE x.to[col]
    BY <2>2, ToWritten, OfficeAssumption
  <2> HIDE DEF y
  <2>5. y.t = "Users" /\ RefersTo(y, "businessId", r) /\ y.to["clientId"] = x.to["clientId"]
    BY <2>2, <2>3, <2>4 DEF Key, RefersTo
  <2>6. rows' = (rows \ {x}) \cup {y} /\ x \in In("Users", rows) BY <1>3, <2>2 DEF Update, In
  <2> QED BY <1>3, <2>1, <2>2, <2>5, <2>6
<1> QED BY <1>1, <1>2, <1>3 DEF LinkUser, Write, Moved

LEMMA StepBusiness ==
    ASSUME TableInv, BusinessInv, NEW r \in Requests, Step(r)
    PROVE  BusinessInv'
<1>1. /\ TableInv' /\ Past /\ InFlight(r) /\ call' = call
      /\ \A q \in Requests \ {r} : pc'[q] = pc[q]
  BY StepKeeps, StepPast
<1>2. ASSUME NEW x \in In("Business", rows'), x.id \in Requests
      PROVE  x.to["clientId"] = call[x.id].client
  <2>1. CASE IsNew(r, x)
    <3>1. pc[r] = "business" /\ x \notin rows /\ x \in rows'
      BY <1>2, <2>1 DEF IsNew, Makes, In, TaxTables, Keys
    <3> QED BY <2>1, <3>1, BusinessAdded DEF IsNew
  <2>2. ASSUME NEW z \in rows, RowMoves(pc[r], z, x) PROVE x.to["clientId"] = call[x.id].client
    <3>1. z \in In("Business", rows) /\ z.id = x.id BY <1>2, <2>2, KeysEvolve DEF In
    <3>a. "clientId" \in DOMAIN z.to BY <3>1, BusinessIs
    <3>2. x.to["clientId"] = z.to["clientId"] BY <2>2, <3>a, ClientStays
    <3> QED BY <1>2, <3>1, <3>2 DEF BusinessInv
  <2> QED BY <2>1, <2>2, Carried DEF In
<1>3. ASSUME NEW q \in Requests, pc'[q] \in {"business", "link"}, NEW u \in In("Users", rows'),
             u.id = call[q].user
      PROVE  u.to["clientId"] = call[q].client
  <2>1. pc[q] \in {"business", "link"} BY <1>1, <1>3, NextStage DEF Ended
  <2>2. ~ IsNew(r, u) BY <1>3, <2>1, NotNewUser DEF BusinessInv
  <2>3. PICK v \in In("Users", rows) : v.id = u.id /\ u.to["clientId"] = v.to["clientId"]
    BY <2>2, UserBefore
  <2> QED BY <1>3, <2>1, <2>3 DEF BusinessInv
<1>4. ASSUME NEW u \in In("Users", rows'), NEW b \in Requests, b = u.to["businessId"]
      PROVE  pc'[b] = "ok" /\ Is(b, "setBusiness") /\ call[b].client = u.to["clientId"]
  <2>4. ~ IsNew(r, u) BY <1>4, OfficeAssumption DEF IsNew, Fresh, In
  <2>1. PICK v \in In("Users", rows) :
          RowMoves(pc[r], v, u) /\ v.id = u.id /\ Key(v) = Key(u) /\ u.to["clientId"] = v.to["clientId"]
    BY <2>4, UserBefore
  <2>2. CASE v.to["businessId"] = b BY <1>1, <2>1, <2>2 DEF BusinessInv, Past, Ended
  <2>3. CASE v.to["businessId"] # b
    <3>1. pc[r] = "link"
      <4>1. "businessId" \in DOMAIN v.to /\ v.t = "Users" /\ b # None
        BY UserIs, OfficeAssumption
      <4>2. <<pc[r], "Users", "businessId">> \in Writes BY <1>4, <2>1, <2>3, <4>1 DEF RowMoves
      <4> QED BY <4>2 DEF Writes
    <3>2. u \notin rows
      <4> SUFFICES ASSUME u \in rows PROVE FALSE OBVIOUS
      <4>1. u = v BY <2>1, UserIs DEF TableInv, RowsSound, KeysHold
      <4> QED BY <1>4, <2>3, <4>1
    <3>3. PICK x \in In("Users", rows) : \E y :
            /\ pc'[r] = "ok" /\ rows' = (rows \ {x}) \cup {y} /\ x.id = call[r].user
            /\ RefersTo(y, "businessId", r) /\ y.to["clientId"] = x.to["clientId"]
      BY <3>1, <3>2, UserLinked DEF In
    <3>4. /\ b = r /\ pc'[r] = "ok" /\ x.id = call[r].user /\ u.to["clientId"] = x.to["clientId"]
      BY <1>4, <3>2, <3>3 DEF In, RefersTo
    <3>5. x.to["clientId"] = call[r].client BY <3>1, <3>3 DEF BusinessInv
    <3>6. Is(r, "setBusiness") BY <3>1 DEF TableInv, RequestFits, CallFits, Op, Is
    <3> QED BY <3>4, <3>5, <3>6
  <2> QED BY <2>2, <2>3
<1>5. ASSUME NEW b \in In("Business", rows'), b.id \in Requests, pc'[b.id] = "ok"
      PROVE  \E u \in In("Users", rows') : RefersTo(u, "businessId", b.id)
  <2>1. CASE pc[r] = "link" /\ b.id = r BY <1>5, <2>1, UserLinked DEF In
  <2>2. CASE ~ (pc[r] = "link" /\ b.id = r)
    <3>1. PICK z \in In("Business", rows) : z.id = b.id /\ z.to["clientId"] = b.to["clientId"]
      <4>1. ~ IsNew(r, b)
        <5> SUFFICES ASSUME IsNew(r, b) PROVE FALSE OBVIOUS
        <5>1. pc[r] = "business" /\ b.id = r /\ b \notin rows /\ b \in rows'
          BY <1>5 DEF IsNew, Makes, In, TaxTables, Keys
        <5> QED BY <1>5, <5>1, BusinessAdded
      <4>2. PICK z \in rows : RowMoves(pc[r], z, b) BY <4>1, Carried DEF In
      <4>3. z \in In("Business", rows) /\ z.id = b.id BY <1>5, <4>2, KeysEvolve DEF In
      <4>4. "clientId" \in DOMAIN z.to BY <4>3, BusinessIs
      <4> QED BY <4>2, <4>3, <4>4, ClientStays
    <3>2. b.id # r /\ pc[b.id] = "ok"
      <4>1. b.id # r
        <5> SUFFICES ASSUME b.id = r PROVE FALSE OBVIOUS
        <5>1. pc[r] \in {"ok", "link", "failed"} BY <1>5, <3>1, BusinessIs
        <5> QED BY <1>1, <2>2, <5>1 DEF InFlight, Ended
      <4> QED BY <1>1, <1>5, <4>1
    <3>3. PICK v \in In("Users", rows) : RefersTo(v, "businessId", b.id)
      BY <1>5, <3>1, <3>2 DEF BusinessInv, BusinessReachesUser
    <3>4. /\ v.to["businessId"] = b.id /\ "businessId" \in DOMAIN v.to /\ v \in rows /\ v.t = "Users"
          /\ v.to["clientId"] = call[b.id].client /\ b.to["clientId"] = v.to["clientId"]
      BY <1>2, <1>5, <3>3, UserIs DEF RefersTo, BusinessInv
    <3>5. CASE pc[r] = "link"
      <4>1. CASE rows' = rows BY <3>3, <4>1 DEF In
      <4>2. CASE rows' # rows
        <5>1. PICK x \in In("Users", rows) : \E y :
                Has("Business", r) /\ rows' = (rows \ {x}) \cup {y} /\ x.id = call[r].user
          BY <3>5, <4>2, UserLinked
        <5>2. v # x
          <6> SUFFICES ASSUME v = x PROVE FALSE OBVIOUS
          <6>1. v.to["clientId"] = call[r].client BY <3>5, <5>1 DEF BusinessInv
          <6>2. PICK c \in In("Business", rows) : c.id = r BY <5>1 DEF Has, Ids
          <6>3. c.to["clientId"] = call[r].client BY <6>2 DEF BusinessInv
          <6>4. c = z BY <3>1, <3>4, <6>1, <6>3 DEF TableInv, IndexesHold, UniqueIn
          <6> QED BY <3>1, <3>2, <6>2, <6>4
        <5> QED BY <3>3, <3>4, <5>1, <5>2 DEF In
      <4> QED BY <4>1, <4>2
    <3>6. CASE pc[r] # "link"
      <4>1. Key(v) \in Keys(rows')
        <5> SUFFICES ASSUME Key(v) \notin Keys(rows') PROVE FALSE OBVIOUS
        <5>1. <<"Clients", v.to["clientId"]>> \notin Keys(rows') BY UserGoes
        <5>2. <<"Clients", b.to["clientId"]>> \in Keys(rows')
          <6>1. <<Parent["clientId"], b.to["clientId"]>> \in Parents(b)
            BY <1>1, <1>5 DEF TableInv, RowsSound, IsRow, Mandatory, In, Parents
          <6> QED BY <1>1, <1>5, <6>1 DEF TableInv, RowsSound, KeysHold, In, Parent
        <5> QED BY <3>4, <5>1, <5>2
      <4>2. PICK w \in rows' : Key(w) = Key(v) BY <4>1 DEF Keys
      <4>3. <<Parent["businessId"], v.to["businessId"]>> \in Keys(rows')
        BY <1>5, <3>4 DEF Keys, Key, In, Parent
      <4>4. <<pc[r], "Users", "businessId">> \notin Writes BY <3>6 DEF Writes
      <4>5. w.to["businessId"] = v.to["businessId"] BY <3>4, <4>2, <4>3, <4>4, UserKeeps
      <4>6. w \in In("Users", rows') BY <3>4, <4>2 DEF Key, In
      <4>7. "businessId" \in DOMAIN w.to BY <1>1, <4>6 DEF TableInv, RowsSound, IsRow, In
      <4> QED BY <3>4, <4>5, <4>6, <4>7 DEF RefersTo
    <3> QED BY <3>5, <3>6
  <2> QED BY <2>1, <2>2
<1>6. BusinessReachesUser' BY <1>5 DEF BusinessReachesUser, In, RefersTo
<1>7. ASSUME NEW q \in Requests, pc'[q] \in {"business", "link"}
      PROVE  MadeUser(call[q].user)'
  <2>1. pc[q] \in {"business", "link"} BY <1>1, <1>7, NextStage DEF Ended
  <2>2. MadeUser(call[q].user) BY <2>1 DEF BusinessInv
  <2> QED BY <1>1, <2>2, MadeUserStays DEF MadeUser
<1> QED BY <1>1, <1>2, <1>3, <1>4, <1>6, <1>7 DEF BusinessInv, In, Is

----------------------------------------------------------------------------
(* What is one change in two rows *)

ChangeInv == TableInv /\ History /\ StatusInv /\ BusinessInv

LEMMA InitChange ==
    ASSUME Init
    PROVE  ChangeInv
<1>1. TableInv /\ History BY InitTables, InitHistory
<1>2. rows = SeedRows /\ \A r \in Requests : pc[r] = "idle" BY DEF Init
<1>3. StatusInv BY <1>2 DEF StatusInv
<1>4. \A x \in In("Business", rows) : x.id \notin Requests BY <1>2, SeedAssumption DEF In
<1>5. ASSUME NEW u \in In("Users", rows), u.to["businessId"] \in Requests PROVE FALSE
  <2> DEFINE b == u.to["businessId"]
  <2>1. <<Parent["businessId"], b>> \in Parents(u)
    BY <1>1, <1>5, UserIs, OfficeAssumption DEF Parents
  <2>2. PICK x \in rows : Key(x) = <<Parent["businessId"], b>>
    BY <1>1, <2>1, UserIs DEF TableInv, RowsSound, KeysHold, Keys
  <2>3. x.id = b /\ x \in SeedRows BY <1>2, <2>2 DEF Key
  <2> QED BY <1>5, <2>3, SeedAssumption
<1>6. BusinessInv BY <1>2, <1>4, <1>5 DEF BusinessInv, BusinessReachesUser
<1> QED BY <1>1, <1>3, <1>6 DEF ChangeInv

LEMMA NextChange ==
    ASSUME ChangeInv, [Next]_vars
    PROVE  ChangeInv'
<1>1. TableInv' /\ History' BY NextTables, HistoryKeeps DEF ChangeInv
<1>2. CASE Quiet BY <1>1, <1>2, QuietStatus, QuietBusiness DEF ChangeInv
<1>3. CASE \E r \in Requests : Step(r) BY <1>1, <1>3, StepStatus, StepBusiness DEF ChangeInv
<1> QED BY <1>2, <1>3, NextIs DEF ChangeInv

\* A business that was entered reaches the user who entered it, and a change of the
\* status of a tenant reaches all users of it but those another request gave theirs
\* while both were at work, however many requests of all kinds there are
\* (setBusinessInfo, updateTenantStatus; create, update, activate and deactivate of
\* employees, acceptInvite).
THEOREM OfficeRowsChangeTogether == Spec => RowsChangeTogether
<1>1. Init => ChangeInv BY InitChange
<1>2. ChangeInv /\ [Next]_vars => ChangeInv' BY NextChange
<1>3. ChangeInv => BusinessReachesUser BY DEF ChangeInv, BusinessInv
<1>4. Spec => []BusinessReachesUser BY <1>1, <1>2, <1>3, PTL DEF Spec
<1> DEFINE Reaching ==
             \A r \in Requests : (pc[r] = "client" /\ pc'[r] = "ok") =>
               \A u \in In("Users", rows') :
                 (RefersTo(u, "clientId", call[r].client) /\ u.on # call[r].on) =>
                   \E q \in Requests \ {r} : Met(q, r) /\ SetsStatus(q, call[r].client, u.id)
<1>5. ChangeInv /\ [Next]_vars => Reaching BY StatusReached DEF ChangeInv, Excused
<1>6. Spec => [][Reaching]_vars
  <2> HIDE DEF Reaching
  <2> QED BY <1>1, <1>2, <1>5, PTL DEF Spec
<1> QED BY <1>4, <1>6 DEF RowsChangeTogether, StatusReachesUsers

----------------------------------------------------------------------------
(* Suppliers, and the exclusions of users *)

\* Store s is open, or was taken from r.
OpenTo(r, s) == \A x \in In("Stores", rows) : x.id = s => IsOn(x) \/ StoreTakenFrom(r, s)

InPlace(r) == \A x \in In("Suppliers", rows) : x.id = call[r].supplier => x.to["storeId"] = call[r].store

SupplierInv ==
    \A r \in Requests :
      /\ pc[r] = "supplier" => \A s \in seen[r] : OpenTo(r, s.id)
      /\ (pc[r] = "editSupplier" /\ Is(r, "updateSupplier")) =>
           /\ OpenTo(r, call[r].store) \/ SupplierMoved(r, call[r].supplier) \/ InPlace(r)
           /\ call[r].supplier \in Requests => pc[call[r].supplier] = "ok"

LEMMA SupplierIs ==
    ASSUME TableInv, NEW x \in In("Suppliers", rows)
    PROVE  x \in rows /\ x.t = "Suppliers" /\ IsRow(x) /\ "storeId" \in DOMAIN x.to
  BY DEF In, TableInv, RowsSound, IsRow, Mandatory

\* Races with others that are known of are not forgotten.
LEMMA TakenStays ==
    ASSUME History, Past, NEW r \in Requests, NEW s
    PROVE  /\ StoreTakenFrom(r, s) => StoreTakenFrom(r, s)'
           /\ SupplierMoved(r, s) => SupplierMoved(r, s)'
<1>1. ASSUME NEW q \in Requests, Met(q, r), call[q].op # "none"
      PROVE  Met(q, r)' /\ call'[q] = call[q]
  BY <1>1 DEF History, NoCall, Past, Met
<1>2. ASSUME NEW q \in Requests, Met(q, r), Is(q, "deleteStore"), call[q].store = s
      PROVE  StoreTakenFrom(r, s)'
  BY <1>1, <1>2 DEF StoreTakenFrom, Is
<1>3. ASSUME NEW q \in Requests, Met(q, r), Is(q, "updateSupplier"), call[q].supplier = s
      PROVE  SupplierMoved(r, s)'
  BY <1>1, <1>3 DEF SupplierMoved, Is
<1> QED BY <1>2, <1>3 DEF StoreTakenFrom, SupplierMoved

\* What the edits of stores and suppliers write.
LEMMA StoreSet ==
    ASSUME TableInv, NEW r \in Requests, Step(r), pc[r] = "editStore", NEW y \in rows', y \notin rows
    PROVE  Is(r, "deleteStore") /\ call[r].store = y.id
<1> DEFINE s == call[r].store
           x == Get("Stores", s)
           z == [x EXCEPT !.on = FALSE]
<1>1. UpdateStore(r) \/ DeleteStore(r) BY StepIs, ShopsStepIs DEF ShopStages
<1>2. ~ UpdateStore(r) BY DEF UpdateStore, Fails
<1>3. Is(r, "deleteStore") /\ Has("Stores", s) /\ Update(x, z)
  BY <1>1, <1>2 DEF DeleteStore, Write, Fails
<1>4. x \in rows /\ x.id = s /\ IsRow(x) BY <1>3, RowOf DEF TableInv, RowsSound
<1> HIDE DEF x
<1>7. FALSE \in Statuses BY DEF Statuses
<1>5. Key(z) = Key(x) BY <1>4, <1>7, OnWritten
<1>6. y = z BY <1>3 DEF Update
<1> QED BY <1>3, <1>4, <1>5, <1>6 DEF Key

\* The supplier of r is moved to the store it asked for.
MovesTo(r, x, y) ==
    /\ Is(r, "updateSupplier") /\ Has("Stores", call[r].store)
    /\ DOMAIN y.to = DOMAIN x.to
    /\ \A col \in DOMAIN x.to : y.to[col] = IF col = "storeId" THEN call[r].store ELSE x.to[col]

LEMMA SupplierSet ==
    ASSUME TableInv, NEW r \in Requests, Step(r), pc[r] = "editSupplier", NEW y \in rows', y \notin rows
    PROVE  \E x \in In("Suppliers", rows) :
             x.id = y.id /\ x.id = call[r].supplier /\ (y.to = x.to \/ MovesTo(r, x, y))
<1> DEFINE p == call[r].supplier
           s == call[r].store
           x == Get("Suppliers", p)
<1>1. UpdateSupplier(r) \/ DeleteSupplier(r) BY StepIs, ShopsStepIs DEF ShopStages
<1>2. CASE DeleteSupplier(r)
  <2> DEFINE z == [x EXCEPT !.on = FALSE]
  <2>1. Has("Suppliers", p) /\ Update(x, z) BY <1>2 DEF DeleteSupplier, Write, Fails
  <2>2. x \in rows /\ x.id = p /\ IsRow(x) /\ x \in In("Suppliers", rows)
    BY <2>1, RowOf DEF TableInv, RowsSound, In
  <2> HIDE DEF x
  <2>5. FALSE \in Statuses BY DEF Statuses
  <2>3. Key(z) = Key(x) /\ z.to = x.to BY <2>2, <2>5, OnWritten
  <2>4. y = z BY <2>1 DEF Update
  <2> QED BY <2>2, <2>3, <2>4 DEF Key
<1>3. CASE UpdateSupplier(r)
  <2> DEFINE z == Moved(x, "storeId", s)
  <2>1. /\ Is(r, "updateSupplier") /\ Has("Stores", s) /\ Has("Suppliers", p) /\ Update(x, z)
    BY <1>3 DEF UpdateSupplier, Write, Fails, Moved
  <2>2. x \in rows /\ x.id = p /\ IsRow(x) /\ x \in In("Suppliers", rows)
    BY <2>1, RowOf DEF TableInv, RowsSound, In
  <2>3. s # None BY <2>1, RowOf DEF TableInv, RowsSound, IsRow
  <2> HIDE DEF x
  <2>4. /\ Key(z) = Key(x) /\ DOMAIN z.to = DOMAIN x.to
        /\ \A col \in DOMAIN x.to : z.to[col] = IF col = "storeId" THEN s ELSE x.to[col]
    BY <2>2, <2>3, ToWritten
  <2>5. y = z BY <2>1 DEF Update
  <2> HIDE DEF z
  <2>6. MovesTo(r, x, y) BY <2>1, <2>4, <2>5 DEF MovesTo
  <2> QED BY <2>2, <2>4, <2>5, <2>6 DEF Key
<1> QED BY <1>1, <1>2, <1>3

LEMMA QuietSuppliers ==
    ASSUME TableInv, History, SupplierInv, Quiet
    PROVE  SupplierInv'
<1>1. rows' = rows /\ Past BY DEF Quiet
<1>2. ASSUME NEW r \in Requests, NEW s, OpenTo(r, s) PROVE OpenTo(r, s)'
  BY <1>1, <1>2, TakenStays DEF OpenTo, In
<1>3. ASSUME NEW r \in Requests, pc'[r] = "supplier", NEW s \in seen'[r]
      PROVE  OpenTo(r, s.id)'
  <2>1. CASE pc'[r] = pc[r] /\ seen'[r] = seen[r] BY <1>2, <1>3, <2>1 DEF SupplierInv
  <2>2. CASE AsksAt(call'[r], seen'[r], pc'[r])
    <3>1. PICK k : s = Get("Stores", k) /\ ActiveStore(k) BY <1>3, <2>2 DEF AsksAt
    <3>2. s.id = k /\ IsOn(s) /\ \A x \in rows : x.t = "Stores" /\ x.id = k => x = s
      BY <3>1, RowOf DEF ActiveStore, TableInv, IsOn, RowsSound, IsRow
    <3>3. OpenTo(r, s.id) BY <3>2 DEF OpenTo, In
    <3> QED BY <1>2, <3>3
  <2> QED BY <1>3, <2>1, <2>2 DEF Quiet
<1>4. ASSUME NEW r \in Requests, pc'[r] = "editSupplier", call'[r].op = "updateSupplier",
             NEW p, p = call'[r].supplier, NEW s, s = call'[r].store
      PROVE  /\ \/ OpenTo(r, s)' \/ SupplierMoved(r, p)'
                \/ \A x \in In("Suppliers", rows) : x.id = p => x.to["storeId"] = s
             /\ p \in Requests => pc'[p] = "ok"
  <2>1. CASE pc'[r] = pc[r] /\ call'[r] = call[r]
    <3>1. /\ OpenTo(r, s) \/ SupplierMoved(r, p)
             \/ \A x \in In("Suppliers", rows) : x.id = p => x.to["storeId"] = s
          /\ p \in Requests => pc[p] = "ok"
      BY <1>4, <2>1 DEF SupplierInv, InPlace, Is
    <3> QED BY <1>1, <1>2, <3>1, TakenStays DEF Past, Ended
  <2>2. CASE AsksAt(call'[r], seen'[r], pc'[r])
    <3> DEFINE x == Get("Suppliers", p)
    <3>1. Has("Suppliers", p) /\ (~ RefersTo(x, "storeId", s) => ActiveStore(s))
      BY <1>4, <2>2 DEF AsksAt, ActiveSupplier
    <3>2. \A y \in rows : y.t = "Suppliers" /\ y.id = p => y = x BY <3>1, RowOf DEF TableInv
    <3>3. p \in Requests => pc[p] = "ok"
      <4>1. p \in Ids("Suppliers", rows) BY <3>1 DEF Has
      <4> QED BY <4>1, RowFor
    <3> HIDE DEF x
    <3>4. CASE RefersTo(x, "storeId", s)
      BY <1>1, <3>2, <3>3, <3>4 DEF RefersTo, In, Past, Ended
    <3>5. CASE ActiveStore(s)
      <4>1. \A y \in rows : y.t = "Stores" /\ y.id = s => y = Get("Stores", s)
        BY <3>5, RowOf DEF TableInv, ActiveStore
      <4>2. OpenTo(r, s)
        BY <3>5, <4>1 DEF OpenTo, In, ActiveStore, IsOn, TableInv, RowsSound, IsRow
      <4> QED BY <1>1, <1>2, <3>3, <4>2 DEF Past, Ended
    <3> QED BY <3>1, <3>4, <3>5
  <2> QED BY <1>4, <2>1, <2>2 DEF Quiet
<1>5. ASSUME NEW r \in Requests, pc'[r] = "editSupplier", Is(r, "updateSupplier")'
      PROVE  /\ OpenTo(r, call[r].store)' \/ SupplierMoved(r, call[r].supplier)' \/ InPlace(r)'
             /\ call'[r].supplier \in Requests => pc'[call'[r].supplier] = "ok"
  <2> SUFFICES ASSUME NEW p, p = call'[r].supplier, NEW s, s = call'[r].store
               PROVE  /\ OpenTo(r, call[r].store)' \/ SupplierMoved(r, call[r].supplier)' \/ InPlace(r)'
                      /\ call'[r].supplier \in Requests => pc'[call'[r].supplier] = "ok"
    OBVIOUS
  <2>1. /\ OpenTo(r, s)' \/ SupplierMoved(r, p)' \/ \A x \in In("Suppliers", rows) : x.id = p => x.to["storeId"] = s
        /\ p \in Requests => pc'[p] = "ok"
    BY <1>4, <1>5 DEF Is
  <2>2. OpenTo(r, s)' => OpenTo(r, call[r].store)' BY DEF OpenTo, StoreTakenFrom
  <2>3. SupplierMoved(r, p)' => SupplierMoved(r, call[r].supplier)' BY DEF SupplierMoved
  <2>4. (\A x \in In("Suppliers", rows) : x.id = p => x.to["storeId"] = s) => InPlace(r)'
    BY <1>1 DEF InPlace, In
  <2> QED BY <2>1, <2>2, <2>3, <2>4
<1> QED BY <1>3, <1>5 DEF SupplierInv

\* A step leaves open what was open for another, unless it takes it away.
LEMMA OpenStays ==
    ASSUME TableInv, History, NEW r \in Requests, Step(r), NEW q \in Requests \ {r}, InFlight(q),
           NEW s, OpenTo(q, s)
    PROVE  OpenTo(q, s)'
<1> SUFFICES ASSUME NEW y \in In("Stores", rows'), y.id = s PROVE IsOn(y) \/ StoreTakenFrom(q, s)'
  BY DEF OpenTo, In, IsOn
<1>1. Past /\ call' = call /\ raced' = raced /\ Met(r, q) /\ y \in rows' /\ y.t = "Stores"
  BY StepPast DEF History, In
<1>2. CASE IsNew(r, y) BY <1>1, <1>2 DEF IsNew, Fresh
<1>3. ASSUME NEW x \in rows, RowMoves(pc[r], x, y) PROVE IsOn(y) \/ StoreTakenFrom(q, s)'
  <2>1. x \in In("Stores", rows) /\ x.id = s BY <1>1, <1>3, KeysEvolve DEF In
  <2>2. IsOn(x) \/ StoreTakenFrom(q, s) BY <2>1 DEF OpenTo
  <2>3. CASE y.on = x.on BY <2>2, <2>3, StepPast, TakenStays DEF IsOn
  <2>4. CASE y.on # x.on
    <3>1. pc[r] = "editStore" BY <1>1, <1>3, <2>1, <2>4 DEF RowMoves, Writes, In
    <3>2. y \notin rows
      <4>1. y \in rows => y = x BY <1>1, <2>1, SameKey DEF In
      <4> QED BY <2>4, <4>1
    <3>3. Is(r, "deleteStore") /\ call[r].store = s BY <1>1, <3>1, <3>2, StoreSet
    <3> QED BY <1>1, <3>3 DEF StoreTakenFrom, Is, Met
  <2> QED BY <2>3, <2>4
<1> QED BY <1>1, <1>2, <1>3, Carried

LEMMA StepSuppliers ==
    ASSUME TableInv, History, SupplierInv, NEW r \in Requests, Step(r)
    PROVE  SupplierInv'
<1>1. /\ Past /\ InFlight(r) /\ call' = call /\ raced' = raced
      /\ \A q \in Requests \ {r} : pc'[q] = pc[q] /\ seen'[q] = seen[q]
  BY StepPast
<1>2. ASSUME NEW q \in Requests, pc'[q] \in {"supplier", "editSupplier"}
      PROVE  q # r /\ pc[q] = pc'[q] /\ InFlight(q) /\ Met(r, q) /\ seen'[q] = seen[q]
  <2>1. q # r BY <1>2, NextStage DEF Ended
  <2>2. pc[q] = pc'[q] /\ InFlight(q) /\ seen'[q] = seen[q]
    BY <1>1, <1>2, <2>1 DEF InFlight, Ended
  <2> QED BY <1>1, <2>1, <2>2 DEF History
<1>3. ASSUME NEW q \in Requests, pc'[q] = "supplier", NEW s \in seen'[q]
      PROVE  OpenTo(q, s.id)'
  <2>1. q # r /\ InFlight(q) /\ OpenTo(q, s.id) BY <1>2, <1>3 DEF SupplierInv
  <2> QED BY <2>1, OpenStays
<1>4. ASSUME NEW q \in Requests, pc'[q] = "editSupplier", Is(q, "updateSupplier"),
             NEW p, p = call[q].supplier, NEW s, s = call[q].store
      PROVE  /\ \/ OpenTo(q, s)' \/ SupplierMoved(q, p)'
                \/ \A y \in In("Suppliers", rows') : y.id = p => y.to["storeId"] = s
             /\ p \in Requests => pc'[p] = "ok"
  <2>1. q # r /\ pc[q] = pc'[q] /\ InFlight(q) /\ Met(r, q) BY <1>2, <1>4
  <2>2. /\ OpenTo(q, s) \/ SupplierMoved(q, p)
           \/ \A x \in In("Suppliers", rows) : x.id = p => x.to["storeId"] = s
        /\ p \in Requests => pc[p] = "ok"
    BY <1>4, <2>1 DEF SupplierInv, InPlace
  <2>3. p \in Requests => pc'[p] = "ok" BY <1>1, <2>2 DEF Past, Ended
  <2>4. ASSUME \A x \in In("Suppliers", rows) : x.id = p => x.to["storeId"] = s,
               NEW y \in In("Suppliers", rows'), y.id = p
        PROVE  y.to["storeId"] = s \/ SupplierMoved(q, p)'
    <3>1. ~ IsNew(r, y)
      <4>1. IsNew(r, y) => y.id = r BY DEF IsNew
      <4> QED BY <1>1, <2>2, <2>4, <4>1 DEF InFlight, Ended
    <3>2. PICK x \in rows : RowMoves(pc[r], x, y) BY <3>1, Carried DEF In
    <3>3. /\ x \in In("Suppliers", rows) /\ x.id = p /\ y \in rows' /\ y.t = "Suppliers" /\ y.id = x.id
      BY <2>4, <3>2, KeysEvolve DEF In
    <3>4. CASE y.to["storeId"] = x.to["storeId"] BY <2>4, <3>3, <3>4
    <3>5. CASE y.to["storeId"] # x.to["storeId"]
      <4>1. pc[r] = "editSupplier"
        <5>1. "storeId" \in DOMAIN x.to /\ x.t = "Suppliers" /\ <<"Suppliers", "storeId">> \notin Nullable
          BY <3>3, SupplierIs DEF Nullable
        <5> QED BY <3>2, <3>5, <5>1 DEF RowMoves, Writes
      <4>2. y \notin rows
        <5>1. y \in rows => y = x BY <3>3, SameKey DEF In
        <5> QED BY <3>5, <5>1
      <4>3. PICK z \in In("Suppliers", rows) :
              z.id = y.id /\ z.id = call[r].supplier /\ (y.to = z.to \/ MovesTo(r, z, y))
        BY <3>3, <4>1, <4>2, SupplierSet
      <4>4. z = x BY <3>3, <4>3, SameKey DEF In
      <4>5. Is(r, "updateSupplier") /\ call[r].supplier = p
        BY <3>3, <3>5, <4>3, <4>4 DEF MovesTo
      <4> QED BY <1>1, <2>1, <4>5 DEF SupplierMoved, Is, Met
    <3> QED BY <3>4, <3>5
  <2>5. OpenTo(q, s) => OpenTo(q, s)' BY <2>1, OpenStays
  <2>6. SupplierMoved(q, p) => SupplierMoved(q, p)' BY <1>1, TakenStays
  <2> QED BY <2>2, <2>3, <2>4, <2>5, <2>6
<1>5. ASSUME NEW q \in Requests, pc'[q] = "editSupplier", Is(q, "updateSupplier")
      PROVE  /\ OpenTo(q, call[q].store)' \/ SupplierMoved(q, call[q].supplier)' \/ InPlace(q)'
             /\ call[q].supplier \in Requests => pc'[call[q].supplier] = "ok"
  <2> SUFFICES ASSUME NEW p, p = call[q].supplier, NEW s, s = call[q].store
               PROVE  /\ OpenTo(q, call[q].store)' \/ SupplierMoved(q, call[q].supplier)' \/ InPlace(q)'
                      /\ call[q].supplier \in Requests => pc'[call[q].supplier] = "ok"
    OBVIOUS
  <2>1. /\ OpenTo(q, s)' \/ SupplierMoved(q, p)' \/ \A y \in In("Suppliers", rows') : y.id = p => y.to["storeId"] = s
        /\ p \in Requests => pc'[p] = "ok"
    BY <1>4, <1>5
  <2>2. OpenTo(q, s)' => OpenTo(q, call[q].store)' BY <1>1 DEF OpenTo, StoreTakenFrom
  <2>3. SupplierMoved(q, p)' => SupplierMoved(q, call[q].supplier)' BY <1>1 DEF SupplierMoved
  <2>4. (\A y \in In("Suppliers", rows') : y.id = p => y.to["storeId"] = s) => InPlace(q)'
    BY <1>1 DEF InPlace, In
  <2> QED BY <2>1, <2>2, <2>3, <2>4
<1> QED BY <1>1, <1>3, <1>5 DEF SupplierInv, Is

\* A supplier that r puts into a store is put into one that is open, unless one of
\* the two was changed by another at work.
LEMMA SupplierJoins ==
    ASSUME TableInv, SupplierInv, NEW r \in Requests, Step(r), pc[r] \in {"supplier", "editSupplier"},
           NEW x \in In("Suppliers", rows'), \A y \in In("Suppliers", rows) : y.id = x.id => y.to # x.to
    PROVE  ActiveStore(x.to["storeId"]) \/ StoreTakenFrom(r, x.to["storeId"]) \/ SupplierMoved(r, x.id)
<1>1. x \in rows' /\ x \notin rows /\ x.t = "Suppliers" BY DEF In
<1>2. ASSUME NEW s, OpenTo(r, s), Has("Stores", s)
      PROVE  ActiveStore(s) \/ StoreTakenFrom(r, s)
  BY <1>2, RowOf DEF OpenTo, In, ActiveStore, TableInv, IsOn
<1>3. CASE pc[r] = "supplier"
  <2>1. CreateSupplier(r) BY <1>3, StepIs, ShopsStepIs DEF ShopStages
  <2> DEFINE S == SupplierRows(r)
             needs == UNION {Parents(y) : y \in S}
  <2>2. x \in S /\ needs \subseteq Keys(rows \cup S)
    BY <1>1, <2>1 DEF CreateSupplier, Insert, InsertFails, Fails
  <2>3. PICK s : seen[r] = {s} /\ IsRow(s) /\ s.t = "Stores" BY <1>3, SeenOnce DEF Once, Reads
  <2> DEFINE to == [clientId |-> s.to["clientId"], storeId |-> s.id]
  <2>4. x = New("Suppliers", r, to) BY <2>2, <2>3 DEF SupplierRows
  <2>5. to["storeId"] = s.id /\ "storeId" \in DOMAIN to OBVIOUS
  <2> HIDE DEF to
  <2>6. x.to = to BY <2>4 DEF New
  <2>7. <<"Stores", s.id>> \in Parents(x) BY <2>3, <2>5, <2>6 DEF Parents, Parent, IsRow
  <2>8. <<"Stores", s.id>> \in Keys(rows \cup S) BY <2>2, <2>7
  <2>9. \A y \in S : y.t = "Suppliers" BY DEF SupplierRows, New
  <2> HIDE DEF S
  <2>10. Has("Stores", s.id) BY <2>8, <2>9 DEF Keys, Key, Has, Ids, In
  <2>11. OpenTo(r, s.id) BY <1>3, <2>3 DEF SupplierInv
  <2> QED BY <1>2, <2>5, <2>6, <2>10, <2>11
<1>4. CASE pc[r] = "editSupplier"
  <2>1. PICK z \in In("Suppliers", rows) :
          z.id = x.id /\ z.id = call[r].supplier /\ MovesTo(r, z, x)
    BY <1>1, <1>4, SupplierSet
  <2> DEFINE s == call[r].store
  <2>2. Is(r, "updateSupplier") /\ Has("Stores", s) /\ x.to["storeId"] = s
    BY <2>1, SupplierIs DEF MovesTo
  <2>3. ~ InPlace(r)
    <3> SUFFICES ASSUME InPlace(r) PROVE FALSE OBVIOUS
    <3>1. z.to["storeId"] = s BY <2>1 DEF InPlace
    <3>2. DOMAIN x.to = DOMAIN z.to /\ \A col \in DOMAIN z.to : x.to[col] = z.to[col]
      BY <2>1, <3>1 DEF MovesTo
    <3>3. AreColumns(x.to) /\ AreColumns(z.to)
      BY <1>1, <2>1, StepKeeps DEF In, TableInv, RowsSound, IsRow
    <3> QED BY <2>1, <3>2, <3>3 DEF AreColumns
  <2>4. OpenTo(r, s) \/ SupplierMoved(r, x.id) BY <1>4, <2>1, <2>2, <2>3 DEF SupplierInv
  <2> QED BY <1>2, <2>2, <2>4
<1> QED BY <1>3, <1>4

Disturbed(r, u) == \E q \in Requests : Met(q, r) /\ Excludes(q, u)
Wanted(u, f) == \E q \in Requests : Excludes(q, u) /\ AsksFor(q, f)
Differ(A, B) == (A \ B) \cup (B \ A)

\* What a change of the exclusions of a user has read differs from what is there
\* only by what other changes did that it met.
ExclusionInv ==
    \A r \in Requests : pc[r] \in {"exclude", "include"} => \A x \in seen[r] :
      /\ x.id = call[r].user /\ MadeUser(x.id)
      /\ \A u \in In("Users", rows) : u.id = x.id /\ u.out # x.out =>
           /\ Disturbed(r, x.id)
           /\ \A f \in Differ(u.out, x.out) \ call[r].features : Wanted(x.id, f)

LEMMA WantedStays ==
    ASSUME History, Past, NEW r \in Requests, NEW u, NEW f
    PROVE  (Disturbed(r, u) => Disturbed(r, u)') /\ (Wanted(u, f) => Wanted(u, f)')
<1>1. ASSUME NEW q \in Requests, Excludes(q, u) PROVE call'[q] = call[q]
  BY <1>1 DEF Excludes, History, NoCall, Past
<1>2. ASSUME NEW q \in Requests, Met(q, r), Excludes(q, u) PROVE Disturbed(r, u)'
  BY <1>1, <1>2 DEF Past, Met, Excludes, Disturbed
<1>3. ASSUME NEW q \in Requests, Excludes(q, u), AsksFor(q, f) PROVE Wanted(u, f)'
  BY <1>1, <1>3 DEF Excludes, AsksFor, Wanted
<1> QED BY <1>2, <1>3 DEF Disturbed, Wanted

Outs(x, F) == [x EXCEPT !.out = F]

\* A change writes what it read and what it asks for.
LEMMA OutSet ==
    ASSUME TableInv, NEW r \in Requests, Step(r), NEW v \in In("Users", rows),
           NEW y \in In("Users", rows'), v.id = y.id, v.out # y.out
    PROVE  /\ pc[r] \in {"exclude", "include"} /\ pc'[r] = "ok" /\ call[r].user = v.id
           /\ Excludes(r, v.id) /\ (Is(r, "exclude") <=> pc[r] = "exclude")
           /\ \E x \in seen[r] :
                y.out = IF pc[r] = "exclude" THEN x.out \cup call[r].features ELSE x.out \ call[r].features
<1>1. v \in rows /\ y \in rows' /\ v.t = "Users" /\ y.t = "Users" BY DEF In
<1>2. y \notin rows BY <1>1, SameKey
<1>3. pc[r] \in {"exclude", "include"}
  <2>3. ~ IsNew(r, y) BY <1>1 DEF IsNew, Keys, Key
  <2>1. PICK z \in In("Users", rows) : RowMoves(pc[r], z, y) /\ z.id = y.id BY <2>3, UserBefore
  <2>2. z = v BY <1>1, <2>1, SameKey DEF In
  <2> QED BY <1>1, <2>1, <2>2 DEF RowMoves, Writes
<1>4. AddExclusions(r) \/ RemoveExclusions(r) BY <1>3, StepIs, ShopsStepIs DEF ShopStages
<1> DEFINE u == call[r].user
           w == Get("Users", u)
           F == IF pc[r] = "exclude" THEN Excluded(r) \cup call[r].features
                ELSE Excluded(r) \ call[r].features
           z == Outs(w, F)
<1>5. Has("Users", u) /\ Update(w, z) /\ End(r, "ok")
  <2>1. Write(r, "Users", u, z)
    <3>1. CASE AddExclusions(r)
      <4>1. Write(r, "Users", u, Outs(w, Excluded(r) \cup call[r].features)) /\ pc[r] = "exclude"
        BY <3>1 DEF AddExclusions, Outs
      <4>2. F = Excluded(r) \cup call[r].features BY <4>1
      <4> QED BY <4>1, <4>2
    <3>2. CASE RemoveExclusions(r)
      <4>1. Write(r, "Users", u, Outs(w, Excluded(r) \ call[r].features)) /\ pc[r] = "include"
        BY <3>2 DEF RemoveExclusions, Outs
      <4>2. F = Excluded(r) \ call[r].features BY <4>1
      <4> QED BY <4>1, <4>2
    <3> QED BY <1>4, <3>1, <3>2
  <2> HIDE DEF z
  <2> QED BY <1>1, <1>2, <2>1 DEF Write, Fails
<1>6. PICK x : seen[r] = {x} /\ IsRow(x) BY <1>3, SeenOnce DEF Once
<1>7. F = (IF pc[r] = "exclude" THEN x.out \cup call[r].features ELSE x.out \ call[r].features)
      /\ F \subseteq Features
  <2>1. Excluded(r) = x.out BY <1>6 DEF Excluded
  <2>2. x.out \subseteq Features BY <1>6 DEF IsRow
  <2>3. call[r].features \subseteq Features BY <1>3 DEF TableInv, RequestFits, CallFits
  <2> QED BY <2>1, <2>2, <2>3
<1>8. w \in rows /\ w.id = u /\ IsRow(w) BY <1>5, RowOf DEF TableInv, RowsSound
<1> HIDE DEF w, F
<1>9. Key(z) = Key(w) /\ z.out = F BY <1>7, <1>8, OutWritten DEF Outs
<1>10. y = z BY <1>1, <1>2, <1>5 DEF Update
<1>11. u = v.id BY <1>8, <1>9, <1>10 DEF Key
<1>12. call[r].op = Op[pc[r]] BY <1>3 DEF TableInv, RequestFits, CallFits, Op
<1>13. Excludes(r, v.id) /\ (Is(r, "exclude") <=> pc[r] = "exclude")
  BY <1>3, <1>11, <1>12 DEF Op, Excludes, Is
<1>14. pc'[r] = "ok" BY <1>5, EndLocal DEF TableInv, Over
<1> QED BY <1>3, <1>6, <1>7, <1>9, <1>10, <1>11, <1>13, <1>14

\* It changes only what it asks for, unless it met another.
LEMMA ExclusionsChange ==
    ASSUME TableInv, ExclusionInv, NEW r \in Requests, Step(r), NEW v \in In("Users", rows),
           NEW y \in In("Users", rows'), v.id = y.id, v.out # y.out,
           NEW f \in Differ(v.out, y.out)
    PROVE  \/ AsksFor(r, f) /\ (Is(r, "exclude") <=> f \in y.out)
           \/ Disturbed(r, v.id) /\ Wanted(v.id, f)
<1>1. PICK x \in seen[r] :
        y.out = IF pc[r] = "exclude" THEN x.out \cup call[r].features ELSE x.out \ call[r].features
  BY OutSet
<1>2. /\ pc[r] \in {"exclude", "include"} /\ call[r].user = v.id
      /\ (Is(r, "exclude") <=> pc[r] = "exclude")
  BY OutSet
<1>3. CASE f \in call[r].features BY <1>1, <1>2, <1>3 DEF AsksFor
<1>4. CASE f \notin call[r].features
  <2>1. f \in Differ(v.out, x.out) BY <1>1, <1>4 DEF Differ
  <2>2. v.out # x.out BY <2>1 DEF Differ
  <2> QED BY <1>1, <1>2, <1>4, <2>1, <2>2 DEF ExclusionInv
<1> QED BY <1>3, <1>4

LEMMA QuietExclusions ==
    ASSUME TableInv, History, ExclusionInv, Quiet
    PROVE  ExclusionInv'
<1>1. rows' = rows /\ Past BY DEF Quiet
<1>2. ASSUME NEW r \in Requests, pc'[r] \in {"exclude", "include"}, NEW x \in seen'[r]
      PROVE  /\ x.id = call'[r].user /\ MadeUser(x.id)'
             /\ \A u \in In("Users", rows) : u.id = x.id /\ u.out # x.out =>
                  Disturbed(r, x.id)' /\ \A f \in Differ(u.out, x.out) \ call'[r].features : Wanted(x.id, f)'
  <2>1. CASE pc'[r] = pc[r] /\ call'[r] = call[r] /\ seen'[r] = seen[r]
    <3>1. /\ x.id = call[r].user /\ MadeUser(x.id)
          /\ \A u \in In("Users", rows) : u.id = x.id /\ u.out # x.out =>
               Disturbed(r, x.id) /\ \A f \in Differ(u.out, x.out) \ call[r].features : Wanted(x.id, f)
      BY <1>2, <2>1 DEF ExclusionInv
    <3> QED BY <1>1, <2>1, <3>1, WantedStays, MadeUserStays DEF MadeUser
  <2>2. CASE AsksAt(call'[r], seen'[r], pc'[r])
    <3> DEFINE k == call'[r].user
    <3>1. x = Get("Users", k) /\ Has("Users", k) BY <1>2, <2>2 DEF AsksAt
    <3> HIDE DEF k
    <3>2. x.id = k /\ \A u \in rows : u.t = "Users" /\ u.id = k => u = x
      BY <3>1, RowOf DEF TableInv
    <3>3. MadeUser(x.id)' BY <3>1, <3>2, UserIsMade, MadeUserStays DEF Has, MadeUser
    <3> QED BY <3>2, <3>3 DEF In, k
  <2> QED BY <1>2, <2>1, <2>2 DEF Quiet
<1> QED BY <1>1, <1>2 DEF ExclusionInv, In

LEMMA StepExclusions ==
    ASSUME TableInv, History, ExclusionInv, NEW r \in Requests, Step(r)
    PROVE  ExclusionInv'
<1>1. /\ Past /\ InFlight(r) /\ call' = call /\ raced' = raced
      /\ \A q \in Requests \ {r} : pc'[q] = pc[q] /\ seen'[q] = seen[q]
  BY StepPast
<1>2. ASSUME NEW q \in Requests, pc'[q] \in {"exclude", "include"}, NEW x \in seen'[q]
      PROVE  /\ x.id = call[q].user /\ MadeUser(x.id)'
             /\ \A u \in In("Users", rows') : u.id = x.id /\ u.out # x.out =>
                  /\ Disturbed(q, x.id)'
                  /\ \A f \in Differ(u.out, x.out) \ call[q].features : Wanted(x.id, f)'
  <2>1. q # r BY <1>2, NextStage DEF Ended
  <2>2. pc[q] = pc'[q] /\ x \in seen[q] /\ Met(r, q)
    BY <1>1, <1>2, <2>1 DEF History, InFlight, Ended
  <2>3. x.id = call[q].user /\ MadeUser(x.id) BY <1>2, <2>2 DEF ExclusionInv
  <2>5. MadeUser(x.id)' BY <2>3, MadeUserStays DEF MadeUser
  <2>4. ASSUME NEW u \in In("Users", rows'), u.id = x.id, u.out # x.out
        PROVE  /\ Disturbed(q, x.id)
               /\ \A f \in Differ(u.out, x.out) \ call[q].features : Wanted(x.id, f)
    <3>5. ~ IsNew(r, u) BY <2>3, <2>4, NotNewUser
    <3>1. PICK v \in In("Users", rows) : v.id = u.id BY <3>5, UserBefore
    <3>2. v.out # x.out =>
            /\ Disturbed(q, x.id)
            /\ \A f \in Differ(v.out, x.out) \ call[q].features : Wanted(x.id, f)
      BY <1>2, <2>2, <2>4, <3>1 DEF ExclusionInv
    <3>3. CASE v.out = u.out BY <2>4, <3>2, <3>3
    <3>4. CASE v.out # u.out
      <4>1. Excludes(r, x.id) BY <2>4, <3>1, <3>4, OutSet
      <4>2. Disturbed(q, x.id) BY <2>2, <4>1 DEF Disturbed
      <4>3. ASSUME NEW f \in Differ(u.out, x.out) \ call[q].features
            PROVE  Wanted(x.id, f)
        <5>1. CASE f \in Differ(v.out, x.out)
          <6>1. v.out # x.out BY <5>1 DEF Differ
          <6> QED BY <3>2, <4>3, <5>1, <6>1
        <5>2. CASE f \in Differ(v.out, u.out)
          <6>1. AsksFor(r, f) \/ Wanted(v.id, f) BY <3>1, <3>4, <5>2, ExclusionsChange
          <6> QED BY <2>4, <3>1, <4>1, <6>1 DEF Wanted
        <5> QED BY <4>3, <5>1, <5>2 DEF Differ
      <4> QED BY <4>2, <4>3
    <3> QED BY <3>3, <3>4
  <2> QED BY <1>1, <2>3, <2>4, <2>5, WantedStays
<1> QED BY <1>1, <1>2 DEF ExclusionInv, In

----------------------------------------------------------------------------
(* Nobody is misled but by a race *)

RaceInv == TableInv /\ History /\ SupplierInv /\ ExclusionInv

LEMMA InitRace ==
    ASSUME Init
    PROVE  RaceInv
<1>1. TableInv /\ History BY InitTables, InitHistory
<1>2. \A r \in Requests : pc[r] = "idle" BY DEF Init
<1> QED BY <1>1, <1>2 DEF RaceInv, SupplierInv, ExclusionInv

LEMMA NextRace ==
    ASSUME RaceInv, [Next]_vars
    PROVE  RaceInv'
<1>1. TableInv' /\ History' BY NextTables, HistoryKeeps DEF RaceInv
<1>2. CASE Quiet BY <1>1, <1>2, QuietSuppliers, QuietExclusions DEF RaceInv
<1>3. CASE \E r \in Requests : Step(r)
  BY <1>1, <1>3, StepSuppliers, StepExclusions DEF RaceInv
<1> QED BY <1>2, <1>3, NextIs DEF RaceInv

\* The two actions of the property, named.
Joins ==
    \A x \in In("Suppliers", rows') : \A r \in Requests :
      (/\ pc[r] \in {"supplier", "editSupplier"} /\ pc'[r] = "ok"
       /\ \A y \in In("Suppliers", rows) : y.id = x.id => y.to # x.to)
      => \/ ActiveStore(x.to["storeId"])
         \/ StoreTakenFrom(r, x.to["storeId"])
         \/ SupplierMoved(r, x.id)

Changes ==
    \A x \in In("Users", rows), y \in In("Users", rows') :
      (x.id = y.id /\ x.out # y.out) =>
        \E r \in Requests :
           /\ pc[r] \in {"exclude", "include"} /\ pc'[r] = "ok" /\ call[r].user = x.id
           /\ \A f \in (x.out \ y.out) \cup (y.out \ x.out) :
                \/ AsksFor(r, f) /\ (Is(r, "exclude") <=> f \in y.out)
                \/ /\ \E q \in Requests : Met(q, r) /\ Excludes(q, x.id)
                   /\ \E q \in Requests : Excludes(q, x.id) /\ AsksFor(q, f)

LEMMA RaceActions ==
    ASSUME RaceInv, [Next]_vars
    PROVE  Joins /\ Changes
<1> USE DEF RaceInv
<1>1. CASE Quiet
  <2>1. rows' = rows /\ \A r \in Requests : pc'[r] = "ok" => pc[r] = "ok"
    BY <1>1 DEF Quiet, Starts, Waits
  <2>2. Joins BY <2>1 DEF Joins
  <2>3. \A x \in In("Users", rows), y \in In("Users", rows') : x.id = y.id => x = y
    BY <2>1, SameKey DEF In
  <2> QED BY <2>2, <2>3 DEF Changes
<1>2. ASSUME NEW r \in Requests, Step(r) PROVE Joins /\ Changes
  <2>1. \A q \in Requests \ {r} : pc'[q] = pc[q] BY <1>2, StepPast
  <2>2. ASSUME NEW x \in In("Suppliers", rows'), NEW q \in Requests,
               pc[q] \in {"supplier", "editSupplier"}, pc'[q] = "ok",
               \A y \in In("Suppliers", rows) : y.id = x.id => y.to # x.to
        PROVE  \/ ActiveStore(x.to["storeId"])
               \/ StoreTakenFrom(q, x.to["storeId"])
               \/ SupplierMoved(q, x.id)
    <3>1. q = r BY <2>1, <2>2
    <3> QED BY <1>2, <2>2, <3>1, SupplierJoins
  <2>3. ASSUME NEW x \in In("Users", rows), NEW y \in In("Users", rows'), x.id = y.id, x.out # y.out
        PROVE  /\ pc[r] \in {"exclude", "include"} /\ pc'[r] = "ok" /\ call[r].user = x.id
               /\ \A f \in (x.out \ y.out) \cup (y.out \ x.out) :
                    \/ AsksFor(r, f) /\ (Is(r, "exclude") <=> f \in y.out)
                    \/ /\ \E q \in Requests : Met(q, r) /\ Excludes(q, x.id)
                       /\ \E q \in Requests : Excludes(q, x.id) /\ AsksFor(q, f)
    <3>1. pc[r] \in {"exclude", "include"} /\ pc'[r] = "ok" /\ call[r].user = x.id
      BY <1>2, <2>3, OutSet
    <3>2. \A f \in Differ(x.out, y.out) :
            \/ AsksFor(r, f) /\ (Is(r, "exclude") <=> f \in y.out)
            \/ Disturbed(r, x.id) /\ Wanted(x.id, f)
      BY <1>2, <2>3, ExclusionsChange
    <3> QED BY <3>1, <3>2 DEF Differ, Disturbed, Wanted
  <2>4. Joins BY <2>2 DEF Joins
  <2> QED BY <2>3, <2>4 DEF Changes
<1> QED BY <1>1, <1>2, NextIs

\* A supplier joins an open store, and exclusions change as a request asks, but for
\* what requests did that were at work together, however many requests of all kinds
\* there are (validateStoreAccess; addExclusions and removeExclusions).
THEOREM OfficeOnlyRacesMislead == Spec => OnlyRacesMislead
<1>1. Init => RaceInv BY InitRace
<1>2. RaceInv /\ [Next]_vars => RaceInv' BY NextRace
<1>3. RaceInv /\ [Next]_vars => [Joins]_vars /\ [Changes]_vars BY RaceActions
<1>4. Spec => [][Joins]_vars /\ [][Changes]_vars BY <1>1, <1>2, <1>3, PTL DEF Spec
<1> QED
  BY <1>4 DEF OnlyRacesMislead, SuppliersJoinOpenStores, ExclusionsChangeAsAsked, Joins, Changes

----------------------------------------------------------------------------
(* Numbers and their texts *)

\* A set of natural numbers has a least one.
LEMMA LeastNat ==
    ASSUME NEW K, K \subseteq Nat, K # {}
    PROVE  \E m \in K : \A k \in K : m <= k
<1>1. PICK m \in K : \A k \in K : ~ (<<k, m>> \in OpToRel(<, Nat))
  BY NatLessThanWellFounded, WFMin, Zenon
<1>2. \A k \in K : ~ (k < m) BY <1>1 DEF OpToRel
<1> QED BY <1>2

LEMMA DivMod ==
    ASSUME NEW n \in Nat
    PROVE  /\ n \div Base \in Nat /\ n % Base \in 0..(Base - 1)
           /\ n >= Base => n \div Base < n /\ n \div Base > 0
           /\ (n % Base) + 1 < Base =>
                (n + 1) \div Base = n \div Base /\ (n + 1) % Base = (n % Base) + 1
           /\ (n % Base) + 1 = Base =>
                (n + 1) \div Base = (n \div Base) + 1 /\ (n + 1) % Base = 0
<1>1. n \div Base \in Nat /\ n % Base \in 0..(Base - 1) BY InvoicingAssumption
<1>2. n >= Base => n \div Base < n /\ n \div Base > 0 BY InvoicingAssumption
<1>3. (n % Base) + 1 < Base =>
        (n + 1) \div Base = n \div Base /\ (n + 1) % Base = (n % Base) + 1
  BY InvoicingAssumption
<1>4. (n % Base) + 1 = Base =>
        (n + 1) \div Base = (n \div Base) + 1 /\ (n + 1) % Base = 0
  BY InvoicingAssumption
<1> QED BY <1>1, <1>2, <1>3, <1>4

\* What Digits says of n, and functions for which it holds up to m.
DigitsAt(g, n) == IF n < Base THEN <<n>> ELSE Append(g[n \div Base], n % Base)

AreDigits(g, m) == g \in [0..m -> Seq(Nat)] /\ \A n \in 0..m : g[n] = DigitsAt(g, n)

LEMMA DigitsBelow ==
    ASSUME NEW n \in Nat, NEW g, NEW h, n >= Base => g[n \div Base] = h[n \div Base]
    PROVE  DigitsAt(g, n) = DigitsAt(h, n)
  BY InvoicingAssumption DEF DigitsAt

LEMMA DigitsSeq ==
    ASSUME NEW n \in Nat, NEW g, n >= Base => g[n \div Base] \in Seq(Nat)
    PROVE  DigitsAt(g, n) \in Seq(Nat)
<1>1. CASE n < Base BY <1>1 DEF DigitsAt
<1>2. CASE n >= Base
  <2>1. n % Base \in Nat BY DivMod
  <2>2. DigitsAt(g, n) = Append(g[n \div Base], n % Base)
    BY <1>2, InvoicingAssumption DEF DigitsAt
  <2> QED BY <1>2, <2>1, <2>2
<1> QED BY <1>1, <1>2, InvoicingAssumption

LEMMA DigitsAgree ==
    ASSUME NEW m \in Nat, NEW g, AreDigits(g, m), NEW k \in Nat, NEW h, AreDigits(h, k)
    PROVE  \A n \in Nat : n <= m /\ n <= k => g[n] = h[n]
<1> DEFINE F == {n \in Nat : n <= m /\ n <= k /\ g[n] # h[n]}
<1>1. SUFFICES ASSUME F # {} PROVE FALSE OBVIOUS
<1>2. PICK n \in F : \A i \in F : n <= i
  <2>1. F \subseteq Nat OBVIOUS
  <2> HIDE DEF F
  <2> QED BY <1>1, <2>1, LeastNat
<1>3. n \in Nat /\ n \in 0..m /\ n \in 0..k /\ g[n] # h[n] OBVIOUS
<1>4. n >= Base => g[n \div Base] = h[n \div Base]
  <2>1. n >= Base => n \div Base \in Nat /\ n \div Base < n BY <1>3, DivMod
  <2> QED BY <1>2, <1>3, <2>1
<1>5. DigitsAt(g, n) = DigitsAt(h, n) BY <1>3, <1>4, DigitsBelow
<1> QED BY <1>3, <1>5 DEF AreDigits

LEMMA DigitsUpTo ==
    ASSUME NEW m \in Nat
    PROVE  \E g : AreDigits(g, m)
<1> DEFINE F == {k \in Nat : \A g : ~ AreDigits(g, k)}
<1>1. SUFFICES ASSUME F # {} PROVE FALSE OBVIOUS
<1>2. PICK k \in F : \A i \in F : k <= i
  <2>1. F \subseteq Nat OBVIOUS
  <2> HIDE DEF F
  <2> QED BY <1>1, <2>1, LeastNat
<1>3. k \in Nat /\ \A g : ~ AreDigits(g, k) OBVIOUS
<1>4. PICK h : k > 0 => AreDigits(h, k - 1)
  <2>1. k > 0 => k - 1 \in Nat /\ k - 1 \notin F BY <1>2, <1>3
  <2> QED BY <2>1
<1> HIDE DEF F
<1> DEFINE g == [n \in 0..k |-> IF n = k THEN DigitsAt(h, k) ELSE h[n]]
<1>5. ASSUME NEW n \in 0..k PROVE n >= Base => n \div Base \in 0..(k - 1) /\ k > 0
  <2>1. n \in Nat BY <1>3
  <2>2. n >= Base => n \div Base \in Nat /\ n \div Base < n /\ n \div Base > 0 BY <2>1, DivMod
  <2> QED BY <1>3, <2>1, <2>2
<1>6. DigitsAt(h, k) \in Seq(Nat)
  <2>1. k >= Base => h[k \div Base] \in Seq(Nat) BY <1>3, <1>4, <1>5 DEF AreDigits
  <2> QED BY <1>3, <2>1, DigitsSeq
<1>7. g \in [0..k -> Seq(Nat)] BY <1>3, <1>4, <1>6 DEF AreDigits
<1>8. ASSUME NEW n \in 0..k PROVE g[n] = DigitsAt(g, n)
  <2>1. n >= Base => g[n \div Base] = h[n \div Base] BY <1>3, <1>5
  <2>2. DigitsAt(g, n) = DigitsAt(h, n)
    <3> HIDE DEF g
    <3> QED BY <1>3, <2>1, DigitsBelow
  <2>3. g[n] = DigitsAt(h, n) BY <1>3, <1>4 DEF AreDigits
  <2> QED BY <2>2, <2>3
<1> QED
  <2> HIDE DEF g
  <2> QED BY <1>3, <1>7, <1>8 DEF AreDigits

\* There is a function as Digits is defined.
LEMMA DigitsExist == \E f : f = [n \in Nat |-> DigitsAt(f, n)]
<1> DEFINE G(n) == CHOOSE g : AreDigits(g, n)
           f == [n \in Nat |-> G(n)[n]]
<1>1. \A n \in Nat : AreDigits(G(n), n) BY DigitsUpTo
<1> HIDE DEF G
<1>2. ASSUME NEW n \in Nat PROVE f[n] = DigitsAt(f, n)
  <2>1. f[n] = DigitsAt(G(n), n) BY <1>1 DEF AreDigits
  <2>2. n >= Base => f[n \div Base] = G(n)[n \div Base]
    <3>1. n >= Base => n \div Base \in Nat /\ n \div Base < n BY DivMod
    <3>2. n >= Base => G(n \div Base)[n \div Base] = G(n)[n \div Base]
      BY <1>1, <3>1, DigitsAgree
    <3> QED BY <3>1, <3>2
  <2> HIDE DEF f
  <2>3. DigitsAt(f, n) = DigitsAt(G(n), n) BY <2>2, DigitsBelow
  <2> QED BY <2>1, <2>3
<1>3. f = [n \in Nat |-> f[n]] OBVIOUS
<1>4. f = [n \in Nat |-> DigitsAt(f, n)]
  <2> HIDE DEF f
  <2> QED BY <1>2, <1>3
<1> QED BY <1>4

LEMMA DigitsIs == Digits = [n \in Nat |-> DigitsAt(Digits, n)]
<1> DEFINE P(f) == f = [n \in Nat |-> IF n < Base THEN <<n>> ELSE Append(f[n \div Base], n % Base)]
<1>1. \E f : P(f) BY DigitsExist DEF DigitsAt
<1>2. Digits = CHOOSE f : P(f) BY DEF Digits
<1>3. P(Digits)
  <2> HIDE DEF P
  <2> QED BY <1>1, <1>2
<1> QED BY <1>3 DEF DigitsAt

LEMMA DigitsType == \A n \in Nat : Digits[n] = DigitsAt(Digits, n) /\ Digits[n] \in Seq(Nat)
<1>1. \A n \in Nat : Digits[n] = DigitsAt(Digits, n) BY DigitsIs
<1> DEFINE F == {n \in Nat : Digits[n] \notin Seq(Nat)}
<1>2. SUFFICES ASSUME F # {} PROVE FALSE BY <1>1
<1>3. PICK n \in F : \A i \in F : n <= i
  <2>1. F \subseteq Nat OBVIOUS
  <2> HIDE DEF F
  <2> QED BY <1>2, <2>1, LeastNat
<1>4. n \in Nat /\ Digits[n] \notin Seq(Nat) OBVIOUS
<1>5. n >= Base => Digits[n \div Base] \in Seq(Nat)
  <2>1. n >= Base => n \div Base \in Nat /\ n \div Base < n BY <1>4, DivMod
  <2> QED BY <1>3, <1>4, <2>1
<1>6. DigitsAt(Digits, n) \in Seq(Nat) BY <1>4, <1>5, DigitsSeq
<1> QED BY <1>1, <1>4, <1>6


\* The next number has as many digits, of which the first that differs is greater,
\* or one more; it does not start with a zero.
Follows(d, e) ==
    \/ /\ Len(e) = Len(d)
       /\ \E k \in 1..Len(e) : d[k] < e[k] /\ \A i \in 1..(k - 1) : d[i] = e[i]
    \/ Len(e) = Len(d) + 1 /\ e[1] > 0

LEMMA FollowsLonger ==
    ASSUME NEW d \in Seq(Nat), NEW e \in Seq(Nat), Len(d) > 0, Follows(d, e), NEW x \in Nat, NEW y \in Nat
    PROVE  Follows(Append(d, x), Append(e, y))
<1> DEFINE D == Append(d, x)
           E == Append(e, y)
<1> SUFFICES Follows(D, E) OBVIOUS
<1>1. /\ Len(d) \in Nat /\ Len(e) \in Nat
      /\ Len(D) = Len(d) + 1 /\ Len(E) = Len(e) + 1
      /\ \A i \in 1..Len(d) : D[i] = d[i]
      /\ \A i \in 1..Len(e) : E[i] = e[i]
  BY AppendProperties, LenProperties
<1> HIDE DEF D, E
<1>2. CASE Len(e) = Len(d) /\ \E k \in 1..Len(e) : d[k] < e[k] /\ \A i \in 1..(k - 1) : d[i] = e[i]
  <2>1. PICK k \in 1..Len(e) : d[k] < e[k] /\ \A i \in 1..(k - 1) : d[i] = e[i] BY <1>2
  <2>2. k \in 1..Len(E) /\ D[k] < E[k] BY <1>1, <1>2, <2>1
  <2>3. \A i \in 1..(k - 1) : D[i] = E[i] BY <1>1, <1>2, <2>1
  <2>4. Len(E) = Len(D) BY <1>1, <1>2
  <2> QED BY <2>2, <2>3, <2>4 DEF Follows
<1>3. CASE Len(e) = Len(d) + 1 /\ e[1] > 0
  <2>1. E[1] = e[1] BY <1>1, <1>3
  <2> QED BY <1>1, <1>3, <2>1 DEF Follows
<1> QED BY <1>2, <1>3 DEF Follows

LEMMA DigitsLast ==
    ASSUME NEW d \in Seq(Nat), NEW x \in Nat, NEW y \in Nat, x < y
    PROVE  Follows(Append(d, x), Append(d, y))
<1> DEFINE D == Append(d, x)
           E == Append(d, y)
           k == Len(d) + 1
<1>1. /\ Len(d) \in Nat /\ Len(D) = k /\ Len(E) = k /\ D[k] = x /\ E[k] = y
      /\ \A i \in 1..Len(d) : D[i] = d[i] /\ E[i] = d[i]
  BY AppendProperties, LenProperties
<1> HIDE DEF D, E
<1>2. k \in 1..Len(E) /\ D[k] < E[k] /\ \A i \in 1..(k - 1) : D[i] = E[i] BY <1>1
<1> QED BY <1>1, <1>2 DEF Follows, D, E

\* The two cases of a number.
LEMMA DigitsOf ==
    ASSUME NEW n \in Nat
    PROVE  /\ n < Base => Digits[n] = <<n>>
           /\ ~ (n < Base) => Digits[n] = Append(Digits[n \div Base], n % Base)
<1>1. Digits[n] = DigitsAt(Digits, n) BY DigitsType
<1> QED BY <1>1 DEF DigitsAt

LEMMA DigitsFollow ==
    \A n \in Nat : Len(Digits[n]) > 0 /\ Follows(Digits[n], Digits[n + 1])
<1> DEFINE OK(n) == Len(Digits[n]) > 0 /\ Follows(Digits[n], Digits[n + 1])
           F == {n \in Nat : ~ OK(n)}
<1>1. SUFFICES ASSUME F # {} PROVE FALSE OBVIOUS
<1>2. PICK n \in F : \A i \in F : n <= i
  <2>1. F \subseteq Nat OBVIOUS
  <2> HIDE DEF F
  <2> QED BY <1>1, <2>1, LeastNat
<1> HIDE DEF OK
<1>3. n \in Nat /\ ~ OK(n) /\ \A i \in Nat : i < n => OK(i) BY <1>2
<1> HIDE DEF F
<1> DEFINE q == n \div Base
           r == n % Base
<1>4. /\ q \in Nat /\ r \in Nat /\ r < Base
      /\ n >= Base => q < n
      /\ r + 1 < Base => (n + 1) \div Base = q /\ (n + 1) % Base = r + 1
      /\ r + 1 = Base => (n + 1) \div Base = q + 1 /\ (n + 1) % Base = 0
  BY <1>3, DivMod, InvoicingAssumption
<1>a. n + 1 \in Nat /\ Base \in Nat /\ Base > 1
  BY <1>3, InvoicingAssumption
<1>5. CASE n + 1 < Base
  <2>1. n < Base BY <1>3, <1>5, <1>a
  <2>3. Digits[n] = <<n>> /\ Digits[n + 1] = <<n + 1>> BY <1>3, <1>5, <1>a, <2>1, DigitsOf
  <2>2. OK(n) BY <1>3, <2>3 DEF OK, Follows
  <2> QED BY <1>3, <2>2
<1>6. CASE n + 1 = Base
  <2>0. n < Base /\ ~ (n + 1 < Base) BY <1>3, <1>6, <1>a
  <2>1. n % Base = n /\ n \div Base = 0 BY <1>3, <1>6, <1>a
  <2>2. Digits[n] = <<n>> BY <1>3, <2>0, DigitsOf
  <2>3. (n + 1) \div Base = 1 /\ (n + 1) % Base = 0 BY <1>4, <1>6, <2>1
  <2>4. Digits[1] = <<1>>
    <3>1. 1 \in Nat /\ 1 < Base BY <1>a
    <3> QED BY <3>1, DigitsOf
  <2>5. Digits[n + 1] = Append(<<1>>, 0) BY <1>a, <2>0, <2>3, <2>4, DigitsOf
  <2>6. Len(Digits[n + 1]) = 2 /\ Digits[n + 1][1] = 1
    <3>1. <<1>> \in Seq(Nat) /\ Len(<<1>>) = 1 /\ 1 \in 1..1 /\ <<1>>[1] = 1 /\ 0 \in Nat
      OBVIOUS
    <3> QED BY <2>5, <3>1, AppendProperties
  <2>7. OK(n) BY <2>2, <2>6 DEF OK, Follows
  <2> QED BY <1>3, <2>7
<1>7. CASE n >= Base
  <2>0. Digits[q] \in Seq(Nat) /\ Digits[q + 1] \in Seq(Nat) BY <1>4, DigitsType
  <2>9. ~ (n < Base) /\ ~ (n + 1 < Base) BY <1>3, <1>7, <1>a
  <2>1. /\ Digits[n] = Append(Digits[q], r)
        /\ Digits[n + 1] = Append(Digits[(n + 1) \div Base], (n + 1) % Base)
    BY <1>3, <1>a, <2>9, DigitsOf
  <2>2. OK(q) BY <1>3, <1>4, <1>7
  <2> HIDE DEF q, r
  <2>3. Len(Digits[n]) > 0 BY <1>4, <2>0, <2>1, AppendProperties, LenProperties
  <2>4. CASE r + 1 < Base
    <3>1. Digits[n + 1] = Append(Digits[q], r + 1) BY <1>4, <2>1, <2>4
    <3>2. Follows(Digits[n], Digits[n + 1])
      <4>1. r + 1 \in Nat /\ r < r + 1 BY <1>4
      <4> QED BY <1>4, <2>0, <2>1, <3>1, <4>1, DigitsLast
    <3> QED BY <1>3, <2>3, <3>2 DEF OK
  <2>5. CASE r + 1 = Base
    <3>1. Digits[n + 1] = Append(Digits[q + 1], 0) BY <1>4, <2>1, <2>5
    <3>2. Follows(Digits[n], Digits[n + 1])
      BY <1>4, <2>0, <2>1, <2>2, <3>1, FollowsLonger DEF OK
    <3> QED BY <1>3, <2>3, <3>2 DEF OK
  <2> QED BY <1>4, <2>4, <2>5, InvoicingAssumption
<1> QED BY <1>3, <1>5, <1>6, <1>7, InvoicingAssumption

\* A text of a number is its digits behind zeros.
LEMMA TextIs ==
    ASSUME NEW n \in Nat
    PROVE  LET d == Digits[n]
               p == IF Len(d) >= Width THEN 0 ELSE Width - Len(d)
           IN  /\ p \in Nat /\ Text(n) \in Seq(Nat) /\ Len(Text(n)) = p + Len(d)
               /\ \A i \in 1..p : Text(n)[i] = 0
               /\ \A i \in 1..Len(d) : Text(n)[p + i] = d[i]
<1> DEFINE d == Digits[n]
           p == IF Len(d) >= Width THEN 0 ELSE Width - Len(d)
           z == [i \in 1..(Width - Len(d)) |-> 0]
<1>1. d \in Seq(Nat) /\ Len(d) \in Nat BY DigitsType, LenProperties
<1> SUFFICES /\ p \in Nat /\ Text(n) \in Seq(Nat) /\ Len(Text(n)) = p + Len(d)
             /\ \A i \in 1..p : Text(n)[i] = 0
             /\ \A i \in 1..Len(d) : Text(n)[p + i] = d[i]
  OBVIOUS
<1> HIDE DEF d
<1>2. CASE Len(d) >= Width
  <2>1. Text(n) = d BY <1>2 DEF Text, d
  <2> QED BY <1>1, <1>2, <2>1
<1>3. CASE Len(d) < Width
  <2>1. p = Width - Len(d) /\ p \in Nat BY <1>1, <1>3, InvoicingAssumption
  <2>2. Text(n) = z \o d BY <1>1, <1>3, InvoicingAssumption DEF Text, d
  <2>3. z \in [1..p -> Nat] BY <2>1
  <2>4. z \in Seq(Nat) /\ Len(z) = p
    <3> HIDE DEF z, p
    <3> QED BY <2>1, <2>3, SeqDef, LenProperties
  <2>5. \A i \in 1..p : z[i] = 0 BY <2>1
  <2> HIDE DEF z, p
  <2>6. /\ z \o d \in Seq(Nat) /\ Len(z \o d) = p + Len(d)
        /\ \A i \in 1..(p + Len(d)) : (z \o d)[i] = IF i <= p THEN z[i] ELSE d[i - p]
    BY <1>1, <2>4, ConcatProperties
  <2>7. \A i \in 1..p : (z \o d)[i] = 0 BY <1>1, <2>1, <2>5, <2>6
  <2>8. ASSUME NEW i \in 1..Len(d) PROVE (z \o d)[p + i] = d[i]
    <3>1. p + i \in 1..(p + Len(d)) /\ ~ (p + i <= p) /\ (p + i) - p = i BY <1>1, <2>1
    <3> QED BY <2>6, <3>1
  <2> QED BY <2>1, <2>2, <2>6, <2>7, <2>8
<1> QED BY <1>1, <1>2, <1>3, InvoicingAssumption

\* As long as numbers fit in their padding, texts are ordered as they are.
LEMMA TextFollows ==
    ASSUME NEW n \in Nat, Len(Text(n + 1)) <= Width
    PROVE  TextLess(Text(n), Text(n + 1))
<1> DEFINE d == Digits[n]
           e == Digits[n + 1]
           p == IF Len(d) >= Width THEN 0 ELSE Width - Len(d)
           q == IF Len(e) >= Width THEN 0 ELSE Width - Len(e)
           a == Text(n)
           b == Text(n + 1)
<1> SUFFICES TextLess(a, b) OBVIOUS
<1>0. n + 1 \in Nat OBVIOUS
<1>1. /\ d \in Seq(Nat) /\ e \in Seq(Nat) /\ Len(d) \in Nat /\ Len(e) \in Nat /\ Len(d) > 0
      /\ Follows(d, e)
  BY <1>0, DigitsType, DigitsFollow, LenProperties
<1>2. /\ p \in Nat /\ Len(a) = p + Len(d)
      /\ \A i \in 1..p : a[i] = 0
      /\ \A i \in 1..Len(d) : a[p + i] = d[i]
  BY TextIs
<1>3. /\ q \in Nat /\ Len(b) = q + Len(e) /\ Len(b) <= Width
      /\ \A i \in 1..q : b[i] = 0
      /\ \A i \in 1..Len(e) : b[q + i] = e[i]
  <2>1. n + 1 \in Nat OBVIOUS
  <2> QED BY <2>1, TextIs
<1> HIDE DEF d, e, a, b
<1>4. Len(e) <= Width /\ q = Width - Len(e) /\ Len(b) = Width
  BY <1>1, <1>3, InvoicingAssumption
<1>5. CASE Len(e) = Len(d) /\ \E k \in 1..Len(e) : d[k] < e[k] /\ \A i \in 1..(k - 1) : d[i] = e[i]
  <2>1. PICK k \in 1..Len(e) : d[k] < e[k] /\ \A i \in 1..(k - 1) : d[i] = e[i]
    BY <1>5
  <2>a. p = q
    BY <1>5
  <2> HIDE DEF p, q
  <2> DEFINE j == q + k
  <2>2. p = q /\ Len(a) = Len(b) /\ j \in 1..Len(b) /\ j <= Len(a) /\ j \in Nat
    BY <1>1, <1>2, <1>3, <1>5, <2>1, <2>a
  <2>3. a[j] < b[j] BY <1>2, <1>3, <1>5, <2>1, <2>2
  <2>4. ASSUME NEW i \in Nat, i < j, i > q
        PROVE  i - q \in 1..(k - 1) /\ q + (i - q) = i /\ i - q \in 1..Len(d) /\ i - q \in 1..Len(e)
    BY <1>1, <1>3, <1>5, <2>1, <2>4
  <2> HIDE DEF j
  <2>5. ASSUME NEW i \in 1..(j - 1) PROVE i <= Len(a) /\ a[i] = b[i]
    <3>1. i <= Len(a) /\ i \in Nat /\ i < j BY <2>2
    <3>2. CASE i <= q BY <1>2, <1>3, <2>2, <3>1, <3>2
    <3>3. CASE i > q
      <4>1. i - q \in 1..(k - 1) /\ q + (i - q) = i /\ i - q \in 1..Len(d) /\ i - q \in 1..Len(e)
        BY <2>4, <3>1, <3>3
      <4>2. a[q + (i - q)] = d[i - q] /\ b[q + (i - q)] = e[i - q] BY <1>2, <1>3, <2>2, <4>1
      <4> QED BY <2>1, <3>1, <4>1, <4>2
    <3> QED BY <1>3, <3>1, <3>2, <3>3
  <2> QED BY <2>2, <2>3, <2>5 DEF TextLess
<1>6. CASE Len(e) = Len(d) + 1 /\ e[1] > 0
  <2> DEFINE k == q + 1
  <2>a. p = k
    BY <1>1, <1>4, <1>6, InvoicingAssumption
  <2> HIDE DEF p, q
  <2>1. p = k /\ Len(a) = Len(b) /\ k \in 1..Len(b) /\ k <= Len(a)
    BY <1>1, <1>2, <1>3, <1>6, <2>a
  <2>2. a[k] = 0 /\ b[k] = e[1] BY <1>1, <1>2, <1>3, <1>6, <2>1
  <2>3. ASSUME NEW i \in 1..(k - 1) PROVE i <= Len(a) /\ a[i] = b[i] BY <1>1, <1>2, <1>3, <2>1
  <2> QED BY <1>6, <2>1, <2>2, <2>3 DEF TextLess
<1> QED BY <1>1, <1>5, <1>6 DEF Follows

\* A text is less by one place where it differs first.
LEMMA TextLessAt ==
    ASSUME NEW a, NEW b, NEW k \in 1..Len(b), \A i \in 1..(k - 1) : i <= Len(a) /\ a[i] = b[i],
           k > Len(a) \/ (k <= Len(a) /\ a[k] < b[k])
    PROVE  TextLess(a, b)
  BY DEF TextLess

\* The order of texts is one.
LEMMA TextLessTransitive ==
    ASSUME NEW a \in Seq(Nat), NEW b \in Seq(Nat), NEW c \in Seq(Nat), TextLess(a, b), TextLess(b, c)
    PROVE  TextLess(a, c)
<1>1. Len(a) \in Nat /\ Len(b) \in Nat /\ Len(c) \in Nat BY LenProperties
<1>2. /\ \A i \in 1..Len(a) : a[i] \in Nat
      /\ \A i \in 1..Len(b) : b[i] \in Nat
      /\ \A i \in 1..Len(c) : c[i] \in Nat
  BY ElementOfSeq
<1>3. PICK k \in 1..Len(b) : /\ \A i \in 1..(k - 1) : i <= Len(a) /\ a[i] = b[i]
                             /\ k > Len(a) \/ (k <= Len(a) /\ a[k] < b[k])
  BY DEF TextLess
<1>4. PICK j \in 1..Len(c) : /\ \A i \in 1..(j - 1) : i <= Len(b) /\ b[i] = c[i]
                             /\ j > Len(b) \/ (j <= Len(b) /\ b[j] < c[j])
  BY DEF TextLess
<1>5. CASE k < j
  <2>1. k \in 1..Len(c) /\ k \in 1..(j - 1) BY <1>1, <1>5
  <2>2. b[k] = c[k] /\ \A i \in 1..(k - 1) : b[i] = c[i] BY <1>1, <1>4, <1>5, <2>1
  <2>3. \A i \in 1..(k - 1) : i <= Len(a) /\ a[i] = c[i] BY <1>3, <2>2
  <2>4. k > Len(a) \/ (k <= Len(a) /\ a[k] < c[k]) BY <1>3, <2>2
  <2> QED BY <2>1, <2>3, <2>4, TextLessAt
<1>6. CASE j <= k
  <2>1. j <= Len(b) /\ b[j] < c[j] BY <1>1, <1>4, <1>6
  <2>2. \A i \in 1..(j - 1) : i \in 1..(k - 1) BY <1>1, <1>6
  <2>3. \A i \in 1..(j - 1) : i <= Len(a) /\ a[i] = c[i] BY <1>3, <1>4, <2>2
  <2>4. j > Len(a) \/ (j <= Len(a) /\ a[j] < c[j])
    <3>1. CASE j < k
      <4>1. j \in 1..(k - 1) BY <3>1
      <4>2. j <= Len(a) /\ a[j] = b[j] BY <1>3, <4>1
      <4> QED BY <2>1, <4>2
    <3>2. CASE j = k
      <4>1. CASE k > Len(a) BY <3>2, <4>1
      <4>2. CASE k <= Len(a) /\ a[k] < b[k]
        <5>1. k \in 1..Len(a) BY <1>1, <4>2
        <5>2. a[k] \in Nat /\ b[k] \in Nat /\ c[k] \in Nat BY <1>2, <3>2, <5>1
        <5>3. a[k] < b[k] /\ b[k] < c[k] BY <2>1, <3>2, <4>2
        <5>4. \A x, y, z \in Nat : x < y /\ y < z => x < z OBVIOUS
        <5>5. a[k] < c[k] BY <5>2, <5>3, <5>4
        <5> QED BY <3>2, <4>2, <5>5
      <4> QED BY <1>3, <4>1, <4>2
    <3> QED BY <1>6, <3>1, <3>2
  <2> QED BY <2>3, <2>4, TextLessAt
<1> QED BY <1>5, <1>6

LEMMA TextLessIrreflexive ==
    ASSUME NEW a \in Seq(Nat)
    PROVE  ~ TextLess(a, a)
<1>1. Len(a) \in Nat /\ \A i \in 1..Len(a) : a[i] \in Nat BY LenProperties, ElementOfSeq
<1> QED BY <1>1 DEF TextLess

\* A set of natural numbers; a definition, so that the provers see it only where it
\* counts.
AreNats(N) == N \subseteq Nat

\* Of finitely many numbers some text is the last.
LEMMA LastText ==
    ASSUME NEW N, AreNats(N), IsFiniteSet(N), N # {}
    PROVE  \E n \in N : \A m \in N : ~ TextLess(Text(n), Text(m))
<1> DEFINE Latest(T) == \E n \in T : \A m \in T : ~ TextLess(Text(n), Text(m))
           F == {T \in SUBSET N : T # {} /\ ~ Latest(T)}
<1>1. SUFFICES ASSUME F # {} PROVE FALSE
  <2>1. N \in SUBSET N OBVIOUS
  <2> QED BY <1>1, <2>1
<1> HIDE DEF F
<1>2. F \in SUBSET SUBSET N BY DEF F
<1>3. PICK T \in F : \A U \in F : ~ (U \subseteq T /\ U # T) BY <1>1, <1>2, SmallestSet
<1>4. T \subseteq N /\ T # {} /\ ~ Latest(T) BY DEF F
<1>5. PICK x \in T : TRUE BY <1>4
<1>6. \A n \in N : Text(n) \in Seq(Nat) BY TextIs DEF AreNats
<1>7. T \ {x} = {} \/ Latest(T \ {x})
  <2>1. T \ {x} \subseteq T /\ T \ {x} # T /\ T \ {x} \in SUBSET N BY <1>4, <1>5
  <2> HIDE DEF Latest
  <2> QED BY <1>3, <2>1 DEF F
<1>8. ~ TextLess(Text(x), Text(x)) BY <1>4, <1>6, TextLessIrreflexive
<1>9. CASE T \ {x} = {}
  <2>1. \A m \in T : m = x BY <1>9
  <2> QED BY <1>4, <1>8, <2>1
<1>10. CASE Latest(T \ {x})
  <2>1. PICK y \in T \ {x} : \A m \in T \ {x} : ~ TextLess(Text(y), Text(m)) BY <1>10
  <2>2. CASE ~ TextLess(Text(y), Text(x)) BY <1>4, <2>1, <2>2
  <2>3. CASE TextLess(Text(y), Text(x))
    <3>1. ASSUME NEW m \in T, TextLess(Text(x), Text(m)) PROVE FALSE
      <4>1. m # x BY <1>8, <3>1
      <4>2. Text(x) \in Seq(Nat) /\ Text(y) \in Seq(Nat) /\ Text(m) \in Seq(Nat) BY <1>4, <1>6
      <4>3. TextLess(Text(y), Text(m)) BY <2>3, <3>1, <4>2, TextLessTransitive
      <4> QED BY <2>1, <4>1, <4>3
    <3> QED BY <1>4, <1>5, <3>1
  <2> QED BY <2>2, <2>3
<1> QED BY <1>7, <1>9, <1>10


----------------------------------------------------------------------------
(* The numbers of invoices *)

\* Why an invoice row x may have the number r was given.
MayHaveNumber(r, x) ==
    \/ \E q \in Requests : Met(q, r) /\ Is(q, "invoice") /\ call[q].no = call[r].no
    \/ ~ RefersTo(SaleOf(r), "storeId", StoreOf(x))
    \/ Len(Text(call[r].no)) > Width

NumberInv ==
    /\ \A x \in In("Invoice", rows) : x.no \in Nat
    /\ \A r \in Requests : pc[r] = "invoice" =>
         /\ call[r].no \in Nat
         /\ \A x \in In("Invoice", rows) : x.no = call[r].no => MayHaveNumber(r, x)

\* An invoice is of a sale, which is of a store.
LEMMA InvoiceIs ==
    ASSUME TableInv, NEW x \in In("Invoice", rows)
    PROVE  /\ x \in rows /\ x.t = "Invoice" /\ "saleId" \in DOMAIN x.to
           /\ Has("Sales", x.to["saleId"])
           /\ "storeId" \in DOMAIN Get("Sales", x.to["saleId"]).to
<1>1. x \in rows /\ x.t = "Invoice" /\ "saleId" \in DOMAIN x.to /\ x.to["saleId"] # None
  BY DEF In, TableInv, RowsSound, IsRow, Mandatory
<1>2. <<Parent["saleId"], x.to["saleId"]>> \in Keys(rows)
  BY <1>1 DEF TableInv, RowsSound, KeysHold, Parents
<1>3. Parent["saleId"] = "Sales" BY DEF Parent
<1>4. x.to["saleId"] \in Ids("Sales", rows) BY <1>2, <1>3 DEF Keys, Key, Ids, In
<1>5. "storeId" \in DOMAIN Get("Sales", x.to["saleId"]).to
  BY <1>4, RowFor DEF IsRow, Mandatory
<1> QED BY <1>1, <1>4, <1>5 DEF Has

\* A number that is asked for is one more than the last, which may be a number of the
\* store only when numbers have outgrown their padding.
LEMMA GeneratedNumber ==
    ASSUME TableInv, \A x \in In("Invoice", rows) : x.no \in Nat, NEW s,
           NEW n, n = GenerateInvoiceNumber(s)
    PROVE  n \in Nat /\ \A x \in In("Invoice", rows) :
                           x.no = n => StoreOf(x) # s \/ Len(Text(n)) > Width
<1> DEFINE N == NumbersOf(s)
<1>1. CASE N = {}
  <2>1. n = 1 BY <1>1 DEF GenerateInvoiceNumber
  <2>2. ASSUME NEW x \in In("Invoice", rows) PROVE StoreOf(x) # s BY <1>1, <2>2 DEF NumbersOf
  <2> QED BY <2>1, <2>2
<1>2. CASE N # {}
  <2> DEFINE last == CHOOSE k \in N : \A m \in N : ~ TextLess(Text(k), Text(m))
  <2>1. AreNats(N) BY DEF NumbersOf, AreNats
  <2>2. IsFiniteSet(N)
    <3> DEFINE D == {y \in In("Invoice", rows) : StoreOf(y) = s}
               f == [x \in D |-> x.no]
    <3>1. IsFiniteSet(D)
      <4>1. D \subseteq rows BY DEF In
      <4> QED BY <4>1, FS_Subset DEF TableInv, RowsSound
    <3>2. N = ImageOf(f, D) BY DEF NumbersOf, ImageOf
    <3> HIDE DEF D, f
    <3> QED BY <3>1, <3>2, ImageFinite
  <2> HIDE DEF N
  <2>3. last \in N /\ \A m \in N : ~ TextLess(Text(last), Text(m))
    BY <1>2, <2>1, <2>2, LastText
  <2>4. n = last + 1 BY <1>2 DEF GenerateInvoiceNumber, N
  <2> HIDE DEF last
  <2>5. last \in Nat /\ n \in Nat BY <2>1, <2>3, <2>4 DEF AreNats
  <2>6. n \in N => Len(Text(n)) > Width
    <3>1. n \in N => ~ (Len(Text(last + 1)) <= Width) BY <2>3, <2>4, <2>5, TextFollows
    <3>2. Len(Text(n)) \in Nat BY <2>5, TextIs, LenProperties
    <3> QED BY <2>4, <3>1, <3>2, InvoicingAssumption
  <2>7. ASSUME NEW x \in In("Invoice", rows), x.no = n, StoreOf(x) = s PROVE n \in N
    BY <2>7 DEF N, NumbersOf
  <2> QED BY <2>5, <2>6, <2>7
<1> QED BY <1>1, <1>2

LEMMA QuietNumbers ==
    ASSUME TableInv, History, NumberInv, Quiet
    PROVE  NumberInv'
<1>1. rows' = rows /\ Past BY DEF Quiet
<1>2. ASSUME NEW r \in Requests, pc'[r] = "invoice"
      PROVE  /\ call'[r].no \in Nat
             /\ \A x \in In("Invoice", rows) : x.no = call'[r].no => MayHaveNumber(r, x)'
  <2>1. CASE pc'[r] = pc[r] /\ call'[r] = call[r] /\ seen'[r] = seen[r]
    <3>1. call[r].no \in Nat /\ \A x \in In("Invoice", rows) : x.no = call[r].no => MayHaveNumber(r, x)
      BY <1>2, <2>1 DEF NumberInv
    <3>2. ASSUME NEW x \in In("Invoice", rows), MayHaveNumber(r, x) PROVE MayHaveNumber(r, x)'
      <4>1. ASSUME NEW q \in Requests, Met(q, r), Is(q, "invoice"), call[q].no = call[r].no
            PROVE  Met(q, r)' /\ Is(q, "invoice")' /\ call'[q].no = call'[r].no
        <5>1. call'[q] = call[q] BY <1>1, <4>1 DEF Past, History, Is, NoCall
        <5> QED BY <1>1, <2>1, <4>1, <5>1 DEF Past, Met, Is
      <4>2. SaleOf(r)' = SaleOf(r) /\ StoreOf(x)' = StoreOf(x)
        BY <1>1, <2>1 DEF SaleOf, StoreOf, Get, In
      <4> QED BY <2>1, <3>2, <4>1, <4>2 DEF MayHaveNumber, RefersTo
    <3> QED BY <2>1, <3>1, <3>2
  <2>2. CASE AsksAt(call'[r], seen'[r], pc'[r])
    <3>1. PICK sale \in rows : /\ In("Sales", seen'[r]) = {sale} /\ sale.t = "Sales"
                               /\ call'[r].no = GenerateInvoiceNumber(sale.to["storeId"])
      BY <1>2, <2>2 DEF AsksAt, NumberFor
    <3>2. SaleOf(r)' = sale BY <3>1 DEF SaleOf, In
    <3>3. /\ call'[r].no \in Nat
          /\ \A x \in In("Invoice", rows) : x.no = call'[r].no =>
               StoreOf(x) # sale.to["storeId"] \/ Len(Text(call'[r].no)) > Width
      BY <3>1, GeneratedNumber DEF NumberInv
    <3>4. \A x : StoreOf(x)' = StoreOf(x) BY <1>1 DEF StoreOf, Get, In
    <3> QED BY <3>2, <3>3, <3>4 DEF MayHaveNumber, RefersTo
  <2> QED BY <1>2, <2>1, <2>2 DEF Quiet
<1> QED BY <1>1, <1>2 DEF NumberInv, In

\* Sales keep their store, and invoices their sale and their number.
LEMMA StoreOfStays ==
    ASSUME TableInv, TableInv', NEW r \in Requests, Step(r), NEW x \in In("Invoice", rows),
           NEW y \in In("Invoice", rows'), RowMoves(pc[r], x, y)
    PROVE  y.no = x.no /\ StoreOf(y)' = StoreOf(x)
<1>1. /\ x.t = "Invoice" /\ "saleId" \in DOMAIN x.to
      /\ Has("Sales", x.to["saleId"])
      /\ "storeId" \in DOMAIN Get("Sales", x.to["saleId"]).to
  BY InvoiceIs
<1>2. y.no = x.no /\ y.to["saleId"] = x.to["saleId"] BY <1>1 DEF RowMoves, Writes, Nullable
<1> DEFINE s == x.to["saleId"]
           w == Get("Sales", s)
<1>3. w \in rows /\ w.t = "Sales" /\ w.id = s /\ \A u \in rows : u.t = "Sales" /\ u.id = s => u = w
  BY <1>1, RowOf DEF TableInv
<1>4. PICK z \in rows' : z = Get("Sales", s)' /\ z.t = "Sales" /\ z.id = s
  <2>1. /\ y \in rows' /\ y.t = "Invoice" /\ IsRow(y)
        /\ \A u, v \in rows' : Key(u) = Key(v) => u = v
        /\ Parents(y) \subseteq Keys(rows')
    BY DEF In, TableInv, RowsSound, KeysHold
  <2>2. <<Parent["saleId"], s>> \in Parents(y) BY <1>2, <2>1 DEF IsRow, Mandatory, Parents
  <2>3. PICK z \in rows' : Key(z) = <<"Sales", s>> BY <2>1, <2>2 DEF Keys, Parent
  <2>4. z.t = "Sales" /\ z.id = s /\ \A u \in rows' : u.t = "Sales" /\ u.id = s => u = z
    BY <2>1, <2>3 DEF Key
  <2>5. z = Get("Sales", s)' BY <2>4 DEF Get, In
  <2> QED BY <2>4, <2>5
<1>5. ~ IsNew(r, z) BY <1>4 DEF IsNew, Makes, TaxTables
<1>6. PICK u \in rows : RowMoves(pc[r], u, z) BY <1>4, <1>5, Carried
<1>7. u = w BY <1>3, <1>4, <1>6, KeysEvolve
<1>8. z.to["storeId"] = w.to["storeId"]
  BY <1>1, <1>3, <1>6, <1>7 DEF RowMoves, Writes, Nullable
<1> QED BY <1>2, <1>4, <1>8 DEF StoreOf


LEMMA InvoiceMade ==
    ASSUME TableInv, NEW r \in Requests, Step(r), NEW y \in rows', y.t = "Invoice", IsNew(r, y)
    PROVE  pc[r] = "invoice" /\ y.no = call[r].no
<1>1. pc[r] = "invoice" BY DEF IsNew, Makes, TaxTables
<1>2. CreateInvoice(r) BY <1>1, StepIs, InvoicingStepIs DEF InvoicingStages
<1>3. y \notin rows BY DEF IsNew, Keys
<1>4. y = InvoiceRow(r) BY <1>2, <1>3 DEF CreateInvoice, Fails, Insert, InsertFails
<1> QED BY <1>1, <1>4 DEF InvoiceRow, New

LEMMA StepNumbers ==
    ASSUME TableInv, TableInv', History, NumberInv, NEW r \in Requests, Step(r)
    PROVE  NumberInv'
<1>1. /\ Past /\ InFlight(r) /\ call' = call /\ raced' = raced
      /\ \A q \in Requests \ {r} : pc'[q] = pc[q] /\ seen'[q] = seen[q]
  BY StepPast
<1>2. ASSUME NEW y \in In("Invoice", rows')
      PROVE  \/ pc[r] = "invoice" /\ y.no = call[r].no
             \/ \E x \in In("Invoice", rows) : RowMoves(pc[r], x, y) /\ y.no = x.no /\ StoreOf(y)' = StoreOf(x)
  <2>1. y \in rows' /\ y.t = "Invoice" BY DEF In
  <2>2. CASE IsNew(r, y) BY <2>1, <2>2, InvoiceMade
  <2>3. ASSUME NEW x \in rows, RowMoves(pc[r], x, y)
        PROVE  \E w \in In("Invoice", rows) : RowMoves(pc[r], w, y) /\ y.no = w.no /\ StoreOf(y)' = StoreOf(w)
    <3>1. x \in In("Invoice", rows) BY <2>1, <2>3, KeysEvolve DEF In
    <3> QED BY <2>3, <3>1, StoreOfStays
  <2> QED BY <2>1, <2>2, <2>3, Carried
<1>3. \A y \in In("Invoice", rows') : y.no \in Nat BY <1>2 DEF NumberInv
<1>4. ASSUME NEW q \in Requests, pc'[q] = "invoice"
      PROVE  /\ call[q].no \in Nat
             /\ \A y \in In("Invoice", rows') : y.no = call[q].no => MayHaveNumber(q, y)'
  <2>1. q # r BY <1>4, NextStage DEF Ended
  <2>2. pc[q] = "invoice" /\ seen'[q] = seen[q] /\ Met(r, q)
    <3>1. pc[q] = "invoice" /\ seen'[q] = seen[q] BY <1>1, <1>4, <2>1
    <3> QED BY <1>1, <2>1, <3>1 DEF History, InFlight, Ended
  <2>3. SaleOf(q)' = SaleOf(q) BY <2>2 DEF SaleOf
  <2>4. ASSUME NEW y \in In("Invoice", rows'), y.no = call[q].no PROVE MayHaveNumber(q, y)'
    <3>1. CASE pc[r] = "invoice" /\ y.no = call[r].no
      <4>1. call[r].op = "invoice" BY <3>1 DEF TableInv, RequestFits, CallFits, Op
      <4> QED BY <1>1, <2>2, <2>4, <3>1, <4>1 DEF MayHaveNumber, Met, Is
    <3>2. ASSUME NEW x \in In("Invoice", rows), y.no = x.no, StoreOf(y)' = StoreOf(x)
          PROVE  MayHaveNumber(q, y)'
      <4>1. MayHaveNumber(q, x) BY <2>2, <2>4, <3>2 DEF NumberInv
      <4> QED BY <1>1, <2>3, <3>2, <4>1 DEF MayHaveNumber, Met, Is, RefersTo
    <3> QED BY <1>2, <3>1, <3>2
  <2> QED BY <2>2, <2>4 DEF NumberInv
<1> QED BY <1>1, <1>3, <1>4 DEF NumberInv, In

LEMMA InitNumbers ==
    ASSUME Init
    PROVE  NumberInv
  BY InvoicingAssumption DEF Init, NumberInv

\* A request is not given a number that is taken, unless another that met it took it,
\* it is taken in another store, or the numbers of the store have outgrown their
\* padding, however many invoices and requests of all kinds there are
\* (generateInvoiceNumber).  It is the order of texts that makes the difference: it is
\* the order of numbers as long as they fit in their padding (TextFollows).
THEOREM OfficeNumbersClash == Spec => NumbersClashOnlyWhen
<1> DEFINE Inv == TableInv /\ History /\ NumberInv
           Taking ==
             \A r \in Requests :
               (pc[r] = "invoice" /\ pc'[r] = "failed" /\ NumberTaken(r) /\ faults' = faults) =>
                 \/ \E q \in Requests : Met(q, r) /\ Is(q, "invoice") /\ call[q].no = call[r].no
                 \/ \E x \in In("Invoice", rows) :
                      x.no = call[r].no /\ ~ RefersTo(SaleOf(r), "storeId", StoreOf(x))
                 \/ Len(Text(call[r].no)) > Width
<1>1. Init => Inv BY InitTables, InitHistory, InitNumbers
<1>2. Inv /\ [Next]_vars => Inv'
  <2> SUFFICES ASSUME Inv, [Next]_vars PROVE Inv' OBVIOUS
  <2>1. TableInv' /\ History' BY NextTables, HistoryKeeps
  <2> QED BY <2>1, NextIs, QuietNumbers, StepNumbers
<1>3. Inv => Taking
  <2> SUFFICES ASSUME Inv, NEW r \in Requests, pc[r] = "invoice", NumberTaken(r)
               PROVE  \/ \E q \in Requests : Met(q, r) /\ Is(q, "invoice") /\ call[q].no = call[r].no
                      \/ \E x \in In("Invoice", rows) :
                           x.no = call[r].no /\ ~ RefersTo(SaleOf(r), "storeId", StoreOf(x))
                      \/ Len(Text(call[r].no)) > Width
    OBVIOUS
  <2>1. PICK x \in In("Invoice", rows) : x.no = call[r].no BY DEF NumberTaken
  <2>2. MayHaveNumber(r, x) BY <2>1 DEF NumberInv
  <2> QED BY <2>1, <2>2 DEF MayHaveNumber
<1>4. Spec => [][Taking]_vars
  <2> HIDE DEF Inv, Taking
  <2> QED BY <1>1, <1>2, <1>3, PTL DEF Spec
<1> QED BY <1>4 DEF NumbersClashOnlyWhen

----------------------------------------------------------------------------
(* Tenants: what a request may refer to *)

Of(x) == x.to["clientId"]

\* The stages at which a request goes by the rows it has read, or is about to make.
Shown == {"store", "supplier", "customer", "invoice", "tax", "bundle"}

\* The rows that r, asking for c, refers to or writes with a reference.
Touches(stage, c, S, k) ==
    /\ k[1] # "Clients"
    /\ \/ stage \in Shown /\ \E x \in S : k = Key(x) \/ k \in Parents(x)
       \/ /\ stage = "editSupplier" /\ c.op = "updateSupplier"
          /\ k \in {<<"Suppliers", c.supplier>>, <<"Stores", c.store>>}
       \/ stage \in {"business", "link"} /\ k = <<"Users", c.user>>
       \/ stage = "bundle" /\ c.op = "updateBundle" /\ k = <<"TaxType", c.type>>
       \/ stage \in {"replace", "assignments"} /\ k \in Parents(c.new)
       \/ stage = "editTax" /\ c.op = "updateTax" /\ k \in NamedBy(c) \cup {<<c.table, c.id>>}
       \/ /\ stage = "hire"
          /\ k \in {<<"Users", c.user>>, <<"RoleTemplate", c.role>>, <<"Stores", c.store>>}
       \/ stage \in {"signup", "mapping"} /\ k = <<"Stores", c.store>>
       \/ /\ stage \in {"draft", "clear", "items"}
          /\ k \in {<<"Stores", c.store>>, <<"Users", c.user>>, <<"SalesDraft", c.draft>>}

\* The tenant cl is the one it writes for.
WritesFor(stage, c, S, cl) ==
    /\ stage \in Shown => \A x \in S : Of(x) = cl /\ FitsSchema(x)
    /\ stage \in {"business", "link", "draft", "clear", "items", "hire", "signup", "mapping"} =>
         c.client = cl
    /\ stage \in {"replace", "assignments"} => Of(c.new) = cl

\* A row with the key k is of cl, now and later: who could make it has done so.
IsOf(r, k, cl) ==
    /\ k[2] \in Requests \ {r} => pc[k[2]] \in Made(k[1])
    /\ \A y \in rows : Key(y) = k => Of(y) = cl

RefersWithin(r, stage, c, S) ==
    \E cl : WritesFor(stage, c, S, cl) /\ \A k : Touches(stage, c, S, k) => IsOf(r, k, cl)

\* The row it made at the stage before.
MadeBefore == [link |-> "Business", mapping |-> "Users"]

ApartInv ==
    /\ KeepApart(rows) /\ \A x \in rows : FitsSchema(x)
    /\ \A r \in Requests :
         /\ RefersWithin(r, pc[r], call[r], seen[r])
         /\ pc[r] \in DOMAIN MadeBefore =>
              \A y \in rows : Key(y) = <<MadeBefore[pc[r]], r>> => Of(y) = call[r].client

LEMMA NothingTouched ==
    ASSUME NEW stage, NEW c, NEW S,
           stage \notin Shown \cup {"editSupplier", "business", "link", "replace", "assignments",
                                    "draft", "clear", "items", "editTax", "hire", "signup", "mapping"}
    PROVE  (\A k : ~ Touches(stage, c, S, k)) /\ \A cl : WritesFor(stage, c, S, cl)
  BY DEF Touches, WritesFor, Shown

LEMMA NoReferences ==
    ASSUME NEW r, NEW stage, NEW c, NEW S,
           stage \notin Shown \cup {"editSupplier", "business", "link", "replace", "assignments",
                                    "draft", "clear", "items", "editTax", "hire", "signup", "mapping"}
    PROVE  RefersWithin(r, stage, c, S)
  BY NothingTouched DEF RefersWithin

\* What a row that is there refers to is of its tenant, and so is the row.
LEMMA RowIsOf ==
    ASSUME TableInv, ApartInv, NEW r \in Requests, NEW x \in rows, x.t # "Clients",
           NEW k, k[1] # "Clients", k = Key(x) \/ k \in Parents(x), pc[r] = "idle"
    PROVE  IsOf(r, k, Of(x))
<1>1. k \in Keys(rows) BY DEF TableInv, RowsSound, KeysHold, Keys
<1>2. PICK z \in rows : Key(z) = k BY <1>1 DEF Keys
<1>3. k[2] = z.id /\ MadeBy(z) BY <1>2 DEF Key, TableInv
<1>4. k[2] \in Requests => pc[k[2]] \in Made(k[1]) BY <1>2, <1>3 DEF MadeBy, Key
<1>5. ASSUME NEW y \in rows, Key(y) = k PROVE Of(y) = Of(x)
  <2>1. CASE k = Key(x) BY <1>5, <2>1 DEF TableInv, RowsSound, KeysHold
  <2>2. ASSUME NEW col \in DOMAIN x.to, k = <<Parent[col], x.to[col]>> PROVE Of(y) = Of(x)
    <3>1. col # "clientId" BY <2>2 DEF Parent
    <3> QED BY <1>5, <2>2, <3>1 DEF ApartInv, KeepApart, Of
  <2> QED BY <2>1, <2>2 DEF Parents
<1> QED BY <1>4, <1>5 DEF IsOf

\* Nothing is of nobody.
LEMMA NoneIsOf ==
    ASSUME TableInv, NEW r, NEW t, NEW cl
    PROVE  IsOf(r, <<t, None>>, cl)
  BY OfficeAssumption DEF IsOf, Key, TableInv, RowsSound, IsRow

\* A row of the tenant c that a page offers.
LEMMA OwnRow ==
    ASSUME TableInv, NEW c, NEW t, NEW id, id \in Own(c, t)
    PROVE  /\ Has(t, id) /\ Get(t, id) \in rows /\ Get(t, id).t = t /\ Get(t, id).id = id
           /\ Of(Get(t, id)) = c
<1>1. PICK x \in rows : x.t = t /\ x.id = id /\ Of(x) = c BY DEF Own, In, Of
<1>2. Has(t, id) BY <1>1 DEF Has, Ids, In
<1>3. Get(t, id) = x BY <1>1, <1>2, RowOf DEF TableInv
<1> QED BY <1>1, <1>2, <1>3

LEMMA OwnIs ==
    ASSUME TableInv, ApartInv, NEW r \in Requests, pc[r] = "idle", NEW c, NEW t, t # "Clients",
           NEW id, id \in Own(c, t)
    PROVE  IsOf(r, <<t, id>>, c)
<1>1. Get(t, id) \in rows /\ Get(t, id).t = t /\ Get(t, id).id = id /\ Of(Get(t, id)) = c
  BY OwnRow
<1>2. Key(Get(t, id)) = <<t, id>> /\ <<t, id>>[1] # "Clients" BY <1>1 DEF Key
<1> QED BY <1>1, <1>2, RowIsOf

\* A request asks for something of one tenant.
Within(r) ==
    Refuse(r) \/ \E c, S, to : Begin(r, c, S, to) /\ to \notin DOMAIN MadeBefore /\ RefersWithin(r, to, c, S)

LEMMA ShownWithin ==
    ASSUME TableInv, ApartInv, NEW r \in Requests, pc[r] = "idle", NEW to \in Shown \ {"tax", "bundle"},
           NEW c, NEW cl, NEW S, S \subseteq rows, \A x \in S : x.t # "Clients" /\ Of(x) = cl
    PROVE  RefersWithin(r, to, c, S)
<1>1. WritesFor(to, c, S, cl) BY DEF WritesFor, Shown, ApartInv
<1>2. ASSUME NEW k, Touches(to, c, S, k) PROVE IsOf(r, k, cl)
  <2>1. PICK x \in S : k = Key(x) \/ k \in Parents(x) BY <1>2 DEF Touches, Shown
  <2> QED BY <1>2, <2>1, RowIsOf DEF Touches
<1> QED BY <1>1, <1>2 DEF RefersWithin

\* One row of the table t.
LEMMA OneWithin ==
    ASSUME TableInv, ApartInv, NEW r \in Requests, pc[r] = "idle", NEW to \in Shown \ {"tax", "bundle"},
           NEW c, NEW t, t # "Clients", NEW id, Has(t, id)
    PROVE  RefersWithin(r, to, c, {Get(t, id)})
<1>1. Get(t, id) \in rows /\ Get(t, id).t = t BY RowOf DEF TableInv
<1> QED BY <1>1, ShownWithin

LEMMA IdleBegins ==
    ASSUME NEW r, NEW c, NEW S, NEW to, Begin(r, c, S, to)
    PROVE  pc[r] = "idle"
  BY DEF Begin

LEMMA ShopsWithin ==
    ASSUME TableInv, ApartInv, NEW r \in Requests, ReceiveShops(r)
    PROVE  Within(r)
<1>1. ASSUME NEW u, BeginCreateStore(r, u) PROVE Within(r)
  <2>1. ASSUME NEW c, Begin(r, c, {Get("Users", u)}, "store"), Has("Users", u) PROVE Within(r)
    BY <2>1, OneWithin, IdleBegins DEF Shown, Within, MadeBefore
  <2> QED BY <1>1, <2>1 DEF BeginCreateStore, Known, Check, Within, MadeBefore
<1>2. ASSUME NEW u, BeginUpdateMe(r, u) PROVE Within(r)
  BY <1>2, NoReferences DEF BeginUpdateMe, Check, Within, Shown, MadeBefore
<1>3. ASSUME NEW u, NEW on, BeginEmployee(r, u, on) PROVE Within(r)
  BY <1>3, NoReferences DEF BeginEmployee, Check, Within, Shown, MadeBefore
<1>4. ASSUME NEW u, NEW F, NEW op \in {"exclude", "include"}, BeginExclusions(r, op, u, F)
      PROVE  Within(r)
  BY <1>4, NoReferences DEF BeginExclusions, Check, Within, Shown, MadeBefore
<1>5. ASSUME NEW s, NEW op, BeginEditStore(r, op, s) PROVE Within(r)
  BY <1>5, NoReferences DEF BeginEditStore, Check, Within, Shown, MadeBefore
<1>6. ASSUME NEW s, BeginCreateSupplier(r, s) PROVE Within(r)
  <2>1. ASSUME NEW c, Begin(r, c, {Get("Stores", s)}, "supplier"), Has("Stores", s) PROVE Within(r)
    BY <2>1, OneWithin, IdleBegins DEF Shown, Within, MadeBefore
  <2> QED BY <1>6, <2>1 DEF BeginCreateSupplier, ValidateStoreAccess, ActiveStore, Check, Within, MadeBefore
<1>7. ASSUME NEW s, NEW n, Has("Stores", s), BeginCreateCustomer(r, s, n) PROVE Within(r)
  <2>1. ASSUME NEW c, Begin(r, c, {Get("Stores", s)}, "customer") PROVE Within(r)
    BY <1>7, <2>1, OneWithin, IdleBegins DEF Shown, Within, MadeBefore
  <2> QED BY <1>7, <2>1 DEF BeginCreateCustomer, Check, Within, MadeBefore
<1>8. ASSUME NEW k, NEW n, BeginUpdateCustomer(r, k, n) PROVE Within(r)
  BY <1>8, NoReferences DEF BeginUpdateCustomer, Check, Within, Shown, MadeBefore
<1>9. ASSUME NEW cl, NEW p \in Own(cl, "Suppliers"), NEW s \in Own(cl, "Stores"),
             BeginUpdateSupplier(r, p, s)
      PROVE  Within(r)
  <2> DEFINE c == [op |-> "updateSupplier", supplier |-> p, store |-> s]
  <2>1. ASSUME pc[r] = "idle" PROVE RefersWithin(r, "editSupplier", c, {})
    <3>1. IsOf(r, <<"Suppliers", p>>, cl) /\ IsOf(r, <<"Stores", s>>, cl) BY <2>1, OwnIs
    <3>2. WritesFor("editSupplier", c, {}, cl) BY DEF WritesFor, Shown
    <3>3. \A k : Touches("editSupplier", c, {}, k) => k \in {<<"Suppliers", p>>, <<"Stores", s>>}
      BY DEF Touches, Shown
    <3> QED BY <3>1, <3>2, <3>3 DEF RefersWithin
  <2> HIDE DEF c
  <2>2. Refuse(r) \/ Begin(r, c, {}, "editSupplier") BY <1>9 DEF BeginUpdateSupplier, Check, c
  <2> QED BY <2>1, <2>2, IdleBegins DEF Within, MadeBefore
<1>10. ASSUME NEW p, BeginDeleteSupplier(r, p) PROVE Within(r)
  <2> DEFINE c == [op |-> "deleteSupplier", supplier |-> p]
  <2>1. RefersWithin(r, "editSupplier", c, {})
    <3>1. \A k : ~ Touches("editSupplier", c, {}, k) BY DEF Touches, Shown
    <3>2. \A cl : WritesFor("editSupplier", c, {}, cl) BY DEF WritesFor, Shown
    <3> QED BY <3>1, <3>2 DEF RefersWithin
  <2> HIDE DEF c
  <2> QED BY <1>10, <2>1 DEF BeginDeleteSupplier, Check, Within, c, MadeBefore
<1>11. ASSUME NEW u \in Ids("Users", rows), NEW m \in Own(ClientOf(u), "RoleTemplate"),
              NEW s \in Own(ClientOf(u), "Stores") \cup {None}, NEW on, BeginHire(r, u, m, s, on)
       PROVE  Within(r)
  <2> DEFINE cl == ClientOf(u)
             c == [op |-> "hire", user |-> u, client |-> cl, role |-> m, store |-> s, on |-> on]
  <2>1. ASSUME pc[r] = "idle" PROVE RefersWithin(r, "hire", c, {})
    <3>1. u \in Own(cl, "Users") BY RowOf DEF Own, ClientOf, TableInv, Has, In
    <3>2. IsOf(r, <<"Users", u>>, cl) /\ IsOf(r, <<"RoleTemplate", m>>, cl) BY <2>1, <3>1, OwnIs
    <3>3. IsOf(r, <<"Stores", s>>, cl) BY <2>1, OwnIs, NoneIsOf
    <3>4. WritesFor("hire", c, {}, cl) BY DEF WritesFor, Shown
    <3>5. \A k : Touches("hire", c, {}, k) =>
            k \in {<<"Users", u>>, <<"RoleTemplate", m>>, <<"Stores", s>>}
      BY DEF Touches, Shown
    <3> QED BY <3>2, <3>3, <3>4, <3>5 DEF RefersWithin
  <2> HIDE DEF c
  <2>2. Refuse(r) \/ Begin(r, c, {}, "hire") BY <1>11 DEF BeginHire, Check, c
  <2> QED BY <2>1, <2>2, IdleBegins DEF Within, MadeBefore
<1>12. ASSUME NEW cl, BeginSignup(r, cl) PROVE Within(r)
  <2> DEFINE c == [op |-> "signup", client |-> cl, no |-> 0, store |-> None]
  <2>1. RefersWithin(r, "signup", c, {})
    <3>1. WritesFor("signup", c, {}, cl) BY DEF WritesFor, Shown
    <3>2. \A k : Touches("signup", c, {}, k) => k = <<"Stores", None>> BY DEF Touches, Shown
    <3> QED BY <3>1, <3>2, NoneIsOf DEF RefersWithin
  <2> HIDE DEF c
  <2> QED BY <1>12, <2>1 DEF BeginSignup, Check, Within, c, MadeBefore
<1>13. ASSUME NEW i, Has("InviteLinks", i), BeginAccept(r, i) PROVE Within(r)
  <2> DEFINE x == Get("InviteLinks", i)
             cl == ClientOf(x.to["userId"])
             c == [op |-> "accept", invite |-> i, no |-> x.no, store |-> x.to["storeId"],
                   client |-> cl]
  <2>1. ASSUME pc[r] = "idle", x.to["storeId"] # None, Has("Users", x.to["userId"])
        PROVE  RefersWithin(r, "signup", c, {})
    <3>1. x \in rows /\ x.t = "InviteLinks" BY <1>13, RowOf DEF TableInv
    <3>2. "storeId" \in DOMAIN x.to /\ "userId" \in DOMAIN x.to
      BY <3>1 DEF ApartInv, FitsSchema, Columns
    <3>3. Of(x) = cl
      <4> DEFINE u == Get("Users", x.to["userId"])
      <4>1. u \in rows /\ Key(u) = <<"Users", x.to["userId"]>> BY <2>1, RowOf DEF TableInv, Key
      <4>2. Of(u) = cl BY DEF ClientOf, Of
      <4> HIDE DEF u, cl, x
      <4> QED BY <3>1, <3>2, <4>1, <4>2 DEF ApartInv, KeepApart, Of, Parent
    <3>4. <<"Stores", x.to["storeId"]>> \in Parents(x) BY <2>1, <3>2 DEF Parents, Parent
    <3> HIDE DEF x, cl
    <3>5. IsOf(r, <<"Stores", x.to["storeId"]>>, cl) BY <2>1, <3>1, <3>3, <3>4, RowIsOf
    <3>6. WritesFor("signup", c, {}, cl) BY DEF WritesFor, Shown
    <3>7. \A k : Touches("signup", c, {}, k) => k = <<"Stores", x.to["storeId"]>>
      BY DEF Touches, Shown
    <3> HIDE DEF c
    <3> QED BY <3>5, <3>6, <3>7 DEF RefersWithin
  <2>2. \/ Refuse(r)
        \/ /\ Begin(r, c, {}, "signup") /\ x.to["storeId"] # None
           /\ Has("Users", x.to["userId"])
    BY <1>13 DEF BeginAccept, Check
  <2> HIDE DEF c, x, cl
  <2> QED BY <2>1, <2>2, IdleBegins DEF Within, MadeBefore
<1>14. \A c : Own(c, "Stores") \subseteq Ids("Stores", rows) BY DEF Own, Ids
<1> QED
  BY <1>1, <1>2, <1>3, <1>4, <1>5, <1>6, <1>7, <1>8, <1>9, <1>10, <1>11, <1>12, <1>13, <1>14
  DEF ReceiveShops, GetStores, Has

LEMMA InvoicingWithin ==
    ASSUME TableInv, ApartInv, NEW r \in Requests, ReceiveInvoicing(r)
    PROVE  Within(r)
<1>1. ASSUME NEW u \in Ids("Users", rows), BeginSetBusiness(r, u) PROVE Within(r)
  <2> DEFINE c == [op |-> "setBusiness", user |-> u, client |-> ClientOf(u)]
  <2>1. ASSUME pc[r] = "idle" PROVE RefersWithin(r, "business", c, {})
    <3>1. u \in Own(ClientOf(u), "Users") BY RowOf DEF Own, ClientOf, TableInv, Has, In
    <3>2. IsOf(r, <<"Users", u>>, ClientOf(u)) BY <2>1, <3>1, OwnIs
    <3>3. WritesFor("business", c, {}, ClientOf(u)) BY DEF WritesFor, Shown
    <3>4. \A k : Touches("business", c, {}, k) => k = <<"Users", u>> BY DEF Touches, Shown
    <3> QED BY <3>2, <3>3, <3>4 DEF RefersWithin
  <2> HIDE DEF c
  <2>2. Refuse(r) \/ Begin(r, c, {}, "business") BY <1>1 DEF BeginSetBusiness, Check, c
  <2> QED BY <2>1, <2>2, IdleBegins DEF Within, MadeBefore
<1>2. ASSUME NEW u, BeginUpdateBusiness(r, u) PROVE Within(r)
  BY <1>2, NoReferences DEF BeginUpdateBusiness, Check, Within, Shown, MadeBefore
<1>3. ASSUME NEW u \in Ids("Users", rows), NEW s \in Own(ClientOf(u), "Sales"), BeginInvoice(r, u, s)
      PROVE  Within(r)
  <2> DEFINE S == {Get("Users", u), Get("Sales", s)}
  <2>1. ASSUME NEW c, pc[r] = "idle" PROVE RefersWithin(r, "invoice", c, S)
    <3>1. Get("Users", u) \in rows /\ Get("Users", u).t = "Users" /\ Of(Get("Users", u)) = ClientOf(u)
      BY RowOf DEF ClientOf, TableInv, Has, Of
    <3>0. s \in Own(ClientOf(u), "Sales") /\ "Sales" # "Clients" OBVIOUS
    <3>2. Get("Sales", s) \in rows /\ Get("Sales", s).t = "Sales" /\ Of(Get("Sales", s)) = ClientOf(u)
      BY <3>0, OwnRow
    <3> QED BY <2>1, <3>1, <3>2, ShownWithin DEF Shown
  <2> HIDE DEF S
  <2>2. Refuse(r) \/ \E c : Begin(r, c, S, "invoice") BY <1>3 DEF BeginInvoice, Check, S
  <2> QED BY <2>1, <2>2, IdleBegins DEF Within, MadeBefore
<1>4. ASSUME NEW op, NEW i, BeginEditInvoice(r, op, i) PROVE Within(r)
  BY <1>4, NoReferences DEF BeginEditInvoice, Check, Within, Shown, MadeBefore
<1> QED BY <1>1, <1>2, <1>3, <1>4 DEF ReceiveInvoicing

LEMMA DraftsWithin ==
    ASSUME TableInv, ApartInv, NEW r \in Requests, ReceiveDrafts(r)
    PROVE  Within(r)
<1>1. ASSUME NEW u \in Ids("Users", rows), NEW s \in Own(ClientOf(u), "Stores"),
             NEW d \in GetDraftSales(u), BeginSaveDraft(r, u, s, d)
      PROVE  Within(r)
  <2> DEFINE cl == ClientOf(u)
             c == [op |-> "saveDraft", user |-> u, store |-> s, draft |-> d,
                   client |-> Get("Stores", s).to["clientId"]]
  <2>1. ASSUME pc[r] = "idle" PROVE RefersWithin(r, "draft", c, {})
    <3>1. u \in Own(cl, "Users") BY RowOf DEF Own, ClientOf, TableInv, Has, In
    <3>2. IsOf(r, <<"Users", u>>, cl) /\ IsOf(r, <<"Stores", s>>, cl) /\ Of(Get("Stores", s)) = cl
      BY <2>1, <3>1, OwnIs, OwnRow
    <3>3. IsOf(r, <<"SalesDraft", d>>, cl)
      <4>1. CASE d \in Own(cl, "SalesDraft") BY <2>1, <4>1, OwnIs
      <4>2. CASE d = None BY <4>2, NoneIsOf
      <4> QED BY <4>1, <4>2 DEF GetDraftSales
    <3>4. WritesFor("draft", c, {}, cl) BY <3>2 DEF WritesFor, Shown, Of
    <3>5. \A k : Touches("draft", c, {}, k) =>
            k \in {<<"Stores", s>>, <<"Users", u>>, <<"SalesDraft", d>>}
      BY DEF Touches, Shown
    <3> QED BY <3>2, <3>3, <3>4, <3>5 DEF RefersWithin
  <2>2. Begin(r, c, {}, "draft") BY <1>1 DEF BeginSaveDraft
  <2> HIDE DEF c
  <2> QED BY <2>1, <2>2, IdleBegins DEF Within, MadeBefore
<1>2. ASSUME NEW d, BeginDeleteDraft(r, d) PROVE Within(r)
  BY <1>2, NoReferences DEF BeginDeleteDraft, Check, Within, Shown, MadeBefore
<1> QED BY <1>1, <1>2 DEF ReceiveDrafts

LEMMA TenantsWithin ==
    ASSUME TableInv, ApartInv, NEW r \in Requests, ReceiveTenants(r)
    PROVE  Within(r)
<1>1. ASSUME NEW e, BeginCreateTenant(r, e) PROVE Within(r)
  BY <1>1, NoReferences DEF BeginCreateTenant, Check, Within, Shown, MadeBefore
<1>2. ASSUME NEW c, NEW on, BeginTenantStatus(r, c, on) PROVE Within(r)
  BY <1>2, NoReferences DEF BeginTenantStatus, Check, Within, Shown, MadeBefore
<1>3. ASSUME NEW c, BeginDeleteTenant(r, c) PROVE Within(r)
  BY <1>3, NoReferences DEF BeginDeleteTenant, Check, Within, Shown, MadeBefore
<1> QED BY <1>1, <1>2, <1>3 DEF ReceiveTenants, BeginDeleteTenantSafe, Within

\* The rows that a request of the client c makes of taxes refer to rows of c.
LEMMA MadeWithin ==
    ASSUME TableInv, ApartInv, NEW r \in Requests, pc[r] = "idle", NEW c, NEW cl, NEW S,
           \A x \in S : /\ x.t \notin DOMAIN Columns /\ x.id = r /\ Of(x) = cl /\ "clientId" \in DOMAIN x.to
                        /\ \A col \in DOMAIN x.to \ {"clientId"} :
                             Parent[col] # "Clients" /\ (x.to[col] = r \/ x.to[col] \in Own(cl, Parent[col]))
    PROVE  RefersWithin(r, "tax", c, S)
<1>1. WritesFor("tax", c, S, cl) BY DEF WritesFor, Shown, FitsSchema
<1>2. \A t : IsOf(r, <<t, r>>, cl) BY NoneMadeYet DEF IsOf, Key
<1>3. ASSUME NEW k, Touches("tax", c, S, k) PROVE IsOf(r, k, cl)
  <2>1. PICK x \in S : k = Key(x) \/ k \in Parents(x) BY <1>3 DEF Touches, Shown
  <2>2. CASE k = Key(x) BY <1>2, <2>1, <2>2 DEF Key
  <2>3. CASE k \in Parents(x)
    <3>1. PICK col \in DOMAIN x.to : k = <<Parent[col], x.to[col]>> BY <2>3 DEF Parents
    <3>2. col # "clientId" BY <1>3, <3>1 DEF Touches, Parent
    <3>3. CASE x.to[col] = r BY <1>2, <3>1, <3>3
    <3>4. CASE x.to[col] \in Own(cl, Parent[col]) BY <2>1, <3>1, <3>2, <3>4, OwnIs
    <3> QED BY <2>1, <3>2, <3>3, <3>4
  <2> QED BY <2>1, <2>2, <2>3
<1> QED BY <1>1, <1>3 DEF RefersWithin

LEMMA NamedWithin ==
    ASSUME NEW t, NEW id, NEW to, NEW n
    PROVE  /\ Named(t, id, to, n).t = t /\ Named(t, id, to, n).id = id /\ Named(t, id, to, n).to = to
           /\ Key(Named(t, id, to, n)) = <<t, id>>
  BY DEF Named, New, Key

LEMMA TaxesUncovered ==
    \A t \in TaxTables : t \notin DOMAIN Columns /\ t # "Clients"
  BY DEF TaxTables, Columns

LEMMA TaxesWithin ==
    ASSUME TableInv, ApartInv, NEW r \in Requests, ReceiveTaxes(r)
    PROVE  Within(r)
<1>1. ASSUME NEW c, NEW x \in NewTaxRows(r, c), BeginCreateTax(r, x) PROVE Within(r)
  <2>1. /\ x.t \in TaxTables /\ x.id = r /\ Of(x) = c /\ "clientId" \in DOMAIN x.to
        /\ \A col \in DOMAIN x.to \ {"clientId"} :
             Parent[col] # "Clients" /\ x.to[col] \in Own(c, Parent[col])
    <3> DEFINE A == {Named(t, r, [clientId |-> c], n) : t \in {"TaxType", "Region"}, n \in Names}
               B == {Named("TaxCode", r, [clientId |-> c, taxTypeId |-> y], n) :
                       y \in Own(c, "TaxType"), n \in Names}
               C == {Named("TaxRate", r, [clientId |-> c, taxTypeId |-> y, taxCodeId |-> k,
                                          regionId |-> g], 1) :
                       y \in Own(c, "TaxType"), k \in Own(c, "TaxCode"), g \in Own(c, "Region")}
    <3>1. CASE x \in A BY <3>1, NamedWithin DEF Of, TaxTables
    <3>2. CASE x \in B
      <4>1. PICK y \in Own(c, "TaxType"), n \in Names :
              x = Named("TaxCode", r, [clientId |-> c, taxTypeId |-> y], n)
        BY <3>2
      <4>2. x.t = "TaxCode" /\ x.id = r /\ x.to = [clientId |-> c, taxTypeId |-> y]
        BY <4>1, NamedWithin
      <4> QED BY <4>2 DEF Of, TaxTables, Parent
    <3>3. CASE x \in C
      <4>1. PICK y \in Own(c, "TaxType"), k \in Own(c, "TaxCode"), g \in Own(c, "Region") :
              x = Named("TaxRate", r, [clientId |-> c, taxTypeId |-> y, taxCodeId |-> k,
                                       regionId |-> g], 1)
        BY <3>3
      <4>2. /\ x.t = "TaxRate" /\ x.id = r
            /\ x.to = [clientId |-> c, taxTypeId |-> y, taxCodeId |-> k, regionId |-> g]
        BY <4>1, NamedWithin
      <4> QED BY <4>2 DEF Of, TaxTables, Parent
    <3>4. NewTaxRows(r, c) = UNION {A, B, C} BY DEF NewTaxRows
    <3> HIDE DEF A, B, C
    <3>5. x \in A \/ x \in B \/ x \in C BY <3>4
    <3> QED BY <3>1, <3>2, <3>3, <3>5
  <2>2. Begin(r, [op |-> "createTax"], {x}, "tax") BY <1>1 DEF BeginCreateTax
  <2>3. pc[r] = "idle" BY <2>2, IdleBegins
  <2>4. RefersWithin(r, "tax", [op |-> "createTax"], {x})
    BY <2>1, <2>3, TaxesUncovered, MadeWithin
  <2> QED BY <2>2, <2>4 DEF Within, MadeBefore
<1>2. ASSUME NEW c, NEW name, NEW code, NEW type \in Own(c, "TaxType"), NEW g \in Own(c, "Region"),
             BeginCreateBundle(r, c, name, code, type, g)
      PROVE  Within(r)
  <2> DEFINE S == BundleRows(r, c, name, code, type, g)
             a == [op |-> "createBundle"]
  <2>1. ASSUME NEW x \in S
        PROVE  /\ x.t \in TaxTables /\ x.id = r /\ Of(x) = c /\ "clientId" \in DOMAIN x.to
               /\ \A col \in DOMAIN x.to \ {"clientId"} :
                    Parent[col] # "Clients" /\ (x.to[col] = r \/ x.to[col] \in Own(c, Parent[col]))
    <3>1. CASE x = Named("TaxType", r, [clientId |-> c], name)
      BY <3>1, NamedWithin DEF Of, TaxTables
    <3>2. CASE x = Named("TaxCode", r, [clientId |-> c, taxTypeId |-> r], code)
      BY <3>2, NamedWithin DEF Of, TaxTables, Parent
    <3>3. CASE x = Named("TaxRate", r, [clientId |-> c, taxTypeId |-> type, taxCodeId |-> r,
                                        regionId |-> g], 1)
      BY <3>3, NamedWithin DEF Of, TaxTables, Parent
    <3> QED BY <3>1, <3>2, <3>3 DEF BundleRows
  <2> HIDE DEF S
  <2>2. Refuse(r) \/ Begin(r, a, S, "tax") BY <1>2 DEF BeginCreateBundle, Check, S
  <2> HIDE DEF a
  <2>3. ASSUME pc[r] = "idle" PROVE RefersWithin(r, "tax", a, S)
    BY <2>1, <2>3, TaxesUncovered, MadeWithin
  <2> QED BY <2>2, <2>3, IdleBegins DEF Within, MadeBefore
<1>3. ASSUME NEW t \in TaxTables, NEW id \in Ids(t, rows), NEW op, NEW n, NEW col, NEW ref,
             op # "updateTax" \/ col = "none"
               \/ (col \in RefColumns[t] /\ ref \in Own(Get(t, id).to["clientId"], Parent[col])),
             BeginEditTax(r, op, t, id, n, col, ref)
      PROVE  Within(r)
  <2> DEFINE cl == Of(Get(t, id))
             c == [op |-> op, table |-> t, id |-> id, no |-> n, col |-> col, ref |-> ref]
  <2>1. ASSUME pc[r] = "idle" PROVE RefersWithin(r, "editTax", c, {})
    <3>1. WritesFor("editTax", c, {}, cl) BY DEF WritesFor, Shown
    <3>2. IsOf(r, <<t, id>>, cl) /\ t # "Clients"
      <4>1. /\ Get(t, id) \in rows /\ Get(t, id).t = t /\ Key(Get(t, id)) = <<t, id>>
            /\ t # "Clients"
        BY RowFor, TaxesUncovered DEF Key
      <4> QED BY <2>1, <4>1, RowIsOf
    <3>3. ASSUME op = "updateTax", col # "none" PROVE IsOf(r, <<Parent[col], ref>>, cl)
      <4>1. Parent[col] # "Clients" /\ ref \in Own(cl, Parent[col])
        BY <1>3, <3>3 DEF TaxTables, RefColumns, Parent, Of
      <4> HIDE DEF cl
      <4> QED BY <2>1, <4>1, OwnIs
    <3> HIDE DEF cl
    <3>4. ASSUME NEW k, Touches("editTax", c, {}, k) PROVE IsOf(r, k, cl)
      <4>1. op = "updateTax" /\ k \in NamedBy(c) \cup {<<t, id>>} BY <3>4 DEF Touches, Shown
      <4>2. k = <<t, id>> \/ (col # "none" /\ k = <<Parent[col], ref>>) BY <4>1 DEF NamedBy
      <4> QED BY <3>2, <3>3, <4>1, <4>2
    <3> HIDE DEF c
    <3> QED BY <3>1, <3>4 DEF RefersWithin
  <2>2. Refuse(r) \/ Begin(r, c, {}, "editTax") BY <1>3 DEF BeginEditTax, Check
  <2> HIDE DEF c, cl
  <2> QED BY <2>1, <2>2, IdleBegins DEF Within, MadeBefore
<1>4. ASSUME NEW cl, NEW op \in {"updateBundle", "deleteBundle"}, NEW k \in Own(cl, "TaxCode"),
             NEW rate \in Own(cl, "TaxRate"), NEW type,
             op = "updateBundle" => type \in Own(cl, "TaxType"), BeginBundle(r, op, k, rate, type)
      PROVE  Within(r)
  <2> DEFINE code == Get("TaxCode", k)
             S == {code, Get("TaxType", code.to["taxTypeId"]), Get("TaxRate", rate)}
             c == [op |-> op, type |-> type]
  <2>1. ASSUME pc[r] = "idle" PROVE RefersWithin(r, "bundle", c, S)
    <3>1. /\ code \in rows /\ code.t = "TaxCode" /\ Of(code) = cl
          /\ Get("TaxRate", rate) \in rows /\ Get("TaxRate", rate).t = "TaxRate" /\ Of(Get("TaxRate", rate)) = cl
      BY OwnRow
    <3>2. /\ Get("TaxType", code.to["taxTypeId"]) \in rows
          /\ Get("TaxType", code.to["taxTypeId"]).t = "TaxType"
          /\ Of(Get("TaxType", code.to["taxTypeId"])) = cl
      <4>1. /\ IsRow(code) /\ "taxTypeId" \in DOMAIN code.to /\ code.to["taxTypeId"] # None
        BY <3>1 DEF TableInv, RowsSound, IsRow, Mandatory
      <4>2. <<"TaxType", code.to["taxTypeId"]>> \in Parents(code) BY <4>1 DEF Parents, Parent
      <4>3. <<"TaxType", code.to["taxTypeId"]>> \in Keys(rows)
        BY <3>1, <4>2 DEF TableInv, RowsSound, KeysHold
      <4>4. Has("TaxType", code.to["taxTypeId"]) BY <4>3 DEF Keys, Key, Has, Ids, In
      <4>5. /\ Get("TaxType", code.to["taxTypeId"]) \in rows
            /\ Key(Get("TaxType", code.to["taxTypeId"])) = <<"TaxType", code.to["taxTypeId"]>>
        BY <4>4, RowOf DEF TableInv, Key
      <4>6. IsOf(r, <<"TaxType", code.to["taxTypeId"]>>, cl) BY <2>1, <3>1, <4>2, RowIsOf
      <4> QED BY <4>5, <4>6 DEF IsOf, Key
    <3>3. WritesFor("bundle", c, S, cl) BY <3>1, <3>2 DEF WritesFor, Shown, ApartInv
    <3>4. ASSUME NEW key, Touches("bundle", c, S, key) PROVE IsOf(r, key, cl)
      <4>1. \/ \E x \in S : key = Key(x) \/ key \in Parents(x)
            \/ op = "updateBundle" /\ key = <<"TaxType", type>>
        BY <3>4 DEF Touches, Shown
      <4>2. ASSUME NEW x \in S, key = Key(x) \/ key \in Parents(x) PROVE IsOf(r, key, cl)
        <5>1. x \in rows /\ x.t # "Clients" /\ Of(x) = cl /\ key[1] # "Clients"
          BY <3>1, <3>2, <3>4 DEF Touches
        <5> QED BY <2>1, <4>2, <5>1, RowIsOf
      <4>3. ASSUME op = "updateBundle" PROVE IsOf(r, <<"TaxType", type>>, cl)
        <5>1. type \in Own(cl, "TaxType") /\ "TaxType" # "Clients" BY <1>4, <4>3
        <5> QED BY <2>1, <5>1, OwnIs
      <4> QED BY <4>1, <4>2, <4>3
    <3> HIDE DEF c, S, code
    <3> QED BY <3>3, <3>4 DEF RefersWithin
  <2>2. Refuse(r) \/ Begin(r, c, S, "bundle") BY <1>4 DEF BeginBundle, Check
  <2> HIDE DEF c, S
  <2> QED BY <2>1, <2>2, IdleBegins DEF Within, MadeBefore
<1>5. ASSUME NEW cl, NEW rate \in Own(cl, "TaxRate"), NEW e, pc[r] = "idle"
      PROVE  /\ Assignment(r, rate, e).t = "TaxAssignment" /\ Assignment(r, rate, e).id = r
             /\ Assignment(r, rate, e).to = [clientId |-> cl, taxRateId |-> rate]
  BY OwnRow, NamedWithin DEF Assignment, Of
<1>6. ASSUME NEW cl, NEW rate \in Own(cl, "TaxRate"), NEW e, BeginAssign(r, rate, e)
      PROVE  Within(r)
  <2> DEFINE x == Assignment(r, rate, e)
             c == [op |-> "assign", rate |-> rate]
  <2>1. Begin(r, c, {x}, "tax") /\ pc[r] = "idle" BY <1>6, IdleBegins DEF BeginAssign
  <2>2. x.t = "TaxAssignment" /\ x.id = r /\ x.to = [clientId |-> cl, taxRateId |-> rate]
    BY <1>5, <2>1
  <2> HIDE DEF x, c
  <2>3. RefersWithin(r, "tax", c, {x})
    BY <2>1, <2>2, TaxesUncovered, MadeWithin DEF Of, Parent, TaxTables
  <2> QED BY <2>1, <2>3 DEF Within, MadeBefore
<1>7. ASSUME NEW cl, NEW rate \in Own(cl, "TaxRate"), NEW e, BeginReplace(r, rate, e)
      PROVE  Within(r)
  <2> DEFINE x == Assignment(r, rate, e)
             c == [op |-> "replace", rate |-> rate, new |-> x]
  <2>1. Begin(r, c, {}, "replace") /\ pc[r] = "idle" BY <1>7, IdleBegins DEF BeginReplace
  <2>2. x.to = [clientId |-> cl, taxRateId |-> rate] BY <1>5, <2>1
  <2>3. c.new = x OBVIOUS
  <2> HIDE DEF x, c
  <2>4. WritesFor("replace", c, {}, cl) BY <2>2, <2>3 DEF WritesFor, Shown, Of
  <2>5. \A k : Touches("replace", c, {}, k) => k = <<"TaxRate", rate>>
    BY <2>2, <2>3 DEF Touches, Shown, Parents, Parent
  <2>6. IsOf(r, <<"TaxRate", rate>>, cl) BY <2>1, OwnIs
  <2> QED BY <2>1, <2>4, <2>5, <2>6 DEF Within, RefersWithin, MadeBefore
<1> QED BY <1>1, <1>2, <1>3, <1>4, <1>6, <1>7 DEF ReceiveTaxes, GetAllTaxRates

LEMMA ReceiveWithin ==
    ASSUME TableInv, ApartInv, NEW r \in Requests, Receive(r)
    PROVE  Within(r)
  BY ShopsWithin, InvoicingWithin, TaxesWithin, DraftsWithin, TenantsWithin DEF Receive

\* What a request refers to stays of its tenant, whatever the others do.
LEMMA StillOf ==
    ASSUME TableInv, ApartInv, NEW r \in Requests, Step(r), NEW q \in Requests, NEW k, NEW cl,
           k[1] # "Clients", IsOf(q, k, cl), q = r => \A y \in rows' : Key(y) = k => ~ IsNew(r, y)
    PROVE  IsOf(q, k, cl)'
<1>1. /\ InFlight(r) /\ (pc[r] \in {"link", "mapping"} => pc'[r] \in {"ok", "failed"})
      /\ \A p \in Requests \ {r} : pc'[p] = pc[p]
  BY StepPast, StepAt
<1>2. k[2] \in Requests \ {q} => pc'[k[2]] \in Made(k[1])
  BY <1>1 DEF IsOf, InFlight, Ended, Made
<1>3. ASSUME NEW y \in rows', Key(y) = k PROVE Of(y) = cl
  <2>1. ~ IsNew(r, y)
    <3>1. SUFFICES ASSUME IsNew(r, y), q # r PROVE FALSE BY <1>3
    <3>2. k[2] = r BY <1>3, <3>1 DEF IsNew, Key
    <3>3. pc[r] \in Made(k[1]) /\ k[1] = y.t BY <1>3, <3>1, <3>2 DEF IsOf, Key
    <3> QED BY <3>1, <3>3 DEF IsNew, Makes, Made
  <2>2. PICK x \in rows : RowMoves(pc[r], x, y) BY <2>1, Carried
  <2>3. Key(x) = k /\ x.t # "Clients" BY <1>3, <2>2, KeysEvolve DEF Key
  <2>4. Of(x) = cl /\ "clientId" \in DOMAIN x.to BY <2>3 DEF IsOf, ApartInv, FitsSchema
  <2> QED BY <2>2, <2>4, ClientStays DEF Of
<1> QED BY <1>2, <1>3 DEF IsOf

\* A row that r makes for the tenant cl: it refers to what r refers to and to what r
\* makes with it.
Brings(r, cl, y) ==
    /\ FitsSchema(y) /\ (y.t # "Clients" => Of(y) = cl)
    /\ \A col \in DOMAIN y.to \ {"clientId"} :
         \/ y.to[col] \in {None, r}
         \/ Touches(pc[r], call[r], seen[r], <<Parent[col], y.to[col]>>)

LEMMA SeenTouched ==
    ASSUME NEW stage \in Shown, NEW c, NEW S, NEW x \in S, IsRow(x)
    PROVE  /\ x.t # "Clients" => Touches(stage, c, S, Key(x))
           /\ \A col \in DOMAIN x.to \ {"clientId"} :
                x.to[col] # None => Touches(stage, c, S, <<Parent[col], x.to[col]>>)
<1>1. x.t # "Clients" => Touches(stage, c, S, Key(x)) BY DEF Touches, Key
<1>2. ASSUME NEW col \in DOMAIN x.to \ {"clientId"}, x.to[col] # None
      PROVE  Touches(stage, c, S, <<Parent[col], x.to[col]>>)
  <2>1. <<Parent[col], x.to[col]>> \in Parents(x) BY <1>2 DEF Parents
  <2>2. Parent[col] # "Clients" BY <1>2 DEF IsRow, Parent
  <2> QED BY <2>1, <2>2 DEF Touches
<1> QED BY <1>1, <1>2

LEMMA PlainIs ==
    ASSUME NEW t, NEW id, NEW to
    PROVE  New(t, id, to).t = t /\ New(t, id, to).id = id /\ New(t, id, to).to = to
  BY DEF New

LEMMA ShopsBring ==
    ASSUME TableInv, NEW r \in Requests, Step(r), pc[r] \in {"store", "supplier", "customer"},
           NEW y \in rows', IsNew(r, y), NEW cl, WritesFor(pc[r], call[r], seen[r], cl)
    PROVE  Brings(r, cl, y)
<1>1. PICK u : seen[r] = {u} /\ IsRow(u) /\ u.t \in Reads[pc[r]] BY SeenOnce DEF Once
<1>2. Of(u) = cl /\ u.id # None /\ y \notin rows /\ (CHOOSE x \in seen[r] : TRUE) = u
  BY <1>1 DEF WritesFor, Shown, IsRow, IsNew, Keys
<1>3. cl # None BY <1>1, <1>2 DEF IsRow, Mandatory, Reads, Of
<1>4. u.t \in {"Users", "Stores"} /\ Touches(pc[r], call[r], seen[r], <<u.t, u.id>>)
  BY <1>1, SeenTouched DEF Reads, Shown, Key
<1>5. CASE pc[r] = "store"
  <2>1. y \in StoreRows(r)
    BY <1>2, <1>5, StepIs, ShopsStepIs DEF ShopStages, CreateStore, Insert, InsertFails, Fails
  <2>2. CASE y.t = "Stores" /\ y.to = [clientId |-> cl]
    <3>1. y.t = "Stores" /\ DOMAIN y.to = {"clientId"} /\ y.to["clientId"] = cl BY <2>2
    <3> QED BY <1>3, <3>1 DEF Brings, FitsSchema, Columns, Of
  <2>3. CASE y.t = "StoreSettings" /\ y.to = [clientId |-> cl, storeId |-> r]
    <3>1. /\ y.t = "StoreSettings" /\ DOMAIN y.to = {"clientId", "storeId"}
          /\ y.to["clientId"] = cl /\ y.to["storeId"] = r
      BY <2>3
    <3> QED BY <1>3, <3>1, OfficeAssumption DEF Brings, FitsSchema, Columns, Of
  <2>4. CASE y.t = "UserStoreMap" /\ y.to = [clientId |-> cl, storeId |-> r, userId |-> u.id]
    <3>1. /\ y.t = "UserStoreMap" /\ DOMAIN y.to = {"clientId", "storeId", "userId"}
          /\ y.to["clientId"] = cl /\ y.to["storeId"] = r /\ y.to["userId"] = u.id
      BY <2>4
    <3>2. u.t = Parent["userId"] BY <1>1, <1>5 DEF Reads, Parent
    <3> QED BY <1>2, <1>3, <1>4, <3>1, <3>2, OfficeAssumption DEF Brings, FitsSchema, Columns, Of
  <2>5. StoreRows(r) = {New("Stores", r, [clientId |-> cl]),
                        New("StoreSettings", r, [clientId |-> cl, storeId |-> r]),
                        New("UserStoreMap", r, [clientId |-> cl, storeId |-> r, userId |-> u.id])}
    BY <1>2 DEF StoreRows, Of
  <2> QED BY <2>1, <2>2, <2>3, <2>4, <2>5, PlainIs
<1>6. CASE pc[r] = "supplier"
  <2>1. y \in SupplierRows(r)
    BY <1>2, <1>6, StepIs, ShopsStepIs DEF ShopStages, CreateSupplier, Insert, InsertFails, Fails
  <2>2. y.t = "Suppliers" /\ y.to = [clientId |-> cl, storeId |-> u.id]
    BY <1>1, <1>2, <2>1, PlainIs DEF SupplierRows, Of
  <2>3. u.t = "Stores" BY <1>1, <1>6 DEF Reads
  <2> QED BY <1>2, <1>3, <1>4, <2>2, <2>3 DEF Brings, FitsSchema, Columns, Of, Parent
<1>7. CASE pc[r] = "customer"
  <2>1. y \in CustomerRows(r)
    BY <1>2, <1>7, StepIs, ShopsStepIs DEF ShopStages, CreateCustomer, Insert, InsertFails, Fails
  <2>2. CASE y.t = "Customer" /\ y.to = [clientId |-> cl, storeId |-> u.id]
    <3>1. /\ y.t = "Customer" /\ DOMAIN y.to = {"clientId", "storeId"}
          /\ y.to["clientId"] = cl /\ y.to["storeId"] = u.id
      BY <2>2
    <3>2. u.t = Parent["storeId"] BY <1>1, <1>7 DEF Reads, Parent
    <3> QED BY <1>2, <1>3, <1>4, <3>1, <3>2 DEF Brings, FitsSchema, Columns, Of
  <2>3. CASE y.t = "BalanceSheet" /\ y.to = [clientId |-> cl, customerId |-> r, saleId |-> None]
    <3>1. /\ y.t \notin DOMAIN Columns /\ DOMAIN y.to = {"clientId", "customerId", "saleId"}
          /\ y.to["clientId"] = cl /\ y.to["customerId"] = r /\ y.to["saleId"] = None
      BY <2>3 DEF Columns
    <3> QED BY <3>1 DEF Brings, FitsSchema, Of
  <2>4. CustomerRows(r) = {[New("Customer", r, [clientId |-> cl, storeId |-> u.id]) EXCEPT !.no = call[r].phone],
                           New("BalanceSheet", r, [clientId |-> cl, customerId |-> r, saleId |-> None])}
    BY <1>2 DEF CustomerRows, Of
  <2>5. CASE y = New("BalanceSheet", r, [clientId |-> cl, customerId |-> r, saleId |-> None])
    <3>1. y.t = "BalanceSheet" /\ y.to = [clientId |-> cl, customerId |-> r, saleId |-> None]
      BY <2>5, PlainIs
    <3> QED BY <2>3, <3>1
  <2>6. CASE y = [New("Customer", r, [clientId |-> cl, storeId |-> u.id]) EXCEPT !.no = call[r].phone]
    <3> DEFINE to == [clientId |-> cl, storeId |-> u.id]
    <3>1. y = Named("Customer", r, to, call[r].phone) BY <2>6 DEF Named
    <3> HIDE DEF to
    <3>2. y.t = "Customer" /\ y.to = to BY <3>1, NamedWithin
    <3> QED BY <2>2, <3>2 DEF to
  <2> QED BY <2>1, <2>4, <2>5, <2>6
<1> QED BY <1>5, <1>6, <1>7

\* A row of its own client that refers to what r names, or to what r makes.
LEMMA JoinBrings ==
    ASSUME NEW r \in Requests, NEW cl, cl # None, NEW t \in {"UserRole", "UserStoreMap"}, NEW to,
           DOMAIN to = Columns[t], to["clientId"] = cl,
           \A col \in DOMAIN to \ {"clientId"} :
             /\ to[col] # None
             /\ to[col] = r \/ Touches(pc[r], call[r], seen[r], <<Parent[col], to[col]>>)
    PROVE  Brings(r, cl, New(t, r, to))
<1>1. New(t, r, to).t = t /\ New(t, r, to).to = to BY PlainIs
<1>2. t # "Clients" /\ "clientId" \in DOMAIN to BY DEF Columns
<1>3. FitsSchema(New(t, r, to)) BY <1>1, <1>2 DEF FitsSchema
<1> QED BY <1>1, <1>3 DEF Brings, Of

LEMMA UserBrings ==
    ASSUME NEW r \in Requests, NEW cl, NEW on, cl # None, NEW y, IsUserRow(y, r, cl, on)
    PROVE  Brings(r, cl, y)
  BY DEF IsUserRow, Brings, FitsSchema, Columns, Optional, Nullable, Of

LEMMA UsersBring ==
    ASSUME TableInv, NEW r \in Requests, Step(r), pc[r] \in {"hire", "signup", "mapping"},
           NEW y \in rows', IsNew(r, y), NEW cl, WritesFor(pc[r], call[r], seen[r], cl)
    PROVE  Brings(r, cl, y)
<1>1. y \notin rows /\ r # None BY OfficeAssumption DEF IsNew, Keys
<1>2. call[r].client = cl /\ cl # None BY DEF WritesFor, TableInv, RequestFits, CallFits
<1>3. CASE pc[r] = "hire"
  <2> DEFINE c == call[r]
  <2>1. y \in HireRows(r)
    BY <1>1, <1>3, StepIs, ShopsStepIs DEF ShopStages, Hire, Insert, InsertFails, Fails
  <2>2. c.user # None /\ c.role # None /\ c.on \in Statuses
    BY <1>3 DEF TableInv, RequestFits, CallFits
  <2>3. CASE y = UserRow(r, cl, 1, c.on) BY <1>2, <2>2, <2>3, UserRowIs, UserBrings
  <2>4. ASSUME NEW to, to = [clientId |-> cl, userId |-> r, roleTemplateId |-> c.role,
                             assignedBy |-> c.user], y = New("UserRole", r, to)
        PROVE  Brings(r, cl, y)
    <3>1. /\ DOMAIN to = Columns["UserRole"] /\ to["clientId"] = cl /\ to["userId"] = r
          /\ to["roleTemplateId"] = c.role /\ to["assignedBy"] = c.user
          /\ DOMAIN to = {"clientId", "userId", "roleTemplateId", "assignedBy"}
      BY <2>4 DEF Columns
    <3>2. /\ Touches(pc[r], c, seen[r], <<Parent["roleTemplateId"], c.role>>)
          /\ Touches(pc[r], c, seen[r], <<Parent["assignedBy"], c.user>>)
      BY <1>3 DEF Touches, Parent
    <3> HIDE DEF c
    <3>3. \A col \in DOMAIN to \ {"clientId"} :
            /\ to[col] # None
            /\ to[col] = r \/ Touches(pc[r], c, seen[r], <<Parent[col], to[col]>>)
      BY <1>1, <2>2, <3>1, <3>2
    <3> QED BY <1>2, <2>4, <3>1, <3>3, JoinBrings DEF c
  <2>5. ASSUME NEW s \in {c.store} \cap Ids("Stores", rows), NEW to,
               to = [clientId |-> cl, userId |-> r, storeId |-> s], y = New("UserStoreMap", r, to)
        PROVE  Brings(r, cl, y)
    <3>1. /\ DOMAIN to = Columns["UserStoreMap"] /\ to["clientId"] = cl /\ to["userId"] = r
          /\ to["storeId"] = s /\ DOMAIN to = {"clientId", "userId", "storeId"}
      BY <2>5 DEF Columns
    <3>2. Touches(pc[r], c, seen[r], <<Parent["storeId"], s>>) BY <1>3 DEF Touches, Parent
    <3>3. s # None BY RowFor
    <3> HIDE DEF c
    <3>4. \A col \in DOMAIN to \ {"clientId"} :
            /\ to[col] # None
            /\ to[col] = r \/ Touches(pc[r], c, seen[r], <<Parent[col], to[col]>>)
      BY <1>1, <3>1, <3>2, <3>3
    <3> QED BY <1>2, <2>5, <3>1, <3>4, JoinBrings DEF c
  <2> QED BY <1>2, <2>1, <2>3, <2>4, <2>5 DEF HireRows
<1>4. CASE pc[r] = "signup"
  <2>1. CreateUser(r) BY <1>4, StepIs, ShopsStepIs DEF ShopStages
  <2>2. y = NewUser(r) BY <1>1, <2>1 DEF CreateUser, Fails, NewUser
  <2>3. TRUE \in Statuses BY DEF Statuses
  <2> QED BY <1>2, <2>2, <2>3, UserRowIs, UserBrings DEF NewUser
<1>5. CASE pc[r] = "mapping"
  <2>1. MapUser(r) BY <1>5, StepIs, ShopsStepIs DEF ShopStages
  <2> DEFINE s == call[r].store
             to == [clientId |-> cl, userId |-> r, storeId |-> s]
  <2>2. y = New("UserStoreMap", r, to)
    BY <1>1, <1>2, <2>1 DEF MapUser, Insert, InsertFails, Fails, MapRows
  <2>3. s # None BY <1>5 DEF TableInv, RequestFits, CallFits
  <2>4. Touches(pc[r], call[r], seen[r], <<Parent["storeId"], s>>) BY <1>5 DEF Touches, Parent
  <2> HIDE DEF s
  <2>5. /\ DOMAIN to = Columns["UserStoreMap"] /\ to["clientId"] = cl /\ to["userId"] = r
        /\ to["storeId"] = s /\ DOMAIN to = {"clientId", "userId", "storeId"}
    BY DEF Columns
  <2> HIDE DEF to
  <2>6. \A col \in DOMAIN to \ {"clientId"} :
          /\ to[col] # None
          /\ to[col] = r \/ Touches(pc[r], call[r], seen[r], <<Parent[col], to[col]>>)
    BY <1>1, <2>3, <2>4, <2>5
  <2> QED BY <1>2, <2>2, <2>5, <2>6, JoinBrings
<1> QED BY <1>3, <1>4, <1>5

LEMMA InvoicingBrings ==
    ASSUME TableInv, NEW r \in Requests, Step(r), pc[r] \in {"business", "invoice"},
           NEW y \in rows', IsNew(r, y), NEW cl, WritesFor(pc[r], call[r], seen[r], cl)
    PROVE  Brings(r, cl, y)
<1>1. y \notin rows BY DEF IsNew, Keys
<1>2. CASE pc[r] = "business"
  <2>1. y = BusinessRow(r) /\ call[r].client = cl /\ cl # None
    BY <1>1, <1>2, BusinessAdded DEF WritesFor, TableInv, RequestFits, CallFits
  <2>2. y.t = "Business" /\ y.to = [clientId |-> cl] BY <2>1, PlainIs DEF BusinessRow
  <2> QED BY <2>1, <2>2 DEF Brings, FitsSchema, Columns, Of
<1>3. CASE pc[r] = "invoice"
  <2> DEFINE user == CHOOSE x \in seen[r] : x.t = "Users"
             sale == SaleOf(r)
  <2>1. In("Users", seen[r]) # {} /\ In("Sales", seen[r]) # {} /\ \A x \in seen[r] : IsRow(x) /\ FitsSchema(x)
    BY <1>3 DEF TableInv, RequestFits, SeenFits, WritesFor, Shown
  <2>2. user \in seen[r] /\ user.t = "Users" /\ sale \in seen[r] /\ sale.t = "Sales"
    BY <2>1 DEF In, SaleOf
  <2>3. CreateInvoice(r) BY <1>3, StepIs, InvoicingStepIs DEF InvoicingStages
  <2>4. y = InvoiceRow(r) BY <1>1, <2>3 DEF CreateInvoice, Insert, InsertFails, Fails
  <2>5. y.t = "Invoice" /\ y.to = [clientId |-> user.to["clientId"], saleId |-> sale.id,
                                   customerId |-> sale.to["customerId"], businessId |-> user.to["businessId"]]
    BY <2>4 DEF InvoiceRow, New
  <2> HIDE DEF user, sale
  <2>6. user.to["clientId"] = cl BY <1>3, <2>2 DEF WritesFor, Shown, Of
  <2>7. /\ Touches(pc[r], call[r], seen[r], <<"Sales", sale.id>>)
        /\ \A x \in seen[r] : \A col \in DOMAIN x.to \ {"clientId"} :
             x.to[col] # None => Touches(pc[r], call[r], seen[r], <<Parent[col], x.to[col]>>)
    BY <1>3, <2>1, <2>2, SeenTouched DEF Shown, Key
  <2>8. "customerId" \in DOMAIN sale.to /\ "businessId" \in DOMAIN user.to
    BY <2>1, <2>2 DEF FitsSchema, Columns
  <2>9. "Invoice" \notin DOMAIN Columns BY DEF Columns
  <2>10. /\ sale.to["customerId"] # None => Touches(pc[r], call[r], seen[r], <<"Customer", sale.to["customerId"]>>)
         /\ user.to["businessId"] # None => Touches(pc[r], call[r], seen[r], <<"Business", user.to["businessId"]>>)
    BY <2>2, <2>7, <2>8 DEF Parent
  <2> QED BY <2>5, <2>6, <2>7, <2>9, <2>10 DEF Brings, FitsSchema, Of, Parent
<1> QED BY <1>2, <1>3

LEMMA TaxesBring ==
    ASSUME TableInv, NEW r \in Requests, Step(r), pc[r] \in {"tax", "assignments"},
           NEW y \in rows', IsNew(r, y), NEW cl, WritesFor(pc[r], call[r], seen[r], cl)
    PROVE  Brings(r, cl, y)
<1>1. y \notin rows BY DEF IsNew, Keys
<1>2. CASE pc[r] = "tax"
  <2>1. CreateTax(r) BY <1>2, StepIs, TaxesStepIs DEF TaxStages
  <2>2. y \in seen[r] BY <1>1, <2>1 DEF CreateTax, InsertTaxes, Insert, InsertFails, Fails
  <2>3. IsRow(y) /\ FitsSchema(y) /\ Of(y) = cl
    BY <1>2, <2>2 DEF TableInv, RequestFits, SeenFits, WritesFor, Shown
  <2>4. \A col \in DOMAIN y.to \ {"clientId"} :
          y.to[col] # None => Touches(pc[r], call[r], seen[r], <<Parent[col], y.to[col]>>)
    BY <1>2, <2>2, <2>3, SeenTouched DEF Shown
  <2> QED BY <2>3, <2>4 DEF Brings
<1>3. CASE pc[r] = "assignments"
  <2> DEFINE new == call[r].new
  <2>1. ReplaceAssignments(r) BY <1>3, StepIs, TaxesStepIs DEF TaxStages
  <2>2. y = new BY <1>1, <2>1 DEF ReplaceAssignments, Fails
  <2>3. IsRow(new) /\ Key(new) = <<"TaxAssignment", r>> /\ Of(new) = cl
    BY <1>3 DEF TableInv, RequestFits, CallFits, WritesFor
  <2>4. new.t = "TaxAssignment" BY <2>3 DEF Key
  <2> HIDE DEF new
  <2>5. FitsSchema(new) BY <2>3, <2>4 DEF IsRow, Mandatory, FitsSchema, Columns
  <2>6. ASSUME NEW col \in DOMAIN new.to \ {"clientId"}, new.to[col] # None
        PROVE  Touches(pc[r], call[r], seen[r], <<Parent[col], new.to[col]>>)
    <3>1. <<Parent[col], new.to[col]>> \in Parents(new) /\ Parent[col] # "Clients"
      BY <2>3, <2>6 DEF Parents, IsRow, Parent
    <3> QED BY <1>3, <3>1 DEF Touches, new
  <2> QED BY <2>2, <2>3, <2>5, <2>6 DEF Brings
<1> QED BY <1>2, <1>3

LEMMA DraftsBring ==
    ASSUME TableInv, NEW r \in Requests, Step(r), pc[r] \in {"draft", "items"},
           NEW y \in rows', IsNew(r, y), NEW cl, WritesFor(pc[r], call[r], seen[r], cl)
    PROVE  Brings(r, cl, y)
<1>1. y \notin rows /\ call[r].client = cl /\ cl # None /\ r # None
  BY OfficeAssumption DEF IsNew, Keys, WritesFor, TableInv, RequestFits, CallFits
<1>2. ASSUME NEW d, d # None, d = r \/ Touches(pc[r], call[r], seen[r], <<"SalesDraft", d>>),
             y = ItemRow(r, d, cl)
      PROVE  Brings(r, cl, y)
  <2>1. y.t = "SalesDraftItems" /\ y.to = [clientId |-> cl, saleDraftId |-> d]
    BY <1>2, PlainIs DEF ItemRow
  <2> QED BY <1>1, <1>2, <2>1 DEF Brings, FitsSchema, Columns, Of, Parent
<1>3. CASE pc[r] = "draft"
  <2>1. CreateDraft(r) \/ ReadDraft(r) BY <1>3, StepIs, DraftsStepIs DEF DraftStages
  <2>2. y = DraftRow(r) \/ y = ItemRow(r, r, cl)
    BY <1>1, <2>1 DEF CreateDraft, ReadDraft, Insert, InsertFails, Fails
  <2>3. CASE y = DraftRow(r)
    <3>1. y.t = "SalesDraft" /\ y.to = [clientId |-> cl, storeId |-> call[r].store, userId |-> call[r].user]
      BY <1>1, <2>3, PlainIs DEF DraftRow
    <3>2. /\ Touches(pc[r], call[r], seen[r], <<"Stores", call[r].store>>)
          /\ Touches(pc[r], call[r], seen[r], <<"Users", call[r].user>>)
      BY <1>3 DEF Touches
    <3> QED BY <3>1, <3>2 DEF Brings, FitsSchema, Columns, Of, Parent
  <2> QED BY <1>1, <1>2, <2>2, <2>3
<1>4. CASE pc[r] = "items"
  <2>1. FillDraft(r) BY <1>4, StepIs, DraftsStepIs DEF DraftStages
  <2>2. y = ItemRow(r, call[r].draft, cl) /\ Has("SalesDraft", call[r].draft)
    BY <1>1, <2>1 DEF FillDraft, Fails
  <2>3. call[r].draft # None BY <2>2, RowOf DEF TableInv, RowsSound, IsRow
  <2>4. Touches(pc[r], call[r], seen[r], <<"SalesDraft", call[r].draft>>) BY <1>4 DEF Touches
  <2> QED BY <1>2, <2>2, <2>3, <2>4
<1> QED BY <1>3, <1>4

LEMMA TenantBrings ==
    ASSUME TableInv, NEW r \in Requests, Step(r), pc[r] = "tenant",
           NEW y \in rows', IsNew(r, y), NEW cl
    PROVE  Brings(r, cl, y)
<1>1. CreateTenant(r) /\ y \notin rows BY StepIs, TenantsStepIs DEF TenantStages, IsNew, Keys
<1>2. y = [New("Clients", r, <<>>) EXCEPT !.no = call[r].email]
  BY <1>1 DEF CreateTenant, Insert, InsertFails, Fails
<1>3. y = Named("Clients", r, <<>>, call[r].email) BY <1>2 DEF Named
<1>4. y.t = "Clients" /\ y.to = <<>> BY <1>3, NamedWithin
<1>5. DOMAIN y.to = {} BY <1>4
<1> QED BY <1>4, <1>5 DEF Brings, FitsSchema, Columns

LEMMA NewFits ==
    ASSUME TableInv, NEW r \in Requests, Step(r), NEW y \in rows', IsNew(r, y),
           NEW cl, WritesFor(pc[r], call[r], seen[r], cl)
    PROVE  Brings(r, cl, y)
<1>1. pc[r] \in {"store", "supplier", "customer", "business", "invoice", "tax", "assignments",
                 "draft", "items", "tenant", "hire", "signup", "mapping"}
  BY DEF IsNew, Makes
<1> QED BY <1>1, ShopsBring, UsersBring, InvoicingBrings, TaxesBring, DraftsBring, TenantBrings

\* A reference that r gives a row is to a row that r may name, and so is the row itself.
LEMMA Rewired ==
    ASSUME TableInv, NEW r \in Requests, Step(r), NEW x \in rows, NEW y \in rows',
           RowMoves(pc[r], x, y), NEW col \in DOMAIN x.to, y.to[col] # x.to[col], y.to[col] # None
    PROVE  /\ Touches(pc[r], call[r], seen[r], Key(x))
           /\ \/ Touches(pc[r], call[r], seen[r], <<Parent[col], y.to[col]>>)
              \/ pc[r] = "link" /\ Parent[col] = "Business" /\ y.to[col] = r
<1>0. TableInv' BY StepKeeps
<1>1. <<pc[r], x.t, col>> \in Writes BY DEF RowMoves
<1>2. IsRow(x) /\ col \in DOMAIN Parent BY DEF TableInv, RowsSound, IsRow
<1>3. \/ pc[r] = "editSupplier" /\ x.t = "Suppliers" /\ col = "storeId"
      \/ pc[r] = "link" /\ x.t = "Users" /\ col = "businessId"
      \/ pc[r] = "bundle" /\ x.t = "TaxRate" /\ col = "taxTypeId"
      \/ pc[r] = "editTax" /\ x.t \in TaxTables
  BY <1>1, <1>2 DEF Writes, Parent, TaxTables
<1>4. Key(x) = Key(y) /\ x.t = y.t /\ x.id = y.id BY KeysEvolve
<1>5. y \notin rows BY <1>4 DEF TableInv, RowsSound, KeysHold
<1>6. x \notin rows' BY <1>0, <1>4 DEF TableInv, RowsSound, KeysHold
<1>7. CASE pc[r] = "editSupplier" /\ x.t = "Suppliers" /\ col = "storeId"
  <2>1. PICK z \in In("Suppliers", rows) :
          z.id = y.id /\ z.id = call[r].supplier /\ (y.to = z.to \/ MovesTo(r, z, y))
    BY <1>5, <1>7, SupplierSet
  <2>2. z = x BY <1>4, <1>7, <2>1, SameKey DEF In
  <2>3. y.to["storeId"] = call[r].store /\ Is(r, "updateSupplier") /\ x.id = call[r].supplier
    BY <1>7, <2>1, <2>2 DEF MovesTo
  <2> QED BY <1>7, <2>3 DEF Touches, Key, Is, Parent
<1>8. CASE pc[r] = "link" /\ x.t = "Users" /\ col = "businessId"
  <2>1. PICK u \in In("Users", rows) : \E v :
          /\ rows' = (rows \ {u}) \cup {v} /\ u.id = call[r].user /\ RefersTo(v, "businessId", r)
    BY <1>5, <1>8, UserLinked
  <2>2. x = u /\ y.to["businessId"] = r BY <1>5, <1>6, <2>1 DEF RefersTo
  <2> QED BY <1>8, <2>1, <2>2 DEF Touches, Key, Parent
<1>9. CASE pc[r] = "bundle" /\ x.t = "TaxRate" /\ col = "taxTypeId"
  <2> DEFINE rate == CHOOSE z \in seen[r] : z.t = "TaxRate"
             v == call[r].type
             z == Get("TaxRate", rate.id)
  <2>1. rate \in seen[r] /\ rate.t = "TaxRate" BY <1>9 DEF TableInv, RequestFits, SeenFits, In
  <2>2. UpdateBundle(r) \/ DeleteBundle(r) BY <1>9, StepIs, TaxesStepIs DEF TaxStages
  <2>3. ~ DeleteBundle(r) BY <1>5 DEF DeleteBundle, Fails
  <2>4. /\ Is(r, "updateBundle") /\ Keys(seen[r]) \subseteq Keys(rows)
        /\ Update(z, Moved(z, "taxTypeId", v)) /\ Has("TaxType", v)
    BY <1>5, <2>2, <2>3 DEF UpdateBundle, Fails, Moved
  <2>5. z \in rows /\ z.t = "TaxRate" /\ z.id = rate.id /\ IsRow(z)
    <3> HIDE DEF rate, z
    <3>1. Key(rate) \in Keys(rows) BY <2>1, <2>4 DEF Keys
    <3>2. Has("TaxRate", rate.id) BY <2>1, <3>1 DEF Keys, Key, Has, Ids, In
    <3> QED BY <3>2, RowOf DEF TableInv, RowsSound, z
  <2>6. v # None BY <2>4, RowOf DEF TableInv, RowsSound, IsRow
  <2>7. y = Moved(z, "taxTypeId", v) /\ x = z BY <1>5, <1>6, <2>4 DEF Update
  <2> HIDE DEF z, v, rate
  <2>8. y.to["taxTypeId"] = v BY <1>9, <2>5, <2>6, <2>7, ToWritten
  <2>9. Touches("bundle", call[r], seen[r], <<"TaxType", v>>) BY <2>4 DEF Touches, Is, v
  <2>10. Touches("bundle", call[r], seen[r], Key(rate)) /\ Key(x) = Key(rate)
    BY <2>1, <2>5, <2>7 DEF Touches, Shown, Key
  <2> QED BY <1>9, <2>8, <2>9, <2>10 DEF Parent
<1>10. CASE pc[r] = "editTax" /\ x.t \in TaxTables
  <2> DEFINE c == call[r]
  <2>1. Is(r, "updateTax") /\ x.t = c.table /\ x.id = c.id /\ col = c.col /\ y.to[col] = c.ref
    BY <1>10, EditGives
  <2>2. col # "none" BY <1>2 DEF Parent
  <2>3. x.t # "Clients" BY <1>10, TaxesUncovered
  <2>4. Parent[col] # "Clients"
    <3>1. col \in RefColumns[x.t]
      BY <1>10, <2>1, <2>2 DEF TableInv, RequestFits, CallFits, Is
    <3> QED BY <1>10, <3>1 DEF TaxTables, RefColumns, Parent
  <2> QED BY <1>10, <2>1, <2>2, <2>3, <2>4 DEF Touches, NamedBy, Key, Is
<1> QED BY <1>3, <1>7, <1>8, <1>9, <1>10

\* A row that stays keeps its columns.
LEMMA StillFits ==
    ASSUME NEW st, NEW x, FitsSchema(x), NEW y, IsRow(y), RowMoves(st, x, y)
    PROVE  FitsSchema(y)
<1>1. y.t = x.t /\ DOMAIN y.to = DOMAIN x.to BY KeysEvolve
<1>2. ASSUME x.t \in DOMAIN Columns, NEW col \in DOMAIN y.to, y.to[col] = None
      PROVE  <<x.t, col>> \in Optional
  <2>1. CASE y.to[col] = x.to[col] BY <1>1, <1>2, <2>1 DEF FitsSchema
  <2>2. CASE <<st, x.t, col>> \in Writes
    <3>1. <<x.t, col>> \in {<<"Users", "businessId">>, <<"Suppliers", "storeId">>} \/ col \in {"on", "no", "out"}
            \/ x.t \in TaxTables
      BY <2>2 DEF Writes, TaxTables
    <3>2. x.t \notin TaxTables /\ col \in DOMAIN Parent BY <1>2, TaxesUncovered DEF IsRow
    <3>3. <<x.t, col>> # <<"Suppliers", "storeId">> BY <1>1, <1>2 DEF IsRow, Mandatory
    <3> QED BY <3>1, <3>2, <3>3 DEF Optional, Nullable, Parent
  <2>3. CASE <<x.t, col>> \in Nullable BY <2>3 DEF Optional
  <2> QED BY <1>1, <2>1, <2>2, <2>3 DEF RowMoves
<1> QED BY <1>1, <1>2 DEF FitsSchema

\* What is of cl before a step of r, for r, is so after it.
LEMMA OldOf ==
    ASSUME TableInv, ApartInv, NEW r \in Requests, Step(r), NEW k, k[1] # "Clients", NEW cl,
           IsOf(r, k, cl), NEW x \in rows, NEW y \in rows', RowMoves(pc[r], x, y), Key(y) = k
    PROVE  Of(y) = cl
<1>1. Key(x) = k /\ Of(x) = cl /\ x.t # "Clients" BY KeysEvolve DEF IsOf, Key
<1>2. "clientId" \in DOMAIN x.to BY <1>1 DEF ApartInv, FitsSchema
<1> QED BY <1>1, <1>2, ClientStays DEF Of

LEMMA StepRowsApart ==
    ASSUME TableInv, ApartInv, NEW r \in Requests, Step(r)
    PROVE  KeepApart(rows') /\ \A y \in rows' : FitsSchema(y)
<1>0. /\ TableInv' /\ \A y \in rows' : IsRow(y)
      /\ \A x \in rows : IsRow(x) /\ FitsSchema(x)
  BY StepKeeps DEF TableInv, RowsSound, ApartInv
<1>1. PICK cl : /\ WritesFor(pc[r], call[r], seen[r], cl)
                /\ \A k : Touches(pc[r], call[r], seen[r], k) => IsOf(r, k, cl)
  BY DEF ApartInv, RefersWithin
<1>2. \A y \in rows' : IsNew(r, y) => Brings(r, cl, y) BY <1>1, NewFits
<1>3. ASSUME NEW y \in rows' PROVE FitsSchema(y)
  <2>1. CASE IsNew(r, y) BY <1>2, <2>1 DEF Brings
  <2>2. ASSUME NEW x \in rows, RowMoves(pc[r], x, y) PROVE FitsSchema(y)
    BY <1>0, <2>2, StillFits
  <2> QED BY <2>1, <2>2, Carried
<1>4. ASSUME NEW x \in rows', NEW y \in rows', NEW col \in DOMAIN x.to \ {"clientId"},
             Key(y) = <<Parent[col], x.to[col]>>
      PROVE  Of(x) = Of(y)
  <2>1. /\ y.t = Parent[col] /\ y.t # "Clients" /\ y.id = x.to[col] /\ x.to[col] # None
        /\ <<Parent[col], x.to[col]>>[1] # "Clients"
    BY <1>0, <1>4 DEF Key, IsRow, Parent
  <2>2. x.t # "Clients" BY <1>3 DEF FitsSchema, Columns
  <2>3. ASSUME Touches(pc[r], call[r], seen[r], <<Parent[col], x.to[col]>>)
        PROVE  Of(y) = cl
    <3>1. CASE IsNew(r, y) BY <1>2, <2>1, <3>1 DEF Brings
    <3>2. ASSUME NEW z \in rows, RowMoves(pc[r], z, y) PROVE Of(y) = cl
      BY <1>1, <1>4, <2>1, <2>3, <3>2, OldOf
    <3> QED BY <3>1, <3>2, Carried
  <2>4. CASE IsNew(r, x)
    <3>1. Of(x) = cl BY <1>2, <2>2, <2>4 DEF Brings
    <3>2. ASSUME x.to[col] = r PROVE Of(y) = cl
      <4>1. CASE IsNew(r, y) BY <1>2, <2>1, <4>1 DEF Brings
      <4>2. ASSUME NEW z \in rows, RowMoves(pc[r], z, y) PROVE Of(y) = cl
        <5>1. z.id = r /\ z.t = y.t /\ Key(z) = Key(y) BY <2>1, <3>2, <4>2, KeysEvolve
        <5>2. pc[r] \notin {"ok", "link", "failed"} BY <2>4 DEF IsNew, Makes
        <5>3. pc[r] = "mapping" BY <5>1, <5>2, NoneMadeYet
        <5>4. y.t = "Users" BY <2>4, <2>1, <5>1, <5>3 DEF TableInv, MadeBy, Made
        <5>5. Of(z) = call[r].client /\ "clientId" \in DOMAIN z.to
          BY <1>0, <2>1, <5>1, <5>3, <5>4 DEF ApartInv, FitsSchema, Key, MadeBefore
        <5>6. call[r].client = cl BY <1>1, <5>3 DEF WritesFor
        <5> QED BY <4>2, <5>5, <5>6, ClientStays DEF Of
      <4> QED BY <4>1, <4>2, Carried
    <3> QED BY <1>2, <2>1, <2>3, <2>4, <3>1, <3>2 DEF Brings
  <2>5. ASSUME NEW u \in rows, RowMoves(pc[r], u, x) PROVE Of(x) = Of(y)
    <3>1. /\ u.t = x.t /\ DOMAIN u.to = DOMAIN x.to /\ "clientId" \in DOMAIN u.to
          /\ Of(x) = Of(u) /\ Key(u)[1] # "Clients"
      <4>1. u.t = x.t /\ DOMAIN u.to = DOMAIN x.to BY <2>5, KeysEvolve
      <4>2. "clientId" \in DOMAIN u.to BY <1>0, <2>2, <4>1 DEF FitsSchema
      <4> QED BY <2>2, <2>5, <4>1, <4>2, ClientStays DEF Of, Key
    <3>2. CASE x.to[col] = u.to[col]
      <4>1. <<Parent[col], u.to[col]>> \in Keys(rows)
        BY <2>1, <3>1, <3>2 DEF TableInv, RowsSound, KeysHold, Parents
      <4>2. PICK z \in rows : RowMoves(pc[r], z, y) BY <1>4, <3>2, <4>1, Carried DEF IsNew
      <4>3. Key(z) = <<Parent[col], u.to[col]>> /\ z.t # "Clients"
        BY <1>4, <2>1, <3>2, <4>2, KeysEvolve
      <4>4. Of(u) = Of(z) /\ "clientId" \in DOMAIN z.to
        BY <1>0, <3>1, <4>3 DEF ApartInv, KeepApart, Of, FitsSchema
      <4>5. Of(y) = Of(z) BY <4>2, <4>4, ClientStays DEF Of
      <4> QED BY <3>1, <4>4, <4>5
    <3>3. CASE x.to[col] # u.to[col]
      <4>1. /\ Touches(pc[r], call[r], seen[r], Key(u))
            /\ \/ Touches(pc[r], call[r], seen[r], <<Parent[col], x.to[col]>>)
               \/ pc[r] = "link" /\ Parent[col] = "Business" /\ x.to[col] = r
        BY <2>1, <2>5, <3>1, <3>3, Rewired
      <4>2. Of(u) = cl BY <1>1, <4>1 DEF IsOf
      <4>3. ASSUME pc[r] = "link", Parent[col] = "Business", x.to[col] = r PROVE Of(y) = cl
        <5>1. call[r].client = cl BY <1>1, <4>3 DEF WritesFor
        <5>2. ~ IsNew(r, y) BY <4>3 DEF IsNew, Makes
        <5>3. PICK z \in rows : RowMoves(pc[r], z, y) BY <5>2, Carried
        <5>4. Key(z) = <<"Business", r>> /\ z.t # "Clients"
          BY <1>4, <2>1, <4>3, <5>3, KeysEvolve
        <5>5. Of(z) = call[r].client /\ "clientId" \in DOMAIN z.to
          BY <1>0, <4>3, <5>4 DEF ApartInv, FitsSchema, MadeBefore
        <5> QED BY <5>1, <5>3, <5>5, ClientStays DEF Of
      <4> QED BY <2>3, <3>1, <4>1, <4>2, <4>3
    <3> QED BY <3>2, <3>3
  <2> QED BY <2>4, <2>5, Carried
<1> QED BY <1>3, <1>4 DEF KeepApart, Of

\* What a request goes on with it had before.
LEMMA TouchedBefore ==
    ASSUME NEW from, NEW to,
           \/ from = "business" /\ to = "link"
           \/ from = "signup" /\ to = "mapping"
           \/ from = "replace" /\ to = "assignments"
           \/ from = "draft" /\ to = "clear"
           \/ from = "clear" /\ to = "items",
           NEW c, NEW S, NEW T
    PROVE  /\ \A k : Touches(to, c, T, k) => Touches(from, c, S, k)
           /\ \A cl : WritesFor(from, c, S, cl) => WritesFor(to, c, T, cl)
  BY DEF Touches, WritesFor, Shown

LEMMA StepOwnApart ==
    ASSUME TableInv, ApartInv, NEW r \in Requests, Step(r)
    PROVE  RefersWithin(r, pc[r], call[r], seen[r])'
<1>1. call' = call BY StepPast
<1>2. CASE pc'[r] \in Ended \cup {"dropDraft", "client", "statements"}
  BY <1>2, NothingTouched DEF RefersWithin, Shown, Ended
<1>3. CASE \/ pc[r] = "business" /\ pc'[r] = "link"
           \/ pc[r] = "signup" /\ pc'[r] = "mapping"
           \/ pc[r] = "replace" /\ pc'[r] = "assignments"
           \/ pc[r] = "draft" /\ pc'[r] = "clear"
           \/ pc[r] = "clear" /\ pc'[r] = "items"
  <2>1. PICK cl : /\ WritesFor(pc[r], call[r], seen[r], cl)
                  /\ \A k : Touches(pc[r], call[r], seen[r], k) => IsOf(r, k, cl)
    BY DEF ApartInv, RefersWithin
  <2>2. WritesFor(pc'[r], call'[r], seen'[r], cl) BY <1>1, <1>3, <2>1, TouchedBefore
  <2>3. ASSUME NEW k, Touches(pc'[r], call'[r], seen'[r], k) PROVE IsOf(r, k, cl)'
    <3>1. Touches(pc[r], call[r], seen[r], k) BY <1>1, <1>3, <2>3, TouchedBefore
    <3>2. IsOf(r, k, cl) /\ k[1] # "Clients" BY <2>1, <3>1 DEF Touches
    <3>3. ASSUME NEW y \in rows', Key(y) = k PROVE ~ IsNew(r, y)
      <4>1. CASE pc[r] = "business"
        <5>1. k = <<"Users", call[r].user>> BY <3>1, <4>1 DEF Touches, Shown
        <5> QED BY <3>3, <4>1, <5>1 DEF IsNew, Makes, Key
      <4>3. CASE pc[r] = "signup"
        <5>1. k[1] = "Stores" BY <3>1, <4>3 DEF Touches, Shown
        <5> QED BY <3>3, <4>3, <5>1 DEF IsNew, Makes, Key
      <4>2. CASE pc[r] \notin {"business", "signup"}
        <5>1. Moves(r) BY <1>3, StepKinds DEF Done, Over, Ended
        <5>2. rows' \subseteq rows BY <1>3, <4>2, <5>1 DEF Moves
        <5> QED BY <5>2 DEF IsNew, Keys
      <4> QED BY <4>1, <4>2, <4>3
    <3> QED BY <3>2, <3>3, StillOf
  <2> QED BY <2>2, <2>3 DEF RefersWithin
<1> QED BY <1>2, <1>3, NextStage

LEMMA StepApart ==
    ASSUME TableInv, ApartInv, NEW r \in Requests, Step(r)
    PROVE  ApartInv'
<1>1. /\ call' = call /\ (pc[r] \in {"link", "mapping"} => pc'[r] \in {"ok", "failed"})
      /\ \A q \in Requests \ {r} : pc'[q] = pc[q] /\ seen'[q] = seen[q]
      /\ \A x \in rows : FitsSchema(x)
  BY StepPast, StepAt DEF ApartInv
<1>2. ASSUME NEW q \in Requests \ {r} PROVE RefersWithin(q, pc[q], call[q], seen[q])'
  <2>1. PICK cl : /\ WritesFor(pc[q], call[q], seen[q], cl)
                  /\ \A k : Touches(pc[q], call[q], seen[q], k) => IsOf(q, k, cl)
    BY DEF ApartInv, RefersWithin
  <2>2. ASSUME NEW k, Touches(pc[q], call[q], seen[q], k) PROVE IsOf(q, k, cl)'
    BY <1>2, <2>1, <2>2, StillOf DEF Touches
  <2> QED BY <1>1, <2>1, <2>2 DEF RefersWithin
<1>3. ASSUME NEW q \in Requests, pc'[q] \in DOMAIN MadeBefore, NEW y \in rows',
             Key(y) = <<MadeBefore[pc'[q]], q>>
      PROVE  Of(y) = call[q].client
  <2>0. /\ \/ pc'[q] = "link" /\ y.t = "Business"
           \/ pc'[q] = "mapping" /\ y.t = "Users"
        /\ y.id = q
    BY <1>3 DEF MadeBefore, Key
  <2>1. CASE IsNew(r, y)
    <3>1. y.id = r /\ q = r /\ y \notin rows BY <2>0, <2>1 DEF IsNew, Keys
    <3>2. CASE pc'[r] = "link" /\ y.t = "Business"
      <4>1. pc[r] = "business" BY <2>1, <3>2 DEF IsNew, Makes, TaxTables
      <4>2. y = BusinessRow(r) /\ BusinessRow(r).to["clientId"] = call[r].client
        BY <3>1, <4>1, BusinessAdded
      <4> QED BY <3>1, <4>2 DEF Of
    <3>3. CASE pc'[r] = "mapping" /\ y.t = "Users"
      <4>1. pc[r] = "signup" BY <3>3, NextStage DEF Ended
      <4>2. CreateUser(r) BY <4>1, StepIs, ShopsStepIs DEF ShopStages
      <4>3. ~ Fails(r)
        <5> SUFFICES ASSUME Fails(r) PROVE FALSE OBVIOUS
        <5> QED BY <3>3, EndLocal DEF Fails, TableInv, Over
      <4>4. y = NewUser(r) /\ NewUser(r).to["clientId"] = call[r].client
        BY <3>1, <4>2, <4>3, UserMade
      <4> QED BY <3>1, <4>4 DEF Of
    <3> QED BY <2>0, <3>1, <3>2, <3>3
  <2>2. ASSUME NEW x \in rows, RowMoves(pc[r], x, y) PROVE Of(y) = call[q].client
    <3>1. Key(x) = Key(y) /\ x.t = y.t /\ x.t # "Clients" /\ x.id = q
      BY <2>0, <2>2, KeysEvolve
    <3>2. q # r
      <4> SUFFICES ASSUME q = r PROVE FALSE OBVIOUS
      <4>1. pc[r] \in {"ok", "link", "mapping", "failed"} BY <3>1, NoneMadeYet
      <4>2. pc[r] \in {"link", "mapping"} BY <4>1, StepPast DEF InFlight, Ended
      <4> QED BY <1>1, <2>0, <4>2
    <3>3. Of(x) = call[q].client /\ "clientId" \in DOMAIN x.to
      BY <1>1, <1>3, <3>1, <3>2 DEF ApartInv, FitsSchema
    <3> QED BY <2>2, <3>3, ClientStays DEF Of
  <2> QED BY <2>1, <2>2, Carried
<1> QED BY <1>1, <1>2, <1>3, StepRowsApart, StepOwnApart DEF ApartInv

\* Nothing is lost of this while the rows stay.
LEMMA KeepsOf ==
    ASSUME rows' = rows,
           \A q \in Requests : \A t : pc[q] \in Made(t) => pc'[q] \in Made(t)
    PROVE  \A q, k, cl : IsOf(q, k, cl) => IsOf(q, k, cl)'
  BY DEF IsOf

LEMMA StillWithin ==
    ASSUME rows' = rows,
           \A q \in Requests : \A t : pc[q] \in Made(t) => pc'[q] \in Made(t),
           NEW q, NEW stage, NEW c, NEW S, RefersWithin(q, stage, c, S),
           stage = pc'[q], c = call'[q], S = seen'[q]
    PROVE  RefersWithin(q, pc[q], call[q], seen[q])'
<1>1. PICK cl : WritesFor(stage, c, S, cl) /\ \A k : Touches(stage, c, S, k) => IsOf(q, k, cl)
  BY DEF RefersWithin
<1>2. \A k : Touches(stage, c, S, k) => IsOf(q, k, cl)' BY <1>1, KeepsOf
<1> QED BY <1>1, <1>2 DEF RefersWithin

LEMMA ApartKeeps ==
    ASSUME TableInv, ApartInv, [Next]_vars
    PROVE  ApartInv'
<1>0. /\ DOMAIN MadeBefore = {"link", "mapping"}
      /\ \A t : Made(t) \subseteq {"ok", "link", "mapping", "failed"}
      /\ \A t : Made(t) \cap {"link", "mapping"} # {} => "failed" \in Made(t)
  BY DEF MadeBefore, Made
<1>1. ASSUME rows' = rows,
             \A q \in Requests : \A t : pc[q] \in Made(t) => pc'[q] \in Made(t),
             \A q \in Requests : pc'[q] \in DOMAIN MadeBefore => pc[q] = pc'[q] /\ call'[q] = call[q],
             \A q \in Requests :
               \/ pc'[q] \in {"failed", "refused"}
               \/ RefersWithin(q, pc'[q], call'[q], seen'[q])
      PROVE  ApartInv'
  <2>1. ASSUME NEW q \in Requests PROVE RefersWithin(q, pc[q], call[q], seen[q])'
    <3>1. CASE pc'[q] \in {"failed", "refused"}
      BY <3>1, NothingTouched DEF RefersWithin, Shown
    <3>2. CASE RefersWithin(q, pc'[q], call'[q], seen'[q]) BY <1>1, <3>2, StillWithin
    <3> QED BY <1>1, <3>1, <3>2
  <2> QED BY <1>1, <2>1 DEF ApartInv
<1>2. ASSUME NEW r \in Requests, Receive(r) PROVE ApartInv'
  <2>1. CASE Refuse(r)
    <3>1. /\ pc[r] = "idle" /\ pc'[r] = "refused" /\ UNCHANGED <<rows, call, seen>>
          /\ \A q \in Requests \ {r} : pc'[q] = pc[q]
      BY <2>1, RefusePast DEF Refuse
    <3>2. \A q \in Requests : \A t : pc[q] \in Made(t) => pc'[q] \in Made(t) BY <1>0, <3>1
    <3>3. \A q \in Requests : pc'[q] \in DOMAIN MadeBefore => pc[q] = pc'[q] /\ call'[q] = call[q]
      BY <1>0, <3>1
    <3>4. \A q \in Requests :
            pc'[q] \in {"failed", "refused"} \/ RefersWithin(q, pc'[q], call'[q], seen'[q])
      BY <3>1 DEF ApartInv
    <3> QED BY <1>1, <3>1, <3>2, <3>3, <3>4
  <2>2. ASSUME NEW c, NEW S, NEW to, Begin(r, c, S, to), to \notin DOMAIN MadeBefore, RefersWithin(r, to, c, S)
        PROVE  ApartInv'
    <3>1. /\ pc[r] = "idle" /\ pc'[r] = to /\ call'[r] = c /\ seen'[r] = S /\ rows' = rows
          /\ \A q \in Requests \ {r} : pc'[q] = pc[q] /\ call'[q] = call[q] /\ seen'[q] = seen[q]
      BY <2>2 DEF Begin, Goto, TableInv, StateFits
    <3>2. \A q \in Requests \ {r} : RefersWithin(q, pc'[q], call'[q], seen'[q])
      BY <3>1 DEF ApartInv
    <3>3. \A q \in Requests : \A t : pc[q] \in Made(t) => pc'[q] \in Made(t) BY <1>0, <3>1
    <3>4. \A q \in Requests : pc'[q] \in DOMAIN MadeBefore => pc[q] = pc'[q] /\ call'[q] = call[q]
      BY <2>2, <3>1
    <3>5. \A q \in Requests : RefersWithin(q, pc'[q], call'[q], seen'[q]) BY <2>2, <3>1, <3>2
    <3> QED BY <1>1, <3>1, <3>3, <3>4, <3>5
  <2> QED BY <1>2, <2>1, <2>2, ReceiveWithin DEF Within
<1>3. ASSUME NEW S, \A r \in S : r \in Requests /\ InFlight(r), Lost(S) PROVE ApartInv'
  <2>1. /\ rows' = rows /\ call' = call
        /\ \A q \in Requests : pc'[q] = "failed" \/ (pc'[q] = pc[q] /\ seen'[q] = seen[q])
    BY <1>3, LostPast
  <2>2. \A q \in Requests : pc'[q] = "failed" \/ RefersWithin(q, pc'[q], call'[q], seen'[q])
    BY <2>1 DEF ApartInv
  <2>3. \A q \in Requests : \A t : pc[q] \in Made(t) => pc'[q] \in Made(t)
    <3>1. \A q \in Requests : pc[q] \in Ended => pc'[q] = pc[q] BY <1>3, LostPast DEF Past
    <3> QED BY <1>0, <2>1, <3>1 DEF Ended
  <2>4. \A q \in Requests : pc'[q] \in DOMAIN MadeBefore => pc[q] = pc'[q] /\ call'[q] = call[q]
    BY <1>0, <2>1
  <2> QED BY <1>1, <2>1, <2>2, <2>3, <2>4
<1>4. ASSUME NEW r \in Requests, Step(r) PROVE ApartInv' BY <1>4, StepApart
<1>5. CASE UNCHANGED vars BY <1>1, <1>5 DEF vars, ApartInv
<1> QED BY <1>2, <1>3, <1>4, <1>5 DEF Next, Fault, Crash, Finished

LEMMA InitApart ==
    ASSUME SeedsKeepApart, Init
    PROVE  ApartInv
<1>1. \A r \in Requests : pc[r] = "idle" BY DEF Init
<1>2. \A r \in Requests : RefersWithin(r, pc[r], call[r], seen[r])
  BY <1>1, NoReferences DEF Shown
<1>3. \A r \in Requests : pc[r] \notin DOMAIN MadeBefore BY <1>1 DEF MadeBefore
<1> QED BY <1>1, <1>2, <1>3 DEF ApartInv, Init, SeedsKeepApart

\* No request ever makes a row of one tenant refer to a row of another, if none does
\* at the start: users are offered what is of their client, and what a request has
\* read stays so whatever the others do.
THEOREM OfficeTenantsApart == SeedsKeepApart /\ Spec => []TenantsKeepApart
<1> SUFFICES ASSUME SeedsKeepApart PROVE Spec => []TenantsKeepApart OBVIOUS
<1>1. Init => TableInv /\ ApartInv BY InitTables, InitApart
<1>2. TableInv /\ ApartInv /\ [Next]_vars => (TableInv /\ ApartInv)' BY NextTables, ApartKeeps
<1>3. ApartInv => TenantsKeepApart BY DEF ApartInv, TenantsKeepApart
<1> QED BY <1>1, <1>2, <1>3, PTL DEF Spec

----------------------------------------------------------------------------
(* A deletion that nobody disturbs *)

Undisturbed(r) == \A q \in Requests \ {r} : ~ Met(q, r)

\* What it has searched for is not left, and what it has read is all there is.
Clean(r) ==
    /\ Has("Clients", call[r].client) /\ seen[r] = ActiveData(call[r].client)
    /\ at[r] \leq Len(Plan(seen[r]))
    /\ \A i \in 1..at[r] : Targets(r, Plan(seen[r])[i]) = {}

DeletionInv == \A r \in Requests : pc[r] = "statements" /\ Undisturbed(r) => Clean(r)

LEMMA UndisturbedBefore ==
    ASSUME Past, NEW r \in Requests, Undisturbed(r)'
    PROVE  Undisturbed(r)
  BY DEF Past, Undisturbed, Met

\* What is searched for is found among less and less.
LEMMA TargetsShrink ==
    ASSUME NEW r, rows' = rows, call'[r] = call[r], seen'[r] = seen[r], lock[r] \subseteq lock'[r],
           NEW stmt, NEW x \in Targets(r, stmt)'
    PROVE  x \in Targets(r, stmt) /\ Key(x) \notin lock'[r]
<1>1. Left(r)' \subseteq Left(r) BY DEF Left
<1>2. \A t : Sought(r, t)' \subseteq Sought(r, t)
  <2> SUFFICES ASSUME NEW t, NEW i \in Sought(r, t)' PROVE i \in Sought(r, t) OBVIOUS
  <2>1. CASE t = "Clients" BY <2>1 DEF Sought
  <2>2. CASE t = "FileUploadInventory"
    <3>1. /\ Sought(r, t) = {y.id : y \in {z \in In(t, Left(r)) : z.to["storeId"] \in Ids("Stores", seen[r])}}
          /\ Sought(r, t)' =
               {y.id : y \in {z \in In(t, Left(r)') : z.to["storeId"] \in Ids("Stores", seen[r])}}
      BY <2>2 DEF Sought, In, Ids
    <3> QED BY <1>1, <3>1 DEF In
  <2>3. CASE t \notin {"Clients", "FileUploadInventory"} BY <2>3 DEF Sought, Ids
  <2> QED BY <2>1, <2>2, <2>3
<1>3. x \in Left(r)' /\ x.t = stmt[1] /\ x.to[stmt[2]] \in Sought(r, Parent[stmt[2]])'
  BY DEF Targets, In
<1> QED BY <1>1, <1>2, <1>3 DEF Targets, In, Left

LEMMA QuietDeletion ==
    ASSUME TableInv, DeletionInv, Quiet
    PROVE  DeletionInv'
<1> SUFFICES ASSUME NEW r \in Requests, pc'[r] = "statements", Undisturbed(r)'
             PROVE  Clean(r)'
  BY DEF DeletionInv
<1>1. rows' = rows /\ Undisturbed(r) /\ at[r] \in Nat
  BY UndisturbedBefore DEF Quiet, TableInv, RequestFits, Unused
<1>2. CASE /\ pc'[r] = pc[r] /\ call'[r] = call[r] /\ seen'[r] = seen[r] /\ lock'[r] = lock[r]
           /\ at'[r] = at[r]
  <2>1. Clean(r) BY <1>1, <1>2 DEF DeletionInv
  <2>2. \A stmt : Targets(r, stmt)' \subseteq Targets(r, stmt) BY <1>1, <1>2, TargetsShrink
  <2> QED BY <1>1, <1>2, <2>1, <2>2 DEF Clean, Has, Ids, In, ActiveData
<1>3. CASE pc[r] = "idle" /\ AsksAt(call'[r], seen'[r], pc'[r]) /\ at'[r] = at[r]
  <2>1. at'[r] = 0 BY <1>3 DEF TableInv, RequestFits, Unused
  <2>2. seen'[r] = ActiveData(call'[r].client) /\ Has("Clients", call'[r].client)
    BY <1>3 DEF AsksAt
  <2>3. 0 \leq Len(Plan(seen'[r])) /\ 1..0 = {} BY PlanIs
  <2> QED BY <1>1, <2>1, <2>2, <2>3 DEF Clean, Has, Ids, In, ActiveData
<1> QED BY <1>2, <1>3 DEF Quiet

LEMMA StepDeletion ==
    ASSUME TableInv, History, DeletionInv, NEW q \in Requests, Step(q)
    PROVE  DeletionInv'
<1> SUFFICES ASSUME NEW r \in Requests, pc'[r] = "statements", Undisturbed(r)'
             PROVE  Clean(r)'
  BY DEF DeletionInv
<1>1. Undisturbed(r) /\ Past /\ InFlight(q) /\ call' = call BY StepPast, UndisturbedBefore
<1>2. q = r
  <2> SUFFICES ASSUME q # r PROVE FALSE OBVIOUS
  <2>1. InFlight(r) BY <1>1, StepPast DEF InFlight, Ended
  <2> QED BY <1>1, <2>1 DEF History, Undisturbed
<1>3. pc[r] = "statements" BY <1>2, NextStage DEF Ended
<1>4. Clean(r) BY <1>1, <1>3 DEF DeletionInv
<1> DEFINE L == Left(r)
           D == Targets(r, Plan(seen[r])[at[r] + 1])
<1>5. /\ DeleteRows(r) /\ rows' = rows /\ seen' = seen /\ at[r] < Len(Plan(seen[r]))
      /\ lock'[r] = lock[r] \cup Keys(Gone(L, D)) /\ at'[r] = at[r] + 1
  <2>1. DeleteRows(r) \/ DeleteClient(r) BY <1>2, <1>3, StepIs, TenantsStepIs DEF TenantStages
  <2>2. \A how \in {"ok", "failed"} : ~ End(r, how) BY EndLocal DEF TableInv, Over
  <2>3. ~ DeleteClient(r) BY <2>2 DEF DeleteClient, Fails
  <2> QED BY <2>1, <2>2, <2>3 DEF DeleteRows, Fails, TableInv, StateFits
<1>6. D \subseteq Gone(L, D) BY GoneFrom DEF Targets, In
<1>7. ASSUME NEW i \in 1..at[r] + 1 PROVE Targets(r, Plan(seen[r])[i])' = {}
  <2> SUFFICES ASSUME NEW x \in Targets(r, Plan(seen[r])[i])' PROVE FALSE OBVIOUS
  <2> DEFINE stmt == Plan(seen[r])[i]
  <2>1. stmt' = stmt BY <1>5
  <2> HIDE DEF stmt
  <2>2. x \in Targets(r, stmt) /\ Key(x) \notin lock'[r]
    BY <1>1, <1>5, <2>1, TargetsShrink DEF stmt
  <2>3. CASE i = at[r] + 1
    <3>1. x \in Gone(L, D) BY <1>6, <2>2, <2>3 DEF stmt
    <3> QED BY <1>5, <2>2, <3>1 DEF Keys
  <2>4. CASE i # at[r] + 1
    <3>1. i \in 1..at[r] BY <2>4 DEF TableInv, RequestFits, Unused
    <3> QED BY <1>4, <2>2, <3>1 DEF Clean, stmt
  <2> QED BY <2>3, <2>4
<1>8. at[r] + 1 \leq Len(Plan(seen[r])) /\ at[r] + 1 = at'[r]
  BY <1>5, PlanIs DEF TableInv, RequestFits, Unused
<1> HIDE DEF L, D
<1> QED BY <1>1, <1>4, <1>5, <1>7, <1>8 DEF Clean, Has, Ids, In, ActiveData

LEMMA DeletionKeeps ==
    ASSUME TableInv, History, DeletionInv, [Next]_vars
    PROVE  DeletionInv'
  BY NextIs, QuietDeletion, StepDeletion

LEMMA InitDeletion == Init => DeletionInv
  BY DEF Init, DeletionInv

----------------------------------------------------------------------------
(* The order of the statements *)

Stmts(s) == {s[i] : i \in 1..Len(s)}
Firsts(s, n) == {s[i] : i \in 1..n}

LEMMA StmtsJoin ==
    ASSUME NEW T, NEW X \in Seq(T), NEW Y \in Seq(T)
    PROVE  /\ X \o Y \in Seq(T) /\ Stmts(X \o Y) = Stmts(X) \cup Stmts(Y)
           /\ Len(X) \leq Len(X \o Y) /\ \A j \in 1..Len(X) : (X \o Y)[j] = X[j]
<1>1. /\ X \o Y \in Seq(T) /\ Len(X \o Y) = Len(X) + Len(Y) /\ Len(X) \in Nat /\ Len(Y) \in Nat
      /\ \A j \in 1..Len(X) + Len(Y) : (X \o Y)[j] = IF j \leq Len(X) THEN X[j] ELSE Y[j - Len(X)]
  OBVIOUS
<1>2. ASSUME NEW j \in 1..Len(Y) PROVE Y[j] \in Stmts(X \o Y)
  <2>1. j + Len(X) \in 1..Len(X \o Y) /\ (X \o Y)[j + Len(X)] = Y[j] BY <1>1
  <2> QED BY <2>1 DEF Stmts
<1>3. ASSUME NEW j \in 1..Len(X) PROVE X[j] \in Stmts(X \o Y) /\ (X \o Y)[j] = X[j]
  <2>1. j \in 1..Len(X \o Y) /\ (X \o Y)[j] = X[j] BY <1>1
  <2> QED BY <2>1 DEF Stmts
<1>4. ASSUME NEW j \in 1..Len(X \o Y) PROVE (X \o Y)[j] \in Stmts(X) \cup Stmts(Y)
  <2>1. CASE j \leq Len(X) BY <1>1, <2>1 DEF Stmts
  <2>2. CASE j > Len(X)
    <3>1. j - Len(X) \in 1..Len(Y) /\ (X \o Y)[j] = Y[j - Len(X)] BY <1>1, <2>2
    <3> QED BY <3>1 DEF Stmts
  <2> QED BY <1>1, <2>1, <2>2
<1>5. Stmts(X \o Y) = Stmts(X) \cup Stmts(Y) BY <1>2, <1>3, <1>4 DEF Stmts
<1> QED BY <1>1, <1>3, <1>5

\* What comes first is done once the turn is another's.
LEMMA FirstsDone ==
    ASSUME NEW T, NEW X \in Seq(T), NEW P \in Seq(T), Len(X) \leq Len(P),
           \A j \in 1..Len(X) : P[j] = X[j],
           NEW n \in Nat, n < Len(P) => P[n + 1] \notin Stmts(X)
    PROVE  n \leq Len(P) => Stmts(X) \subseteq Firsts(P, n)
<1>1. Len(X) \in Nat /\ Len(P) \in Nat OBVIOUS
<1>2. n < Len(X) => FALSE
  <2> SUFFICES ASSUME n < Len(X) PROVE FALSE OBVIOUS
  <2>1. n + 1 \in 1..Len(X) /\ n < Len(P) BY <1>1
  <2> QED BY <2>1 DEF Stmts
<1>3. ASSUME NEW j \in 1..Len(X) PROVE X[j] \in Firsts(P, n)
  <2>1. j \in 1..n /\ P[j] = X[j] BY <1>1, <1>2
  <2> QED BY <2>1 DEF Firsts
<1> QED BY <1>3 DEF Stmts

LEMMA ByUserIs ==
    Stmts(ByUser) =
      {<<"AuditLogs", "userId">>, <<"Notifications", "userId">>, <<"ApiTokens", "userId">>,
       <<"InviteLinks", "userId">>, <<"PasswordResetTokens", "userId">>,
       <<"Permission", "grantedBy">>, <<"RoleTemplate", "createdBy">>,
       <<"UserRole", "assignedBy">>, <<"UserRole", "userId">>, <<"UserStoreMap", "userId">>,
       <<"SaleAdjustment", "userId">>, <<"Sales", "userId">>, <<"SaleReturn", "processedBy">>,
       <<"PurchaseOrders", "userId">>, <<"Expenses", "userId">>, <<"OrderProcessing", "driverId">>}
<1>1. Len(ByUser) = 16 BY DEF ByUser
<1>2. 1..16 = {1, 2, 3, 4, 5, 6, 7, 8, 9, 10, 11, 12, 13, 14, 15, 16} OBVIOUS
<1>3. Stmts(ByUser) = {ByUser[i] : i \in {1, 2, 3, 4, 5, 6, 7, 8, 9, 10, 11, 12, 13, 14, 15, 16}}
  BY <1>1, <1>2 DEF Stmts
<1>4. Stmts(ByUser) = {ByUser[1], ByUser[2], ByUser[3], ByUser[4], ByUser[5], ByUser[6],
                       ByUser[7], ByUser[8], ByUser[9], ByUser[10], ByUser[11], ByUser[12],
                       ByUser[13], ByUser[14], ByUser[15], ByUser[16]}
  BY <1>3
<1> QED BY <1>4 DEF ByUser

LEMMA ByStoreIs ==
    Stmts(ByStore) =
      {<<"StoreSettings", "storeId">>, <<"UserStoreMap", "storeId">>, <<"Suppliers", "storeId">>,
       <<"Customer", "storeId">>, <<"Sales", "storeId">>, <<"SaleAdjustment", "storeId">>,
       <<"PurchaseOrders", "storeId">>, <<"Expenses", "storeId">>, <<"Reports", "storeId">>,
       <<"OrderProcessing", "storeId">>, <<"ErrorLog", "fileUploadId">>,
       <<"FileUploadInventory", "storeId">>}
<1>1. Len(ByStore) = 12 BY DEF ByStore
<1>2. 1..12 = {1, 2, 3, 4, 5, 6, 7, 8, 9, 10, 11, 12} OBVIOUS
<1>3. Stmts(ByStore) = {ByStore[i] : i \in {1, 2, 3, 4, 5, 6, 7, 8, 9, 10, 11, 12}}
  BY <1>1, <1>2 DEF Stmts
<1>4. Stmts(ByStore) = {ByStore[1], ByStore[2], ByStore[3], ByStore[4], ByStore[5], ByStore[6],
                        ByStore[7], ByStore[8], ByStore[9], ByStore[10], ByStore[11], ByStore[12]}
  BY <1>3
<1> QED BY <1>4 DEF ByStore

LEMMA ByClientIs ==
    Stmts(ByClient) = {<<"Customer", "clientId">>, <<"Business", "clientId">>, <<"Sales", "clientId">>}
<1>1. Len(ByClient) = 3 /\ 1..3 = {1, 2, 3} BY DEF ByClient
<1>2. Stmts(ByClient) = {ByClient[i] : i \in {1, 2, 3}} BY <1>1 DEF Stmts
<1> QED BY <1>2 DEF ByClient

LEMMA WhenStmts ==
    ASSUME NEW cond \in BOOLEAN, NEW s \in Seq(Searches)
    PROVE  /\ When(cond, s) \in Seq(Searches)
           /\ cond => When(cond, s) = s
           /\ ~ cond => Stmts(When(cond, s)) = {} /\ Len(When(cond, s)) = 0
  BY DEF When, Stmts

LEMMA PartsAre ==
    /\ ByUser \in Seq(Searches) /\ ByStore \in Seq(Searches) /\ ByProduct \in Seq(Searches)
    /\ ByClient \in Seq(Searches) /\ << <<"Users", "clientId">> >> \in Seq(Searches)
    /\ << <<"Stores", "clientId">> >> \in Seq(Searches)
    /\ << <<"Products", "clientId">> >> \in Seq(Searches)
  BY DEF ByUser, ByStore, ByProduct, ByClient, Searches

\* Of the statements of a plan without products, those of the users come first, then
\* those of the stores; the errors of an upload come before the upload.
LEMMA PlanOrder ==
    ASSUME NEW S, In("Products", S) = {}, NEW n \in Nat, n \leq Len(Plan(S))
    PROVE  /\ n < Len(Plan(S)) => \/ Plan(S)[n + 1] \in Stmts(ByUser) /\ In("Users", S) # {}
                                  \/ Plan(S)[n + 1] \in Stmts(ByStore) /\ In("Stores", S) # {}
                                  \/ Plan(S)[n + 1] \in Stmts(ByClient)
                                  \/ Plan(S)[n + 1] = <<"Users", "clientId">> /\ In("Users", S) # {}
                                  \/ Plan(S)[n + 1] = <<"Stores", "clientId">> /\ In("Stores", S) # {}
           /\ (In("Users", S) # {} /\ (n < Len(Plan(S)) => Plan(S)[n + 1] \notin Stmts(ByUser))) =>
                Stmts(ByUser) \subseteq Firsts(Plan(S), n)
           /\ (In("Stores", S) # {}
               /\ (n < Len(Plan(S)) => Plan(S)[n + 1] \notin Stmts(ByUser) \cup Stmts(ByStore))) =>
                Stmts(ByStore) \subseteq Firsts(Plan(S), n)
           /\ (n < Len(Plan(S)) /\ Plan(S)[n + 1] = <<"FileUploadInventory", "storeId">>) =>
                <<"ErrorLog", "fileUploadId">> \in Firsts(Plan(S), n)
           /\ n = Len(Plan(S)) =>
                /\ Stmts(ByClient) \subseteq Firsts(Plan(S), n)
                /\ In("Users", S) # {} => <<"Users", "clientId">> \in Firsts(Plan(S), n)
                /\ In("Stores", S) # {} => <<"Stores", "clientId">> \in Firsts(Plan(S), n)
<1> DEFINE U == In("Users", S) # {}
           R == In("Stores", S) # {}
           a == When(U, ByUser)
           b == When(R, ByStore)
           c == When(In("Products", S) # {}, ByProduct)
           d == When(U, << <<"Users", "clientId">> >>)
           e == When(R, << <<"Stores", "clientId">> >>)
           f == When(In("Products", S) # {}, << <<"Products", "clientId">> >>)
           ab == a \o b
           abc == ab \o c
           abcd == abc \o ByClient
           abcde == abcd \o d
           most == abcde \o e
           P == most \o f
<1>1. Plan(S) = P BY DEF Plan
<1>2. /\ a \in Seq(Searches) /\ (U => a = ByUser) /\ (~ U => Stmts(a) = {} /\ Len(a) = 0)
      /\ b \in Seq(Searches) /\ (R => b = ByStore) /\ (~ R => Stmts(b) = {})
      /\ c \in Seq(Searches) /\ Stmts(c) = {} /\ f \in Seq(Searches) /\ Stmts(f) = {}
      /\ ByClient \in Seq(Searches)
  BY PartsAre, WhenStmts
<1>a. c \in Seq(Searches) /\ f \in Seq(Searches) /\ ByClient \in Seq(Searches) BY <1>2
<1>b. Stmts(c) = {} /\ Stmts(f) = {} BY <1>2
<1>3. /\ d \in Seq(Searches) /\ (U => Stmts(d) = {<<"Users", "clientId">>}) /\ (~ U => Stmts(d) = {})
      /\ e \in Seq(Searches) /\ (R => Stmts(e) = {<<"Stores", "clientId">>}) /\ (~ R => Stmts(e) = {})
  <2>1. \A s : Stmts(<<s>>) = {s}
    <3> SUFFICES ASSUME NEW s PROVE Stmts(<<s>>) = {s} OBVIOUS
    <3>1. Len(<<s>>) = 1 /\ <<s>>[1] = s /\ 1..1 = {1} OBVIOUS
    <3> QED BY <3>1 DEF Stmts
  <2> QED BY <2>1, PartsAre, WhenStmts
<1> HIDE DEF a, b, c, d, e, f
<1>4. /\ ab \in Seq(Searches) /\ Stmts(ab) = Stmts(a) \cup Stmts(b)
      /\ Len(a) \leq Len(ab) /\ \A j \in 1..Len(a) : ab[j] = a[j]
  BY <1>2, StmtsJoin
<1> HIDE DEF ab
<1>5. /\ abc \in Seq(Searches) /\ Stmts(abc) = Stmts(ab)
      /\ Len(ab) \leq Len(abc) /\ \A j \in 1..Len(ab) : abc[j] = ab[j]
  <2>1. ab \in Seq(Searches) /\ c \in Seq(Searches) BY <1>4, <1>a
  <2>2. /\ abc \in Seq(Searches) /\ Stmts(abc) = Stmts(ab) \cup Stmts(c)
        /\ Len(ab) \leq Len(abc) /\ \A j \in 1..Len(ab) : abc[j] = ab[j]
    BY <2>1, StmtsJoin
  <2> HIDE DEF abc
  <2> QED BY <1>b, <2>2
<1> HIDE DEF abc
<1>6. /\ abcd \in Seq(Searches) /\ Stmts(abcd) = Stmts(abc) \cup Stmts(ByClient)
      /\ Len(abc) \leq Len(abcd) /\ \A j \in 1..Len(abc) : abcd[j] = abc[j]
  <2>1. abc \in Seq(Searches) /\ ByClient \in Seq(Searches) BY <1>5, <1>a
  <2> QED BY <2>1, StmtsJoin
<1> HIDE DEF abcd
<1>7. /\ abcde \in Seq(Searches) /\ Stmts(abcde) = Stmts(abcd) \cup Stmts(d)
      /\ Len(abcd) \leq Len(abcde) /\ \A j \in 1..Len(abcd) : abcde[j] = abcd[j]
  <2>1. abcd \in Seq(Searches) /\ d \in Seq(Searches) BY <1>3, <1>6
  <2> QED BY <2>1, StmtsJoin
<1> HIDE DEF abcde
<1>8. /\ most \in Seq(Searches) /\ Stmts(most) = Stmts(abcde) \cup Stmts(e)
      /\ Len(abcde) \leq Len(most) /\ \A j \in 1..Len(abcde) : most[j] = abcde[j]
  <2>1. abcde \in Seq(Searches) /\ e \in Seq(Searches) BY <1>3, <1>7
  <2> QED BY <2>1, StmtsJoin
<1> HIDE DEF most
<1>9. /\ P \in Seq(Searches) /\ Stmts(P) = Stmts(most)
      /\ Len(most) \leq Len(P) /\ \A j \in 1..Len(most) : P[j] = most[j]
  <2>1. most \in Seq(Searches) /\ f \in Seq(Searches) BY <1>8, <1>a
  <2>2. /\ P \in Seq(Searches) /\ Stmts(P) = Stmts(most) \cup Stmts(f)
        /\ Len(most) \leq Len(P) /\ \A j \in 1..Len(most) : P[j] = most[j]
    BY <2>1, StmtsJoin
  <2> HIDE DEF P
  <2> QED BY <1>b, <2>2
<1>10. Len(ab) \leq Len(P) /\ \A j \in 1..Len(ab) : P[j] = ab[j]
  <2>1. /\ Len(ab) \in Nat /\ Len(abc) \in Nat /\ Len(abcd) \in Nat /\ Len(abcde) \in Nat
        /\ Len(most) \in Nat /\ Len(P) \in Nat
    BY <1>4, <1>5, <1>6, <1>7, <1>8, <1>9
  <2> HIDE DEF P
  <2>2. /\ Len(ab) \leq Len(abc) /\ Len(abc) \leq Len(abcd) /\ Len(abcd) \leq Len(abcde)
        /\ Len(abcde) \leq Len(most) /\ Len(most) \leq Len(P)
    BY <1>5, <1>6, <1>7, <1>8, <1>9
  <2>3. Len(ab) \leq Len(P) BY <2>1, <2>2
  <2>4. ASSUME NEW j \in 1..Len(ab)
        PROVE  P[j] = ab[j]
    <3>1. /\ j \in 1..Len(abc) /\ j \in 1..Len(abcd) /\ j \in 1..Len(abcde)
          /\ j \in 1..Len(most)
      BY <2>1, <2>2
    <3>2. abc[j] = ab[j] /\ abcd[j] = abc[j] BY <1>5, <1>6, <3>1
    <3>3. abcde[j] = abcd[j] /\ most[j] = abcde[j] /\ P[j] = most[j] BY <1>7, <1>8, <1>9, <3>1
    <3> QED BY <3>2, <3>3
  <2> QED BY <2>3, <2>4
<1>11. Len(a) \leq Len(P) /\ \A j \in 1..Len(a) : P[j] = a[j]
  <2>1. Len(a) \in Nat /\ Len(ab) \in Nat /\ Len(P) \in Nat BY <1>2, <1>4, <1>9
  <2> HIDE DEF P
  <2> QED BY <1>4, <1>10, <2>1
<1> HIDE DEF P
<1>12. n < Len(P) => P[n + 1] \in Stmts(P)
  <2>1. n < Len(P) => n + 1 \in 1..Len(P) BY <1>9
  <2> QED BY <2>1 DEF Stmts
<1>13. Stmts(P) = Stmts(a) \cup Stmts(b) \cup Stmts(ByClient) \cup Stmts(d) \cup Stmts(e)
  BY <1>4, <1>5, <1>6, <1>7, <1>8, <1>9
<1>14. n < Len(P) => \/ P[n + 1] \in Stmts(ByUser) /\ U
                     \/ P[n + 1] \in Stmts(ByStore) /\ R
                     \/ P[n + 1] \in Stmts(ByClient)
                     \/ P[n + 1] = <<"Users", "clientId">> /\ U
                     \/ P[n + 1] = <<"Stores", "clientId">> /\ R
  BY <1>2, <1>3, <1>12, <1>13
<1>15. (U /\ (n < Len(P) => P[n + 1] \notin Stmts(ByUser))) => Stmts(ByUser) \subseteq Firsts(P, n)
  BY <1>1, <1>2, <1>9, <1>11, FirstsDone
<1>16. (R /\ (n < Len(P) => P[n + 1] \notin Stmts(ByUser) \cup Stmts(ByStore))) =>
         Stmts(ByStore) \subseteq Firsts(P, n)
  <2>1. (n < Len(P) => P[n + 1] \notin Stmts(ab)) => Stmts(ab) \subseteq Firsts(P, n)
    BY <1>1, <1>4, <1>9, <1>10, FirstsDone
  <2> QED BY <1>2, <1>4, <2>1
<1>17. (n < Len(P) /\ P[n + 1] = <<"FileUploadInventory", "storeId">>) =>
         <<"ErrorLog", "fileUploadId">> \in Firsts(P, n)
  <2> SUFFICES ASSUME n < Len(P), P[n + 1] = <<"FileUploadInventory", "storeId">>
               PROVE  <<"ErrorLog", "fileUploadId">> \in Firsts(P, n)
    OBVIOUS
  <2>1. R /\ b = ByStore
    <3>1. P[n + 1] \notin Stmts(ByUser) BY ByUserIs
    <3>2. P[n + 1] \notin Stmts(ByClient) BY ByClientIs
    <3> QED BY <1>2, <1>14, <3>1, <3>2
  <2>2. Len(a) \in Nat /\ Len(ab) = Len(a) + 12 BY <1>2, <2>1 DEF ab, ByStore
  <2>3. \A j \in 1..12 : P[Len(a) + j] = ByStore[j]
    <3> SUFFICES ASSUME NEW j \in 1..12 PROVE P[Len(a) + j] = ByStore[j] OBVIOUS
    <3>1. Len(ByStore) = 12 BY DEF ByStore
    <3>2. ab[Len(a) + j] = b[j] BY <1>2, <2>1, <2>2, <3>1 DEF ab
    <3> QED BY <1>10, <2>1, <2>2, <3>2
  <2>4. n \geq Len(a) + 11
    <3> SUFFICES ASSUME n < Len(a) + 11 PROVE FALSE BY <2>2
    <3>1. CASE n < Len(a)
      <4>1. n + 1 \in 1..Len(a) BY <2>2, <3>1
      <4>2. P[n + 1] \in Stmts(a)
        <5>1. P[n + 1] = a[n + 1] BY <1>11, <4>1
        <5> QED BY <4>1, <5>1 DEF Stmts
      <4>3. P[n + 1] \in Stmts(ByUser) BY <1>2, <4>2
      <4> QED BY <4>3, ByUserIs
    <3>2. CASE n \geq Len(a)
      <4>1. PICK j \in 1..11 : n + 1 = Len(a) + j
        <5>1. \A m, i \in Nat : m <= i /\ i < m + 11 => i + 1 - m \in 1..11 /\ i + 1 = m + (i + 1 - m)
          OBVIOUS
        <5> QED BY <2>2, <3>2, <5>1
      <4>2. P[Len(a) + j] = ByStore[j]
        <5>1. j \in 1..12 OBVIOUS
        <5> QED BY <2>3, <5>1
      <4>3. \A k \in 1..11 : ByStore[k] # <<"FileUploadInventory", "storeId">> BY DEF ByStore
      <4> QED BY <4>1, <4>2, <4>3
    <3> QED BY <2>2, <3>1, <3>2
  <2>5. ByStore[11] = <<"ErrorLog", "fileUploadId">> BY DEF ByStore
  <2>6. P[Len(a) + 11] = ByStore[11]
    <3>1. 11 \in 1..12 OBVIOUS
    <3> QED BY <2>3, <3>1
  <2>7. Len(a) + 11 \in 1..n BY <2>2, <2>4
  <2> QED BY <2>5, <2>6, <2>7 DEF Firsts
<1>18. n = Len(P) => Firsts(P, n) = Stmts(P) BY DEF Firsts, Stmts
<1>19. n = Len(P) =>
         /\ Stmts(ByClient) \subseteq Firsts(P, n)
         /\ U => <<"Users", "clientId">> \in Firsts(P, n)
         /\ R => <<"Stores", "clientId">> \in Firsts(P, n)
  BY <1>3, <1>13, <1>18
<1> QED BY <1>1, <1>14, <1>15, <1>16, <1>17, <1>19

----------------------------------------------------------------------------
(* What stands in the way of a deletion *)

\* What the code does not delete, or deletes after what it refers to.
InTheWay(c) ==
    \E x \in rows :
      /\ Reaches(c, x)
      /\ x.t \in {"Products", "SaleReturn", "OrderProcessing"} \/ x.t \notin Covered

LEMMA ByProductIs ==
    Stmts(ByProduct) = {<<"Pack", "productId">>, <<"SaleAdjustment", "productId">>,
                        <<"PurchaseOrders", "productId">>}
<1>1. Len(ByProduct) = 3 /\ 1..3 = {1, 2, 3} BY DEF ByProduct
<1>2. Stmts(ByProduct) = {ByProduct[i] : i \in {1, 2, 3}} BY <1>1 DEF Stmts
<1> QED BY <1>2 DEF ByProduct

LEMMA CoveredIs ==
    ASSUME NEW t \in Covered, t \notin {"Products", "SaleReturn", "OrderProcessing"}
    PROVE  t \in DOMAIN Columns
<1>1. ASSUME NEW s \in {ByUser, ByStore, ByProduct, ByClient}, NEW stmt \in Stmts(s), t = stmt[1]
      PROVE  t \in DOMAIN Columns
  <2>1. CASE stmt \in Stmts(ByUser) BY <1>1, <2>1, ByUserIs DEF Columns
  <2>2. CASE stmt \in Stmts(ByStore) BY <1>1, <2>2, ByStoreIs DEF Columns
  <2>3. CASE stmt \in Stmts(ByProduct) BY <1>1, <2>3, ByProductIs DEF Columns
  <2>4. CASE stmt \in Stmts(ByClient) BY <1>1, <2>4, ByClientIs DEF Columns
  <2> QED BY <1>1, <2>1, <2>2, <2>3, <2>4
<1>2. CASE t \in {k[1] : k \in Cascades} BY <1>2 DEF Cascades, Columns
<1>3. CASE t \in {"Clients", "Users", "Stores", "Products"} BY <1>3 DEF Columns
<1> QED BY <1>1, <1>2, <1>3 DEF Covered, Stmts

\* A row of the tenant and the row it refers to by a column that is never null.
LEMMA OwnRef ==
    ASSUME TableInv, ApartInv, NEW c, NEW x \in rows, x.t \in DOMAIN Columns, Of(x) = c,
           NEW col \in Columns[x.t] \ {"clientId"}, <<x.t, col>> \notin Optional
    PROVE  /\ col \in DOMAIN x.to /\ Parent[col] # "Clients"
           /\ \E p \in rows : p.t = Parent[col] /\ p.id = x.to[col] /\ Of(p) = c
<1>1. IsRow(x) /\ col \in DOMAIN x.to /\ x.to[col] # None
  BY DEF ApartInv, FitsSchema, TableInv, RowsSound
<1>2. Parent[col] # "Clients" BY <1>1 DEF IsRow, Parent
<1>3. <<Parent[col], x.to[col]>> \in Parents(x) BY <1>1 DEF Parents
<1>4. <<Parent[col], x.to[col]>> \in Keys(rows) BY <1>3 DEF TableInv, RowsSound, KeysHold
<1>5. PICK p \in rows : Key(p) = <<Parent[col], x.to[col]>> BY <1>4 DEF Keys
<1>6. Of(p) = c BY <1>1, <1>5 DEF ApartInv, KeepApart, Of
<1> QED BY <1>1, <1>2, <1>5, <1>6 DEF Key

LEMMA SeenOf ==
    ASSUME ApartInv, NEW r \in Requests, Clean(r), NEW p \in rows, p.t \in {"Users", "Stores"},
           Of(p) = call[r].client
    PROVE  /\ In(p.t, seen[r]) # {} /\ p.id \in Sought(r, p.t)
<1>1. "clientId" \in DOMAIN p.to BY DEF ApartInv, FitsSchema
<1>2. p \in seen[r] BY <1>1 DEF Clean, ActiveData, RefersTo, Of
<1> QED BY <1>2 DEF In, Ids, Sought

LEMMA SoughtOf ==
    ASSUME TableInv, ApartInv, NEW r \in Requests, Clean(r), NEW x \in rows,
           NEW col \in DOMAIN x.to \ {"clientId"}, Parent[col] \in {"Users", "Stores"},
           x.to[col] \in Sought(r, Parent[col])
    PROVE  Of(x) = call[r].client
<1>1. PICK p \in seen[r] : p.t = Parent[col] /\ p.id = x.to[col] BY DEF Sought, Ids, In
<1>2. p \in rows /\ Of(p) = call[r].client BY <1>1 DEF Clean, ActiveData, RefersTo, Of
<1> QED BY <1>1, <1>2 DEF ApartInv, KeepApart, Of, Key

\* What a statement that has run searched for is not left.
LEMMA NotFound ==
    ASSUME NEW r \in Requests, Clean(r), NEW x \in Left(r), NEW col,
           <<x.t, col>> \in Firsts(Plan(seen[r]), at[r]), x.to[col] \in Sought(r, Parent[col])
    PROVE  FALSE
<1>1. PICK i \in 1..at[r] : Plan(seen[r])[i] = <<x.t, col>> BY DEF Firsts
<1>2. Targets(r, <<x.t, col>>) = {} BY <1>1 DEF Clean
<1> QED BY <1>2 DEF Targets, In

\* The column by which a statement finds the rows of a table.
UserColumn ==
    [AuditLogs |-> "userId", Notifications |-> "userId", ApiTokens |-> "userId",
     InviteLinks |-> "userId", PasswordResetTokens |-> "userId", Permission |-> "grantedBy",
     RoleTemplate |-> "createdBy", UserRole |-> "userId", UserStoreMap |-> "userId",
     SaleAdjustment |-> "userId", Sales |-> "userId", PurchaseOrders |-> "userId",
     Expenses |-> "userId"]

StoreColumn ==
    [StoreSettings |-> "storeId", Suppliers |-> "storeId", Customer |-> "storeId",
     Reports |-> "storeId", FileUploadInventory |-> "storeId"]

LEMMA UserColumns ==
    ASSUME NEW t \in DOMAIN UserColumn
    PROVE  /\ t \in DOMAIN Columns /\ UserColumn[t] \in Columns[t] \ {"clientId"}
           /\ <<t, UserColumn[t]>> \notin Optional /\ Parent[UserColumn[t]] = "Users"
           /\ <<t, UserColumn[t]>> \in Stmts(ByUser)
<1>1. t \in DOMAIN Columns /\ UserColumn[t] \in Columns[t] \ {"clientId"}
  BY DEF UserColumn, Columns
<1>2. <<t, UserColumn[t]>> \notin Optional /\ Parent[UserColumn[t]] = "Users"
  BY DEF UserColumn, Optional, Nullable, Parent
<1>3. <<t, UserColumn[t]>> \in Stmts(ByUser) BY ByUserIs DEF UserColumn
<1> QED BY <1>1, <1>2, <1>3

LEMMA StoreColumns ==
    ASSUME NEW t \in DOMAIN StoreColumn
    PROVE  /\ t \in DOMAIN Columns /\ StoreColumn[t] \in Columns[t] \ {"clientId"}
           /\ <<t, StoreColumn[t]>> \notin Optional /\ Parent[StoreColumn[t]] = "Stores"
           /\ <<t, StoreColumn[t]>> \in Stmts(ByStore)
<1>1. t \in DOMAIN Columns /\ StoreColumn[t] \in Columns[t] \ {"clientId"}
  BY DEF StoreColumn, Columns
<1>2. <<t, StoreColumn[t]>> \notin Optional /\ Parent[StoreColumn[t]] = "Stores"
  BY DEF StoreColumn, Optional, Nullable, Parent
<1>3. <<t, StoreColumn[t]>> \in Stmts(ByStore) BY ByStoreIs DEF StoreColumn
<1> QED BY <1>1, <1>2, <1>3

\* What refers to a row that is taken is taken, too.
LEMMA NotHeld ==
    ASSUME TableInv, NEW r \in Requests, pc[r] = "statements", NEW x \in Left(r),
           NEW col \in DOMAIN x.to, <<x.t, col>> \notin Nullable, NEW p \in rows,
           p.t = Parent[col], p.id = x.to[col], p \notin Left(r)
    PROVE  FALSE
<1>1. <<Parent[col], x.to[col]>> \in lock[r] BY DEF Left, Key
<1>2. ~ Tight(x, lock[r]) BY DEF TableInv, RequestFits, LockFits
<1> QED BY <1>1, <1>2 DEF Tight

UsersDone(r) == In("Users", seen[r]) # {} => Stmts(ByUser) \subseteq Firsts(Plan(seen[r]), at[r])
StoresDone(r) == In("Stores", seen[r]) # {} => Stmts(ByStore) \subseteq Firsts(Plan(seen[r]), at[r])

\* Once the statements of the users have run, nothing is left that names a user but
\* what may be without.
LEMMA NoneOfUsers ==
    ASSUME TableInv, ApartInv, NEW r \in Requests, pc[r] = "statements", Clean(r), UsersDone(r),
           NEW x \in Left(r), Of(x) = call[r].client
    PROVE  x.t \notin DOMAIN UserColumn \cup {"SaleItem", "SaleHistory"}
<1>1. ASSUME NEW y \in Left(r), Of(y) = call[r].client, y.t \in DOMAIN UserColumn PROVE FALSE
  <2> DEFINE col == UserColumn[y.t]
  <2>1. /\ y.t \in DOMAIN Columns /\ col \in Columns[y.t] \ {"clientId"} /\ <<y.t, col>> \notin Optional
        /\ Parent[col] = "Users" /\ <<y.t, col>> \in Stmts(ByUser) /\ y \in rows
    BY <1>1, UserColumns DEF Left
  <2> HIDE DEF col
  <2>2. PICK p \in rows : p.t = "Users" /\ p.id = y.to[col] /\ Of(p) = call[r].client
    BY <1>1, <2>1, OwnRef
  <2>3. In("Users", seen[r]) # {} /\ y.to[col] \in Sought(r, "Users") BY <2>2, SeenOf
  <2> QED BY <1>1, <2>1, <2>3, NotFound DEF UsersDone
<1>2. CASE x.t \in {"SaleItem", "SaleHistory"}
  <2>1. /\ x \in rows /\ x.t \in DOMAIN Columns /\ "saleId" \in Columns[x.t] \ {"clientId"}
        /\ <<x.t, "saleId">> \notin Optional /\ Parent["saleId"] = "Sales"
    BY <1>2 DEF Left, Columns, Optional, Nullable, Parent
  <2>2. PICK p \in rows : p.t = "Sales" /\ p.id = x.to["saleId"] /\ Of(p) = call[r].client
    BY <2>1, OwnRef
  <2>3. p \notin Left(r) BY <1>1, <2>2 DEF UserColumn
  <2>4. "saleId" \in DOMAIN x.to /\ <<x.t, "saleId">> \notin Nullable
    BY <2>1, OwnRef DEF Optional
  <2> QED BY <2>1, <2>2, <2>3, <2>4, NotHeld
<1> QED BY <1>1, <1>2

LEMMA NoneOfStores ==
    ASSUME TableInv, ApartInv, NEW r \in Requests, pc[r] = "statements", Clean(r), StoresDone(r),
           NEW x \in Left(r), Of(x) = call[r].client
    PROVE  x.t \notin DOMAIN StoreColumn \cup {"ErrorLog"}
<1>1. ASSUME NEW y \in Left(r), Of(y) = call[r].client, y.t \in DOMAIN StoreColumn PROVE FALSE
  <2> DEFINE col == StoreColumn[y.t]
  <2>1. /\ y.t \in DOMAIN Columns /\ col \in Columns[y.t] \ {"clientId"} /\ <<y.t, col>> \notin Optional
        /\ Parent[col] = "Stores" /\ <<y.t, col>> \in Stmts(ByStore) /\ y \in rows
    BY <1>1, StoreColumns DEF Left
  <2> HIDE DEF col
  <2>2. PICK p \in rows : p.t = "Stores" /\ p.id = y.to[col] /\ Of(p) = call[r].client
    BY <1>1, <2>1, OwnRef
  <2>3. In("Stores", seen[r]) # {} /\ y.to[col] \in Sought(r, "Stores") BY <2>2, SeenOf
  <2> QED BY <1>1, <2>1, <2>3, NotFound DEF StoresDone
<1>2. CASE x.t = "ErrorLog"
  <2>1. /\ x \in rows /\ x.t \in DOMAIN Columns /\ "fileUploadId" \in Columns[x.t] \ {"clientId"}
        /\ <<x.t, "fileUploadId">> \notin Optional /\ Parent["fileUploadId"] = "FileUploadInventory"
    BY <1>2 DEF Left, Columns, Optional, Nullable, Parent
  <2>2. PICK p \in rows : /\ p.t = "FileUploadInventory" /\ p.id = x.to["fileUploadId"]
                          /\ Of(p) = call[r].client
    BY <2>1, OwnRef
  <2>3. p \notin Left(r) BY <1>1, <2>2 DEF StoreColumn
  <2>4. "fileUploadId" \in DOMAIN x.to /\ <<x.t, "fileUploadId">> \notin Nullable
    BY <2>1, OwnRef DEF Optional
  <2> QED BY <2>1, <2>2, <2>3, <2>4, NotHeld
<1> QED BY <1>1, <1>2

----------------------------------------------------------------------------
(* What a deletion fails by *)

\* A table that goes by a cascade is referred to by nobody.
LEMMA BlockedBy ==
    ASSUME NEW L, \A x \in L : IsRow(x), NEW D, Blocked(L, D)
    PROVE  \E x \in L, z \in D : \E col \in DOMAIN x.to :
             /\ col \in DOMAIN Parent /\ z.t = Parent[col] /\ z.id = x.to[col]
             /\ <<x.t, col>> \notin Cascades \cup Nullable
<1> DEFINE one == D \cup Via(L, D, Cascades)
<1>1. PICK x \in L : \E col \in DOMAIN x.to :
          <<Parent[col], x.to[col]>> \in Keys(Gone(L, D)) /\ <<x.t, col>> \notin Cascades \cup Nullable
  BY DEF Blocked
<1>2. PICK col \in DOMAIN x.to :
          <<Parent[col], x.to[col]>> \in Keys(Gone(L, D)) /\ <<x.t, col>> \notin Cascades \cup Nullable
  BY <1>1
<1>3. PICK z \in Gone(L, D) : Key(z) = <<Parent[col], x.to[col]>> BY <1>2 DEF Keys
<1>4. z.t = Parent[col] /\ z.id = x.to[col] /\ col \in DOMAIN Parent
  BY <1>2, <1>3 DEF Key, IsRow
<1>5. z \in D
  <2>1. SUFFICES ASSUME z \in Via(L, D, Cascades) \/ z \in Via(L, one, Cascades) PROVE FALSE
    BY <1>3 DEF Gone
  <2>2. PICK k \in DOMAIN z.to : <<z.t, k>> \in Cascades BY <2>1 DEF Via
  <2> QED BY <1>4, <2>2 DEF Cascades, Parent
<1> QED BY <1>2, <1>4, <1>5

LEMMA RestFits ==
    ASSUME ApartInv, NEW c, ~ InTheWay(c), NEW x \in rows, x.t # "Clients", Of(x) = c
    PROVE  x.t \in DOMAIN Columns /\ DOMAIN x.to = Columns[x.t]
<1>1. Reaches(c, x) BY DEF ApartInv, FitsSchema, Reaches, RefersTo, Of
<1>2. x.t \in Covered /\ x.t \notin {"Products", "SaleReturn", "OrderProcessing"}
  BY <1>1 DEF InTheWay
<1>3. x.t \in DOMAIN Columns BY <1>2, CoveredIs
<1> QED BY <1>3 DEF ApartInv, FitsSchema

\* The references that restrict, by the table they are to.
LEMMA HoldsOn ==
    ASSUME NEW t \in DOMAIN Columns, NEW col \in Columns[t], <<t, col>> \notin Cascades \cup Nullable
    PROVE  /\ Parent[col] \notin {"RoleTemplate", "Sales", "Customer", "Business"}
           /\ Parent[col] = "Suppliers" => t = "PurchaseOrders"
           /\ Parent[col] = "FileUploadInventory" => t = "ErrorLog"
           /\ Parent[col] = "Users" => t \in DOMAIN UserColumn \cup {"SaleHistory"}
           /\ Parent[col] = "Stores" => t \in DOMAIN UserColumn \cup DOMAIN StoreColumn \cup {"SaleHistory"}
           /\ col = "productId" => t \in DOMAIN UserColumn \cup {"Pack"}
  BY DEF Columns, Cascades, Nullable, Parent, UserColumn, StoreColumn

\* The statements about tables that others refer to.
Referred == {<<"RoleTemplate", "createdBy">>, <<"Sales", "userId">>, <<"Sales", "storeId">>,
             <<"Sales", "clientId">>, <<"Customer", "storeId">>, <<"Customer", "clientId">>,
             <<"Business", "clientId">>, <<"Suppliers", "storeId">>,
             <<"FileUploadInventory", "storeId">>, <<"Users", "clientId">>, <<"Stores", "clientId">>}

LEMMA ReferredTo ==
    ASSUME NEW stmt, NEW col \in DOMAIN Parent, stmt[1] = Parent[col],
           \/ stmt \in Stmts(ByUser) \/ stmt \in Stmts(ByStore) \/ stmt \in Stmts(ByClient)
           \/ stmt \in {<<"Users", "clientId">>, <<"Stores", "clientId">>}
    PROVE  stmt \in Referred
<1>1. CASE stmt \in Stmts(ByUser) BY <1>1, ByUserIs DEF Parent, Referred
<1>2. CASE stmt \in Stmts(ByStore) BY <1>2, ByStoreIs DEF Parent, Referred
<1>3. CASE stmt \in Stmts(ByClient) BY <1>3, ByClientIs DEF Referred
<1> QED BY <1>1, <1>2, <1>3 DEF Referred

LEMMA ReferredHas ==
    ASSUME NEW stmt \in Referred
    PROVE  /\ stmt[1] \in DOMAIN Columns /\ stmt[2] \in Columns[stmt[1]]
           /\ stmt[2] # "clientId" => Parent[stmt[2]] \in {"Users", "Stores"}
           /\ stmt[1] \in {"Suppliers", "FileUploadInventory", "Users", "Stores"} =>
                stmt \in {<<"Suppliers", "storeId">>, <<"FileUploadInventory", "storeId">>,
                         <<"Users", "clientId">>, <<"Stores", "clientId">>}
           /\ stmt[1] \notin {"Suppliers", "FileUploadInventory", "Users", "Stores"} =>
                stmt[1] \in {"RoleTemplate", "Sales", "Customer", "Business"}
  BY DEF Referred, Columns, Parent

\* A row a statement finds is of the tenant.
LEMMA TargetOf ==
    ASSUME TableInv, ApartInv, NEW r \in Requests, Clean(r), NEW stmt \in Referred,
           NEW z \in Targets(r, stmt)
    PROVE  z \in Left(r) /\ z \in rows /\ z.t = stmt[1] /\ Of(z) = call[r].client
<1>1. z \in Left(r) /\ z \in rows /\ z.t = stmt[1] /\ z.to[stmt[2]] \in Sought(r, Parent[stmt[2]])
  BY DEF Targets, In, Left
<1>2. CASE stmt[2] = "clientId" BY <1>1, <1>2 DEF Sought, Parent, Of
<1>3. CASE stmt[2] # "clientId"
  <2>1. stmt[2] \in DOMAIN z.to \ {"clientId"} /\ Parent[stmt[2]] \in {"Users", "Stores"}
    BY <1>1, <1>3, ReferredHas DEF ApartInv, FitsSchema
  <2> QED BY <1>1, <2>1, SoughtOf
<1> QED BY <1>1, <1>2, <1>3

\* What refers to a row of the tenant is of the tenant, in a table with known columns.
LEMMA BlockerOf ==
    ASSUME ApartInv, NEW c, ~ InTheWay(c), NEW x \in rows, NEW z \in rows, Of(z) = c,
           NEW col \in DOMAIN x.to, z.t = Parent[col], z.id = x.to[col], z.t # "Clients"
    PROVE  Of(x) = c /\ x.t \in DOMAIN Columns /\ col \in Columns[x.t]
<1>1. col # "clientId" /\ Key(z) = <<Parent[col], x.to[col]>> BY DEF Parent, Key
<1>2. Of(x) = c BY <1>1 DEF ApartInv, KeepApart, Of
<1>3. x.t # "Clients" BY DEF ApartInv, FitsSchema, Columns
<1> QED BY <1>2, <1>3, RestFits

\* A statement of a deletion that nothing stands in the way of finds nothing that
\* holds on to what it deletes.
LEMMA StatementGoes ==
    ASSUME TableInv, ApartInv, NEW r \in Requests, pc[r] = "statements", Clean(r),
           ~ InTheWay(call[r].client), at[r] \in Nat, at[r] < Len(Plan(seen[r]))
    PROVE  ~ Blocked(Left(r), Targets(r, Plan(seen[r])[at[r] + 1]))
<1> DEFINE stmt == Plan(seen[r])[at[r] + 1]
           D == Targets(r, stmt)
           c == call[r].client
<1> SUFFICES ASSUME Blocked(Left(r), D) PROVE FALSE OBVIOUS
<1>1. In("Products", seen[r]) = {} BY DEF Clean, ActiveData, InTheWay, In, Reaches
<1>2. /\ \/ stmt \in Stmts(ByUser) \/ stmt \in Stmts(ByStore) \/ stmt \in Stmts(ByClient)
         \/ stmt \in {<<"Users", "clientId">>, <<"Stores", "clientId">>}
      /\ stmt \notin Stmts(ByUser) => UsersDone(r)
      /\ stmt \notin Stmts(ByUser) \cup Stmts(ByStore) => StoresDone(r)
      /\ stmt = <<"FileUploadInventory", "storeId">> =>
           <<"ErrorLog", "fileUploadId">> \in Firsts(Plan(seen[r]), at[r])
  BY <1>1, PlanOrder DEF UsersDone, StoresDone
<1>3. D \subseteq Left(r) /\ Left(r) \subseteq rows /\ \A x \in Left(r) : IsRow(x)
  BY DEF Targets, In, Left, TableInv, RowsSound
<1>4. \A z \in D : z.t = stmt[1] BY DEF Targets, In
<1> HIDE DEF stmt, D
<1>5. PICK x \in Left(r), z \in D : \E col \in DOMAIN x.to :
         /\ col \in DOMAIN Parent /\ z.t = Parent[col] /\ z.id = x.to[col]
         /\ <<x.t, col>> \notin Cascades \cup Nullable
  BY <1>3, BlockedBy
<1>6. PICK col \in DOMAIN x.to :
         /\ col \in DOMAIN Parent /\ z.t = Parent[col] /\ z.id = x.to[col]
         /\ <<x.t, col>> \notin Cascades \cup Nullable
  BY <1>5
<1>7. stmt \in Referred /\ z.t = stmt[1] /\ Parent[col] = stmt[1]
  BY <1>2, <1>4, <1>6, ReferredTo
<1>8. z \in rows /\ z \in Left(r) /\ Of(z) = c BY <1>7, TargetOf DEF D
<1>9. z.t # "Clients" BY <1>7, ReferredHas
<1>10. Of(x) = c /\ x.t \in DOMAIN Columns /\ col \in Columns[x.t]
  BY <1>3, <1>6, <1>8, <1>9, BlockerOf
<1>11. CASE stmt = <<"Suppliers", "storeId">>
  <2>1. x.t = "PurchaseOrders" /\ UsersDone(r)
    BY <1>2, <1>6, <1>7, <1>10, <1>11, HoldsOn, ByUserIs
  <2>2. x.t \notin DOMAIN UserColumn BY <1>10, <2>1, NoneOfUsers
  <2> QED BY <2>1, <2>2 DEF UserColumn
<1>12. CASE stmt = <<"FileUploadInventory", "storeId">>
  <2>1. x.t = "ErrorLog" /\ <<x.t, "fileUploadId">> \in Firsts(Plan(seen[r]), at[r])
    BY <1>2, <1>6, <1>7, <1>10, <1>12, HoldsOn
  <2>2. col = "fileUploadId" BY <1>6, <1>7, <1>12 DEF Parent
  <2>3. z.id \in Sought(r, "FileUploadInventory")
    <3>1. z.t = "FileUploadInventory" /\ z.to["storeId"] \in Ids("Stores", seen[r])
      BY <1>5, <1>12 DEF D, Targets, In, Sought, Parent
    <3> QED BY <1>8, <3>1 DEF Sought, In
  <2> QED BY <1>6, <1>7, <1>12, <2>1, <2>2, <2>3, NotFound
<1>13. CASE stmt \in {<<"Users", "clientId">>, <<"Stores", "clientId">>}
  <2>1. UsersDone(r) /\ StoresDone(r) BY <1>2, <1>13, ByUserIs, ByStoreIs
  <2>2. x.t \in DOMAIN UserColumn \cup DOMAIN StoreColumn \cup {"SaleHistory"}
    BY <1>6, <1>7, <1>10, <1>13, HoldsOn
  <2> QED BY <1>10, <2>1, <2>2, NoneOfUsers, NoneOfStores
<1>14. CASE stmt[1] \in {"RoleTemplate", "Sales", "Customer", "Business"}
  BY <1>6, <1>7, <1>10, <1>14, HoldsOn
<1> QED BY <1>7, <1>11, <1>12, <1>13, <1>14, ReferredHas

LEMMA PartsOfTenant ==
    ASSUME NEW t \in DOMAIN Columns, t # "Clients",
           t \notin DOMAIN UserColumn \cup {"SaleItem", "SaleHistory"},
           t \notin DOMAIN StoreColumn \cup {"ErrorLog"}
    PROVE  t \in {"Users", "Stores", "Business", "Pack", "ProductSupplier", "SalesDraftItems"}
  BY DEF Columns, UserColumn, StoreColumn

LEMMA ClientGoes ==
    ASSUME TableInv, ApartInv, NEW r \in Requests, pc[r] = "statements", Clean(r),
           ~ InTheWay(call[r].client), at[r] \in Nat, at[r] = Len(Plan(seen[r]))
    PROVE  LET D == {x \in In("Clients", rows) : x.id = call[r].client}
           IN  D # {} /\ ~ Blocked(Left(r), D)
<1> DEFINE c == call[r].client
           D == {x \in In("Clients", rows) : x.id = c}
<1>1. D # {} BY DEF Clean, Has, Ids
<1> HIDE DEF D
<1>2. ASSUME Blocked(Left(r), D) PROVE FALSE
  <2>1. \A x \in Left(r) : IsRow(x) BY DEF Left, TableInv, RowsSound
  <2>2. PICK x \in Left(r), z \in D : \E col \in DOMAIN x.to :
           /\ col \in DOMAIN Parent /\ z.t = Parent[col] /\ z.id = x.to[col]
           /\ <<x.t, col>> \notin Cascades \cup Nullable
    BY <1>2, <2>1, BlockedBy
  <2>3. x \in rows /\ "clientId" \in DOMAIN x.to /\ Of(x) = c
    <3>1. PICK col \in DOMAIN x.to : col \in DOMAIN Parent /\ Parent[col] = "Clients" /\ x.to[col] = c
      BY <2>2 DEF In, D
    <3>2. col = "clientId" BY <3>1 DEF Parent
    <3> QED BY <3>1, <3>2 DEF Of, Left
  <2>4. x.t # "Clients" BY <2>3 DEF ApartInv, FitsSchema, Columns
  <2>5. x.t \in DOMAIN Columns BY <2>3, <2>4, RestFits
  <2>6. In("Products", seen[r]) = {} BY DEF Clean, ActiveData, InTheWay, In, Reaches
  <2>7. /\ UsersDone(r) /\ StoresDone(r)
        /\ Stmts(ByClient) \subseteq Firsts(Plan(seen[r]), at[r])
        /\ In("Users", seen[r]) # {} => <<"Users", "clientId">> \in Firsts(Plan(seen[r]), at[r])
        /\ In("Stores", seen[r]) # {} => <<"Stores", "clientId">> \in Firsts(Plan(seen[r]), at[r])
    BY <2>6, PlanOrder DEF UsersDone, StoresDone
  <2>8. x.t \in {"Users", "Stores", "Business", "Pack", "ProductSupplier", "SalesDraftItems"}
    BY <2>3, <2>4, <2>5, <2>7, NoneOfUsers, NoneOfStores, PartsOfTenant
  <2>9. x.t \in {"Users", "Stores", "Business"} => <<x.t, "clientId">> \notin Firsts(Plan(seen[r]), at[r])
    <3>1. Parent["clientId"] = "Clients" /\ x.to["clientId"] \in Sought(r, "Clients")
      BY <2>3 DEF Parent, Sought, Of
    <3> QED BY <3>1, NotFound
  <2>10. CASE x.t = "Business" BY <2>7, <2>9, <2>10, ByClientIs
  <2>11. CASE x.t \in {"Users", "Stores"} BY <2>3, <2>7, <2>9, <2>11, SeenOf
  <2>12. ASSUME NEW col \in Columns[x.t] \ {"clientId"}, <<x.t, col>> \notin Optional,
                Parent[col] \in {"Products", "SalesDraft"}
         PROVE  FALSE
    <3>1. PICK p \in rows : p.t \in {"Products", "SalesDraft"} /\ Of(p) = c
      BY <2>3, <2>5, <2>12, OwnRef
    <3>2. p.t \in DOMAIN Columns BY <3>1, RestFits
    <3> QED BY <3>1, <3>2 DEF Columns
  <2>13. CASE x.t \in {"Pack", "ProductSupplier"}
    <3>1. "productId" \in Columns[x.t] \ {"clientId"} /\ Parent["productId"] = "Products"
      BY <2>13 DEF Columns, Parent
    <3>2. <<x.t, "productId">> \notin Optional BY <2>13 DEF Optional, Nullable
    <3> QED BY <2>12, <3>1, <3>2
  <2>14. CASE x.t = "SalesDraftItems"
    <3>1. "saleDraftId" \in Columns[x.t] \ {"clientId"} /\ Parent["saleDraftId"] = "SalesDraft"
      BY <2>14 DEF Columns, Parent
    <3>2. <<x.t, "saleDraftId">> \notin Optional BY <2>14 DEF Optional, Nullable
    <3> QED BY <2>12, <3>1, <3>2
  <2> QED BY <2>8, <2>10, <2>11, <2>13, <2>14
<1> QED BY <1>1, <1>2 DEF D

LEMMA DeletionFails ==
    ASSUME TableInv, History, ApartInv, DeletionInv, [Next]_vars, NEW r \in Requests,
           pc[r] = "statements", pc'[r] = "failed", faults' = faults, Undisturbed(r)
    PROVE  InTheWay(call[r].client)
<1>1. Clean(r) /\ at[r] \in Nat BY DEF DeletionInv, TableInv, RequestFits, Unused
<1>2. PICK q \in Requests : Step(q)
  <2>1. ASSUME NEW q \in Requests, Receive(q) PROVE FALSE
    <3>1. Refuse(q) \/ \E c, S, to : Begin(q, c, S, to) BY <2>1, ReceiveIs DEF Accepted
    <3> QED BY <3>1 DEF Refuse, Begin, Goto, TableInv, StateFits
  <2>2. ASSUME NEW S, Lost(S) PROVE FALSE BY <2>2 DEF Lost, TableInv, StateFits
  <2>3. ~ UNCHANGED vars BY DEF vars
  <2> QED BY <2>1, <2>2, <2>3 DEF Next, Fault, Crash, Finished
<1>3. q = r BY <1>2, StepPast
<1>4. DeleteRows(r) \/ DeleteClient(r) BY <1>2, <1>3, StepIs, TenantsStepIs DEF TenantStages
<1>5. CASE DeleteRows(r)
  <2>1. Blocked(Left(r), Targets(r, Plan(seen[r])[at[r] + 1])) /\ at[r] < Len(Plan(seen[r]))
    BY <1>5 DEF DeleteRows
  <2> QED BY <1>1, <2>1, StatementGoes
<1>6. CASE DeleteClient(r)
  <2> DEFINE D == {x \in In("Clients", rows) : x.id = call[r].client}
  <2>1. D = {} \/ Blocked(Left(r), D)
    <3>1. ~ End(r, "ok") BY DEF End, Goto, TableInv, StateFits
    <3> QED BY <1>6, <3>1 DEF DeleteClient
  <2>2. at[r] = Len(Plan(seen[r])) BY <1>6 DEF DeleteClient
  <2> QED BY <1>1, <2>1, <2>2, ClientGoes
<1> QED BY <1>4, <1>5, <1>6

\* A deletion of a tenant that no other request meets fails without a fault only by a
\* row of the tenant that the code does not delete, or deletes too late, if no row
\* refers to one of another tenant at the start and the rows fit the schema; and an
\* insertion fails so by a number or a name in use only if two requests met.
THEOREM OfficeFailuresExplained == SeedsKeepApart /\ Spec => FailuresAreExplained
<1> SUFFICES ASSUME SeedsKeepApart PROVE Spec => FailuresAreExplained OBVIOUS
<1> DEFINE I == TableInv /\ History /\ ApartInv /\ DeletionInv
<1>1. Init => I BY InitTables, InitHistory, InitApart, InitDeletion
<1>2. I /\ [Next]_vars => I' BY NextTables, HistoryKeeps, ApartKeeps, DeletionKeeps
<1>3. ASSUME I, [Next]_vars
      PROVE  [\A r \in Requests :
                (pc[r] = "statements" /\ pc'[r] = "failed" /\ faults' = faults) =>
                  \/ \E q \in Requests \ {r} : Met(q, r)
                  \/ \E x \in rows :
                       /\ Reaches(call[r].client, x)
                       /\ \/ x.t \in {"Products", "SaleReturn", "OrderProcessing"}
                          \/ x.t \notin Covered]_vars
  BY <1>3, DeletionFails DEF InTheWay, Undisturbed
<1>4. Spec => DeletionFailsOnlyWhen BY <1>1, <1>2, <1>3, PTL DEF Spec, DeletionFailsOnlyWhen
<1> QED BY <1>4, OfficeNumbersClash DEF FailuresAreExplained
=============================================================================
