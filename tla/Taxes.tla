-------------------------------- MODULE Taxes --------------------------------
(***************************************************************************)
(* Tax types, codes, regions, rates and their assignments (TaxService), and    *)
(* what they come to (TaxCalculationService).                                *)
(*                                                                         *)
(* The no of a type, a code or a region is its name or code, that of a rate is  *)
(* the rate, that of an assignment the entity it is for; a rate is on when it   *)
(* is a percentage.  Rates and amounts are integers.                         *)
(***************************************************************************)
EXTENDS OfficeTables, FiniteSetsExt

CONSTANTS
    Names,          \* of types, codes and regions
    Entities,       \* what a rate can be assigned to: products, stores, ...
    Purchases       \* bound: pairs of an amount and a quantity taxes are worked out for

ASSUME TaxesAssumption ==
    /\ Names \subseteq Nat
    /\ Entities \subseteq Nat /\ IsFiniteSet(Entities)
    /\ \A b \in Purchases : b.amount \in Nat /\ b.quantity \in Nat \ {0}

Named(t, id, to, n) == [New(t, id, to) EXCEPT !.no = n]

Callers == {ClientOf(u) : u \in Ids("Users", rows)}

\* The name or code of a type, a code or a region is unique for its client.
Taken(x) ==
    \E y \in In(x.t, rows) : y.no = x.no /\ y.to["clientId"] = x.to["clientId"] /\ y.id # x.id

\* What the pages for bundles and assignments offer.
GetAllTaxRates(c) == Own(c, "TaxRate")

\* Mutant: the unique indexes are gone.
NoClash(S) == FALSE

Clash(S) == \E x \in S : x.t \in {"TaxType", "TaxCode", "Region"} /\ Taken(x)

\* create, createMany and the transaction of a bundle insert rows or nothing.
InsertTaxes(r, S) ==
    IF Clash(S) THEN Fails(r) ELSE Insert(r, S) \/ InsertFails(r, S)

----------------------------------------------------------------------------
(* One row at a time *)

\* createTaxType, createTaxCode, createRegion and createTaxRate check nothing.
BeginCreateTax(r, x) == Begin(r, [op |-> "createTax"], {x}, "tax")

NewTaxRows(r, c) ==
    UNION {
        {Named(t, r, [clientId |-> c], n) : t \in {"TaxType", "Region"}, n \in Names},
        {Named("TaxCode", r, [clientId |-> c, taxTypeId |-> y], n) :
            y \in Own(c, "TaxType"), n \in Names},
        {Named("TaxRate", r, [clientId |-> c, taxTypeId |-> y, taxCodeId |-> k, regionId |-> g], 1) :
            y \in Own(c, "TaxType"), k \in Own(c, "TaxCode"), g \in Own(c, "Region")}}

CreateTax(r) ==
    /\ pc[r] = "tax"
    /\ InsertTaxes(r, seen[r])

TaxTables == {"TaxType", "TaxCode", "Region", "TaxRate", "TaxAssignment"}

\* The columns of their bodies that refer to other rows.
RefColumns == [TaxType |-> {}, TaxCode |-> {"taxTypeId"}, Region |-> {},
               TaxRate |-> {"taxTypeId", "taxCodeId", "regionId"}, TaxAssignment |-> {"taxRateId"}]

\* The updates and deletions of one row find it first.
BeginEditTax(r, op, t, id, n, col, ref) ==
    LET c == [op |-> op, table |-> t, id |-> id, no |-> n, col |-> col, ref |-> ref] IN
    Check(r, c, Has(t, id), {}, "editTax")

\* The body may give the columns that refer to other rows as well, one of them here.
Rewritten(x, c) ==
    [x EXCEPT !.no = c.no,
              !.to = [col \in DOMAIN x.to |-> IF col = c.col THEN c.ref ELSE x.to[col]]]

NamedBy(c) == IF c.col = "none" THEN {} ELSE {<<Parent[c.col], c.ref>>}

UpdateTax(r) ==
    LET c == call[r]
        y == Rewritten(Get(c.table, c.id), c)
    IN
    /\ pc[r] = "editTax"
    /\ Is(r, "updateTax")
    /\ NotDoomed(r, NamedBy(c))
    /\ IF Has(c.table, c.id) /\ (Clash({y}) \/ ~ (NamedBy(c) \subseteq Keys(rows))) THEN Fails(r)
       ELSE Write(r, c.table, c.id, y)

DeleteTax(r) ==
    /\ pc[r] = "editTax"
    /\ Is(r, "deleteTax")
    /\ Delete(r, call[r].table, call[r].id)

----------------------------------------------------------------------------
(* Bundles *)

BundleRows(r, c, name, code, type, region) ==
    {Named("TaxType", r, [clientId |-> c], name),
     Named("TaxCode", r, [clientId |-> c, taxTypeId |-> r], code),
     Named("TaxRate", r,
           [clientId |-> c, taxTypeId |-> type, taxCodeId |-> r, regionId |-> region], 1)}

\* The body names the type of the rate; it cannot name the one that is made here.
BeginCreateBundle(r, c, name, code, type, region) ==
    LET S == BundleRows(r, c, name, code, type, region) IN
    Check(r, [op |-> "createBundle"], ~ Clash(S), S, "tax")

\* updateTaxBundle and deleteTaxBundle of code k find the code, its type and any
\* one of its rates.
BeginBundle(r, op, k, rate, type) ==
    LET code == Get("TaxCode", k) IN
    Check(r, [op |-> op, type |-> type],
          Has("TaxRate", rate) /\ RefersTo(Get("TaxRate", rate), "taxCodeId", k),
          {code, Get("TaxType", code.to["taxTypeId"]), Get("TaxRate", rate)}, "bundle")

\* The transaction updates all three; the body may give the rate another type.
UpdateBundle(r) ==
    LET rate == CHOOSE x \in seen[r] : x.t = "TaxRate"
        type == call[r].type
    IN
    /\ pc[r] = "bundle"
    /\ Is(r, "updateBundle")
    /\ Free(r, Keys(seen[r]))
    /\ IF Keys(seen[r]) \subseteq Keys(rows) /\ Has("TaxType", type)
       THEN /\ Update(Get("TaxRate", rate.id), [Get("TaxRate", rate.id) EXCEPT !.to["taxTypeId"] = type])
            /\ End(r, "ok")
       ELSE Fails(r)

\* Rate, code and type go in this order, or nothing goes: other rows may refer to
\* each of them.
DeleteBundle(r) ==
    LET D(t) == {x \in In(t, rows) : Key(x) \in Keys(seen[r])}
        noRate == rows \ D("TaxRate")
        noCode == noRate \ D("TaxCode")
    IN
    /\ pc[r] = "bundle"
    /\ Is(r, "deleteBundle")
    /\ Free(r, Keys(seen[r]))
    /\ IF \/ ~ (Keys(seen[r]) \subseteq Keys(rows))
          \/ Blocked(rows, D("TaxRate"))
          \/ Blocked(noRate, D("TaxCode"))
          \/ Blocked(noCode, D("TaxType"))
       THEN Fails(r)
       ELSE rows' = noCode \ D("TaxType") /\ End(r, "ok")

----------------------------------------------------------------------------
(* Assignments *)

AssignmentsOf(rate) == {x \in In("TaxAssignment", rows) : RefersTo(x, "taxRateId", rate)}

Assignment(r, rate, e) ==
    Named("TaxAssignment", r, [clientId |-> Get("TaxRate", rate).to["clientId"],
                               taxRateId |-> rate], e)

\* createTaxAssignment and bulkAssignTaxes add to what is assigned.
BeginAssign(r, rate, e) ==
    Begin(r, [op |-> "assign", rate |-> rate], {Assignment(r, rate, e)}, "tax")

\* replaceAssignmentsByTaxRate, in a transaction of two statements: the first
\* deletes what its snapshot shows.
BeginReplace(r, rate, e) ==
    Begin(r, [op |-> "replace", rate |-> rate, new |-> Assignment(r, rate, e)], {}, "replace")

\* Mutant: what was assigned is left.
ReadNoAssignments(r) ==
    /\ pc[r] = "replace"
    /\ seen' = [seen EXCEPT ![r] = {}]
    /\ Goto(r, "assignments")
    /\ UNCHANGED <<rows, call, lock, at, raced, faults>>

ReadAssignments(r) ==
    /\ pc[r] = "replace"
    /\ seen' = [seen EXCEPT ![r] = AssignmentsOf(call[r].rate)]
    /\ Goto(r, "assignments")
    /\ UNCHANGED <<rows, call, lock, at, raced, faults>>

\* The deletion waits for other replacements; what they made is not in its snapshot.
ReplaceAssignments(r) ==
    LET S == {call[r].new} IN
    /\ pc[r] = "assignments"
    /\ Free(r, Keys(seen[r]))
    /\ NotDoomed(r, Parents(call[r].new))
    /\ IF Has("TaxRate", call[r].rate)
       THEN /\ rows' = {x \in rows : Key(x) \notin Keys(seen[r])} \cup S
            /\ End(r, "ok")
       ELSE Fails(r)

----------------------------------------------------------------------------
(* What a purchase is taxed *)

LineTotal(b) == b.amount * b.quantity

\* calculateIndividualTaxAmount: a percentage of the line, or so much per item.
IndividualTax(x, b) == IF x.on THEN LineTotal(b) * x.no ELSE x.no * b.quantity

\* The tax rates, by id.
Rates == LET R == In("TaxRate", rows) IN [i \in {x.id : x \in R} |-> CHOOSE x \in R : x.id = i]

\* calculateTaxAmount of the assignments A.
TaxAmount(A, b) ==
    LET rate == Rates IN MapThenSumSet(LAMBDA a : IndividualTax(rate[a.to["taxRateId"]], b), A)

\* The part of it that is a percentage, and what is charged per item: the effective
\* rate is their sum over the line total.
PercentageRate(A) ==
    LET rate == Rates
        percent == {a \in A : rate[a.to["taxRateId"]].on}
    IN  MapThenSumSet(LAMBDA a : rate[a.to["taxRateId"]].no, percent)

FixedTax(A, b) ==
    LET rate == Rates IN TaxAmount({a \in A : ~ rate[a.to["taxRateId"]].on}, b)

\* A line of nothing has no rate for what is charged per item.
EffectiveTimesTotal(A, b) ==
    PercentageRate(A) * LineTotal(b) + (IF LineTotal(b) > 0 THEN FixedTax(A, b) ELSE 0)

AssignmentsFor(E) == {x \in In("TaxAssignment", rows) : x.no \in E}

\* calculateTaxByEntity
TaxByEntity(e, b) == TaxAmount(AssignmentsFor({e}), b)

\* The totals: an entity without assignments gives back the amount, not the line.
TotalByEntity(e, b) ==
    IF AssignmentsFor({e}) = {} THEN b.amount ELSE LineTotal(b) + TaxByEntity(e, b)

\* Mutant: only the most specific entity counts.
FirstEntityTax(E, b) ==
    IF AssignmentsFor(E) = {} THEN 0
    ELSE TaxByEntity(CHOOSE e \in E : AssignmentsFor({e}) # {}, b)

\* calculateComprehensiveTax: one query for the entities of a sale line.
ComprehensiveTax(E, b) == TaxAmount(AssignmentsFor(E), b)

----------------------------------------------------------------------------

ReceiveTaxes(r) ==
    \/ \E c \in Callers :
         \/ \E x \in NewTaxRows(r, c) : BeginCreateTax(r, x)
         \/ \E name, code \in Names, type \in Own(c, "TaxType"), g \in Own(c, "Region") :
              BeginCreateBundle(r, c, name, code, type, g)
    \/ \E t \in TaxTables : \E id \in Ids(t, rows) :
         \/ \E n \in Names : BeginEditTax(r, "updateTax", t, id, n, "none", None)
         \/ \E n \in Names, col \in RefColumns[t] :
               \E ref \in Own(Get(t, id).to["clientId"], Parent[col]) :
                  BeginEditTax(r, "updateTax", t, id, n, col, ref)
         \/ BeginEditTax(r, "deleteTax", t, id, 0, "none", None)
    \/ \E c \in Callers : \E rate \in GetAllTaxRates(c) :
         \/ \E k \in Own(c, "TaxCode") :
              \/ \E type \in Own(c, "TaxType") : BeginBundle(r, "updateBundle", k, rate, type)
              \/ BeginBundle(r, "deleteBundle", k, rate, None)
         \/ \E e \in Entities : BeginAssign(r, rate, e) \/ BeginReplace(r, rate, e)

StepTaxes(r) ==
    \/ CreateTax(r) \/ UpdateTax(r) \/ DeleteTax(r)
    \/ UpdateBundle(r) \/ DeleteBundle(r)
    \/ ReadAssignments(r) \/ ReplaceAssignments(r)

----------------------------------------------------------------------------
(* Properties *)

Replaced(r) == r \in Requests /\ pc[r] = "ok" /\ Is(r, "replace")

\* An update of an assignment gave it the rate it has.
MovedOnto(x) ==
    \E q \in Requests :
        /\ pc[q] = "ok" /\ Is(q, "updateTax") /\ call[q].table = "TaxAssignment"
        /\ call[q].id = x.id /\ call[q].col = "taxRateId" /\ call[q].ref = x.to["taxRateId"]

\* What a replacement assigned stands alone, but for what was assigned later, moved
\* onto the rate, or assigned by a request that met it: of two replacements whose
\* assignments are both there, each was at work together with the other
\* (replaceAssignmentsByTaxRate, updateTaxAssignment).
AssignmentsStandAlone ==
    \A x, y \in In("TaxAssignment", rows) :
        (/\ x # y /\ x.to["taxRateId"] = y.to["taxRateId"] /\ Replaced(x.id)
         /\ ~ MovedOnto(x) /\ ~ MovedOnto(y)) =>
            /\ y.id \in Requests
            /\ Replaced(y.id) => Met(x.id, y.id)

\* The tax on a sale line is that on its entities taken one by one, the effective
\* rate gives it back, but for what is charged on a line of nothing, and the totals
\* of both calculations agree, but for several of what has no tax
\* (TaxCalculationService).
TaxesAddUp ==
    \A E \in (SUBSET Entities) \ {{}}, b \in Purchases :
        /\ ComprehensiveTax(E, b) = MapThenSumSet(LAMBDA e : TaxByEntity(e, b), E)
        /\ EffectiveTimesTotal(AssignmentsFor(E), b) = ComprehensiveTax(E, b)
             <=> LineTotal(b) > 0 \/ FixedTax(AssignmentsFor(E), b) = 0
        /\ \A e \in E : TotalByEntity(e, b) = LineTotal(b) + ComprehensiveTax({e}, b)
                       \/ (AssignmentsFor({e}) = {} /\ b.quantity > 1)
=============================================================================
