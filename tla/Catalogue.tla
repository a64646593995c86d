------------------------------ MODULE Catalogue ------------------------------
(***************************************************************************)
(* The products of a store: rows of Products with their variants (a JSON    *)
(* array), rows of Pack, the suppliers of products and the inventory files   *)
(* that were uploaded (ProductService), and the sale of a variant            *)
(* (SaleInventoryService).                                                  *)
(*                                                                         *)
(* Statements commit one by one, except the deletion of a batch and an       *)
(* upload, which are transactions.  Promise.all starts a task per variant    *)
(* (pack, supplier); the first that throws ends the request, and the others   *)
(* go on.                                                                   *)
(*                                                                         *)
(* Prices, names, categories and the checks of store and client are left     *)
(* out.                                                                     *)
(***************************************************************************)
EXTENDS Integers, SequencesExt

CONSTANTS
    Requests,       \* HTTP writes; each is received at most once
    Seed,           \* the creator of the rows that are there at the start
    Suppliers,      \* ids of suppliers, sent by clients
    KnownSuppliers, \* those that exist
    NoSupplier,     \* no supplierId in a variant
    Codes,          \* values of pluUpc
    NoCode,         \* null
    Files,          \* hashes of inventory files
    RowsOf,         \* the rows of each file
    BareFiles,      \* the files whose first row has no CustomSKU
    SeedProducts,   \* the products at the start
    SeedPacks,      \* the packs at the start
    SeedLinks,      \* the suppliers of products at the start
    CreateBodies,   \* bodies of POST /product/create
    UpdateBodies,   \* bodies of PUT /product/:id
    Quantities      \* quantities that clients set

\* What request r creates first, second... is <<r, 1>>, <<r, 2>>...; a pack is
\* also told apart by the variant it is made for (0: the product itself).
ProductId == (Requests \cup {Seed}) \X Nat
PackId == (Requests \cup {Seed}) \X Nat \X Nat

Variant == [code : Codes, packs : SUBSET PackId, qty : Int]
Product == [code : Codes \cup {NoCode}, hasVariants : BOOLEAN,
            packIds : SUBSET PackId, variants : Seq(Variant), qty : Int]

SupplierState == {"primary", "secondary"}
\* A row of ProductSupplier; "unread" is a state a request has yet to choose.
Link == [product : ProductId, supplier : Suppliers, state : SupplierState]

\* The body of a create or an update; hv is hasVariants, packs the number of
\* packs, listed its productSuppliers.
VariantBody == [code : Codes, packs : Nat, supplier : Suppliers \cup {NoSupplier},
                qty : Int]
Body == [hv : {"yes", "no", "unset"}, code : Codes \cup {NoCode}, packs : Nat,
         given : BOOLEAN,
         listed : SUBSET [supplier : Suppliers, state : SupplierState],
         variants : Seq(VariantBody)]

\* A row of a file becomes a product of its own code, or one with variants and
\* no code; a row of a bare file always becomes the first.
FileRow == [code : Codes \cup {NoCode}, variants : Seq(Codes),
            supplier : Suppliers \cup {NoSupplier}]

ASSUME CatalogueAssumption ==
    /\ Seed \notin Requests
    /\ KnownSuppliers \subseteq Suppliers
    /\ NoSupplier \notin Suppliers
    /\ NoCode \notin Codes
    /\ RowsOf \in [Files -> Seq(FileRow)]
    /\ BareFiles \subseteq Files
    /\ DOMAIN SeedProducts \subseteq {Seed} \X Nat
    /\ \A p \in DOMAIN SeedProducts : SeedProducts[p] \in Product
    /\ DOMAIN SeedPacks \subseteq {Seed} \X Nat \X Nat
    /\ \A k \in DOMAIN SeedPacks : SeedPacks[k] \in DOMAIN SeedProducts
    /\ SeedLinks \subseteq Link
    /\ \A l \in SeedLinks : l.product \in DOMAIN SeedProducts
    /\ CreateBodies \cup UpdateBodies \subseteq Body
    /\ \A b \in CreateBodies \cup UpdateBodies :
         IsFiniteSet(b.listed) /\ (b.listed # {} => b.given)
    /\ Quantities \subseteq Nat

VARIABLES
    products,   \* the rows of Products, by id
    packs,      \* the product of each row of Pack
    links,      \* the rows of ProductSupplier
    files,      \* FileUploadInventory: the status of each file recorded
    pc,         \* what each request awaits
    call,       \* what it asks for
    read,       \* the products it works on, as it read them
    parts,      \* its tasks per variant: packs to make, then the supplier
    jobs,       \* the links it is making
    assigned,   \* assignedSuppliers
    left,       \* products it still counts to delete, or rows of its file done
    todo,       \* products whose variants it has yet to write
    raced       \* history: the pairs of requests that were at work together

db == <<products, packs, links, files>>
locals == <<call, read, parts, jobs, assigned, left, todo, raced>>
vars == <<db, pc, locals>>

Ended == {"ok", "refused", "failed"}
InFlight(r) == pc[r] \notin Ended \cup {"idle"}

DonePart == [packs |-> 0, sup |-> "done"]
Busy(r) ==
    \/ InFlight(r)
    \/ jobs[r] # {}
    \/ \E i \in DOMAIN parts[r] : parts[r][i] # DonePart

Target(r) == DOMAIN read[r]
Own(r) == <<r, 1>>
The(r) == CHOOSE p \in Target(r) : TRUE
Exists(p) == p \in DOMAIN products
PacksOf(S) == {k \in DOMAIN packs : packs[k] \in S}
Without(f, S) == [x \in DOMAIN f \ S |-> f[x]]
With(f, x, v) == [y \in DOMAIN f \cup {x} |-> IF y = x THEN v ELSE f[y]]
WithAll(f, g) ==
    [y \in DOMAIN f \cup DOMAIN g |-> IF y \in DOMAIN g THEN g[y] ELSE f[y]]
EmptyFun == [x \in {} |-> 0]
LinkOf(p, s, st) == [product |-> p, supplier |-> s, state |-> st]
Linked(p, s) == \E l \in links : l.product = p /\ l.supplier = s
CodesOf(vs) == {vs[i].code : i \in DOMAIN vs}

NoCall == [op |-> "none"]

Init ==
    /\ products = SeedProducts
    /\ packs = SeedPacks
    /\ links = SeedLinks
    /\ files = EmptyFun
    /\ pc = [r \in Requests |-> "idle"]
    /\ call = [r \in Requests |-> NoCall]
    /\ read = [r \in Requests |-> EmptyFun]
    /\ parts = [r \in Requests |-> EmptyFun]
    /\ jobs = [r \in Requests |-> {}]
    /\ assigned = [r \in Requests |-> {}]
    /\ left = [r \in Requests |-> 0]
    /\ todo = [r \in Requests |-> {}]
    /\ raced = {}

Goto(r, to) == pc' = [pc EXCEPT ![r] = to]

\* The request c is received, and reads the products in S.
Begin(r, c, S) ==
    /\ pc[r] = "idle"
    /\ call' = [call EXCEPT ![r] = c]
    /\ read' = [read EXCEPT ![r] = [p \in S |-> products[p]]]
    /\ raced' = raced \cup {{q, r} : q \in {x \in Requests : Busy(x)}}

\* A check throws before anything is written.
Refuse(r, c) ==
    /\ pc[r] = "idle"
    /\ call' = [call EXCEPT ![r] = c]
    /\ Goto(r, "refused")
    /\ UNCHANGED <<db, read, parts, jobs, assigned, left, todo, raced>>

\* A statement throws: what was written stays, the tasks under way go on.
Throws(r) ==
    /\ Goto(r, "failed")
    /\ UNCHANGED <<db, locals>>

----------------------------------------------------------------------------
(* Packs and suppliers of a body *)

WellFormed(b) ==
    /\ b.hv = "no" => b.variants = <<>>
    /\ b.hv = "yes" => b.packs = 0 /\ b.code = NoCode /\ b.variants # <<>>
    /\ b.listed # {} => Cardinality({l \in b.listed : l.state = "primary"}) = 1

\* Promise.all over the variants, or over the packs of the product.
PartsOf(b) ==
    IF b.hv = "yes"
    THEN [i \in DOMAIN b.variants |->
            [packs |-> b.variants[i].packs,
             sup |-> IF b.variants[i].supplier = NoSupplier THEN "done" ELSE "todo"]]
    ELSE [i \in {0} |-> [packs |-> b.packs, sup |-> "done"]]

EnterParts(r) ==
    /\ Goto(r, "parts")
    /\ parts' = [parts EXCEPT ![r] = PartsOf(call[r].body)]

\* A task throws, and with it the request, if that still runs.
PartThrows(r, i) ==
    /\ parts' = [parts EXCEPT ![r][i] = DonePart]
    /\ pc' = [pc EXCEPT ![r] = IF @ = "parts" THEN "failed" ELSE @]
    /\ UNCHANGED <<db, call, read, jobs, assigned, left, todo, raced>>

MakePack(r, i) ==
    LET n == parts[r][i].packs IN
    /\ n > 0
    /\ IF Exists(The(r))
       THEN /\ packs' = With(packs, <<r, i, n>>, The(r))
            /\ parts' = [parts EXCEPT ![r][i].packs = n - 1]
            /\ UNCHANGED <<products, links, files, pc, call, read, jobs, assigned,
                           left, todo, raced>>
       ELSE PartThrows(r, i)

\* The supplier of a variant is looked up, and whether it is assigned already.
CheckSupplier(r, i) ==
    LET s == call[r].body.variants[i].supplier IN
    /\ parts[r][i] = [packs |-> 0, sup |-> "todo"]
    /\ IF s \in KnownSuppliers
       THEN /\ parts' = [parts EXCEPT ![r][i].sup =
                           IF s \in assigned[r] THEN "done" ELSE "create"]
            /\ UNCHANGED <<db, pc, call, read, jobs, assigned, left, todo, raced>>
       ELSE PartThrows(r, i)

\* Unique (productId, supplierId) may throw.
LinkVariant(r, i) ==
    LET s == call[r].body.variants[i].supplier IN
    /\ parts[r][i] = [packs |-> 0, sup |-> "create"]
    /\ IF Exists(The(r)) /\ ~ Linked(The(r), s)
       THEN /\ links' = links \cup {LinkOf(The(r), s, "secondary")}
            /\ assigned' = [assigned EXCEPT ![r] = @ \cup {s}]
            /\ parts' = [parts EXCEPT ![r][i] = DonePart]
            /\ UNCHANGED <<products, packs, files, pc, call, read, jobs, left, todo, raced>>
       ELSE PartThrows(r, i)

Part(r) ==
    \E i \in DOMAIN parts[r] : MakePack(r, i) \/ CheckSupplier(r, i) \/ LinkVariant(r, i)

PartsDone(r) == \A i \in DOMAIN parts[r] : parts[r][i] = DonePart

PacksMade(r, i, n) == {<<r, i, k>> : k \in 1..n}
VariantsMade(r) ==
    LET vs == call[r].body.variants IN
    [i \in DOMAIN vs |-> [code |-> vs[i].code, packs |-> PacksMade(r, i, vs[i].packs),
                          qty |-> vs[i].qty]]

----------------------------------------------------------------------------
(* POST /product/create *)

BeginCreate(r, b) ==
    /\ WellFormed(b)
    /\ Begin(r, [op |-> "create", body |-> b], {})
    /\ Goto(r, "product")
    /\ UNCHANGED <<db, parts, jobs, assigned, left, todo>>

RefuseCreate(r, b) ==
    /\ ~ WellFormed(b)
    /\ Refuse(r, [op |-> "create", body |-> b])

\* The row has neither packs nor variants yet; no code is compared with others.
CreateProduct(r) ==
    LET b == call[r].body
        row == [code |-> b.code, hasVariants |-> b.hv = "yes", packIds |-> {},
                variants |-> <<>>, qty |-> 0]
    IN
    /\ pc[r] = "product"
    /\ products' = With(products, Own(r), row)
    /\ read' = [read EXCEPT ![r] = [p \in {Own(r)} |-> row]]
    /\ IF b.listed = {} THEN EnterParts(r)
       ELSE Goto(r, "suppliers") /\ UNCHANGED parts
    /\ UNCHANGED <<packs, links, files, call, jobs, assigned, left, todo, raced>>

\* The suppliers are looked up after the product was written.
FindSuppliers(r) ==
    LET listed == call[r].body.listed IN
    /\ pc[r] = "suppliers"
    /\ IF {l.supplier : l \in listed} \subseteq KnownSuppliers
       THEN /\ jobs' = [jobs EXCEPT ![r] =
                          {LinkOf(Own(r), l.supplier, l.state) : l \in listed}]
            /\ assigned' = [assigned EXCEPT ![r] = {l.supplier : l \in listed}]
            /\ Goto(r, "links")
            /\ UNCHANGED <<db, call, read, parts, left, todo, raced>>
       ELSE Throws(r)

\* One of the links made at a time; the last one lets the request go on.
MakeLink(r, l) ==
    /\ call[r].op = "create"
    /\ l \in jobs[r]
    /\ jobs' = [jobs EXCEPT ![r] = @ \ {l}]
    /\ IF Exists(l.product) /\ ~ Linked(l.product, l.supplier)
       THEN /\ links' = links \cup {l}
            /\ IF pc[r] = "links" /\ jobs[r] = {l} THEN EnterParts(r)
               ELSE UNCHANGED <<pc, parts>>
       ELSE /\ pc' = [pc EXCEPT ![r] = IF @ = "links" THEN "failed" ELSE @]
            /\ UNCHANGED <<links, parts>>
    /\ UNCHANGED <<products, packs, files, call, read, assigned, left, todo, raced>>

FinishCreate(r) ==
    LET b == call[r].body
        p == Own(r)
        nothing == b.hv = "no" /\ b.packs = 0
    IN
    /\ call[r].op = "create" /\ pc[r] = "parts" /\ PartsDone(r)
    /\ nothing \/ Exists(p)
    /\ products' = IF nothing THEN products
                   ELSE IF b.hv = "yes"
                   THEN [products EXCEPT ![p].variants = VariantsMade(r)]
                   ELSE [products EXCEPT ![p].packIds = PacksMade(r, 0, b.packs)]
    /\ Goto(r, "ok")
    /\ UNCHANGED <<packs, links, files, locals>>

----------------------------------------------------------------------------
(* PUT /product/:id *)

\* Codes are compared with the codes of other products, not with those of
\* other variants.
CodesFree(p, b) ==
    LET others == {products[q].code : q \in DOMAIN products \ {p}} IN
    /\ (b.hv = "no" /\ b.code # NoCode /\ b.code # products[p].code) =>
         b.code \notin others
    /\ b.hv = "yes" => /\ IsInjective([i \in DOMAIN b.variants |-> b.variants[i].code])
                       /\ CodesOf(b.variants) \cap others = {}

UpdateChecked(p, b) ==
    /\ WellFormed(b)
    /\ CodesFree(p, b)
    /\ {l.supplier : l \in b.listed} \subseteq KnownSuppliers

BeginUpdate(r, p, b) ==
    /\ Exists(p) /\ UpdateChecked(p, b)
    /\ Begin(r, [op |-> "update", body |-> b], {p})
    /\ assigned' = [assigned EXCEPT ![r] = {l.supplier : l \in b.listed}]
    /\ Goto(r, "wipe")
    /\ UNCHANGED <<db, parts, jobs, left, todo>>

RefuseUpdate(r, p, b) ==
    /\ Exists(p) /\ ~ UpdateChecked(p, b)
    /\ Refuse(r, [op |-> "update", body |-> b])

\* Mutant: the packs of the product stay.
WipeNothing(r) ==
    /\ pc[r] = "wipe"
    /\ EnterParts(r)
    /\ UNCHANGED <<db, call, read, jobs, assigned, left, todo, raced>>

WipePacks(r) ==
    /\ pc[r] = "wipe"
    /\ packs' = Without(packs, PacksOf(Target(r)))
    /\ EnterParts(r)
    /\ UNCHANGED <<products, links, files, call, read, jobs, assigned, left, todo, raced>>

\* A body that leaves packs or variants out empties them.
Updated(r, row) ==
    LET b == call[r].body IN
    [row EXCEPT !.code = IF b.hv = "yes" THEN NoCode
                         ELSE IF b.hv = "no" /\ b.code # NoCode THEN b.code ELSE @,
                !.hasVariants = IF b.hv = "unset" THEN @ ELSE b.hv = "yes",
                !.packIds = IF b.hv = "yes" THEN {} ELSE PacksMade(r, 0, b.packs),
                !.variants = IF b.hv = "yes" THEN VariantsMade(r) ELSE <<>>]

WriteUpdate(r) ==
    LET p == The(r) IN
    /\ call[r].op = "update" /\ pc[r] = "parts" /\ PartsDone(r)
    /\ Exists(p)
    /\ products' = [products EXCEPT ![p] = Updated(r, @)]
    /\ Goto(r, IF call[r].body.given THEN "unlink" ELSE "ok")
    /\ UNCHANGED <<packs, links, files, locals>>

\* Mutant: the suppliers that were there are kept.
UnlinkNothing(r) ==
    /\ pc[r] = "unlink"
    /\ Goto(r, IF call[r].body.listed = {} THEN "ok" ELSE "relink")
    /\ UNCHANGED <<products, packs, links, files, locals>>

Unlink(r) ==
    /\ pc[r] = "unlink"
    /\ links' = {l \in links : l.product \notin Target(r)}
    /\ Goto(r, IF call[r].body.listed = {} THEN "ok" ELSE "relink")
    /\ UNCHANGED <<products, packs, files, locals>>

\* No supplier twice in the list, nor once more than in the table.
RelinkFits(r) ==
    LET listed == call[r].body.listed IN
    /\ \A l \in listed : Exists(The(r)) /\ ~ Linked(The(r), l.supplier)
    /\ \A l, m \in listed : l.supplier = m.supplier => l = m

Relink(r) ==
    /\ pc[r] = "relink" /\ RelinkFits(r)
    /\ links' = links \cup {LinkOf(The(r), l.supplier, l.state) : l \in call[r].body.listed}
    /\ Goto(r, "ok")
    /\ UNCHANGED <<products, packs, files, locals>>

RelinkThrows(r) ==
    /\ pc[r] = "relink" /\ ~ RelinkFits(r)
    /\ Throws(r)

\* products.update finds no row: the product was deleted meanwhile.
PartsThrow(r) ==
    /\ pc[r] = "parts" /\ PartsDone(r)
    /\ call[r].op = "create" => call[r].body.hv = "yes" \/ call[r].body.packs > 0
    /\ ~ Exists(The(r))
    /\ Throws(r)

----------------------------------------------------------------------------
(* DELETE /product/:id, /product/delete/many, /product/delete/all *)

BeginDelete(r, S) ==
    /\ S # {} /\ S \subseteq DOMAIN products
    /\ Begin(r, [op |-> "delete"], S)
    /\ Goto(r, "packs")
    /\ UNCHANGED <<db, parts, jobs, assigned, left, todo>>

DeletePacks(r) ==
    /\ pc[r] = "packs"
    /\ packs' = Without(packs, PacksOf(Target(r)))
    /\ Goto(r, "erase")
    /\ UNCHANGED <<products, links, files, locals>>

\* Mutant: the links do not cascade.
EraseRows(S) ==
    /\ products' = Without(products, S)
    /\ UNCHANGED links

\* The rows go, and by cascade their links.
Erase(S) ==
    /\ products' = Without(products, S)
    /\ links' = {l \in links : l.product \notin S}

\* A pack made meanwhile refers to a row, or the one row is gone already.
RowsStay(r) ==
    \/ PacksOf(Target(r)) # {}
    \/ Cardinality(Target(r)) = 1 /\ ~ Exists(The(r))

DeleteRows(r) ==
    /\ pc[r] = "erase" /\ ~ RowsStay(r)
    /\ Erase(Target(r))
    /\ Goto(r, "ok")
    /\ UNCHANGED <<packs, files, locals>>

DeleteThrows(r) ==
    /\ pc[r] = "erase" /\ RowsStay(r)
    /\ Throws(r)

\* The products are counted.
BeginDeleteAll(r) ==
    /\ products # EmptyFun
    /\ Begin(r, [op |-> "deleteAll"], {})
    /\ left' = [left EXCEPT ![r] = Cardinality(DOMAIN products)]
    /\ Goto(r, "find")
    /\ UNCHANGED <<db, parts, jobs, assigned, todo>>

\* The next batch: all there are, batches being large.
FindBatch(r) ==
    /\ pc[r] = "find"
    /\ IF left[r] <= 0 \/ products = EmptyFun
       THEN Goto(r, "clean") /\ UNCHANGED read
       ELSE /\ read' = [read EXCEPT ![r] = WithAll(@, products)]
            /\ Goto(r, "batch")
    /\ UNCHANGED <<db, call, parts, jobs, assigned, left, todo, raced>>

\* One transaction; rows deleted meanwhile count as well.
DeleteBatch(r) ==
    /\ pc[r] = "batch"
    /\ packs' = Without(packs, PacksOf(Target(r)))
    /\ Erase(Target(r))
    /\ left' = [left EXCEPT ![r] = @ - Cardinality(Target(r))]
    /\ Goto(r, "find")
    /\ UNCHANGED <<files, call, read, parts, jobs, assigned, todo, raced>>

\* A task of another request makes a pack between the two statements.
BatchThrows(r) ==
    /\ pc[r] = "batch"
    /\ \E q \in Requests \ {r} : \E i \in DOMAIN parts[q] :
         parts[q][i].packs > 0 /\ The(q) \in Target(r)
    /\ Throws(r)

\* The records of uploads go; should that throw, the request succeeds the same.
CleanFiles(r) ==
    /\ pc[r] = "clean"
    /\ files' \in {EmptyFun, files}
    /\ Goto(r, "ok")
    /\ UNCHANGED <<products, packs, links, locals>>

----------------------------------------------------------------------------
(* POST /product/assign-supplier *)

Unread(p, s) == [product |-> p, supplier |-> s, state |-> "unread"]

BeginAssign(r, s, S) ==
    /\ s \in KnownSuppliers /\ S # {}
    /\ Begin(r, [op |-> "assign", supplier |-> s], S)
    /\ jobs' = [jobs EXCEPT ![r] = {Unread(p, s) : p \in S}]
    /\ Goto(r, "assign")
    /\ UNCHANGED <<db, parts, assigned, left, todo>>

\* The first supplier of a product is its primary one.  A product that is gone
\* or has the supplier already is reported and skipped.
ReadLinks(r, j) ==
    LET first == \A l \in links : l.product # j.product IN
    /\ j \in jobs[r] /\ j.state = "unread"
    /\ jobs' = [jobs EXCEPT ![r] = (@ \ {j}) \cup
                  IF ~ Exists(j.product) \/ Linked(j.product, j.supplier) THEN {}
                  ELSE {[j EXCEPT !.state = IF first THEN "primary" ELSE "secondary"]}]
    /\ UNCHANGED <<db, pc, call, read, parts, assigned, left, todo, raced>>

AssignLink(r, j) ==
    /\ call[r].op = "assign"
    /\ j \in jobs[r] /\ j.state # "unread"
    /\ jobs' = [jobs EXCEPT ![r] = @ \ {j}]
    /\ links' = IF Exists(j.product) /\ ~ Linked(j.product, j.supplier)
                THEN links \cup {j} ELSE links
    /\ UNCHANGED <<products, packs, files, pc, call, read, parts, assigned, left, todo, raced>>

FinishAssign(r) ==
    /\ pc[r] = "assign" /\ jobs[r] = {}
    /\ Goto(r, "ok")
    /\ UNCHANGED <<db, locals>>

Link_(r) == \E j \in jobs[r] : MakeLink(r, j) \/ ReadLinks(r, j) \/ AssignLink(r, j)

----------------------------------------------------------------------------
(* DELETE /product/packs/:packId *)

BeginDeletePack(r, k) ==
    /\ k \in DOMAIN packs
    /\ Begin(r, [op |-> "deletePack", pack |-> k], {packs[k]})
    /\ Goto(r, "pack")
    /\ UNCHANGED <<db, parts, jobs, assigned, left, todo>>

DeletePack(r) ==
    LET k == call[r].pack IN
    /\ pc[r] = "pack" /\ k \in DOMAIN packs
    /\ packs' = Without(packs, {k})
    /\ Goto(r, "unlist")
    /\ UNCHANGED <<products, links, files, locals>>

\* The pack is deleted already.
DeletePackThrows(r) ==
    /\ pc[r] = "pack" /\ call[r].pack \notin DOMAIN packs
    /\ Throws(r)

\* The list, as it was read, without the pack.
UnlistPack(r) ==
    /\ pc[r] = "unlist" /\ Exists(The(r))
    /\ products' = [products EXCEPT ![The(r)].packIds =
                      read[r][The(r)].packIds \ {call[r].pack}]
    /\ Goto(r, "ok")
    /\ UNCHANGED <<packs, links, files, locals>>

\* The product the request read is deleted.
WriteThrows(r) ==
    /\ pc[r] \in {"unlist", "variants", "quantity"}
    /\ \E p \in IF pc[r] = "variants" THEN todo[r] ELSE Target(r) : ~ Exists(p)
    /\ Throws(r)

----------------------------------------------------------------------------
(* PATCH /product/:id/quantity; PATCH and DELETE of variants; sales of variants *)

BeginQuantity(r, p, n) ==
    /\ Exists(p) /\ n >= 1
    /\ Begin(r, [op |-> "quantity", qty |-> n], {p})
    /\ Goto(r, "quantity")
    /\ UNCHANGED <<db, parts, jobs, assigned, left, todo>>

WriteQuantity(r) ==
    /\ pc[r] = "quantity" /\ Exists(The(r))
    /\ products' = [products EXCEPT ![The(r)].qty = call[r].qty]
    /\ Goto(r, "ok")
    /\ UNCHANGED <<packs, links, files, locals>>

HasCode(p, C) == products[p].hasVariants /\ CodesOf(products[p].variants) \cap C # {}

\* Some product with a variant of the code; all of them for a list of codes.
BeginVariants(r, op, C, n) ==
    LET found == {p \in DOMAIN products : HasCode(p, C)} IN
    /\ \E S \in IF op = "deleteSelected" THEN {found} ELSE {{p} : p \in found} :
         /\ S # {}
         /\ Begin(r, [op |-> op, codes |-> C, qty |-> n], S)
         /\ todo' = [todo EXCEPT ![r] = S]
    /\ Goto(r, "variants")
    /\ UNCHANGED <<db, parts, jobs, assigned, left>>

\* Mutant: every variant of the product gets the quantity.
SetAll(vs, C, n) == [i \in DOMAIN vs |-> [vs[i] EXCEPT !.qty = n]]

\* The first variant of the code gets quantity n.
Set(vs, C, n) ==
    LET hits == {i \in DOMAIN vs : vs[i].code \in C} IN
    [i \in DOMAIN vs |->
       IF i \in hits /\ \A j \in hits : i <= j THEN [vs[i] EXCEPT !.qty = n] ELSE vs[i]]

\* The variants whose code is not in C, in their order.
Others(vs, C) ==
    LET kept == {i \in DOMAIN vs : vs[i].code \notin C}
        nth(n) == CHOOSE i \in kept : Cardinality({j \in kept : j <= i}) = n
    IN  [n \in 1..Cardinality(kept) |-> vs[nth(n)]]

QtyOf(vs, C) == vs[Min({i \in DOMAIN vs : vs[i].code \in C})].qty

\* The array, computed from the array as it was read.
NewVariants(r, p) ==
    LET vs == read[r][p].variants
        C == call[r].codes
    IN
    CASE call[r].op = "setVariant" -> Set(vs, C, call[r].qty)
      [] call[r].op = "sellVariant" -> Set(vs, C, QtyOf(vs, C) - call[r].qty)
      [] OTHER -> Others(vs, C)

\* One statement per product.
WriteVariants(r, p) ==
    /\ pc[r] = "variants" /\ p \in todo[r] /\ Exists(p)
    /\ products' = [products EXCEPT
         ![p].variants = NewVariants(r, p),
         ![p].hasVariants = IF call[r].op = "deleteSelected"
                            THEN NewVariants(r, p) # <<>> ELSE @]
    /\ todo' = [todo EXCEPT ![r] = @ \ {p}]
    /\ Goto(r, IF todo[r] = {p} THEN "ok" ELSE "variants")
    /\ UNCHANGED <<packs, links, files, call, read, parts, jobs, assigned, left, raced>>

----------------------------------------------------------------------------
(* POST /product/uploadsheet *)

\* The file has not been uploaded.
BeginUpload(r, f) ==
    /\ f \notin DOMAIN files
    /\ Begin(r, [op |-> "upload", file |-> f], {})
    /\ Goto(r, "register")
    /\ UNCHANGED <<db, parts, jobs, assigned, left, todo>>

RefuseUpload(r, f) ==
    /\ f \in DOMAIN files
    /\ Refuse(r, [op |-> "upload", file |-> f])

Uploading(r) == pc[r] = "rows"

\* Mutant: (storeId, fileHash) is not unique.
RegisterTwice(r) ==
    /\ pc[r] = "register"
    /\ Goto(r, "rows")
    /\ UNCHANGED <<db, locals>>

\* The transaction opens with the record of the file: an insertion of the same
\* hash waits for the transaction that made one, and throws when that commits.
Register(r) ==
    LET f == call[r].file IN
    /\ pc[r] = "register"
    /\ \A q \in Requests : Uploading(q) => call[q].file # f
    /\ Goto(r, IF f \in DOMAIN files THEN "mark" ELSE "rows")
    /\ UNCHANGED <<db, locals>>

\* The file is bare: its rows are inserted in bulk (createMany).
InBulk(r) == call[r].file \in BareFiles

RowCode(row) == IF row.variants = <<>> THEN row.code ELSE NoCode

\* The product of a row: one pack for it, or one per variant; in bulk, neither.
UploadedRow(r, i) ==
    LET row == RowsOf[call[r].file][i] IN
    IF InBulk(r)
    THEN [code |-> row.code, hasVariants |-> FALSE, qty |-> 0, packIds |-> {},
          variants |-> <<>>]
    ELSE [code |-> RowCode(row), hasVariants |-> row.variants # <<>>, qty |-> 0,
          packIds |-> IF row.variants = <<>> THEN {<<r, i, 0>>} ELSE {},
          variants |-> [j \in DOMAIN row.variants |->
                          [code |-> row.variants[j], packs |-> {<<r, i, j>>}, qty |-> 0]]]

UploadedPacks(r, i) ==
    LET n == Len(RowsOf[call[r].file][i].variants) IN
    IF InBulk(r) THEN {} ELSE {<<r, i, j>> : j \in IF n = 0 THEN {0} ELSE 1..n}

\* A row without variants whose code the store has, or an earlier row, rolls
\* the transaction back; in bulk no code is compared.
Row(r) ==
    LET rows == RowsOf[call[r].file]
        i == left[r] + 1
        taken == {products[p].code : p \in DOMAIN products} \cup
                 {RowCode(rows[j]) : j \in 1..(i - 1)}
        clash == ~ InBulk(r) /\ RowCode(rows[i]) \in taken \ {NoCode}
    IN
    /\ Uploading(r) /\ left[r] < Len(rows)
    /\ IF clash THEN Goto(r, "mark") /\ UNCHANGED left
       ELSE left' = [left EXCEPT ![r] = i] /\ UNCHANGED pc
    /\ UNCHANGED <<db, call, read, parts, jobs, assigned, todo, raced>>

CommitUpload(r) ==
    LET rows == RowsOf[call[r].file]
        new == [p \in {<<r, i>> : i \in DOMAIN rows} |-> UploadedRow(r, p[2])]
        newPacks == UNION {UploadedPacks(r, i) : i \in DOMAIN rows}
        vended == {i \in DOMAIN rows : rows[i].supplier # NoSupplier /\ ~ InBulk(r)}
    IN
    /\ Uploading(r) /\ left[r] = Len(rows)
    /\ products' = WithAll(products, new)
    /\ packs' = WithAll(packs, [k \in newPacks |-> <<r, k[2]>>])
    /\ links' = links \cup {LinkOf(<<r, i>>, rows[i].supplier, "primary") : i \in vended}
    /\ files' = With(files, call[r].file, "completed")
    /\ read' = [read EXCEPT ![r] = new]
    /\ Goto(r, "ok")
    /\ UNCHANGED <<call, parts, jobs, assigned, left, todo, raced>>

\* The transaction runs into its limit of four minutes.
UploadExpires(r) ==
    /\ Uploading(r)
    /\ Goto(r, "mark")
    /\ UNCHANGED <<db, locals>>

\* After a rollback, a record of the file, be it another request's, is marked.
MarkFailed(r) ==
    LET f == call[r].file IN
    /\ pc[r] = "mark"
    /\ files' = IF f \in DOMAIN files THEN [files EXCEPT ![f] = "failed"] ELSE files
    /\ Goto(r, "failed")
    /\ UNCHANGED <<products, packs, links, locals>>

----------------------------------------------------------------------------
(* The specification *)

\* No connection for the next statement.
NoConnection(r) ==
    /\ InFlight(r) /\ pc[r] \notin {"rows", "register", "mark"}
    /\ Throws(r)

\* The process dies, with every request and task.
Crash ==
    /\ \E r \in Requests : Busy(r)
    /\ pc' = [r \in Requests |-> IF InFlight(r) THEN "failed" ELSE pc[r]]
    /\ jobs' = [r \in Requests |-> {}]
    /\ parts' = [r \in Requests |-> EmptyFun]
    /\ UNCHANGED <<db, call, read, assigned, left, todo, raced>>

Step(r) ==
    \/ CreateProduct(r) \/ FindSuppliers(r) \/ FinishCreate(r)
    \/ WipePacks(r) \/ WriteUpdate(r) \/ Unlink(r) \/ Relink(r) \/ RelinkThrows(r)
    \/ PartsThrow(r)
    \/ DeletePacks(r) \/ DeleteRows(r) \/ DeleteThrows(r)
    \/ FindBatch(r) \/ DeleteBatch(r) \/ BatchThrows(r) \/ CleanFiles(r)
    \/ FinishAssign(r)
    \/ DeletePack(r) \/ DeletePackThrows(r) \/ UnlistPack(r) \/ WriteThrows(r)
    \/ WriteQuantity(r)
    \/ \E p \in todo[r] : WriteVariants(r, p)
    \/ Register(r) \/ Row(r) \/ CommitUpload(r) \/ MarkFailed(r)

Receive(r) ==
    /\ pc[r] = "idle"
    /\ \/ \E b \in CreateBodies : BeginCreate(r, b) \/ RefuseCreate(r, b)
       \/ \E p \in DOMAIN products, b \in UpdateBodies :
            BeginUpdate(r, p, b) \/ RefuseUpdate(r, p, b)
       \/ \E S \in SUBSET DOMAIN products : BeginDelete(r, S)
       \/ BeginDeleteAll(r)
       \/ \E s \in Suppliers, S \in SUBSET DOMAIN products : BeginAssign(r, s, S)
       \/ \E k \in DOMAIN packs : BeginDeletePack(r, k)
       \/ \E n \in Quantities :
            \/ \E p \in DOMAIN products : BeginQuantity(r, p, n)
            \/ \E c \in Codes : \/ BeginVariants(r, "setVariant", {c}, n)
                                \/ BeginVariants(r, "sellVariant", {c}, n)
       \/ \E c \in Codes : BeginVariants(r, "deleteVariant", {c}, 0)
       \/ \E C \in SUBSET Codes : BeginVariants(r, "deleteSelected", C, 0)
       \/ \E f \in Files : BeginUpload(r, f) \/ RefuseUpload(r, f)

Next ==
    \/ \E r \in Requests : Receive(r) \/ Step(r) \/ Part(r) \/ Link_(r)
    \/ \E r \in Requests : UploadExpires(r) \/ NoConnection(r)
    \/ Crash

Spec == Init /\ [][Next]_vars

----------------------------------------------------------------------------
(* Properties *)

Pcs == Ended \cup {"idle", "product", "suppliers", "links", "parts", "wipe", "unlink",
                  "relink", "packs", "erase", "rows", "find", "batch", "clean", "assign",
                  "pack", "unlist", "variants", "quantity", "register", "mark"}

TypeOK ==
    /\ DOMAIN products \subseteq ProductId
    /\ \A p \in DOMAIN products : products[p] \in Product
    /\ DOMAIN packs \subseteq PackId
    /\ \A k \in DOMAIN packs : packs[k] \in DOMAIN products
    /\ links \subseteq Link
    /\ \A l \in links : l.product \in DOMAIN products
    /\ DOMAIN files \subseteq Files
    /\ \A f \in DOMAIN files : files[f] \in {"completed", "failed"}
    /\ pc \in [Requests -> Pcs]
    /\ \A r \in Requests : todo[r] \subseteq Target(r)

\* Two requests that worked on product p were at work at the same time.
Raced(p) ==
    \E q, r \in Requests :
        q # r /\ {q, r} \in raced /\ p \in Target(q) \cap Target(r)

Alone(r) == \A p \in Target(r) : ~ Raced(p)

\* Every request that worked on p succeeded, and no two at a time.
Quiet(p) ==
    /\ ~ Raced(p)
    /\ \A r \in Requests : p \in Target(r) => pc[r] = "ok"

ListedPacks(row) == row.packIds \cup UNION {v.packs : v \in Range(row.variants)}

DidOn(p, ops) == \E r \in Requests : p \in Target(r) /\ call[r].op \in ops

\* A product and its variants list exactly its packs: replacing all packs and
\* rewriting the lists are many statements.  A pack deleted on its own stays
\* in the list of its variant, a variant that is deleted leaves its packs.
PacksAgree ==
    \A p \in DOMAIN products : Quiet(p) =>
        /\ ~ DidOn(p, {"deletePack"}) =>
             ListedPacks(products[p]) \subseteq PacksOf({p})
        /\ ~ DidOn(p, {"deleteVariant", "deleteSelected"}) =>
             PacksOf({p}) \subseteq ListedPacks(products[p])
        /\ products[p].packIds \subseteq PacksOf({p})

\* The products a store starts with list the packs they have.
SeedPacksAgree ==
    \A p \in DOMAIN SeedProducts :
        ListedPacks(SeedProducts[p]) = {k \in DOMAIN SeedPacks : SeedPacks[k] = p}

Primaries(p) == {l \in links : l.product = p /\ l.state = "primary"}

\* A product has one primary supplier at most, also when requests fail halfway,
\* unless two requests worked on it at a time.
OnePrimary ==
    \A p \in DOMAIN products : Raced(p) \/ Cardinality(Primaries(p)) <= 1

\* The products a store starts with have one primary supplier at most, and share
\* no code.
SeedsHaveOnePrimary ==
    \A l, m \in SeedLinks :
        (l.product = m.product /\ l.state = "primary" /\ m.state = "primary") => l = m

SeedsHaveOwnCodes ==
    \A p, q \in DOMAIN SeedProducts :
        (p # q /\ SeedProducts[p].code = SeedProducts[q].code) => SeedProducts[p].code = NoCode

CodeWriters(p) ==
    {r \in Requests : p \in Target(r) /\ call[r].op \in {"create", "update", "upload"}}

\* Requests that compare the code of a product with no other.
Unchecked(r) == call[r].op = "create" \/ (call[r].op = "upload" /\ InBulk(r))

\* Two products share a code only if one was created with it or comes from a bare
\* file, which checks nothing, or if the requests that wrote them overlapped.
SharedCodesAreRaced ==
    \A p, q \in DOMAIN products :
        (p # q /\ products[p].code = products[q].code /\ products[p].code # NoCode) =>
            \E r, s \in CodeWriters(p) \cup CodeWriters(q) :
                Unchecked(r) \/ {r, s} \in raced

\* What no index of the database keeps unique and the code means to: the primary
\* supplier of a product and the code of a product (assignSupplier, createProduct).
UniqueByCode == OnePrimary /\ SharedCodesAreRaced

Uploads(f) == {r \in Requests : call[r].op = "upload" /\ call[r].file = f}

\* However uploads overlap and are retried, a file is added once, unless all
\* products were deleted in between; and it is recorded as failed only when two
\* uploads of it overlapped: the record of an upload that fails alone is rolled
\* back.
FilesTellTruth ==
    /\ \A f \in Files :
         Cardinality({r \in Uploads(f) : pc[r] = "ok"}) <=
             1 + Cardinality({r \in Requests : call[r].op = "deleteAll" /\ pc[r] = "ok"})
    /\ \A f \in DOMAIN files :
         files[f] = "failed" => \E q, r \in Uploads(f) : q # r /\ {q, r} \in raced

\* The product is what the body says.
Matches(p, b) ==
    LET row == products[p] IN
    /\ \A l \in b.listed : LinkOf(p, l.supplier, l.state) \in links
    /\ IF b.hv = "yes"
       THEN /\ Len(row.variants) = Len(b.variants)
            /\ \A i \in DOMAIN b.variants :
                 /\ row.variants[i].code = b.variants[i].code
                 /\ row.variants[i].packs \subseteq PacksOf({p})
                 /\ Cardinality(row.variants[i].packs) = b.variants[i].packs
       ELSE row.packIds \subseteq PacksOf({p}) /\ Cardinality(row.packIds) = b.packs

\* The variants r did not name are what they were.
OthersKept(r, p) ==
    Others(products[p].variants, call[r].codes) = Others(read[r][p].variants, call[r].codes)

Achieved(r) ==
    LET c == call[r] IN
    CASE c.op \in {"create", "update"} ->
           \A p \in Target(r) : Exists(p) /\ Matches(p, c.body)
      [] c.op \in {"delete", "deleteAll"} ->
           /\ Target(r) \cap DOMAIN products = {}
           /\ PacksOf(Target(r)) = {}
      [] c.op = "assign" -> \A p \in Target(r) : Exists(p) => Linked(p, c.supplier)
      [] c.op = "deletePack" -> c.pack \notin DOMAIN packs
      [] c.op = "quantity" -> products[The(r)].qty = c.qty
      [] c.op \in {"deleteVariant", "deleteSelected"} ->
           \A p \in Target(r) :
             OthersKept(r, p) /\ CodesOf(products[p].variants) \cap c.codes = {}
      [] c.op \in {"setVariant", "sellVariant"} -> OthersKept(r, The(r))
      [] OTHER -> files[c.file] = "completed" /\ Target(r) \subseteq DOMAIN products

\* A request that answers with success has done what it was asked, all of it,
\* unless another worked on its products meanwhile.
SuccessIsComplete ==
    [][\A r \in Requests :
         (pc[r] # "ok" /\ pc'[r] = "ok") => (Achieved(r) \/ ~ Alone(r))']_vars
===============================================================================
