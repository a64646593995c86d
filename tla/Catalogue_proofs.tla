-------------------------- MODULE Catalogue_proofs --------------------------
(***************************************************************************)
(* Proofs about Catalogue, for every set of products, requests, bodies and  *)
(* files.                                                                   *)
(*                                                                         *)
(* TypeInv types the local state of each request, with what its kind of     *)
(* request awaits and works on; Effect says what a step of it may change of  *)
(* the tables; Together, that requests at work have met.  On these rest the  *)
(* proofs about uploaded files, primary suppliers, codes and packs.           *)
(***************************************************************************)
EXTENDS Catalogue, FoldTheorems, FiniteSetTheorems, TLAPS

----------------------------------------------------------------------------
(* The inductive invariant *)

VariantOps == {"setVariant", "sellVariant", "deleteVariant", "deleteSelected"}
Ops == VariantOps \cup {"none", "create", "update", "delete", "deleteAll", "assign",
                        "deletePack", "quantity", "upload"}

\* A request holds what its kind of request carries.
CallTyped(c) ==
    /\ c.op \in Ops
    /\ c.op \in {"create", "update"} => c.body \in CreateBodies \cup UpdateBodies
    /\ c.op = "assign" => c.supplier \in Suppliers
    /\ c.op = "deletePack" => c.pack \in PackId
    /\ c.op = "quantity" => c.qty \in Int
    /\ c.op \in VariantOps => c.codes \in SUBSET Codes /\ c.qty \in Int
    /\ c.op = "upload" => c.file \in Files

\* It awaits what its kind of request awaits.
InPhase(r) ==
    LET op == call[r].op IN
    /\ pc[r] = "idle" <=> op = "none"
    /\ pc[r] \in {"product", "suppliers", "links"} => op = "create"
    /\ pc[r] = "parts" => op \in {"create", "update"}
    /\ pc[r] \in {"wipe", "unlink", "relink"} => op = "update"
    /\ pc[r] \in {"packs", "erase"} => op = "delete"
    /\ pc[r] \in {"find", "batch", "clean"} => op = "deleteAll"
    /\ pc[r] = "assign" => op = "assign"
    /\ pc[r] \in {"pack", "unlist"} => op = "deletePack"
    /\ pc[r] = "quantity" => op = "quantity"
    /\ pc[r] = "variants" => op \in VariantOps
    /\ pc[r] \in {"register", "rows", "mark"} => op = "upload"
    /\ (op \in {"create", "update"} /\ pc[r] # "refused") => WellFormed(call[r].body)

OneTarget == {"update", "deletePack", "quantity", "setVariant", "sellVariant", "deleteVariant"}

\* It works on the products its kind of request works on.
OnTarget(r) ==
    LET op == call[r].op IN
    /\ read[r] \in [Target(r) -> Product]
    /\ Target(r) \subseteq ProductId
    /\ pc[r] \in {"idle", "product", "register", "rows", "mark", "refused"} => Target(r) = {}
    /\ op = "create" => Target(r) \subseteq {Own(r)}
    /\ (op = "create" /\ pc[r] \in {"suppliers", "links", "parts", "ok"}) => Target(r) # {}
    /\ op = "upload" => Target(r) \subseteq {r} \X Nat
    /\ (op \in OneTarget /\ pc[r] # "refused") => \E p \in Target(r) : Target(r) = {p}
    /\ todo[r] \subseteq Target(r)
    /\ todo[r] # {} => op \in VariantOps
    /\ op \in VariantOps =>
         \A p \in Target(r) : CodesOf(read[r][p].variants) \cap call[r].codes # {}
    /\ op \in {"none", "upload"} => left[r] \in Nat

\* A task per variant of the body, or one for the product.
TaskTyped(r, i) ==
    LET b == call[r].body
        part == parts[r][i]
    IN
    /\ part \in [packs : Nat, sup : {"todo", "create", "done"}]
    /\ call[r].op \in {"create", "update"} /\ pc[r] # "refused" /\ Target(r) # {}
    /\ i \in DOMAIN PartsOf(b)
    /\ part.packs <= PartsOf(b)[i].packs
    /\ part.sup # "done" => b.hv = "yes" /\ b.variants[i].supplier \in Suppliers

TasksTyped(r) ==
    /\ parts[r] = [i \in DOMAIN parts[r] |-> parts[r][i]]
    /\ \A i \in DOMAIN parts[r] : TaskTyped(r, i)
    /\ pc[r] \in {"idle", "product", "suppliers", "links", "wipe"} => DOMAIN parts[r] = {}
    /\ pc[r] \notin {"parts", "failed"} => PartsDone(r)
    /\ pc[r] = "parts" => DOMAIN parts[r] = DOMAIN PartsOf(call[r].body)

\* The links of a request that creates a product, or assigns a supplier.
JobsTyped(r) ==
    LET op == call[r].op IN
    /\ op = "create" =>
         \A l \in jobs[r] : l \in Link /\ l.product = Own(r) /\ Target(r) = {Own(r)}
    /\ op = "assign" =>
         /\ \A j \in jobs[r] :
              /\ j \in [product : Target(r), supplier : {call[r].supplier},
                        state : SupplierState \cup {"unread"}]
         /\ \A j, l \in jobs[r] : j.product = l.product => j = l
    /\ pc[r] \notin {"links", "assign", "failed"} => jobs[r] = {}
    /\ op \notin {"create", "assign"} => jobs[r] = {}

RequestTyped(r) ==
    CallTyped(call[r]) /\ InPhase(r) /\ OnTarget(r) /\ TasksTyped(r) /\ JobsTyped(r)

\* Every variable keeps its type, the local ones of a request too.
TypeInv ==
    /\ TypeOK
    /\ DOMAIN call = Requests /\ DOMAIN read = Requests /\ DOMAIN parts = Requests
    /\ DOMAIN jobs = Requests /\ DOMAIN assigned = Requests
    /\ DOMAIN left = Requests /\ DOMAIN todo = Requests
    /\ \A r \in Requests : RequestTyped(r)

\* Two requests at work were at work together since the second began.
Together ==
    \A q, r \in Requests : (q # r /\ Busy(q) /\ Busy(r)) => {q, r} \in raced

----------------------------------------------------------------------------
(* Uploads *)

\* At most one request adds a file at a time, and one that was marked has raced.
UploadsExclude ==
    /\ \A q, r \in Requests :
         (Uploading(q) /\ Uploading(r) /\ call[q].file = call[r].file) => q = r
    /\ \A r \in Requests : Uploading(r) => call[r].file \notin DOMAIN files
    /\ \A r \in Requests :
         (InFlight(r) /\ call[r].op = "upload" /\ call[r].file \in DOMAIN files) =>
           \E q \in Uploads(call[r].file) : q # r /\ {q, r} \in raced

Received == {r \in Requests : pc[r] # "idle"}

FilesInv ==
    /\ IsFiniteSet(Received)
    /\ UploadsExclude
    /\ \A f \in Files :
         Cardinality({r \in Uploads(f) : pc[r] = "ok"}) <=
             (IF f \in DOMAIN files THEN 1 ELSE 0) +
             Cardinality({r \in Requests : call[r].op = "deleteAll" /\ pc[r] = "ok"})
    /\ \A f \in DOMAIN files :
         files[f] = "failed" => \E q, r \in Uploads(f) : q # r /\ {q, r} \in raced

----------------------------------------------------------------------------
(* The products a request works on *)

LEMMA TheOf ==
    ASSUME NEW r \in Requests, NEW p, Target(r) = {p}
    PROVE  The(r) = p
<1>1. \A q \in Target(r) : q = p OBVIOUS
<1> QED BY <1>1 DEF The

LEMMA TheIsTarget ==
    ASSUME NEW r \in Requests, RequestTyped(r), pc[r] # "refused", Target(r) # {},
           call[r].op \in {"create"} \cup OneTarget
    PROVE  Target(r) = {The(r)} /\ The(r) \in ProductId
<1>1. PICK p \in ProductId : Target(r) = {p} BY DEF RequestTyped, OnTarget
<1> QED BY <1>1, TheOf

\* A request that is at work is one that was received and let in.
LEMMA BusyOps ==
    ASSUME NEW r \in Requests, RequestTyped(r), Busy(r)
    PROVE  pc[r] \notin {"idle", "ok", "refused"} /\ call[r].op # "none"
<1>1. jobs[r] # {} => pc[r] \notin {"idle", "ok", "refused"} BY DEF RequestTyped, JobsTyped
<1>2. pc[r] \in {"idle", "ok", "refused"} => PartsDone(r) BY DEF RequestTyped, TasksTyped
<1>3. pc[r] \notin {"idle", "ok", "refused"}
  BY <1>1, <1>2 DEF Busy, InFlight, PartsDone, Ended
<1> QED BY <1>3 DEF RequestTyped, InPhase

LEMMA BodyTyped ==
    ASSUME NEW r \in Requests, RequestTyped(r), call[r].op \in {"create", "update"}
    PROVE  /\ call[r].body \in Body
           /\ IsFiniteSet(call[r].body.listed)
           /\ call[r].body.listed # {} => call[r].body.given
           /\ pc[r] # "refused" => WellFormed(call[r].body)
  BY CatalogueAssumption DEF RequestTyped, CallTyped, InPhase

\* What a task is to make is a number of packs and maybe a link.
LEMMA PartsOfTyped ==
    ASSUME NEW b \in Body, NEW i \in DOMAIN PartsOf(b)
    PROVE  /\ i \in Nat
           /\ PartsOf(b)[i] \in [packs : Nat, sup : {"todo", "create", "done"}]
           /\ PartsOf(b)[i].sup # "done" =>
                b.hv = "yes" /\ b.variants[i].supplier \in Suppliers
<1>1. CASE b.hv = "yes"
  <2>1. b.variants \in Seq(VariantBody) BY DEF Body
  <2>2. i \in DOMAIN b.variants /\ b.variants[i] \in VariantBody /\ i \in Nat
    BY <1>1, <2>1 DEF PartsOf
  <2> QED BY <1>1, <2>2 DEF PartsOf, VariantBody
<1>2. CASE b.hv # "yes" BY <1>2 DEF PartsOf, Body
<1> QED BY <1>1, <1>2

----------------------------------------------------------------------------
(* What a request holds keeps its type *)

\* The rest of the requests stay as they are.
OthersStay(r) ==
    \A q \in Requests \ {r} :
        /\ pc'[q] = pc[q] /\ call'[q] = call[q] /\ read'[q] = read[q]
        /\ parts'[q] = parts[q] /\ jobs'[q] = jobs[q] /\ left'[q] = left[q]
        /\ todo'[q] = todo[q]

LEMMA OtherTyped ==
    ASSUME TypeInv, NEW r \in Requests, OthersStay(r), NEW q \in Requests \ {r}
    PROVE  RequestTyped(q)'
<1>1. /\ pc'[q] = pc[q] /\ call'[q] = call[q] /\ read'[q] = read[q]
      /\ parts'[q] = parts[q] /\ jobs'[q] = jobs[q] /\ left'[q] = left[q]
      /\ todo'[q] = todo[q] /\ RequestTyped(q)
  BY DEF OthersStay, TypeInv
<1>2. InPhase(q)' /\ CallTyped(call[q])' BY <1>1 DEF RequestTyped, InPhase, CallTyped
<1>3. OnTarget(q)' BY <1>1 DEF RequestTyped, OnTarget, Target
<1>4. TasksTyped(q)' BY <1>1 DEF RequestTyped, TasksTyped, TaskTyped, Target, PartsDone
<1>5. JobsTyped(q)' BY <1>1 DEF RequestTyped, JobsTyped, Target
<1> QED BY <1>2, <1>3, <1>4, <1>5 DEF RequestTyped

\* A request that only awaits something else.
LEMMA MovedTyped ==
    ASSUME TypeInv, NEW r \in Requests, NEW to \in Pcs, Goto(r, to), UNCHANGED locals,
           InPhase(r)',
           to \notin {"idle", "product", "register", "refused", "wipe"},
           to \in {"rows", "mark"} => Target(r) = {},
           (call[r].op = "create" /\ to \in {"suppliers", "links", "parts", "ok"})
             => Target(r) # {},
           to \notin {"parts", "failed"} => PartsDone(r),
           to \in {"suppliers", "links"} => DOMAIN parts[r] = {},
           to = "parts" => DOMAIN parts[r] = DOMAIN PartsOf(call[r].body),
           to \notin {"links", "assign", "failed"} => jobs[r] = {},
           pc[r] # "refused"
    PROVE  RequestTyped(r)'
<1>1. /\ pc'[r] = to /\ call' = call /\ read' = read /\ parts' = parts /\ jobs' = jobs
      /\ todo' = todo /\ left' = left /\ RequestTyped(r)
  BY DEF locals, TypeInv, Goto, TypeOK
<1>2. CallTyped(call[r])' BY <1>1 DEF RequestTyped
<1>3. OnTarget(r)' BY <1>1 DEF RequestTyped, OnTarget, Target
<1>4. TasksTyped(r)'
  <2>1. ASSUME NEW i \in DOMAIN parts[r]
        PROVE  TaskTyped(r, i)'
    BY <1>1 DEF RequestTyped, TasksTyped, TaskTyped, Target
  <2> QED BY <1>1, <2>1 DEF RequestTyped, TasksTyped, PartsDone
<1>5. JobsTyped(r)' BY <1>1 DEF RequestTyped, JobsTyped, Target
<1> QED BY <1>2, <1>3, <1>4, <1>5 DEF RequestTyped

\* A statement that throws ends the request.
LEMMA ThrowsTyped ==
    ASSUME TypeInv, NEW r \in Requests, InFlight(r), Throws(r)
    PROVE  RequestTyped(r)'
<1>1. InPhase(r)'
  BY DEF TypeInv, RequestTyped, InPhase, Throws, Goto, InFlight, Ended, locals, TypeOK
<1> QED BY <1>1, MovedTyped DEF Throws, Pcs, Ended, InFlight

\* The last statement of a request, whose tasks are done.
LEMMA OkTyped ==
    ASSUME TypeInv, NEW r \in Requests, InFlight(r), Goto(r, "ok"), UNCHANGED locals,
           pc[r] \notin {"parts", "links", "assign", "product", "register"}
    PROVE  RequestTyped(r)'
<1>1. InPhase(r)' BY DEF TypeInv, RequestTyped, InPhase, Goto, InFlight, Ended, locals, TypeOK
<1>2. call[r].op = "create" => Target(r) # {}
  <2>1. pc \in [Requests -> Pcs] /\ InPhase(r) /\ OnTarget(r)
    BY DEF TypeInv, TypeOK, RequestTyped
  <2>2. call[r].op = "create" => pc[r] = "suppliers"
    BY <2>1 DEF InPhase, InFlight, Pcs, Ended, VariantOps
  <2> QED BY <2>1, <2>2 DEF OnTarget
<1>3. PartsDone(r) /\ jobs[r] = {}
  BY DEF TypeInv, RequestTyped, TasksTyped, JobsTyped, InFlight, Ended
<1> QED BY <1>1, <1>2, <1>3, MovedTyped DEF Pcs, Ended, InFlight

LEMMA SimpleStepsTyped ==
    ASSUME TypeInv, NEW r \in Requests,
           \/ FinishCreate(r) \/ WriteUpdate(r) \/ Unlink(r) \/ Relink(r) \/ RelinkThrows(r)
           \/ PartsThrow(r) \/ DeletePacks(r) \/ DeleteRows(r) \/ DeleteThrows(r)
           \/ BatchThrows(r) \/ CleanFiles(r) \/ FinishAssign(r) \/ DeletePack(r)
           \/ DeletePackThrows(r) \/ UnlistPack(r) \/ WriteThrows(r) \/ WriteQuantity(r)
           \/ Register(r) \/ MarkFailed(r) \/ UploadExpires(r) \/ NoConnection(r)
    PROVE  RequestTyped(r)'
<1>0. /\ RequestTyped(r) /\ pc \in [Requests -> Pcs]
      /\ InPhase(r) /\ OnTarget(r) /\ TasksTyped(r) /\ JobsTyped(r)
  BY DEF TypeInv, TypeOK, RequestTyped
<1>1. CASE FinishCreate(r)
  <2>1. InPhase(r)' BY <1>0, <1>1 DEF InPhase, FinishCreate, Goto, locals
  <2>2. Target(r) # {} /\ PartsDone(r) /\ jobs[r] = {} /\ Goto(r, "ok") /\ UNCHANGED locals
    BY <1>0, <1>1 DEF OnTarget, JobsTyped, FinishCreate
  <2> QED BY <1>1, <2>1, <2>2, MovedTyped DEF FinishCreate, Pcs, Ended
<1>2. CASE WriteUpdate(r)
  <2>1. PICK to \in {"unlink", "ok"} : Goto(r, to) BY <1>2 DEF WriteUpdate
  <2>2. InPhase(r)' BY <1>0, <1>2, <2>1 DEF InPhase, WriteUpdate, Goto, locals
  <2>3. PartsDone(r) /\ jobs[r] = {} /\ UNCHANGED locals /\ call[r].op = "update"
        /\ pc[r] = "parts"
    BY <1>0, <1>2 DEF JobsTyped, WriteUpdate
  <2> QED BY <2>1, <2>2, <2>3, MovedTyped DEF Pcs, Ended
<1>3. CASE Unlink(r)
  <2>1. PICK to \in {"relink", "ok"} : Goto(r, to) BY <1>3 DEF Unlink
  <2>2. InPhase(r)' BY <1>0, <1>3, <2>1 DEF InPhase, Unlink, Goto, locals
  <2>3. /\ PartsDone(r) /\ jobs[r] = {} /\ UNCHANGED locals /\ call[r].op = "update"
        /\ pc[r] = "unlink"
    BY <1>0, <1>3 DEF JobsTyped, TasksTyped, Unlink, InPhase, locals
  <2> QED BY <2>1, <2>2, <2>3, MovedTyped DEF Pcs, Ended
<1>4. CASE \/ RelinkThrows(r) \/ PartsThrow(r) \/ DeleteThrows(r) \/ BatchThrows(r)
           \/ DeletePackThrows(r) \/ WriteThrows(r) \/ NoConnection(r)
  <2>1. InFlight(r) /\ Throws(r)
    BY <1>4 DEF RelinkThrows, PartsThrow, DeleteThrows, BatchThrows, DeletePackThrows,
                WriteThrows, NoConnection, InFlight, Ended
  <2> QED BY <2>1, ThrowsTyped
<1>5. CASE \/ Relink(r) \/ DeleteRows(r) \/ CleanFiles(r) \/ UnlistPack(r) \/ WriteQuantity(r)
  <2>1. /\ InFlight(r) /\ Goto(r, "ok") /\ UNCHANGED locals
        /\ pc[r] \notin {"parts", "links", "assign", "product", "register"}
    BY <1>5 DEF Relink, DeleteRows, CleanFiles, UnlistPack, WriteQuantity, InFlight, Ended,
                locals
  <2> QED BY <2>1, OkTyped
<1>6. CASE FinishAssign(r)
  <2>1. InPhase(r)' BY <1>0, <1>6 DEF InPhase, FinishAssign, Goto, locals
  <2>2. /\ PartsDone(r) /\ jobs[r] = {} /\ UNCHANGED locals /\ call[r].op = "assign"
        /\ Goto(r, "ok") /\ pc[r] = "assign"
    BY <1>0, <1>6 DEF FinishAssign, TasksTyped, InPhase
  <2> QED BY <2>1, <2>2, MovedTyped DEF Pcs, Ended
<1>7. CASE DeletePacks(r) \/ DeletePack(r) \/ Register(r) \/ MarkFailed(r) \/ UploadExpires(r)
  <2>1. PICK to \in {"erase", "unlist", "mark", "rows", "failed"} :
          /\ Goto(r, to)
          /\ to \in {"mark", "rows"} => pc[r] \in {"register", "rows"}
    BY <1>7 DEF DeletePacks, DeletePack, Register, MarkFailed, UploadExpires, Uploading
  <2>2. InPhase(r)'
    BY <1>0, <1>7 DEF InPhase, DeletePacks, DeletePack, Register, MarkFailed, UploadExpires,
                      Uploading, Goto, locals
  <2>3. /\ PartsDone(r) /\ jobs[r] = {} /\ UNCHANGED locals
        /\ pc[r] \in {"packs", "pack", "register", "rows", "mark"}
    BY <1>0, <1>7 DEF DeletePacks, DeletePack, Register, MarkFailed, UploadExpires,
                      Uploading, TasksTyped, JobsTyped
  <2>4. to \in {"mark", "rows"} => Target(r) = {} BY <1>0, <2>1 DEF OnTarget
  <2>5. call[r].op # "create" BY <1>0, <2>3 DEF InPhase
  <2> QED BY <2>1, <2>2, <2>3, <2>4, <2>5, MovedTyped DEF Pcs, Ended
<1> QED BY <1>1, <1>2, <1>3, <1>4, <1>5, <1>6, <1>7

\* The tasks of a request that makes packs and links.
LEMMA TasksBegin ==
    ASSUME TypeInv, NEW r \in Requests, call[r].op \in {"create", "update"},
           pc[r] # "refused", EnterParts(r), call' = call, Target(r)' # {}
    PROVE  TasksTyped(r)'
<1>1. /\ pc'[r] = "parts" /\ parts'[r] = PartsOf(call[r].body) /\ call[r].body \in Body
  BY BodyTyped DEF EnterParts, Goto, TypeInv, TypeOK
<1>2. parts'[r] = [i \in DOMAIN parts'[r] |-> parts'[r][i]] BY <1>1 DEF PartsOf
<1>3. ASSUME NEW i \in DOMAIN PartsOf(call[r].body)
      PROVE  TaskTyped(r, i)'
  <2> DEFINE b == call[r].body
  <2>1. /\ PartsOf(b)[i] \in [packs : Nat, sup : {"todo", "create", "done"}]
        /\ PartsOf(b)[i].sup # "done" =>
             b.hv = "yes" /\ b.variants[i].supplier \in Suppliers
    BY <1>1, PartsOfTyped
  <2>2. PartsOf(b)[i].packs \in Nat BY <2>1
  <2> HIDE DEF b
  <2>3. call'[r] = call[r] /\ b = call[r].body BY DEF b
  <2>4. PartsOf(b)[i].packs <= PartsOf(b)[i].packs BY <2>2
  <2> QED BY <1>1, <2>1, <2>3, <2>4 DEF TaskTyped
<1> QED BY <1>1, <1>2, <1>3 DEF TasksTyped

LEMMA CreateProductTyped ==
    ASSUME TypeInv, NEW r \in Requests, CreateProduct(r)
    PROVE  RequestTyped(r)' /\ Target(r)' = {Own(r)} /\ read'[r][Own(r)] \in Product
<1> DEFINE row == [code |-> call[r].body.code, hasVariants |-> call[r].body.hv = "yes",
                   packIds |-> {}, variants |-> <<>>, qty |-> 0]
<1>0. /\ RequestTyped(r) /\ pc \in [Requests -> Pcs] /\ DOMAIN read = Requests
      /\ InPhase(r) /\ OnTarget(r) /\ TasksTyped(r) /\ JobsTyped(r)
  BY DEF TypeInv, TypeOK, RequestTyped
<1>1. /\ pc[r] = "product" /\ call' = call /\ jobs' = jobs /\ left' = left /\ todo' = todo
      /\ call[r].op = "create" /\ jobs[r] = {}
      /\ read' = [read EXCEPT ![r] = [p \in {Own(r)} |-> row]]
  BY <1>0 DEF CreateProduct, InPhase, JobsTyped
<1>2. call[r].body \in Body /\ row \in Product
  <2>1. call[r].body \in Body BY <1>0, <1>1, BodyTyped
  <2> QED BY <2>1 DEF Body, Product
<1>3. read'[r] = [x \in {Own(r)} |-> row] BY <1>0, <1>1
<1>4. Target(r)' = {Own(r)} /\ read'[r][Own(r)] \in Product /\ Own(r) \in ProductId
  BY <1>2, <1>3 DEF Target, ProductId, Own
<1>5. \/ EnterParts(r)
      \/ Goto(r, "suppliers") /\ UNCHANGED parts
  BY DEF CreateProduct
<1>6. InPhase(r)' /\ CallTyped(call[r])'
  BY <1>0, <1>1, <1>5 DEF RequestTyped, InPhase, EnterParts, Goto
<1>7. OnTarget(r)'
  <2>1. read'[r] \in [{Own(r)} -> Product] BY <1>2, <1>3
  <2>2. todo[r] = {} /\ call'[r].op = "create" /\ todo'[r] = {} BY <1>0, <1>1 DEF OnTarget
  <2>3. pc'[r] \in {"parts", "suppliers"} BY <1>0, <1>5 DEF EnterParts, Goto
  <2> QED BY <1>4, <2>1, <2>2, <2>3 DEF OnTarget, VariantOps, OneTarget
<1>8. TasksTyped(r)'
  <2>1. CASE EnterParts(r) BY <1>1, <1>4, <2>1, TasksBegin
  <2>2. CASE Goto(r, "suppliers") /\ UNCHANGED parts
    BY <1>0, <1>1, <2>2 DEF TasksTyped, Goto, PartsDone
  <2> QED BY <1>5, <2>1, <2>2
<1>9. JobsTyped(r)' BY <1>1 DEF JobsTyped
<1> QED BY <1>4, <1>6, <1>7, <1>8, <1>9 DEF RequestTyped

LEMMA FindSuppliersTyped ==
    ASSUME TypeInv, NEW r \in Requests, FindSuppliers(r)
    PROVE  RequestTyped(r)'
<1>0. /\ RequestTyped(r) /\ pc \in [Requests -> Pcs] /\ DOMAIN jobs = Requests
      /\ InPhase(r) /\ OnTarget(r) /\ TasksTyped(r) /\ JobsTyped(r)
  BY DEF TypeInv, TypeOK, RequestTyped
<1>1. pc[r] = "suppliers" /\ call[r].op = "create" /\ Target(r) = {Own(r)}
  BY <1>0 DEF FindSuppliers, InPhase, OnTarget
<1>2. CASE Throws(r) BY <1>1, <1>2, ThrowsTyped DEF InFlight, Ended
<1>3. CASE /\ jobs' = [jobs EXCEPT ![r] =
                    {LinkOf(Own(r), l.supplier, l.state) : l \in call[r].body.listed}]
           /\ Goto(r, "links")
           /\ UNCHANGED <<db, call, read, parts, left, todo, raced>>
  <2>1. /\ pc'[r] = "links" /\ call' = call /\ read' = read /\ parts' = parts /\ left' = left
        /\ todo' = todo
        /\ jobs'[r] = {LinkOf(Own(r), l.supplier, l.state) : l \in call[r].body.listed}
    BY <1>0, <1>3 DEF Goto
  <2>2. InPhase(r)' /\ CallTyped(call[r])' /\ Target(r)' = Target(r)
    BY <1>0, <1>1, <2>1 DEF RequestTyped, InPhase, Target
  <2>3. OnTarget(r)' BY <1>0, <1>1, <2>1, <2>2 DEF OnTarget, VariantOps, OneTarget
  <2>4. TasksTyped(r)' BY <1>0, <1>1, <2>1, <2>2 DEF TasksTyped, PartsDone
  <2>5. ASSUME NEW l \in call[r].body.listed
        PROVE  LinkOf(Own(r), l.supplier, l.state) \in Link
    <3>1. call[r].body.listed \subseteq [supplier : Suppliers, state : SupplierState]
      BY <1>0, <1>1, BodyTyped DEF Body
    <3>2. l.supplier \in Suppliers /\ l.state \in SupplierState BY <3>1
    <3> QED BY <3>2 DEF LinkOf, Link, Own, ProductId
  <2>6. JobsTyped(r)' BY <1>1, <2>1, <2>2, <2>5 DEF JobsTyped, LinkOf
  <2> QED BY <2>2, <2>3, <2>4, <2>6 DEF RequestTyped
<1> QED BY <1>2, <1>3 DEF FindSuppliers

\* A request whose links, tasks or position change, and nothing else.
LEMMA TasksMovedTyped ==
    ASSUME TypeInv, NEW r \in Requests, UNCHANGED <<call, read, left, todo>>,
           pc'[r] \in {pc[r], "failed", "parts"},
           pc'[r] = "parts" => call[r].op \in {"create", "update"} /\ Target(r) # {},
           pc[r] \notin {"idle", "refused"},
           TasksTyped(r)', JobsTyped(r)'
    PROVE  RequestTyped(r)'
<1>0. /\ RequestTyped(r) /\ InPhase(r) /\ OnTarget(r) /\ CallTyped(call[r])
  BY DEF TypeInv, RequestTyped
<1>1. InPhase(r)' /\ Target(r)' = Target(r) BY <1>0 DEF InPhase, Target
<1>2. OnTarget(r)' BY <1>0, <1>1 DEF OnTarget
<1> QED BY <1>0, <1>1, <1>2 DEF RequestTyped

LEMMA MakeLinkTyped ==
    ASSUME TypeInv, NEW r \in Requests, NEW l \in jobs[r], MakeLink(r, l)
    PROVE  RequestTyped(r)'
<1>0. /\ RequestTyped(r) /\ pc \in [Requests -> Pcs] /\ DOMAIN jobs = Requests
      /\ InPhase(r) /\ OnTarget(r) /\ TasksTyped(r) /\ JobsTyped(r)
  BY DEF TypeInv, TypeOK, RequestTyped
<1>1. /\ call[r].op = "create" /\ Target(r) = {Own(r)}
      /\ pc[r] \in {"links", "failed"}
      /\ jobs'[r] = jobs[r] \ {l}
      /\ UNCHANGED <<call, read, left, todo>>
  BY <1>0 DEF MakeLink, JobsTyped, InPhase
<1>2. \/ EnterParts(r) /\ jobs[r] = {l}
      \/ parts' = parts /\ pc' = pc
      \/ parts' = parts /\ pc' = [pc EXCEPT ![r] = IF @ = "links" THEN "failed" ELSE @]
  BY DEF MakeLink
<1>3. Target(r)' = Target(r) BY <1>1 DEF Target
<1>4. CASE EnterParts(r) /\ jobs[r] = {l}
  <2>1. TasksTyped(r)' BY <1>1, <1>3, <1>4, TasksBegin
  <2>2. JobsTyped(r)' /\ pc'[r] = "parts"
    BY <1>0, <1>1, <1>3, <1>4 DEF JobsTyped, EnterParts, Goto
  <2> QED BY <1>1, <2>1, <2>2, TasksMovedTyped
<1>5. CASE parts' = parts /\ pc'[r] \in {pc[r], "failed"} /\ pc'[r] \in {"links", "failed"}
  <2>1. TasksTyped(r)' BY <1>0, <1>1, <1>3, <1>5 DEF TasksTyped, TaskTyped, PartsDone
  <2>2. JobsTyped(r)' BY <1>0, <1>1, <1>3, <1>5 DEF JobsTyped
  <2> QED BY <1>1, <1>5, <2>1, <2>2, TasksMovedTyped
<1>6. CASE ~ EnterParts(r)
  <2>1. pc'[r] \in {pc[r], "failed"} /\ pc'[r] \in {"links", "failed"} /\ parts' = parts
    BY <1>0, <1>1, <1>2, <1>6
  <2> QED BY <1>5, <2>1
<1>7. CASE EnterParts(r) /\ jobs[r] # {l} BY <1>0, <1>1, <1>2, <1>5, <1>7
<1> QED BY <1>4, <1>6, <1>7

LEMMA WipePacksTyped ==
    ASSUME TypeInv, NEW r \in Requests, WipePacks(r)
    PROVE  RequestTyped(r)'
<1>0. /\ RequestTyped(r) /\ pc \in [Requests -> Pcs]
      /\ InPhase(r) /\ OnTarget(r) /\ JobsTyped(r)
  BY DEF TypeInv, TypeOK, RequestTyped
<1>1. /\ pc[r] = "wipe" /\ call[r].op = "update" /\ EnterParts(r)
      /\ UNCHANGED <<call, read, jobs, left, todo>>
  BY <1>0 DEF WipePacks, InPhase
<1>2. Target(r) # {} /\ Target(r)' = Target(r) BY <1>0, <1>1 DEF OnTarget, OneTarget, Target
<1>3. TasksTyped(r)' BY <1>1, <1>2, TasksBegin
<1>4. JobsTyped(r)' /\ pc'[r] = "parts" BY <1>0, <1>1 DEF JobsTyped, EnterParts, Goto
<1> QED BY <1>1, <1>2, <1>3, <1>4, TasksMovedTyped

\* One task goes on or ends; the request may fail with it.
LEMMA PartTyped ==
    ASSUME TypeInv, NEW r \in Requests, NEW i \in DOMAIN parts[r],
           NEW part, parts' = [parts EXCEPT ![r] = [parts[r] EXCEPT ![i] = part]],
           part \in [packs : Nat, sup : {"todo", "create", "done"}],
           part.packs <= parts[r][i].packs,
           part.sup # "done" => parts[r][i].sup # "done",
           UNCHANGED <<call, read, jobs, left, todo>>,
           \/ pc' = pc
           \/ pc' = [pc EXCEPT ![r] = IF @ = "parts" THEN "failed" ELSE @],
           parts[r][i] # DonePart
    PROVE  RequestTyped(r)' /\ pc[r] \in {"parts", "failed"}
<1>0. /\ RequestTyped(r) /\ pc \in [Requests -> Pcs] /\ DOMAIN parts = Requests
      /\ InPhase(r) /\ OnTarget(r) /\ TasksTyped(r) /\ JobsTyped(r)
  BY DEF TypeInv, TypeOK, RequestTyped
<1>1. pc[r] \in {"parts", "failed"} BY <1>0 DEF TasksTyped, PartsDone
<1>2. pc'[r] \in {pc[r], "failed"} BY <1>0
<1>3. /\ parts'[r] = [parts[r] EXCEPT ![i] = part]
      /\ DOMAIN parts'[r] = DOMAIN parts[r]
      /\ parts'[r] = [j \in DOMAIN parts'[r] |-> parts'[r][j]]
      /\ parts'[r][i] = part
      /\ \A j \in DOMAIN parts[r] \ {i} : parts'[r][j] = parts[r][j]
  BY <1>0 DEF TasksTyped
<1>4. Target(r)' = Target(r) BY DEF Target
<1>5. ASSUME NEW j \in DOMAIN parts[r]
      PROVE  TaskTyped(r, j)'
  <2>1. TaskTyped(r, j) BY <1>0 DEF TasksTyped
  <2>2. CASE j # i BY <1>1, <1>2, <1>3, <1>4, <2>1, <2>2 DEF TaskTyped
  <2>3. CASE j = i
    <3>0. j \in DOMAIN PartsOf(call[r].body) BY <2>1 DEF TaskTyped
    <3>1. PartsOf(call[r].body)[j].packs \in Nat
      <4>1. call[r].op \in {"create", "update"} BY <2>1 DEF TaskTyped
      <4>2. call[r].body \in Body BY <1>0, <4>1, BodyTyped
      <4>3. PartsOf(call[r].body)[j] \in [packs : Nat, sup : {"todo", "create", "done"}]
        BY <3>0, <4>2, PartsOfTyped
      <4> QED BY <4>3
    <3>2. PICK m, n, k \in Nat : m = part.packs /\ n = parts[r][i].packs
                                 /\ k = PartsOf(call[r].body)[j].packs
      BY <2>1, <2>3, <3>1 DEF TaskTyped
    <3>3. n <= k /\ m <= n BY <2>1, <2>3, <3>2 DEF TaskTyped
    <3>4. part.packs <= PartsOf(call[r].body)[j].packs BY <3>2, <3>3
    <3> QED BY <1>1, <1>2, <1>3, <1>4, <2>1, <2>3, <3>4 DEF TaskTyped
  <2> QED BY <2>2, <2>3
<1>6. TasksTyped(r)' BY <1>0, <1>1, <1>2, <1>3, <1>5 DEF TasksTyped
<1>7. JobsTyped(r)' BY <1>0, <1>1, <1>2, <1>4 DEF JobsTyped
<1>8. pc'[r] = "parts" => call[r].op \in {"create", "update"} /\ Target(r) # {}
  BY <1>0, <1>1, <1>2 DEF InPhase, OnTarget, OneTarget
<1> QED BY <1>1, <1>2, <1>6, <1>7, <1>8, TasksMovedTyped

\* What a step of a task does to it.
PartMoves(r, i, part) ==
    /\ parts' = [parts EXCEPT ![r] = [parts[r] EXCEPT ![i] = part]]
    /\ part \in [packs : Nat, sup : {"todo", "create", "done"}]
    /\ part.packs <= parts[r][i].packs
    /\ part.sup # "done" => parts[r][i].sup # "done"
    /\ UNCHANGED <<call, read, jobs, left, todo, raced>>
    /\ \/ pc' = pc
       \/ pc' = [pc EXCEPT ![r] = IF @ = "parts" THEN "failed" ELSE @] /\ part = DonePart
    /\ parts[r][i] # DonePart

LEMMA PartThrowsMoves ==
    ASSUME TypeInv, NEW r \in Requests, NEW i \in DOMAIN parts[r], PartThrows(r, i),
           parts[r][i] # DonePart
    PROVE  PartMoves(r, i, DonePart)
<1>1. parts[r][i].packs \in Nat /\ DOMAIN parts = Requests
  BY DEF TypeInv, RequestTyped, TasksTyped, TaskTyped
<1>2. parts' = [parts EXCEPT ![r] = [parts[r] EXCEPT ![i] = DonePart]] BY DEF PartThrows
<1> QED BY <1>1, <1>2 DEF PartThrows, PartMoves, DonePart

LEMMA MakePackMoves ==
    ASSUME TypeInv, NEW r \in Requests, NEW i \in DOMAIN parts[r], MakePack(r, i)
    PROVE  \/ PartThrows(r, i) /\ PartMoves(r, i, DonePart)
           \/ \E n \in Nat : /\ n + 1 = parts[r][i].packs
                /\ packs' = With(packs, <<r, i, n + 1>>, The(r)) /\ Exists(The(r))
                /\ UNCHANGED <<products, links, files, pc>>
                /\ PartMoves(r, i, [parts[r][i] EXCEPT !.packs = n])
<1>1. /\ parts[r][i] \in [packs : Nat, sup : {"todo", "create", "done"}]
      /\ DOMAIN parts = Requests
  BY DEF TypeInv, RequestTyped, TasksTyped, TaskTyped
<1>2. PICK m \in Nat : m = parts[r][i].packs BY <1>1
<1>3. m > 0 /\ parts[r][i] # DonePart BY <1>2 DEF MakePack, DonePart
<1>4. CASE PartThrows(r, i) BY <1>3, <1>4, PartThrowsMoves
<1>5. CASE /\ packs' = With(packs, <<r, i, m>>, The(r)) /\ Exists(The(r))
           /\ parts' = [parts EXCEPT ![r][i].packs = m - 1]
           /\ UNCHANGED <<products, links, files, pc, call, read, jobs, assigned,
                          left, todo, raced>>
  <2>1. PICK n \in Nat : n = m - 1 /\ n + 1 = m BY <1>3
  <2>2. parts' = [parts EXCEPT ![r] = [parts[r] EXCEPT ![i] = [parts[r][i] EXCEPT !.packs = n]]]
    BY <1>5, <2>1
  <2>3. PICK part : part = [parts[r][i] EXCEPT !.packs = n] OBVIOUS
  <2>4. /\ part \in [packs : Nat, sup : {"todo", "create", "done"}]
        /\ part.packs = n /\ part.sup = parts[r][i].sup
    BY <1>1, <2>3
  <2>5. PartMoves(r, i, part) BY <1>2, <1>3, <1>5, <2>1, <2>2, <2>3, <2>4 DEF PartMoves
  <2> QED BY <1>2, <1>5, <2>1, <2>3, <2>5
<1> QED BY <1>2, <1>4, <1>5 DEF MakePack

LEMMA CheckSupplierMoves ==
    ASSUME TypeInv, NEW r \in Requests, NEW i \in DOMAIN parts[r], CheckSupplier(r, i)
    PROVE  \E part : PartMoves(r, i, part) /\ UNCHANGED db /\ part.packs = parts[r][i].packs
<1>1. /\ parts[r][i] \in [packs : Nat, sup : {"todo", "create", "done"}]
      /\ DOMAIN parts = Requests /\ parts[r][i] = [packs |-> 0, sup |-> "todo"]
  BY DEF TypeInv, RequestTyped, TasksTyped, TaskTyped, CheckSupplier
<1>2. parts[r][i] # DonePart /\ parts[r][i].packs = 0 BY <1>1 DEF DonePart
<1>3. CASE PartThrows(r, i)
  <2>1. PartMoves(r, i, DonePart) BY <1>2, <1>3, PartThrowsMoves
  <2>2. UNCHANGED db /\ DonePart.packs = parts[r][i].packs
    BY <1>2, <1>3 DEF PartThrows, DonePart, db
  <2> QED BY <2>1, <2>2
<1>4. ASSUME NEW st \in {"done", "create"}, parts' = [parts EXCEPT ![r][i].sup = st],
             UNCHANGED <<db, pc, call, read, jobs, assigned, left, todo, raced>>
      PROVE  \E part : PartMoves(r, i, part) /\ UNCHANGED db
                         /\ part.packs = parts[r][i].packs
  <2>1. PICK part : part = [parts[r][i] EXCEPT !.sup = st] OBVIOUS
  <2>2. parts' = [parts EXCEPT ![r] = [parts[r] EXCEPT ![i] = part]] BY <1>4, <2>1
  <2>3. /\ part \in [packs : Nat, sup : {"todo", "create", "done"}]
        /\ part.packs = 0 /\ parts[r][i].sup # "done"
    BY <1>1, <2>1
  <2>4. UNCHANGED <<pc, call, read, jobs, left, todo, raced>> /\ UNCHANGED db BY <1>4
  <2>5. PartMoves(r, i, part) BY <1>2, <2>2, <2>3, <2>4 DEF PartMoves
  <2> QED BY <1>2, <2>3, <2>4, <2>5
<1>5. \/ PartThrows(r, i)
      \/ \E st \in {"done", "create"} : parts' = [parts EXCEPT ![r][i].sup = st]
         /\ UNCHANGED <<db, pc, call, read, jobs, assigned, left, todo, raced>>
  BY DEF CheckSupplier
<1> QED BY <1>3, <1>4, <1>5

LEMMA LinkVariantMoves ==
    ASSUME TypeInv, NEW r \in Requests, NEW i \in DOMAIN parts[r], LinkVariant(r, i)
    PROVE  /\ PartMoves(r, i, DonePart) /\ UNCHANGED <<products, packs, files>>
           /\ parts[r][i].packs = 0
           /\ \/ links' = links
              \/ \E s \in Suppliers : /\ links' = links \cup {LinkOf(The(r), s, "secondary")}
                                      /\ Exists(The(r))
<1>1. /\ TaskTyped(r, i) /\ DOMAIN parts = Requests
      /\ parts[r][i] = [packs |-> 0, sup |-> "create"]
  BY DEF TypeInv, RequestTyped, TasksTyped, LinkVariant
<1>2. /\ parts[r][i] # DonePart /\ parts[r][i].packs = 0
      /\ call[r].body.variants[i].supplier \in Suppliers
  BY <1>1 DEF DonePart, TaskTyped
<1>3. CASE PartThrows(r, i) BY <1>2, <1>3, PartThrowsMoves DEF PartThrows, DonePart, db
<1>4. CASE ~ PartThrows(r, i)
  <2>1. /\ parts' = [parts EXCEPT ![r] = [parts[r] EXCEPT ![i] = DonePart]]
        /\ UNCHANGED <<products, packs, files, pc, call, read, jobs, left, todo, raced>>
        /\ links' = links \cup {LinkOf(The(r), call[r].body.variants[i].supplier, "secondary")}
        /\ Exists(The(r))
    BY <1>4 DEF LinkVariant
  <2> QED BY <1>2, <2>1 DEF PartMoves, DonePart
<1> QED BY <1>3, <1>4

LEMMA PartMovesTyped ==
    ASSUME TypeInv, NEW r \in Requests, NEW i \in DOMAIN parts[r], NEW part,
           PartMoves(r, i, part)
    PROVE  RequestTyped(r)' /\ pc[r] \in {"parts", "failed"}
  BY PartTyped DEF PartMoves

\* A request whose target may grow, and whose tasks and links are none or stay.
LEMMA GrownTyped ==
    ASSUME TypeInv, NEW r \in Requests, UNCHANGED <<call, parts, jobs>>,
           InPhase(r)', OnTarget(r)', Target(r) \subseteq Target(r)',
           pc[r] \in {"find", "batch", "variants", "rows"},
           pc'[r] \in {"find", "batch", "clean", "variants", "rows", "mark", "ok"}
    PROVE  RequestTyped(r)'
<1>0. /\ RequestTyped(r) /\ TasksTyped(r) /\ JobsTyped(r) /\ CallTyped(call[r])
      /\ call[r].op \in VariantOps \cup {"deleteAll", "upload"}
  BY DEF TypeInv, RequestTyped, InPhase
<1>1. \A i \in DOMAIN parts[r] : ~ TaskTyped(r, i) BY <1>0 DEF TaskTyped, VariantOps
<1>2. DOMAIN parts[r] = {} BY <1>0, <1>1 DEF TasksTyped
<1>3. TasksTyped(r)' BY <1>0, <1>2 DEF TasksTyped, PartsDone
<1>4. jobs[r] = {} /\ jobs'[r] = {} BY <1>0 DEF JobsTyped, VariantOps
<1>5. JobsTyped(r)' BY <1>0, <1>4 DEF JobsTyped, VariantOps
<1> QED BY <1>0, <1>3, <1>5 DEF RequestTyped

LEMMA FindBatchTyped ==
    ASSUME TypeInv, NEW r \in Requests, FindBatch(r)
    PROVE  RequestTyped(r)' /\ Target(r) \subseteq Target(r)'
<1>0. /\ RequestTyped(r) /\ pc \in [Requests -> Pcs] /\ DOMAIN read = Requests
      /\ InPhase(r) /\ OnTarget(r)
  BY DEF TypeInv, TypeOK, RequestTyped
<1>1. /\ pc[r] = "find" /\ call[r].op = "deleteAll"
      /\ UNCHANGED <<call, parts, jobs, left, todo>>
      /\ pc'[r] \in {"clean", "batch"}
  BY <1>0 DEF FindBatch, InPhase, Goto
<1>2. InPhase(r)' BY <1>0, <1>1 DEF InPhase
<1>3. /\ read'[r] \in [Target(r)' -> Product] /\ Target(r)' \subseteq ProductId
      /\ Target(r) \subseteq Target(r)'
  <2>1. CASE read' = read BY <1>0, <2>1 DEF OnTarget, Target
  <2>2. CASE read' = [read EXCEPT ![r] = WithAll(@, products)]
    <3>1. read'[r] = WithAll(read[r], products) BY <1>0, <2>2
    <3>2. /\ DOMAIN products \subseteq ProductId
          /\ \A p \in DOMAIN products : products[p] \in Product
      BY DEF TypeInv, TypeOK
    <3> QED BY <1>0, <3>1, <3>2 DEF OnTarget, Target, WithAll
  <2> QED BY <2>1, <2>2 DEF FindBatch
<1>4. OnTarget(r)' BY <1>0, <1>1, <1>3 DEF OnTarget, VariantOps, OneTarget
<1> QED BY <1>1, <1>2, <1>3, <1>4, GrownTyped

LEMMA DeleteBatchTyped ==
    ASSUME TypeInv, NEW r \in Requests, DeleteBatch(r)
    PROVE  RequestTyped(r)' /\ Target(r)' = Target(r)
<1>0. /\ RequestTyped(r) /\ pc \in [Requests -> Pcs]
      /\ InPhase(r) /\ OnTarget(r)
  BY DEF TypeInv, TypeOK, RequestTyped
<1>1. /\ pc[r] = "batch" /\ call[r].op = "deleteAll"
      /\ UNCHANGED <<call, read, parts, jobs, todo>>
      /\ pc'[r] = "find"
  BY <1>0 DEF DeleteBatch, InPhase, Goto
<1>2. InPhase(r)' /\ Target(r)' = Target(r) BY <1>0, <1>1 DEF InPhase, Target
<1>3. OnTarget(r)' BY <1>0, <1>1, <1>2 DEF OnTarget, VariantOps, OneTarget
<1> QED BY <1>1, <1>2, <1>3, GrownTyped

LEMMA WriteVariantsTyped ==
    ASSUME TypeInv, NEW r \in Requests, NEW p \in todo[r], WriteVariants(r, p)
    PROVE  RequestTyped(r)'
<1>0. /\ RequestTyped(r) /\ pc \in [Requests -> Pcs] /\ DOMAIN todo = Requests
      /\ InPhase(r) /\ OnTarget(r)
  BY DEF TypeInv, TypeOK, RequestTyped
<1>1. /\ pc[r] = "variants" /\ call[r].op \in VariantOps
      /\ UNCHANGED <<call, read, parts, jobs, left>>
      /\ pc'[r] \in {"ok", "variants"}
      /\ todo'[r] \subseteq todo[r]
  BY <1>0 DEF WriteVariants, InPhase, Goto
<1>2. InPhase(r)' /\ Target(r)' = Target(r) BY <1>0, <1>1 DEF InPhase, Target
<1>3. OnTarget(r)' BY <1>0, <1>1, <1>2 DEF OnTarget, VariantOps, OneTarget
<1> QED BY <1>1, <1>2, <1>3, GrownTyped

LEMMA RowTyped ==
    ASSUME TypeInv, NEW r \in Requests, Row(r)
    PROVE  RequestTyped(r)'
<1>0. /\ RequestTyped(r) /\ pc \in [Requests -> Pcs] /\ DOMAIN left = Requests
      /\ InPhase(r) /\ OnTarget(r)
  BY DEF TypeInv, TypeOK, RequestTyped
<1>1. /\ pc[r] = "rows" /\ call[r].op = "upload"
      /\ UNCHANGED <<call, read, parts, jobs, todo>>
      /\ pc'[r] \in {"rows", "mark"}
  BY <1>0 DEF Row, InPhase, Goto, Uploading
<1>2. left'[r] \in Nat BY <1>0, <1>1 DEF Row, OnTarget
<1>3. InPhase(r)' /\ Target(r)' = Target(r) BY <1>0, <1>1 DEF InPhase, Target
<1>4. OnTarget(r)' BY <1>0, <1>1, <1>2, <1>3 DEF OnTarget, VariantOps, OneTarget
<1> QED BY <1>1, <1>3, <1>4, GrownTyped

\* The products of a file are products, each with its packs.
LEMMA UploadedRowTyped ==
    ASSUME NEW r \in Requests, NEW f \in Files, call[r].file = f,
           NEW i \in DOMAIN RowsOf[f]
    PROVE  UploadedRow(r, i) \in Product /\ i \in Nat
<1>1. RowsOf[f] \in Seq(FileRow) BY CatalogueAssumption
<1>2. RowsOf[f][i] \in FileRow /\ i \in Nat BY <1>1
<1> DEFINE row == RowsOf[f][i]
           vs == [j \in DOMAIN row.variants |->
                    [code |-> row.variants[j], packs |-> {<<r, i, j>>}, qty |-> 0]]
<1>3. row.variants \in Seq(Codes) /\ row.code \in Codes \cup {NoCode} BY <1>2 DEF FileRow
<1>4. vs \in Seq(Variant)
  <2>1. PICK n \in Nat : DOMAIN row.variants = 1..n BY <1>3
  <2> HIDE DEF row
  <2>2. \A j \in 1..n :
          [code |-> row.variants[j], packs |-> {<<r, i, j>>}, qty |-> 0] \in Variant
    BY <1>2, <1>3, <2>1 DEF Variant, PackId
  <2>3. vs = [j \in 1..n |-> [code |-> row.variants[j], packs |-> {<<r, i, j>>}, qty |-> 0]]
    BY <2>1
  <2>4. vs \in [1..n -> Variant] BY <2>2, <2>3
  <2> QED BY <2>4
<1>5. /\ RowCode(row) \in Codes \cup {NoCode}
      /\ (IF row.variants = <<>> THEN {<<r, i, 0>>} ELSE {}) \subseteq PackId
  BY <1>2, <1>3 DEF RowCode, PackId
<1>6. ~ InBulk(r) => UploadedRow(r, i) =
        [code |-> RowCode(row), hasVariants |-> row.variants # <<>>, qty |-> 0,
         packIds |-> IF row.variants = <<>> THEN {<<r, i, 0>>} ELSE {}, variants |-> vs]
  BY DEF UploadedRow
<1>7. CASE InBulk(r)
  <2>1. UploadedRow(r, i) = [code |-> row.code, hasVariants |-> FALSE, qty |-> 0,
                             packIds |-> {}, variants |-> <<>>]
    BY <1>7 DEF UploadedRow
  <2> HIDE DEF row
  <2> QED BY <1>2, <1>3, <2>1 DEF Product
<1> HIDE DEF row, vs
<1>8. CASE ~ InBulk(r)
  <2>1. PICK c, S, h : /\ c = RowCode(row) /\ h = (row.variants # <<>>)
                       /\ S = IF row.variants = <<>> THEN {<<r, i, 0>>} ELSE {}
    OBVIOUS
  <2>2. UploadedRow(r, i) = [code |-> c, hasVariants |-> h, qty |-> 0, packIds |-> S,
                             variants |-> vs]
    BY <1>6, <1>8, <2>1
  <2>3. UploadedRow(r, i) \in Product BY <1>4, <1>5, <2>1, <2>2 DEF Product
  <2> QED BY <1>2, <2>3
<1> QED BY <1>7, <1>8

LEMMA CommitUploadTyped ==
    ASSUME TypeInv, NEW r \in Requests, CommitUpload(r)
    PROVE  RequestTyped(r)' /\ Target(r) = {}
<1>0. /\ RequestTyped(r) /\ pc \in [Requests -> Pcs] /\ DOMAIN read = Requests
      /\ InPhase(r) /\ OnTarget(r)
  BY DEF TypeInv, TypeOK, RequestTyped
<1>1. /\ pc[r] = "rows" /\ call[r].op = "upload" /\ call[r].file \in Files
      /\ UNCHANGED <<call, parts, jobs, todo, left>>
      /\ pc'[r] = "ok"
      /\ Target(r) = {}
  BY <1>0 DEF CommitUpload, InPhase, Goto, Uploading, RequestTyped, CallTyped, OnTarget
<1> DEFINE rows == RowsOf[call[r].file]
           new == [p \in {<<r, i>> : i \in DOMAIN rows} |-> UploadedRow(r, p[2])]
<1>2. read'[r] = new BY <1>0 DEF CommitUpload
<1>3. \A i \in DOMAIN rows : UploadedRow(r, i) \in Product /\ i \in Nat
  BY <1>1, UploadedRowTyped
<1>4. new \in [DOMAIN new -> Product] /\ DOMAIN new \subseteq {r} \X Nat BY <1>3
<1>5. InPhase(r)' BY <1>0, <1>1 DEF InPhase
<1> HIDE DEF new
<1>6. OnTarget(r)'
  <2>1. DOMAIN new \subseteq ProductId BY <1>4 DEF ProductId
  <2> QED BY <1>0, <1>1, <1>2, <1>4, <2>1 DEF OnTarget, VariantOps, OneTarget, Target
<1> QED BY <1>1, <1>5, <1>6, GrownTyped DEF Target

\* The links of an assignment, one per product.
LEMMA AssignStepTyped ==
    ASSUME TypeInv, NEW r \in Requests, NEW j \in jobs[r], ReadLinks(r, j) \/ AssignLink(r, j)
    PROVE  RequestTyped(r)' /\ call[r].op = "assign" /\ j.product \in Target(r)
<1>0. /\ RequestTyped(r) /\ pc \in [Requests -> Pcs] /\ DOMAIN jobs = Requests
      /\ InPhase(r) /\ OnTarget(r) /\ TasksTyped(r) /\ JobsTyped(r)
  BY DEF TypeInv, TypeOK, RequestTyped
<1>1. /\ UNCHANGED <<pc, call, read, parts, left, todo>>
      /\ call[r].op = "assign" /\ j.product \in Target(r)
  <2>1. CASE AssignLink(r, j) BY <1>0, <2>1 DEF AssignLink, JobsTyped
  <2>2. CASE ReadLinks(r, j)
    <3>1. call[r].op # "create" BY <1>0, <2>2 DEF ReadLinks, JobsTyped, Link, SupplierState
    <3> QED BY <1>0, <2>2, <3>1 DEF ReadLinks, JobsTyped
  <2> QED BY <2>1, <2>2
<1>2. PICK st \in SupplierState \cup {"unread"} :
        \/ jobs'[r] = jobs[r] \ {j}
        \/ jobs'[r] = (jobs[r] \ {j}) \cup {[j EXCEPT !.state = st]}
  BY <1>0 DEF ReadLinks, AssignLink, SupplierState
<1>3. /\ pc[r] \in {"assign", "failed"} /\ pc[r] \notin {"idle", "refused", "parts"}
      /\ pc'[r] = pc[r]
  BY <1>0, <1>1 DEF JobsTyped, InPhase
<1>4. TasksTyped(r)' BY <1>0, <1>1, <1>3 DEF TasksTyped, TaskTyped, PartsDone, Target
<1>5. JobsTyped(r)'
  <2>1. j \in [product : Target(r), supplier : {call[r].supplier},
               state : SupplierState \cup {"unread"}]
    BY <1>0, <1>1 DEF JobsTyped
  <2>2. PICK l : l = [j EXCEPT !.state = st] OBVIOUS
  <2>3. /\ l \in [product : Target(r), supplier : {call[r].supplier},
                  state : SupplierState \cup {"unread"}]
        /\ l.product = j.product
    BY <2>1, <2>2
  <2>4. \/ jobs'[r] = jobs[r] \ {j}
        \/ jobs'[r] = (jobs[r] \ {j}) \cup {l}
    BY <1>2, <2>2
  <2>5. Target(r)' = Target(r) BY <1>1 DEF Target
  <2> QED BY <1>0, <1>1, <1>3, <2>3, <2>4, <2>5 DEF JobsTyped
<1> QED BY <1>1, <1>3, <1>4, <1>5, TasksMovedTyped

\* What the reception of a request does: it reads the products in S.
Begins(r, S) ==
    /\ pc[r] = "idle"
    /\ S \subseteq DOMAIN products
    /\ pc'[r] \in {"product", "wipe", "packs", "find", "assign", "pack", "quantity",
                   "variants", "register", "refused"}
    /\ read'[r] = [p \in S |-> products[p]]
    /\ raced' = raced \/ raced' = raced \cup {{q, r} : q \in {x \in Requests : Busy(x)}}
    /\ pc'[r] # "refused" =>
         raced' = raced \cup {{q, r} : q \in {x \in Requests : Busy(x)}}
    /\ UNCHANGED <<db, parts>>
    /\ jobs' = jobs \/ (pc'[r] = "assign" /\ \A j \in jobs'[r] : j.state = "unread")
    /\ CallTyped(call'[r])
    /\ call'[r].op # "none"
    /\ OthersStay(r)
    /\ RequestTyped(r)'

LEMMA IdleHolds ==
    ASSUME TypeInv, NEW r \in Requests, pc[r] = "idle"
    PROVE  /\ read[r] = [p \in {} |-> products[p]] /\ Target(r) = {}
           /\ DOMAIN parts[r] = {} /\ jobs[r] = {} /\ todo[r] = {} /\ call[r].op = "none"
           /\ parts[r] = [i \in DOMAIN parts[r] |-> parts[r][i]] /\ left[r] \in Nat
<1>1. InPhase(r) /\ OnTarget(r) /\ TasksTyped(r) /\ JobsTyped(r) BY DEF TypeInv, RequestTyped
<1>2. Target(r) = {} /\ read[r] \in [Target(r) -> Product] BY <1>1 DEF OnTarget
<1> QED BY <1>1, <1>2 DEF InPhase, OnTarget, TasksTyped, JobsTyped, VariantOps

LEMMA RefuseTyped ==
    ASSUME TypeInv, NEW r \in Requests, NEW c, Refuse(r, c), CallTyped(c), c.op # "none"
    PROVE  Begins(r, {})
<1>1. /\ pc[r] = "idle" /\ pc'[r] = "refused" /\ call'[r] = c
      /\ UNCHANGED <<db, read, parts, jobs, left, todo, raced>>
      /\ OthersStay(r)
  BY DEF TypeInv, TypeOK, Refuse, Goto, OthersStay
<1>2. /\ read[r] = [p \in {} |-> products[p]] /\ Target(r)' = {}
      /\ DOMAIN parts[r] = {} /\ jobs[r] = {} /\ todo[r] = {}
      /\ parts[r] = [i \in DOMAIN parts[r] |-> parts[r][i]]
  BY <1>1, IdleHolds DEF Target
<1>3. InPhase(r)' BY <1>1 DEF InPhase
<1>4. OnTarget(r)'
  <2>1. left[r] \in Nat BY <1>1, IdleHolds
  <2> QED BY <1>1, <1>2, <2>1 DEF OnTarget
<1>5. TasksTyped(r)' /\ JobsTyped(r)' BY <1>1, <1>2 DEF TasksTyped, PartsDone, JobsTyped
<1> QED BY <1>1, <1>2, <1>3, <1>4, <1>5 DEF Begins, RequestTyped
LEMMA BeginTyped ==
    ASSUME TypeInv, NEW r \in Requests, NEW c, NEW S \in SUBSET DOMAIN products, NEW to,
           Begin(r, c, S), Goto(r, to), UNCHANGED <<db, parts>>,
           CallTyped(c), c.op # "none",
           to \in {"product", "wipe", "packs", "find", "assign", "pack", "quantity",
                   "variants", "register"},
           InPhase(r)',
           OthersStay(r),
           c.op = "create" => S = {},
           c.op = "upload" => S = {} /\ left' = left,
           to \in {"product", "register"} => S = {},
           c.op \in OneTarget => \E p \in S : S = {p},
           todo'[r] \subseteq S,
           todo'[r] # {} => c.op \in VariantOps,
           c.op \in VariantOps => \A p \in S : CodesOf(products[p].variants) \cap c.codes # {},
           \/ jobs' = jobs
           \/ /\ to = "assign" /\ c.op = "assign"
              /\ jobs'[r] = {Unread(p, c.supplier) : p \in S}
    PROVE  Begins(r, S)
<1>1. /\ pc[r] = "idle" /\ pc'[r] = to /\ call'[r] = c
      /\ read'[r] = [p \in S |-> products[p]] /\ Target(r)' = S
      /\ parts' = parts
      /\ raced' = raced \cup {{q, r} : q \in {x \in Requests : Busy(x)}}
  BY DEF TypeInv, TypeOK, Goto, Begin, Target
<1>2. /\ DOMAIN parts[r] = {} /\ jobs[r] = {} /\ left[r] \in Nat
      /\ parts[r] = [i \in DOMAIN parts[r] |-> parts[r][i]]
  BY <1>1, IdleHolds
<1>3. OnTarget(r)'
  <2>1. S \subseteq ProductId /\ read'[r] \in [S -> Product] BY <1>1 DEF TypeInv, TypeOK
  <2>2. c.op = "upload" => left'[r] \in Nat BY <1>2
  <2>3. c.op \in OneTarget => \E p \in S : S = {p} OBVIOUS
  <2>4. pc'[r] \notin {"suppliers", "links", "parts", "ok", "idle", "rows", "mark", "refused"}
    BY <1>1
  <2>5. c.op \in VariantOps =>
          \A p \in S : CodesOf(read'[r][p].variants) \cap c.codes # {}
    BY <1>1
  <2> QED BY <1>1, <2>1, <2>2, <2>3, <2>4, <2>5 DEF OnTarget, CodesOf
<1>4. TasksTyped(r)' BY <1>1, <1>2 DEF TasksTyped, PartsDone
<1>5. JobsTyped(r)'
  <2>1. CASE jobs' = jobs BY <1>1, <1>2, <2>1 DEF JobsTyped
  <2>2. CASE /\ to = "assign" /\ c.op = "assign"
             /\ jobs'[r] = {Unread(p, c.supplier) : p \in S}
    BY <1>1, <2>2 DEF JobsTyped, Unread
  <2> QED BY <2>1, <2>2
<1>6. jobs' = jobs \/ (pc'[r] = "assign" /\ \A j \in jobs'[r] : j.state = "unread")
  BY <1>1 DEF Unread
<1> QED BY <1>1, <1>3, <1>4, <1>5, <1>6 DEF Begins, RequestTyped

\* The one target of a request that has one.
LEMMA ReceiveBegins ==
    ASSUME TypeInv, NEW r \in Requests, Receive(r)
    PROVE  \E S \in SUBSET DOMAIN products : Begins(r, S)
<1>0. /\ DOMAIN pc = Requests /\ DOMAIN call = Requests /\ DOMAIN read = Requests
      /\ DOMAIN jobs = Requests /\ DOMAIN left = Requests /\ DOMAIN todo = Requests
      /\ pc[r] = "idle" /\ todo[r] = {}
  BY IdleHolds DEF TypeInv, TypeOK, Receive
<1>1. ASSUME NEW b \in CreateBodies, BeginCreate(r, b)
      PROVE  Begins(r, {})
  <2>1. PICK c : c = [op |-> "create", body |-> b] OBVIOUS
  <2>2. /\ Begin(r, c, {}) /\ Goto(r, "product")
        /\ UNCHANGED <<db, parts, jobs, assigned, left, todo>> /\ WellFormed(b)
        /\ c.op = "create" /\ c.body = b
    BY <1>1, <2>1 DEF BeginCreate
  <2>3. OthersStay(r) /\ CallTyped(c)
    BY <1>0, <2>2 DEF OthersStay, Begin, Goto, CallTyped, Ops, VariantOps
  <2>4. InPhase(r)' BY <1>0, <2>2 DEF InPhase, Begin, Goto
  <2> QED BY <1>0, <2>2, <2>3, <2>4, BeginTyped DEF OneTarget, VariantOps
<1>2. ASSUME NEW b \in CreateBodies, RefuseCreate(r, b)
      PROVE  Begins(r, {})
  <2>1. PICK c : c = [op |-> "create", body |-> b] OBVIOUS
  <2> QED BY <1>2, <2>1, RefuseTyped DEF RefuseCreate, CallTyped, Ops, VariantOps
<1>3. ASSUME NEW b \in UpdateBodies, NEW p \in DOMAIN products, BeginUpdate(r, p, b)
      PROVE  Begins(r, {p})
  <2>1. PICK c : c = [op |-> "update", body |-> b] OBVIOUS
  <2>2. /\ Begin(r, c, {p}) /\ Goto(r, "wipe")
        /\ UNCHANGED <<db, parts, jobs, left, todo>> /\ WellFormed(b)
        /\ c.op = "update" /\ c.body = b
    BY <1>3, <2>1 DEF BeginUpdate, UpdateChecked
  <2>3. OthersStay(r) /\ CallTyped(c)
    BY <1>0, <2>2 DEF OthersStay, Begin, Goto, CallTyped, Ops, VariantOps
  <2>4. InPhase(r)' BY <1>0, <2>2 DEF InPhase, Begin, Goto
  <2> QED BY <1>0, <2>2, <2>3, <2>4, BeginTyped DEF VariantOps
<1>4. ASSUME NEW b \in UpdateBodies, NEW p \in DOMAIN products, RefuseUpdate(r, p, b)
      PROVE  Begins(r, {})
  <2>1. PICK c : c = [op |-> "update", body |-> b] OBVIOUS
  <2> QED BY <1>4, <2>1, RefuseTyped DEF RefuseUpdate, CallTyped, Ops, VariantOps
<1>5. ASSUME NEW S \in SUBSET DOMAIN products, BeginDelete(r, S)
      PROVE  Begins(r, S)
  <2>1. PICK c : c = [op |-> "delete"] OBVIOUS
  <2>2. /\ Begin(r, c, S) /\ Goto(r, "packs")
        /\ UNCHANGED <<db, parts, jobs, assigned, left, todo>>
        /\ c.op = "delete"
    BY <1>5, <2>1 DEF BeginDelete
  <2>3. OthersStay(r) /\ CallTyped(c)
    BY <1>0, <2>2 DEF OthersStay, Begin, Goto, CallTyped, Ops, VariantOps
  <2>4. InPhase(r)' BY <1>0, <2>2 DEF InPhase, Begin, Goto
  <2> QED BY <1>0, <2>2, <2>3, <2>4, BeginTyped DEF VariantOps, OneTarget
<1>6. ASSUME BeginDeleteAll(r)
      PROVE  Begins(r, {})
  <2>1. PICK c : c = [op |-> "deleteAll"] OBVIOUS
  <2>2. /\ Begin(r, c, {}) /\ Goto(r, "find")
        /\ UNCHANGED <<db, parts, jobs, assigned, todo>>
        /\ left' = [left EXCEPT ![r] = Cardinality(DOMAIN products)]
        /\ c.op = "deleteAll"
    BY <1>6, <2>1 DEF BeginDeleteAll
  <2>3. OthersStay(r) /\ CallTyped(c)
    BY <1>0, <2>2 DEF OthersStay, Begin, Goto, CallTyped, Ops, VariantOps
  <2>4. InPhase(r)' BY <1>0, <2>2 DEF InPhase, Begin, Goto
  <2> QED BY <1>0, <2>2, <2>3, <2>4, BeginTyped DEF VariantOps, OneTarget
<1>7. ASSUME NEW s \in Suppliers, NEW S \in SUBSET DOMAIN products, BeginAssign(r, s, S)
      PROVE  Begins(r, S)
  <2>1. PICK c : c = [op |-> "assign", supplier |-> s] OBVIOUS
  <2>2. /\ Begin(r, c, S) /\ Goto(r, "assign")
        /\ UNCHANGED <<db, parts, assigned, left, todo>>
        /\ jobs' = [jobs EXCEPT ![r] = {Unread(p, s) : p \in S}]
        /\ c.op = "assign" /\ c.supplier = s
    BY <1>7, <2>1 DEF BeginAssign
  <2>3. OthersStay(r) /\ CallTyped(c)
    BY <1>0, <2>2 DEF OthersStay, Begin, Goto, CallTyped, Ops, VariantOps
  <2>4. InPhase(r)' BY <1>0, <2>2 DEF InPhase, Begin, Goto
  <2> QED BY <1>0, <2>2, <2>3, <2>4, BeginTyped DEF VariantOps, OneTarget
<1>8. ASSUME NEW k \in DOMAIN packs, BeginDeletePack(r, k)
      PROVE  Begins(r, {packs[k]}) /\ packs[k] \in DOMAIN products
  <2>1. PICK c : c = [op |-> "deletePack", pack |-> k] OBVIOUS
  <2>2. /\ Begin(r, c, {packs[k]}) /\ Goto(r, "pack")
        /\ UNCHANGED <<db, parts, jobs, assigned, left, todo>>
        /\ c.op = "deletePack" /\ c.pack = k
    BY <1>8, <2>1 DEF BeginDeletePack
  <2>3. k \in PackId /\ packs[k] \in DOMAIN products BY DEF TypeInv, TypeOK
  <2>4. OthersStay(r) /\ CallTyped(c)
    BY <1>0, <2>2, <2>3 DEF OthersStay, Begin, Goto, CallTyped, Ops, VariantOps
  <2>5. InPhase(r)' BY <1>0, <2>2 DEF InPhase, Begin, Goto
  <2> QED BY <1>0, <2>2, <2>3, <2>4, <2>5, BeginTyped DEF VariantOps
<1>9. ASSUME NEW n \in Quantities, NEW p \in DOMAIN products, BeginQuantity(r, p, n)
      PROVE  Begins(r, {p})
  <2>1. PICK c : c = [op |-> "quantity", qty |-> n] OBVIOUS
  <2>2. /\ Begin(r, c, {p}) /\ Goto(r, "quantity")
        /\ UNCHANGED <<db, parts, jobs, assigned, left, todo>>
        /\ c.op = "quantity" /\ c.qty = n
    BY <1>9, <2>1 DEF BeginQuantity
  <2>3. OthersStay(r) /\ CallTyped(c)
    BY <1>0, <2>2, CatalogueAssumption DEF OthersStay, Begin, Goto, CallTyped, Ops, VariantOps
  <2>4. InPhase(r)' BY <1>0, <2>2 DEF InPhase, Begin, Goto
  <2> QED BY <1>0, <2>2, <2>3, <2>4, BeginTyped DEF VariantOps
<1>10. ASSUME NEW op \in VariantOps, NEW C \in SUBSET Codes, NEW n \in Int,
              BeginVariants(r, op, C, n)
       PROVE  \E S \in SUBSET DOMAIN products : Begins(r, S)
  <2>1. PICK c : c = [op |-> op, codes |-> C, qty |-> n] OBVIOUS
  <2> DEFINE found == {p \in DOMAIN products : HasCode(p, C)}
  <2>2. PICK S \in IF op = "deleteSelected" THEN {found} ELSE {{p} : p \in found} :
          /\ S # {}
          /\ Begin(r, c, S)
          /\ todo' = [todo EXCEPT ![r] = S]
    BY <1>10, <2>1 DEF BeginVariants
  <2>3. /\ Goto(r, "variants")
        /\ UNCHANGED <<db, parts, jobs, assigned, left>>
        /\ c.op = op /\ c.codes = C /\ c.qty = n
    BY <1>10, <2>1 DEF BeginVariants
  <2>4. /\ S \in SUBSET DOMAIN products
        /\ \A p \in S : CodesOf(products[p].variants) \cap C # {}
        /\ op # "deleteSelected" => \E p \in S : S = {p}
    BY <2>2 DEF HasCode
  <2>5. OthersStay(r) /\ CallTyped(c)
    BY <1>0, <2>2, <2>3 DEF OthersStay, Begin, Goto, CallTyped, Ops, VariantOps
  <2>6. InPhase(r)' BY <1>0, <2>2, <2>3 DEF InPhase, Begin, Goto, VariantOps
  <2>7. c.op \in OneTarget => c.op # "deleteSelected" BY DEF OneTarget
  <2>8. todo'[r] = S /\ c.op \notin {"none", "create", "upload"}
    BY <1>0, <2>2, <2>3 DEF VariantOps
  <2> HIDE DEF found
  <2> QED BY <1>0, <2>2, <2>3, <2>4, <2>5, <2>6, <2>7, <2>8, BeginTyped
<1>11. ASSUME NEW f \in Files, BeginUpload(r, f)
       PROVE  Begins(r, {})
  <2>1. PICK c : c = [op |-> "upload", file |-> f] OBVIOUS
  <2>2. /\ Begin(r, c, {}) /\ Goto(r, "register")
        /\ UNCHANGED <<db, parts, jobs, assigned, left, todo>>
        /\ c.op = "upload" /\ c.file = f
    BY <1>11, <2>1 DEF BeginUpload
  <2>3. OthersStay(r) /\ CallTyped(c)
    BY <1>0, <2>2 DEF OthersStay, Begin, Goto, CallTyped, Ops, VariantOps
  <2>4. InPhase(r)' BY <1>0, <2>2 DEF InPhase, Begin, Goto
  <2> QED BY <1>0, <2>2, <2>3, <2>4, BeginTyped DEF VariantOps, OneTarget
<1>12. ASSUME NEW f \in Files, RefuseUpload(r, f)
       PROVE  Begins(r, {})
  <2>1. PICK c : c = [op |-> "upload", file |-> f] OBVIOUS
  <2> QED BY <1>12, <2>1, RefuseTyped DEF RefuseUpload, CallTyped, Ops, VariantOps
<1> DEFINE G == \E S \in SUBSET DOMAIN products : Begins(r, S)
<1>13. (\E n \in Quantities : \E c \in Codes : \/ BeginVariants(r, "setVariant", {c}, n)
                                               \/ BeginVariants(r, "sellVariant", {c}, n)) => G
  <2>0. Quantities \subseteq Nat BY Zenon, CatalogueAssumption
  <2>1. \A n \in Quantities : n \in Int BY <2>0
  <2>2. "setVariant" \in VariantOps /\ "sellVariant" \in VariantOps BY DEF VariantOps
  <2>3. \A c \in Codes : {c} \in SUBSET Codes OBVIOUS
  <2> QED BY <1>10, <2>1, <2>2, <2>3
<1>14. (\/ \E c \in Codes : BeginVariants(r, "deleteVariant", {c}, 0)
        \/ \E C \in SUBSET Codes : BeginVariants(r, "deleteSelected", C, 0)) => G
  <2>1. 0 \in Int /\ "deleteVariant" \in VariantOps /\ "deleteSelected" \in VariantOps
    BY DEF VariantOps
  <2>2. \A c \in Codes : {c} \in SUBSET Codes OBVIOUS
  <2> QED BY <1>10, <2>1, <2>2
<1> QED
  BY <1>1, <1>2, <1>3, <1>4, <1>5, <1>6, <1>7, <1>8, <1>9, <1>11, <1>12, <1>13, <1>14
     DEF Receive

----------------------------------------------------------------------------
(* A step of a request *)

\* A step of r moves r alone, which was at work, and its call and history stay.
MovesOnly(r) ==
    /\ OthersStay(r)
    /\ UNCHANGED <<call, raced>>
    /\ RequestTyped(r)'
    /\ Target(r) \subseteq Target(r)'
    /\ Busy(r)
    /\ pc'[r] \notin {"idle", "refused"}

Works(r) == Step(r) \/ Part(r) \/ Link_(r) \/ UploadExpires(r) \/ NoConnection(r)

SimpleStep(r) ==
    \/ FinishCreate(r) \/ WriteUpdate(r) \/ Unlink(r) \/ Relink(r) \/ RelinkThrows(r)
    \/ PartsThrow(r) \/ DeletePacks(r) \/ DeleteRows(r) \/ DeleteThrows(r)
    \/ BatchThrows(r) \/ CleanFiles(r) \/ FinishAssign(r) \/ DeletePack(r)
    \/ DeletePackThrows(r) \/ UnlistPack(r) \/ WriteThrows(r) \/ WriteQuantity(r)
    \/ Register(r) \/ MarkFailed(r) \/ UploadExpires(r) \/ NoConnection(r)

\* Steps that change nothing local but what the request awaits.
LEMMA SimpleStepMoves ==
    ASSUME NEW r \in Requests, SimpleStep(r)
    PROVE  /\ UNCHANGED locals /\ InFlight(r)
           /\ \E to \in {"ok", "failed", "unlink", "relink", "erase", "unlist", "mark", "rows"} :
                Goto(r, to)
<1>1. CASE \/ FinishCreate(r) \/ WriteUpdate(r) \/ Unlink(r) \/ Relink(r)
  BY <1>1 DEF FinishCreate, WriteUpdate, Unlink, Relink, InFlight, Ended, locals
<1>2. CASE \/ RelinkThrows(r) \/ PartsThrow(r) \/ DeleteThrows(r) \/ BatchThrows(r)
           \/ DeletePackThrows(r) \/ WriteThrows(r) \/ NoConnection(r)
  BY <1>2 DEF RelinkThrows, PartsThrow, DeleteThrows, BatchThrows, DeletePackThrows,
              WriteThrows, NoConnection, Throws, InFlight, Ended, locals
<1>3. CASE \/ DeletePacks(r) \/ DeleteRows(r) \/ CleanFiles(r) \/ FinishAssign(r)
           \/ DeletePack(r) \/ UnlistPack(r)
  BY <1>3 DEF DeletePacks, DeleteRows, CleanFiles, FinishAssign, DeletePack, UnlistPack,
              InFlight, Ended, locals
<1>4. CASE WriteQuantity(r) \/ Register(r) \/ MarkFailed(r) \/ UploadExpires(r)
  BY <1>4 DEF WriteQuantity, Register, MarkFailed, UploadExpires, Uploading, InFlight,
              Ended, locals
<1> QED BY <1>1, <1>2, <1>3, <1>4 DEF SimpleStep

LEMMA SimpleStepOnly ==
    ASSUME TypeInv, NEW r \in Requests, SimpleStep(r)
    PROVE  MovesOnly(r)
<1>1. RequestTyped(r)' BY SimpleStepsTyped DEF SimpleStep
<1>2. PICK to \in {"ok", "failed", "unlink", "relink", "erase", "unlist", "mark", "rows"} :
        Goto(r, to)
  BY SimpleStepMoves
<1>3. UNCHANGED locals /\ InFlight(r) /\ DOMAIN pc = Requests
  BY SimpleStepMoves DEF TypeInv, TypeOK
<1> QED BY <1>1, <1>2, <1>3 DEF MovesOnly, OthersStay, Goto, locals, Busy, Target

LEMMA PartOnly ==
    ASSUME TypeInv, NEW r \in Requests, NEW i \in DOMAIN parts[r], NEW part,
           PartMoves(r, i, part)
    PROVE  MovesOnly(r)
<1>1. RequestTyped(r)' /\ pc[r] \in {"parts", "failed"} BY PartMovesTyped
<1>2. /\ UNCHANGED <<call, read, jobs, left, todo, raced>> /\ parts[r][i] # DonePart
      /\ parts' = [parts EXCEPT ![r] = [parts[r] EXCEPT ![i] = part]]
      /\ DOMAIN pc = Requests /\ DOMAIN parts = Requests
  BY DEF PartMoves, TypeInv, TypeOK
<1>3. pc' = pc \/ pc' = [pc EXCEPT ![r] = IF @ = "parts" THEN "failed" ELSE @]
  BY DEF PartMoves
<1> QED BY <1>1, <1>2, <1>3 DEF MovesOnly, OthersStay, Busy, Target

LEMMA LinkOnly ==
    ASSUME TypeInv, NEW r \in Requests, NEW j \in jobs[r],
           MakeLink(r, j) \/ ReadLinks(r, j) \/ AssignLink(r, j)
    PROVE  MovesOnly(r)
<1>1. RequestTyped(r)' BY MakeLinkTyped, AssignStepTyped
<1>2. /\ DOMAIN pc = Requests /\ DOMAIN parts = Requests /\ DOMAIN jobs = Requests
      /\ Busy(r) /\ pc[r] \notin {"idle", "refused"}
  <2>1. Busy(r) BY DEF Busy
  <2> QED BY <2>1, BusyOps DEF TypeInv, TypeOK
<1>3. /\ UNCHANGED <<call, read, left, todo, raced>>
      /\ \A q \in Requests \ {r} : jobs'[q] = jobs[q]
  BY <1>2 DEF MakeLink, ReadLinks, AssignLink
<1>4. /\ pc'[r] \in {pc[r], "failed", "parts"}
      /\ \A q \in Requests \ {r} : parts'[q] = parts[q] /\ pc'[q] = pc[q]
  <2>1. CASE MakeLink(r, j) BY <1>2, <2>1 DEF MakeLink, EnterParts, Goto
  <2>2. CASE ReadLinks(r, j) \/ AssignLink(r, j) BY <1>2, <2>2 DEF ReadLinks, AssignLink
  <2> QED BY <2>1, <2>2
<1> QED BY <1>1, <1>2, <1>3, <1>4 DEF MovesOnly, OthersStay, Target

LEMMA OtherStepOnly ==
    ASSUME TypeInv, NEW r \in Requests,
           \/ CreateProduct(r) \/ FindSuppliers(r) \/ WipePacks(r) \/ FindBatch(r)
           \/ DeleteBatch(r) \/ (\E p \in todo[r] : WriteVariants(r, p)) \/ Row(r)
           \/ CommitUpload(r)
    PROVE  MovesOnly(r)
<1>0. /\ DOMAIN pc = Requests /\ DOMAIN parts = Requests /\ DOMAIN jobs = Requests
      /\ DOMAIN read = Requests /\ DOMAIN left = Requests /\ DOMAIN todo = Requests
  BY DEF TypeInv, TypeOK
<1>1. CASE CreateProduct(r)
  <2>1. RequestTyped(r)' /\ Target(r) = {}
    BY <1>1, CreateProductTyped DEF TypeInv, RequestTyped, OnTarget, CreateProduct
  <2> QED
    BY <1>0, <1>1, <2>1 DEF CreateProduct, MovesOnly, OthersStay, EnterParts, Goto, Busy,
                            InFlight, Ended
<1>2. CASE FindSuppliers(r)
  <2>1. RequestTyped(r)' BY <1>2, FindSuppliersTyped
  <2> QED
    BY <1>0, <1>2, <2>1 DEF FindSuppliers, MovesOnly, OthersStay, Throws, locals, Goto,
                            Busy, InFlight, Ended, Target
<1>3. CASE WipePacks(r)
  <2>1. RequestTyped(r)' BY <1>3, WipePacksTyped
  <2> QED
    BY <1>0, <1>3, <2>1 DEF WipePacks, MovesOnly, OthersStay, EnterParts, Goto, Busy,
                            InFlight, Ended, Target
<1>4. CASE FindBatch(r)
  <2>1. RequestTyped(r)' /\ Target(r) \subseteq Target(r)' BY <1>4, FindBatchTyped
  <2> QED BY <1>0, <1>4, <2>1 DEF FindBatch, MovesOnly, OthersStay, Goto, Busy, InFlight, Ended
<1>5. CASE DeleteBatch(r)
  <2>1. RequestTyped(r)' /\ Target(r) \subseteq Target(r)' BY <1>5, DeleteBatchTyped
  <2> QED BY <1>0, <1>5, <2>1 DEF DeleteBatch, MovesOnly, OthersStay, Goto, Busy, InFlight, Ended
<1>6. ASSUME NEW p \in todo[r], WriteVariants(r, p)
      PROVE  MovesOnly(r)
  <2>1. RequestTyped(r)' BY <1>6, WriteVariantsTyped
  <2> QED
    BY <1>0, <1>6, <2>1 DEF WriteVariants, MovesOnly, OthersStay, Goto, Busy, InFlight,
                            Ended, Target
<1>7. CASE Row(r)
  <2>1. RequestTyped(r)' BY <1>7, RowTyped
  <2> QED
    BY <1>0, <1>7, <2>1 DEF Row, Uploading, MovesOnly, OthersStay, Goto, Busy, InFlight,
                            Ended, Target
<1>8. CASE CommitUpload(r)
  <2>1. RequestTyped(r)' /\ Target(r) = {} BY <1>8, CommitUploadTyped
  <2> QED
    BY <1>0, <1>8, <2>1 DEF CommitUpload, Uploading, MovesOnly, OthersStay, Goto, Busy,
                            InFlight, Ended
<1> QED BY <1>1, <1>2, <1>3, <1>4, <1>5, <1>6, <1>7, <1>8

LEMMA WorksMovesOnly ==
    ASSUME TypeInv, NEW r \in Requests, Works(r)
    PROVE  MovesOnly(r)
<1>1. CASE SimpleStep(r) BY <1>1, SimpleStepOnly
<1>2. CASE Part(r)
  <2>1. PICK i \in DOMAIN parts[r] : MakePack(r, i) \/ CheckSupplier(r, i) \/ LinkVariant(r, i)
    BY <1>2 DEF Part
  <2>2. \E part : PartMoves(r, i, part)
    BY <2>1, MakePackMoves, CheckSupplierMoves, LinkVariantMoves
  <2> QED BY <2>2, PartOnly
<1>3. CASE Link_(r) BY <1>3, LinkOnly DEF Link_
<1>4. CASE Step(r) /\ ~ SimpleStep(r) BY <1>4, OtherStepOnly DEF Step, SimpleStep
<1> QED BY <1>1, <1>2, <1>3, <1>4 DEF Works, SimpleStep

----------------------------------------------------------------------------
(* The variants that are left *)

Kept(vs, C) == {i \in DOMAIN vs : vs[i].code \notin C}

LEMMA KeptFinite ==
    ASSUME NEW vs \in Seq(Variant), NEW C
    PROVE  /\ Kept(vs, C) \in SUBSET Int /\ IsFiniteSet(Kept(vs, C))
           /\ Cardinality(Kept(vs, C)) \in Nat
<1>1. PICK n \in Nat : DOMAIN vs = 1..n BY DEF Variant
<1>2. Kept(vs, C) \subseteq 1..n BY <1>1 DEF Kept
<1>3. IsFiniteSet(1..n) BY FS_Interval
<1> QED BY <1>2, <1>3, FS_Subset, FS_CardinalityType

LEMMA OthersAre ==
    ASSUME NEW vs, NEW C
    PROVE  Others(vs, C) = [n \in 1..Cardinality(Kept(vs, C)) |-> vs[Nth(Kept(vs, C), n)]]
  BY DEF Others, Kept, Nth

\* They are variants of the sequence, and none of the codes.
LEMMA OthersTyped ==
    ASSUME NEW vs \in Seq(Variant), NEW C
    PROVE  /\ Others(vs, C) \in Seq(Variant)
           /\ DOMAIN Others(vs, C) = 1..Cardinality(Kept(vs, C))
           /\ \A n \in DOMAIN Others(vs, C) :
                /\ Nth(Kept(vs, C), n) \in Kept(vs, C)
                /\ Others(vs, C)[n] = vs[Nth(Kept(vs, C), n)]
                /\ Others(vs, C)[n].code \notin C
<1>1. PICK K \in SUBSET Int : K = Kept(vs, C) /\ IsFiniteSet(K) /\ Cardinality(K) \in Nat
  BY KeptFinite
<1>2. PICK m \in Nat : m = Cardinality(K) BY <1>1
<1>3. \A n \in 1..m : Nth(K, n) \in K BY <1>1, <1>2, NthOf DEF AreInts
<1>4. \A i \in K : i \in DOMAIN vs /\ vs[i] \in Variant /\ vs[i].code \notin C
  BY <1>1 DEF Kept
<1>5. Others(vs, C) = [n \in 1..m |-> vs[Nth(K, n)]] BY <1>1, <1>2, OthersAre
<1>6. Others(vs, C) \in [1..m -> Variant] BY <1>3, <1>4, <1>5
<1>7. Others(vs, C) \in Seq(Variant) BY <1>6
<1> QED BY <1>1, <1>2, <1>3, <1>4, <1>5, <1>7

----------------------------------------------------------------------------
(* The first variant of a code *)

LEMMA FirstHit ==
    ASSUME NEW vs \in Seq(Variant), NEW C, CodesOf(vs) \cap C # {}
    PROVE  \E i \in DOMAIN vs : vs[i].code \in C /\ QtyOf(vs, C) = vs[i].qty
<1> DEFINE hits == {i \in DOMAIN vs : vs[i].code \in C}
<1>1. hits # {} BY DEF CodesOf
<1>2. PICK n \in Nat : DOMAIN vs = 1..n OBVIOUS
<1>3. hits \subseteq 1..n BY <1>2
<1> DEFINE mirror == {0 - i : i \in hits}
<1>4. mirror \in SUBSET Int /\ mirror # {} /\ mirror \subseteq (0 - n)..(0 - 1) BY <1>1, <1>3
<1>5. IsFiniteSet(mirror)
  <2>1. 0 - n \in Int /\ 0 - 1 \in Int OBVIOUS
  <2>2. IsFiniteSet((0 - n)..(0 - 1)) BY <2>1, FS_Interval
  <2> QED BY <1>4, <2>2, FS_Subset
<1> HIDE DEF mirror
<1>6. PICK m \in mirror : \A k \in mirror : k <= m
  <2>1. AreInts(mirror) BY <1>4 DEF AreInts
  <2> QED BY <1>4, <1>5, <2>1, Greatest
<1> USE DEF mirror
<1>7. PICK i \in hits : m = 0 - i OBVIOUS
<1>8. \A j \in hits : i <= j
  <2>1. ASSUME NEW j \in hits PROVE i <= j
    <3>1. 0 - j <= 0 - i BY <1>6, <1>7
    <3>2. i \in Int /\ j \in Int BY <1>3
    <3> QED BY <3>1, <3>2
  <2> QED BY <2>1
<1>9. Min(hits) \in hits
  <2>1. \E x \in hits : \A y \in hits : x <= y BY <1>8
  <2> HIDE DEF hits
  <2> QED BY <2>1 DEF Min
<1> QED BY <1>9 DEF QtyOf

\* Setting the quantity of a variant leaves its code and packs, and other variants.
LEMMA SetTyped ==
    ASSUME NEW vs \in Seq(Variant), NEW C, NEW n \in Int
    PROVE  /\ Set(vs, C, n) \in Seq(Variant) /\ DOMAIN Set(vs, C, n) = DOMAIN vs
           /\ \A i \in DOMAIN vs :
                /\ Set(vs, C, n)[i].code = vs[i].code /\ Set(vs, C, n)[i].packs = vs[i].packs
                /\ vs[i].code \notin C => Set(vs, C, n)[i] = vs[i]
<1>1. PICK m \in Nat : DOMAIN vs = 1..m OBVIOUS
<1> DEFINE hits == {i \in DOMAIN vs : vs[i].code \in C}
           first(i) == i \in hits /\ \A j \in hits : i <= j
           at(i) == IF first(i) THEN [vs[i] EXCEPT !.qty = n] ELSE vs[i]
<1>2. ASSUME NEW i \in DOMAIN vs
      PROVE  /\ at(i) \in Variant /\ at(i).code = vs[i].code /\ at(i).packs = vs[i].packs
             /\ vs[i].code \notin C => at(i) = vs[i]
  <2>1. vs[i] \in Variant OBVIOUS
  <2>2. CASE first(i) BY <2>1, <2>2 DEF Variant
  <2>3. CASE ~ first(i) BY <2>1, <2>3
  <2> QED BY <2>2, <2>3
<1>3. Set(vs, C, n) = [i \in 1..m |-> at(i)] BY <1>1 DEF Set
<1> HIDE DEF at
<1>4. Set(vs, C, n) \in [1..m -> Variant] BY <1>1, <1>2, <1>3
<1>5. Set(vs, C, n) \in Seq(Variant) BY <1>4
<1> QED BY <1>1, <1>2, <1>3, <1>5

----------------------------------------------------------------------------
(* What a step does to the tables *)

RowsTyped ==
    /\ DOMAIN products \subseteq ProductId
    /\ \A p \in DOMAIN products : products[p] \in Product
    /\ DOMAIN packs \subseteq PackId
    /\ \A k \in DOMAIN packs : packs[k] \in DOMAIN products
    /\ links \subseteq Link
    /\ \A l \in links : l.product \in DOMAIN products
    /\ DOMAIN files \subseteq Files
    /\ \A f \in DOMAIN files : files[f] \in {"completed", "failed"}

\* A row of a product of r is written.
RowChanges(r) ==
    /\ \E p \in Target(r) \cap DOMAIN products, row \in Product :
         products' = [products EXCEPT ![p] = row]
    /\ UNCHANGED <<packs, links, files>>

\* Packs are deleted.
PacksGo ==
    /\ \E K \in SUBSET PackId : packs' = Without(packs, K)
    /\ UNCHANGED <<products, links, files>>

\* A pack is made for a product of r.
PackComes(r) ==
    /\ \E k \in PackId, p \in Target(r) \cap DOMAIN products : packs' = With(packs, k, p)
    /\ UNCHANGED <<products, links, files>>

\* Links of products of r are made, or deleted.
LinksCome(r) ==
    /\ \E L \in SUBSET {l \in Link : l.product \in Target(r) \cap DOMAIN products} :
         links' = links \cup L
    /\ UNCHANGED <<products, packs, files>>

LinksGo(r) ==
    /\ links' = {l \in links : l.product \notin Target(r)}
    /\ UNCHANGED <<products, packs, files>>

\* The products of r are deleted.
RowsGo(r) ==
    /\ Erase(Target(r))
    /\ \/ packs' = Without(packs, PacksOf(Target(r)))
       \/ packs' = packs /\ PacksOf(Target(r)) = {}
    /\ UNCHANGED files

\* A product is made.
RowComes(r) ==
    /\ \E row \in Product : products' = With(products, Own(r), row)
    /\ Target(r)' = {Own(r)} /\ Target(r) = {} /\ jobs[r] = {} /\ call[r].op = "create"
    /\ UNCHANGED <<packs, links, files, jobs>>

FilesChange ==
    /\ \/ files' = EmptyFun
       \/ \E f \in DOMAIN files : files' = [files EXCEPT ![f] = "failed"]
    /\ UNCHANGED <<products, packs, links>>

Effect(r) ==
    \/ UNCHANGED db
    \/ RowChanges(r) \/ PacksGo \/ PackComes(r) \/ LinksCome(r) \/ LinksGo(r) \/ RowsGo(r)
    \/ RowComes(r) \/ FilesChange \/ CommitUpload(r)

LEMMA RowsAreTyped ==
    ASSUME TypeInv
    PROVE  RowsTyped
  BY DEF TypeInv, TypeOK, RowsTyped

LEMMA PacksMadeTyped ==
    ASSUME NEW r \in Requests, NEW i \in Nat, NEW n \in Nat
    PROVE  PacksMade(r, i, n) \in SUBSET PackId
  BY DEF PacksMade, PackId

LEMMA VariantsMadeTyped ==
    ASSUME NEW r \in Requests, RequestTyped(r), call[r].op \in {"create", "update"},
           call[r].body.hv = "yes"
    PROVE  /\ VariantsMade(r) \in Seq(Variant)
           /\ DOMAIN VariantsMade(r) = DOMAIN call[r].body.variants
           /\ Len(VariantsMade(r)) = Len(call[r].body.variants)
           /\ \A i \in DOMAIN call[r].body.variants :
                /\ i \in Nat /\ call[r].body.variants[i].packs \in Nat
                /\ VariantsMade(r)[i].code = call[r].body.variants[i].code
                /\ VariantsMade(r)[i].packs =
                     PacksMade(r, i, call[r].body.variants[i].packs)
<1>1. PICK vs \in Seq(VariantBody) : vs = call[r].body.variants BY BodyTyped DEF Body
<1>2. PICK n \in Nat : DOMAIN vs = 1..n /\ n = Len(vs) OBVIOUS
<1> DEFINE at(i) == [code |-> vs[i].code, packs |-> PacksMade(r, i, vs[i].packs),
                     qty |-> vs[i].qty]
<1>3. VariantsMade(r) = [i \in 1..n |-> at(i)] BY <1>1, <1>2 DEF VariantsMade
<1>4. ASSUME NEW i \in 1..n
      PROVE  /\ at(i) \in Variant /\ vs[i].packs \in Nat /\ at(i).code = vs[i].code
             /\ at(i).packs = PacksMade(r, i, vs[i].packs)
  <2>1. vs[i] \in VariantBody BY <1>2
  <2>2. PacksMade(r, i, vs[i].packs) \in SUBSET PackId BY <2>1, PacksMadeTyped DEF VariantBody
  <2> QED BY <2>1, <2>2 DEF Variant, VariantBody
<1> HIDE DEF at
<1>5. VariantsMade(r) \in [1..n -> Variant] BY <1>3, <1>4
<1>6. VariantsMade(r) \in Seq(Variant) /\ Len(VariantsMade(r)) = n BY <1>5
<1> QED BY <1>1, <1>2, <1>3, <1>4, <1>6

\* Columns of a row that are written.
LEMMA VariantsWritten ==
    ASSUME NEW row \in Product, NEW vs \in Seq(Variant)
    PROVE  [row EXCEPT !.variants = vs] \in Product
  BY DEF Product

LEMMA PackIdsWritten ==
    ASSUME NEW row \in Product, NEW S \in SUBSET PackId
    PROVE  [row EXCEPT !.packIds = S] \in Product
  BY DEF Product

LEMMA QtyWritten ==
    ASSUME NEW row \in Product, NEW n \in Int
    PROVE  [row EXCEPT !.qty = n] \in Product
  BY DEF Product

LEMMA ArrayWritten ==
    ASSUME NEW row \in Product, NEW vs \in Seq(Variant), NEW b \in BOOLEAN
    PROVE  [row EXCEPT !.variants = vs, !.hasVariants = b] \in Product
  BY DEF Product

LEMMA FinishCreateEffect ==
    ASSUME TypeInv, NEW r \in Requests, FinishCreate(r)
    PROVE  UNCHANGED db \/ RowChanges(r)
<1>1. /\ RequestTyped(r) /\ call[r].op = "create" /\ pc[r] = "parts" /\ Target(r) = {Own(r)}
      /\ UNCHANGED <<packs, links, files>> /\ call[r].body \in Body
  BY BodyTyped DEF TypeInv, RequestTyped, OnTarget, FinishCreate
<1>2. CASE products' = products BY <1>1, <1>2 DEF db
<1>3. CASE /\ call[r].body.hv = "yes" /\ Exists(Own(r))
           /\ products' = [products EXCEPT ![Own(r)].variants = VariantsMade(r)]
  <2>1. products[Own(r)] \in Product BY <1>3 DEF TypeInv, TypeOK, Exists
  <2>2. [products[Own(r)] EXCEPT !.variants = VariantsMade(r)] \in Product
    BY <1>1, <1>3, <2>1, VariantsMadeTyped, VariantsWritten
  <2> QED BY <1>1, <1>3, <2>2 DEF RowChanges, Exists
<1>4. CASE /\ Exists(Own(r))
           /\ products' = [products EXCEPT ![Own(r)].packIds =
                              PacksMade(r, 0, call[r].body.packs)]
  <2>1. products[Own(r)] \in Product /\ call[r].body.packs \in Nat
    BY <1>1, <1>4 DEF TypeInv, TypeOK, Exists, Body
  <2>2. [products[Own(r)] EXCEPT !.packIds = PacksMade(r, 0, call[r].body.packs)] \in Product
    BY <2>1, PacksMadeTyped, PackIdsWritten
  <2> QED BY <1>1, <1>4, <2>2 DEF RowChanges, Exists
<1> QED BY <1>2, <1>3, <1>4 DEF FinishCreate

LEMMA WriteUpdateEffect ==
    ASSUME TypeInv, NEW r \in Requests, WriteUpdate(r)
    PROVE  /\ RowChanges(r) /\ Target(r) = {The(r)} /\ Exists(The(r))
           /\ products' = [products EXCEPT ![The(r)] = Updated(r, products[The(r)])]
           /\ Updated(r, products[The(r)]) \in Product
<1>1. /\ RequestTyped(r) /\ call[r].op = "update" /\ pc[r] = "parts"
      /\ Target(r) = {The(r)} /\ Exists(The(r)) /\ UNCHANGED <<packs, links, files>>
      /\ products' = [products EXCEPT ![The(r)] = Updated(r, products[The(r)])]
      /\ call[r].body \in Body
  <2>1. RequestTyped(r) /\ call[r].op = "update" /\ pc[r] = "parts"
    BY DEF TypeInv, WriteUpdate
  <2>2. Target(r) # {} BY <2>1 DEF RequestTyped, OnTarget, OneTarget
  <2> QED BY <2>1, <2>2, TheIsTarget, BodyTyped DEF WriteUpdate, OneTarget
<1>2. products[The(r)] \in Product BY <1>1 DEF TypeInv, TypeOK, Exists
<1>3. call[r].body.hv = "yes" => VariantsMade(r) \in Seq(Variant) BY <1>1, VariantsMadeTyped
<1>4. PacksMade(r, 0, call[r].body.packs) \in SUBSET PackId BY <1>1, PacksMadeTyped DEF Body
<1>5. call[r].body.code \in Codes \cup {NoCode} BY <1>1 DEF Body
<1>6. Updated(r, products[The(r)]) \in Product
  <2>1. PICK row \in Product : row = products[The(r)] BY <1>2
  <2>2. row.code \in Codes \cup {NoCode} /\ row.hasVariants \in BOOLEAN BY DEF Product
  <2>3. <<>> \in Seq(Variant) /\ {} \in SUBSET PackId OBVIOUS
  <2>4. PICK c \in Codes \cup {NoCode}, b \in BOOLEAN, S \in SUBSET PackId,
             vs \in Seq(Variant) :
          /\ c = IF call[r].body.hv = "yes" THEN NoCode
                 ELSE IF call[r].body.hv = "no" /\ call[r].body.code # NoCode
                      THEN call[r].body.code ELSE row.code
          /\ b = IF call[r].body.hv = "unset" THEN row.hasVariants
                 ELSE call[r].body.hv = "yes"
          /\ S = IF call[r].body.hv = "yes" THEN {} ELSE PacksMade(r, 0, call[r].body.packs)
          /\ vs = IF call[r].body.hv = "yes" THEN VariantsMade(r) ELSE <<>>
    BY <1>3, <1>4, <1>5, <2>2, <2>3
  <2>5. Updated(r, row) = [row EXCEPT !.code = c, !.hasVariants = b, !.packIds = S,
                                      !.variants = vs]
    BY <2>2, <2>4 DEF Updated
  <2>6. [row EXCEPT !.code = c, !.hasVariants = b, !.packIds = S, !.variants = vs] \in Product
    BY DEF Product
  <2> QED BY <2>1, <2>5, <2>6
<1> QED BY <1>1, <1>6 DEF RowChanges, Exists

LEMMA NewVariantsTyped ==
    ASSUME TypeInv, NEW r \in Requests, NEW p \in Target(r), call[r].op \in VariantOps
    PROVE  NewVariants(r, p) \in Seq(Variant)
<1>1. /\ read[r][p] \in Product /\ call[r].codes \in SUBSET Codes /\ call[r].qty \in Int
      /\ CodesOf(read[r][p].variants) \cap call[r].codes # {}
  BY DEF TypeInv, RequestTyped, OnTarget, CallTyped
<1>2. PICK vs \in Seq(Variant), C \in SUBSET Codes, n \in Int :
        vs = read[r][p].variants /\ C = call[r].codes /\ n = call[r].qty
  BY <1>1 DEF Product
<1>3. QtyOf(vs, C) \in Int
  <2>1. PICK i \in DOMAIN vs : QtyOf(vs, C) = vs[i].qty BY <1>1, <1>2, FirstHit
  <2>2. vs[i] \in Variant OBVIOUS
  <2> QED BY <2>1, <2>2 DEF Variant
<1>4. QtyOf(vs, C) - n \in Int BY <1>3
<1>5. /\ Set(vs, C, n) \in Seq(Variant) /\ Set(vs, C, QtyOf(vs, C) - n) \in Seq(Variant)
      /\ Others(vs, C) \in Seq(Variant)
  BY <1>4, SetTyped, OthersTyped
<1> QED BY <1>2, <1>5 DEF NewVariants

LEMMA WriteVariantsEffect ==
    ASSUME TypeInv, NEW r \in Requests, NEW p \in todo[r], WriteVariants(r, p)
    PROVE  /\ RowChanges(r) /\ p \in Target(r) /\ p \in DOMAIN products
           /\ call[r].op \in VariantOps
           /\ \E b \in BOOLEAN : products' = [products EXCEPT ![p] =
                [products[p] EXCEPT !.variants = NewVariants(r, p), !.hasVariants = b]]
<1>1. /\ pc[r] = "variants" /\ p \in Target(r) /\ p \in DOMAIN products
      /\ call[r].op \in VariantOps /\ UNCHANGED <<packs, links, files>>
  BY DEF WriteVariants, TypeInv, TypeOK, RequestTyped, InPhase, Exists
<1>2. NewVariants(r, p) \in Seq(Variant) /\ products[p] \in Product
  BY <1>1, NewVariantsTyped DEF TypeInv, TypeOK
<1>3. PICK b : /\ b = IF call[r].op = "deleteSelected" THEN NewVariants(r, p) # <<>>
                      ELSE products[p].hasVariants
               /\ products' = [products EXCEPT ![p] =
                   [products[p] EXCEPT !.variants = NewVariants(r, p), !.hasVariants = b]]
  BY <1>1 DEF WriteVariants
<1>4. b \in BOOLEAN BY <1>2, <1>3 DEF Product
<1>5. [products[p] EXCEPT !.variants = NewVariants(r, p), !.hasVariants = b] \in Product
  BY <1>2, <1>4, ArrayWritten
<1> QED BY <1>1, <1>3, <1>4, <1>5 DEF RowChanges

LEMMA OneRowWritten ==
    ASSUME TypeInv, NEW r \in Requests, NEW row \in Product, Target(r) = {The(r)},
           Exists(The(r)), products' = [products EXCEPT ![The(r)] = row],
           UNCHANGED <<packs, links, files>>
    PROVE  RowChanges(r)
  BY DEF RowChanges, Exists

LEMMA ColumnEffect ==
    ASSUME TypeInv, NEW r \in Requests, UnlistPack(r) \/ WriteQuantity(r)
    PROVE  RowChanges(r) /\ Target(r) = {The(r)}
<1>1. /\ RequestTyped(r) /\ call[r].op \in {"deletePack", "quantity"} /\ pc[r] # "refused"
      /\ Exists(The(r)) /\ UNCHANGED <<packs, links, files>> /\ Target(r) # {}
  BY DEF TypeInv, RequestTyped, InPhase, OnTarget, OneTarget, UnlistPack, WriteQuantity
<1>2. Target(r) = {The(r)} BY <1>1, TheIsTarget DEF OneTarget
<1>3. products[The(r)] \in Product BY <1>1 DEF TypeInv, TypeOK, Exists
<1>4. CASE UnlistPack(r)
  <2>1. PICK S : S = read[r][The(r)].packIds \ {call[r].pack} OBVIOUS
  <2>2. S \in SUBSET PackId BY <1>1, <1>2, <2>1 DEF RequestTyped, OnTarget, Product
  <2>3. products' = [products EXCEPT ![The(r)] = [products[The(r)] EXCEPT !.packIds = S]]
    BY <1>4, <2>1 DEF UnlistPack
  <2>4. [products[The(r)] EXCEPT !.packIds = S] \in Product BY <1>3, <2>2, PackIdsWritten
  <2> QED BY <1>1, <1>2, <2>3, <2>4, OneRowWritten
<1>5. CASE WriteQuantity(r)
  <2>1. PICK n : n = call[r].qty OBVIOUS
  <2>2. n \in Int BY <1>1, <1>5, <2>1 DEF RequestTyped, CallTyped, InPhase, WriteQuantity
  <2>3. products' = [products EXCEPT ![The(r)] = [products[The(r)] EXCEPT !.qty = n]]
    BY <1>5, <2>1 DEF WriteQuantity
  <2>4. [products[The(r)] EXCEPT !.qty = n] \in Product BY <1>3, <2>2, QtyWritten
  <2> QED BY <1>1, <1>2, <2>3, <2>4, OneRowWritten
<1> QED BY <1>4, <1>5

LEMMA CreateProductEffect ==
    ASSUME TypeInv, NEW r \in Requests, CreateProduct(r)
    PROVE  RowComes(r)
<1>1. call[r].body \in Body /\ RequestTyped(r)
  BY BodyTyped DEF TypeInv, RequestTyped, InPhase, CreateProduct
<1>2. PICK row : /\ row = [code |-> call[r].body.code,
                           hasVariants |-> call[r].body.hv = "yes",
                           packIds |-> {}, variants |-> <<>>, qty |-> 0]
                 /\ products' = With(products, Own(r), row)
  BY DEF CreateProduct
<1>3. row \in Product BY <1>1, <1>2 DEF Product, Body
<1>4. /\ Target(r)' = {Own(r)} /\ Target(r) = {} /\ jobs[r] = {} /\ call[r].op = "create"
      /\ UNCHANGED <<packs, links, files, jobs>>
  BY <1>1, CreateProductTyped
     DEF CreateProduct, RequestTyped, OnTarget, JobsTyped, InPhase
<1> QED BY <1>2, <1>3, <1>4 DEF RowComes

\* The packs that requests of these kinds delete.
LEMMA PacksGoEffect ==
    ASSUME TypeInv, NEW r \in Requests, WipePacks(r) \/ DeletePacks(r) \/ DeletePack(r)
    PROVE  PacksGo
<1>1. PacksOf(Target(r)) \in SUBSET PackId BY DEF PacksOf, TypeInv, TypeOK
<1>2. CASE WipePacks(r) \/ DeletePacks(r) BY <1>1, <1>2 DEF PacksGo, WipePacks, DeletePacks
<1>3. CASE DeletePack(r)
  <2>1. {call[r].pack} \in SUBSET PackId BY <1>3 DEF TypeInv, TypeOK, DeletePack
  <2> QED BY <1>3, <2>1 DEF PacksGo, DeletePack
<1> QED BY <1>2, <1>3

LEMMA RelinkEffect ==
    ASSUME TypeInv, NEW r \in Requests, Relink(r)
    PROVE  /\ LinksCome(r) \/ UNCHANGED db
           /\ Target(r) = {The(r)} /\ call[r].body \in Body
<1>1. /\ RequestTyped(r) /\ call[r].op = "update" /\ pc[r] # "refused"
      /\ UNCHANGED <<products, packs, files>> /\ Target(r) # {}
  BY DEF TypeInv, RequestTyped, InPhase, OnTarget, OneTarget, Relink
<1>2. Target(r) = {The(r)} /\ The(r) \in ProductId /\ call[r].body \in Body
  BY <1>1, TheIsTarget, BodyTyped DEF OneTarget
<1> DEFINE L == {LinkOf(The(r), l.supplier, l.state) : l \in call[r].body.listed}
<1>3. links' = links \cup L BY DEF Relink
<1>4. CASE call[r].body.listed = {}
  <2>1. links' = links BY <1>3, <1>4
  <2> QED BY <1>1, <1>2, <2>1 DEF db
<1>5. CASE call[r].body.listed # {}
  <2>1. The(r) \in DOMAIN products BY <1>5 DEF Relink, RelinkFits, Exists
  <2>2. \A l \in call[r].body.listed : l \in [supplier : Suppliers, state : SupplierState]
    BY <1>2 DEF Body
  <2>3. \A l \in L : l \in Link /\ l.product = The(r) BY <1>2, <2>2 DEF LinkOf, Link
  <2> HIDE DEF L
  <2>4. L \in SUBSET {l \in Link : l.product \in Target(r) \cap DOMAIN products}
    BY <1>2, <2>1, <2>3
  <2> QED BY <1>1, <1>2, <1>3, <2>4 DEF LinksCome
<1> QED BY <1>2, <1>4, <1>5

LEMMA LinkEffect ==
    ASSUME TypeInv, NEW r \in Requests, NEW j \in jobs[r],
           MakeLink(r, j) \/ ReadLinks(r, j) \/ AssignLink(r, j)
    PROVE  UNCHANGED db \/ LinksCome(r)
<1>1. RequestTyped(r) BY DEF TypeInv
<1>2. CASE MakeLink(r, j)
  <2>1. j \in Link /\ j.product \in Target(r)
    BY <1>1, <1>2 DEF RequestTyped, JobsTyped, MakeLink
  <2>2. UNCHANGED <<products, packs, files>> BY <1>2 DEF MakeLink
  <2>3. links' = links \/ (links' = links \cup {j} /\ j.product \in DOMAIN products)
    BY <1>2 DEF MakeLink, Exists
  <2> QED BY <2>1, <2>2, <2>3 DEF LinksCome, db
<1>3. CASE AssignLink(r, j)
  <2>1. /\ j \in [product : Target(r), supplier : {call[r].supplier},
                  state : SupplierState \cup {"unread"}]
        /\ call[r].supplier \in Suppliers /\ Target(r) \subseteq ProductId
    BY <1>1, <1>3 DEF RequestTyped, JobsTyped, AssignLink, CallTyped, OnTarget
  <2>2. j.state # "unread" /\ UNCHANGED <<products, packs, files>> BY <1>3 DEF AssignLink
  <2>3. links' = links \/ (links' = links \cup {j} /\ j.product \in DOMAIN products)
    BY <1>3 DEF AssignLink, Exists
  <2>4. j \in Link /\ j.product \in Target(r) BY <2>1, <2>2 DEF Link
  <2> QED BY <2>2, <2>3, <2>4 DEF LinksCome, db
<1>4. CASE ReadLinks(r, j) BY <1>4 DEF ReadLinks
<1> QED BY <1>2, <1>3, <1>4

LEMMA PartEffect ==
    ASSUME TypeInv, NEW r \in Requests, Part(r)
    PROVE  UNCHANGED db \/ PackComes(r) \/ LinksCome(r)
<1>1. PICK i \in DOMAIN parts[r] : MakePack(r, i) \/ CheckSupplier(r, i) \/ LinkVariant(r, i)
  BY DEF Part
<1>2. /\ TaskTyped(r, i) /\ RequestTyped(r) BY <1>1 DEF TypeInv, RequestTyped, TasksTyped
<1>3. /\ call[r].op \in {"create", "update"} /\ pc[r] # "refused" /\ Target(r) # {}
      /\ i \in DOMAIN PartsOf(call[r].body)
  BY <1>2 DEF TaskTyped
<1>4. Target(r) = {The(r)} /\ The(r) \in ProductId /\ i \in Nat
  BY <1>2, <1>3, TheIsTarget, BodyTyped, PartsOfTyped DEF OneTarget
<1>5. CASE MakePack(r, i)
  <2>1. CASE PartThrows(r, i) BY <2>1 DEF PartThrows
  <2>2. ASSUME NEW n \in Nat, packs' = With(packs, <<r, i, n + 1>>, The(r)), Exists(The(r)),
               UNCHANGED <<products, links, files>>
        PROVE  PackComes(r)
    <3>1. <<r, i, n + 1>> \in PackId BY <1>4 DEF PackId
    <3> QED BY <1>4, <2>2, <3>1 DEF PackComes, Exists
  <2> QED BY <1>1, <1>5, <2>1, <2>2, MakePackMoves
<1>6. CASE CheckSupplier(r, i) BY <1>6, CheckSupplierMoves
<1>7. CASE LinkVariant(r, i)
  <2>1. UNCHANGED <<products, packs, files>> BY <1>7, LinkVariantMoves
  <2>2. CASE links' = links BY <2>1, <2>2 DEF db
  <2>3. ASSUME NEW s \in Suppliers, links' = links \cup {LinkOf(The(r), s, "secondary")},
               Exists(The(r))
        PROVE  LinksCome(r)
    <3>1. /\ LinkOf(The(r), s, "secondary") \in Link
          /\ LinkOf(The(r), s, "secondary").product = The(r)
      BY <1>4 DEF LinkOf, Link, SupplierState
    <3> QED BY <1>4, <2>1, <2>3, <3>1 DEF LinksCome, Exists
  <2> QED BY <1>7, <2>2, <2>3, LinkVariantMoves
<1> QED BY <1>1, <1>5, <1>6, <1>7

LEMMA RowsGoEffect ==
    ASSUME NEW r \in Requests, DeleteRows(r) \/ DeleteBatch(r)
    PROVE  RowsGo(r)
  BY DEF RowsGo, DeleteRows, DeleteBatch, RowsStay

LEMMA FilesEffect ==
    ASSUME NEW r \in Requests, CleanFiles(r) \/ MarkFailed(r)
    PROVE  UNCHANGED db \/ FilesChange
  BY DEF CleanFiles, MarkFailed, FilesChange, db

LEMMA NoEffect ==
    ASSUME NEW r \in Requests,
           \/ FindSuppliers(r) \/ RelinkThrows(r) \/ PartsThrow(r) \/ DeleteThrows(r)
           \/ BatchThrows(r) \/ DeletePackThrows(r) \/ WriteThrows(r) \/ NoConnection(r)
           \/ FindBatch(r) \/ FinishAssign(r) \/ Register(r) \/ Row(r) \/ UploadExpires(r)
    PROVE  UNCHANGED db
  BY DEF FindSuppliers, RelinkThrows, PartsThrow, DeleteThrows, BatchThrows,
         DeletePackThrows, WriteThrows, NoConnection, Throws, FindBatch, FinishAssign,
         Register, Row, UploadExpires

LEMMA WorksEffect ==
    ASSUME TypeInv, NEW r \in Requests, Works(r)
    PROVE  Effect(r)
<1>1. CASE \/ FindSuppliers(r) \/ RelinkThrows(r) \/ PartsThrow(r) \/ DeleteThrows(r)
           \/ BatchThrows(r) \/ DeletePackThrows(r) \/ WriteThrows(r) \/ NoConnection(r)
           \/ FindBatch(r) \/ FinishAssign(r) \/ Register(r) \/ Row(r) \/ UploadExpires(r)
  BY <1>1, NoEffect DEF Effect
<1>2. CASE CreateProduct(r) BY <1>2, CreateProductEffect DEF Effect
<1>3. CASE FinishCreate(r) \/ WriteUpdate(r) \/ UnlistPack(r) \/ WriteQuantity(r)
  BY <1>3, FinishCreateEffect, WriteUpdateEffect, ColumnEffect DEF Effect
<1>4. CASE \E p \in todo[r] : WriteVariants(r, p) BY <1>4, WriteVariantsEffect DEF Effect
<1>5. CASE WipePacks(r) \/ DeletePacks(r) \/ DeletePack(r) BY <1>5, PacksGoEffect DEF Effect
<1>6. CASE Unlink(r) BY <1>6 DEF Effect, LinksGo, Unlink
<1>7. CASE Relink(r) BY <1>7, RelinkEffect DEF Effect
<1>8. CASE DeleteRows(r) \/ DeleteBatch(r) BY <1>8, RowsGoEffect DEF Effect
<1>9. CASE CleanFiles(r) \/ MarkFailed(r) BY <1>9, FilesEffect DEF Effect
<1>10. CASE CommitUpload(r) BY <1>10 DEF Effect
<1>11. CASE Part(r) BY <1>11, PartEffect DEF Effect
<1>12. CASE Link_(r) BY <1>12, LinkEffect DEF Link_, Effect
<1> QED
  BY <1>1, <1>2, <1>3, <1>4, <1>5, <1>6, <1>7, <1>8, <1>9, <1>10, <1>11, <1>12
     DEF Works, Step

LEMMA CommitUploadRows ==
    ASSUME TypeInv, NEW r \in Requests, CommitUpload(r)
    PROVE  RowsTyped'
<1>0. /\ call[r].file \in Files /\ Uploading(r)
      /\ left[r] = Len(RowsOf[call[r].file]) /\ RowsTyped
  BY RowsAreTyped DEF TypeInv, RequestTyped, CallTyped, InPhase, CommitUpload, Uploading
<1>1. PICK f \in Files : f = call[r].file BY <1>0
<1> DEFINE rows == RowsOf[f]
           new == [p \in {<<r, i>> : i \in DOMAIN rows} |-> UploadedRow(r, p[2])]
           newPacks == UNION {UploadedPacks(r, i) : i \in DOMAIN rows}
           vended == {i \in DOMAIN rows : rows[i].supplier # NoSupplier /\ ~ InBulk(r)}
           packed == [k \in newPacks |-> <<r, k[2]>>]
           L == {LinkOf(<<r, i>>, rows[i].supplier, "primary") : i \in vended}
<1>2. /\ products' = WithAll(products, new)
      /\ packs' = WithAll(packs, packed)
      /\ links' = links \cup L
      /\ files' = With(files, f, "completed")
  BY <1>1 DEF CommitUpload
<1>3. ASSUME NEW i \in DOMAIN rows
      PROVE  /\ i \in Nat /\ UploadedRow(r, i) \in Product
             /\ rows[i].supplier \in Suppliers \cup {NoSupplier}
             /\ rows[i].variants \in Seq(Codes)
  <2>1. rows \in Seq(FileRow) BY CatalogueAssumption
  <2>2. rows[i] \in FileRow BY <2>1
  <2> QED BY <1>1, <2>2, UploadedRowTyped DEF FileRow
<1>4. /\ DOMAIN new \subseteq ProductId
      /\ \A p \in DOMAIN new : new[p] \in Product
  <2>1. ASSUME NEW p \in DOMAIN new
        PROVE  p \in ProductId /\ new[p] \in Product
    <3>1. PICK i \in DOMAIN rows : p = <<r, i>> OBVIOUS
    <3>2. new[p] = UploadedRow(r, i) /\ i \in Nat BY <1>3, <3>1
    <3> QED BY <1>3, <3>1, <3>2 DEF ProductId
  <2> QED BY <2>1
<1>5. /\ DOMAIN packed \subseteq PackId
      /\ \A k \in DOMAIN packed : packed[k] \in DOMAIN new
  <2>1. ASSUME NEW k \in newPacks
        PROVE  k \in PackId /\ <<r, k[2]>> \in DOMAIN new
    <3>1. PICK i \in DOMAIN rows : k \in UploadedPacks(r, i) OBVIOUS
    <3>2. PICK m \in Nat : m = Len(rows[i].variants) BY <1>3, <3>1
    <3>3. PICK j \in IF m = 0 THEN {0} ELSE 1..m : k = <<r, i, j>>
      BY <1>1, <3>1, <3>2 DEF UploadedPacks
    <3>4. j \in Nat /\ i \in Nat BY <1>3, <3>3
    <3> QED BY <3>3, <3>4 DEF PackId
  <2> QED BY <2>1
<1>6. \A l \in L : l \in Link /\ l.product \in DOMAIN new
  <2>1. ASSUME NEW i \in vended
        PROVE  /\ LinkOf(<<r, i>>, rows[i].supplier, "primary") \in Link
               /\ <<r, i>> \in DOMAIN new
               /\ LinkOf(<<r, i>>, rows[i].supplier, "primary").product = <<r, i>>
    BY <1>3 DEF LinkOf, Link, SupplierState, ProductId
  <2> QED BY <2>1
<1> HIDE DEF new, packed, L, rows, newPacks, vended
<1>a. /\ DOMAIN products' = DOMAIN products \cup DOMAIN new
      /\ \A y \in DOMAIN new : products'[y] = new[y]
      /\ \A y \in DOMAIN products \ DOMAIN new : products'[y] = products[y]
  BY <1>2 DEF WithAll
<1>b. /\ DOMAIN packs' = DOMAIN packs \cup DOMAIN packed
      /\ \A y \in DOMAIN packed : packs'[y] = packed[y]
      /\ \A y \in DOMAIN packs \ DOMAIN packed : packs'[y] = packs[y]
  BY <1>2 DEF WithAll
<1>c. /\ DOMAIN files' = DOMAIN files \cup {f}
      /\ files'[f] = "completed"
      /\ \A y \in DOMAIN files \ {f} : files'[y] = files[y]
  BY <1>2 DEF With
<1>7. /\ DOMAIN products' \subseteq ProductId
      /\ \A p \in DOMAIN products' : products'[p] \in Product
      /\ DOMAIN products' = DOMAIN products \cup DOMAIN new
  <2>1. DOMAIN products' = DOMAIN products \cup DOMAIN new BY <1>a, <1>b
  <2>2. ASSUME NEW p \in DOMAIN products'
        PROVE  products'[p] \in Product
    <3>1. CASE p \in DOMAIN new BY <1>a, <1>4, <3>1
    <3>2. CASE p \in DOMAIN products \ DOMAIN new BY <1>0, <1>a, <3>2 DEF RowsTyped
    <3> QED BY <2>1, <3>1, <3>2
  <2> QED BY <1>0, <1>4, <2>1, <2>2 DEF RowsTyped
<1>8. /\ DOMAIN packs' \subseteq PackId
      /\ \A k \in DOMAIN packs' : packs'[k] \in DOMAIN products'
  <2>1. DOMAIN packs' = DOMAIN packs \cup DOMAIN packed BY <1>a, <1>b
  <2>2. ASSUME NEW k \in DOMAIN packs'
        PROVE  packs'[k] \in DOMAIN products'
    <3>1. CASE k \in DOMAIN packed BY <1>b, <1>5, <1>7, <3>1
    <3>2. CASE k \in DOMAIN packs \ DOMAIN packed BY <1>0, <1>b, <1>7, <3>2 DEF RowsTyped
    <3> QED BY <2>1, <3>1, <3>2
  <2> QED BY <1>0, <1>5, <2>1, <2>2 DEF RowsTyped
<1>9. links' \subseteq Link /\ \A l \in links' : l.product \in DOMAIN products'
  BY <1>0, <1>2, <1>6, <1>7 DEF RowsTyped
<1>10. DOMAIN files' \subseteq Files /\ \A g \in DOMAIN files' : files'[g] \in {"completed", "failed"}
  <2>1. DOMAIN files' = DOMAIN files \cup {f} BY <1>c
  <2>2. ASSUME NEW g \in DOMAIN files'
        PROVE  files'[g] \in {"completed", "failed"}
    <3>1. CASE g = f BY <1>c, <3>1
    <3>2. CASE g \in DOMAIN files \ {f} BY <1>0, <1>c, <3>2 DEF RowsTyped
    <3> QED BY <2>1, <3>1, <3>2
  <2> QED BY <1>0, <2>1, <2>2 DEF RowsTyped
<1> QED BY <1>7, <1>8, <1>9, <1>10 DEF RowsTyped

LEMMA EffectTyped ==
    ASSUME TypeInv, NEW r \in Requests, Effect(r)
    PROVE  RowsTyped'
<1>0. RowsTyped BY RowsAreTyped
<1>1. CASE UNCHANGED db BY <1>0, <1>1 DEF RowsTyped, db
<1>2. CASE RowChanges(r) BY <1>0, <1>2 DEF RowsTyped, RowChanges
<1>3. CASE PacksGo
  <2>1. PICK K : packs' = Without(packs, K) BY <1>3 DEF PacksGo
  <2>2. DOMAIN packs' \subseteq DOMAIN packs /\ \A k \in DOMAIN packs' : packs'[k] = packs[k]
    BY <2>1 DEF Without
  <2> QED BY <1>0, <1>3, <2>2 DEF RowsTyped, PacksGo
<1>4. CASE PackComes(r)
  <2>1. PICK k \in PackId, p \in DOMAIN products : packs' = With(packs, k, p)
    BY <1>4 DEF PackComes
  <2>2. /\ DOMAIN packs' = DOMAIN packs \cup {k}
        /\ \A x \in DOMAIN packs' : packs'[x] = p \/ (x \in DOMAIN packs /\ packs'[x] = packs[x])
    BY <2>1 DEF With
  <2> QED BY <1>0, <1>4, <2>2 DEF RowsTyped, PackComes
<1>5. CASE LinksCome(r) BY <1>0, <1>5 DEF RowsTyped, LinksCome
<1>6. CASE LinksGo(r) BY <1>0, <1>6 DEF RowsTyped, LinksGo
<1>7. CASE RowsGo(r)
  <2>1. /\ DOMAIN products' = DOMAIN products \ Target(r)
        /\ \A p \in DOMAIN products' : products'[p] = products[p]
        /\ links' = {l \in links : l.product \notin Target(r)} /\ files' = files
    BY <1>7 DEF RowsGo, Erase, Without
  <2>2. /\ DOMAIN packs' \subseteq DOMAIN packs /\ DOMAIN packs' \cap PacksOf(Target(r)) = {}
        /\ \A k \in DOMAIN packs' : packs'[k] = packs[k]
    BY <1>7 DEF RowsGo, Without
  <2>3. \A k \in DOMAIN packs' : packs'[k] \in DOMAIN products'
    BY <1>0, <2>1, <2>2 DEF PacksOf, RowsTyped
  <2> QED BY <1>0, <2>1, <2>2, <2>3 DEF RowsTyped
<1>8. CASE RowComes(r)
  <2>1. PICK row \in Product : products' = With(products, Own(r), row) BY <1>8 DEF RowComes
  <2>2. /\ DOMAIN products' = DOMAIN products \cup {Own(r)}
        /\ \A x \in DOMAIN products' :
             products'[x] = row \/ (x \in DOMAIN products /\ products'[x] = products[x])
    BY <2>1 DEF With
  <2>3. Own(r) \in ProductId BY DEF Own, ProductId
  <2> QED BY <1>0, <1>8, <2>2, <2>3 DEF RowsTyped, RowComes
<1>9. CASE FilesChange BY <1>0, <1>9 DEF RowsTyped, FilesChange, EmptyFun
<1>10. CASE CommitUpload(r) BY <1>10, CommitUploadRows
<1> QED BY <1>1, <1>2, <1>3, <1>4, <1>5, <1>6, <1>7, <1>8, <1>9, <1>10 DEF Effect

----------------------------------------------------------------------------
(* Types *)

LEMMA ReceiveTyped ==
    ASSUME TypeInv, NEW r \in Requests, Receive(r)
    PROVE  UNCHANGED db /\ OthersStay(r) /\ RequestTyped(r)'
  BY ReceiveBegins DEF Begins

\* The local variables of every request stay functions on the requests.
LocalsAre ==
    /\ pc \in [Requests -> Pcs]
    /\ DOMAIN call = Requests /\ DOMAIN read = Requests /\ DOMAIN parts = Requests
    /\ DOMAIN jobs = Requests /\ DOMAIN assigned = Requests
    /\ DOMAIN left = Requests /\ DOMAIN todo = Requests

LEMMA SimpleStepLocals ==
    ASSUME LocalsAre, NEW r \in Requests, SimpleStep(r)
    PROVE  LocalsAre'
<1>1. PICK to \in {"ok", "failed", "unlink", "relink", "erase", "unlist", "mark", "rows"} :
        Goto(r, to)
  BY SimpleStepMoves
<1>2. to \in Pcs BY DEF Pcs, Ended
<1>3. UNCHANGED locals BY SimpleStepMoves
<1> QED BY <1>1, <1>2, <1>3 DEF LocalsAre, Goto, locals

LEMMA ToPhase ==
    ASSUME NEW r \in Requests, NEW to, Goto(r, to), pc \in [Requests -> Pcs], to \in Pcs
    PROVE  pc' \in [Requests -> Pcs]
  BY DEF Goto

LEMMA ReceiveLocals ==
    ASSUME LocalsAre, NEW r \in Requests, Receive(r)
    PROVE  LocalsAre'
<1>1. ASSUME NEW b, BeginCreate(r, b) \/ RefuseCreate(r, b)
      PROVE  LocalsAre'
  BY <1>1 DEF LocalsAre, BeginCreate, RefuseCreate, Begin, Refuse, Goto, Pcs, Ended
<1>2. ASSUME NEW b, NEW p, BeginUpdate(r, p, b) \/ RefuseUpdate(r, p, b)
      PROVE  LocalsAre'
  BY <1>2 DEF LocalsAre, BeginUpdate, RefuseUpdate, Begin, Refuse, Goto, Pcs, Ended
<1>3. ASSUME NEW S, BeginDelete(r, S)
      PROVE  LocalsAre'
  BY <1>3 DEF LocalsAre, BeginDelete, Begin, Goto, Pcs
<1>4. ASSUME BeginDeleteAll(r)
      PROVE  LocalsAre'
  BY <1>4 DEF LocalsAre, BeginDeleteAll, Begin, Goto, Pcs
<1>5. ASSUME NEW s, NEW S, BeginAssign(r, s, S)
      PROVE  LocalsAre'
  BY <1>5 DEF LocalsAre, BeginAssign, Begin, Goto, Pcs
<1>6. ASSUME NEW k, BeginDeletePack(r, k)
      PROVE  LocalsAre'
  BY <1>6 DEF LocalsAre, BeginDeletePack, Begin, Goto, Pcs
<1>7. ASSUME NEW p, NEW n, BeginQuantity(r, p, n)
      PROVE  LocalsAre'
  BY <1>7 DEF LocalsAre, BeginQuantity, Begin, Goto, Pcs
<1>8. ASSUME NEW op, NEW C, NEW n, BeginVariants(r, op, C, n)
      PROVE  LocalsAre'
  <2>1. PICK S : Begin(r, [op |-> op, codes |-> C, qty |-> n], S) /\ todo' = [todo EXCEPT ![r] = S]
    BY <1>8 DEF BeginVariants
  <2> QED BY <1>8, <2>1 DEF LocalsAre, BeginVariants, Begin, Goto, Pcs
<1>9. ASSUME NEW f, BeginUpload(r, f) \/ RefuseUpload(r, f)
      PROVE  LocalsAre'
  BY <1>9 DEF LocalsAre, BeginUpload, RefuseUpload, Begin, Refuse, Goto, Pcs, Ended
<1> QED BY <1>1, <1>2, <1>3, <1>4, <1>5, <1>6, <1>7, <1>8, <1>9 DEF Receive

LEMMA WorksLocals ==
    ASSUME LocalsAre, NEW r \in Requests, Works(r)
    PROVE  LocalsAre'
<1>1. CASE SimpleStep(r) BY <1>1, SimpleStepLocals
<1>2. CASE CreateProduct(r) \/ FindSuppliers(r) \/ WipePacks(r)
  <2>1. PICK to \in {"parts", "suppliers", "links", "failed"} : Goto(r, to)
    BY <1>2 DEF CreateProduct, FindSuppliers, WipePacks, EnterParts, Throws
  <2>2. to \in Pcs BY DEF Pcs, Ended
  <2>3. pc' \in [Requests -> Pcs] BY <2>1, <2>2, ToPhase DEF LocalsAre
  <2> QED
    BY <1>2, <2>3 DEF LocalsAre, CreateProduct, FindSuppliers, WipePacks, EnterParts,
                      Throws, locals
<1>3. CASE FindBatch(r) \/ DeleteBatch(r) \/ Row(r) \/ CommitUpload(r)
  <2>1. pc' = pc \/ \E to \in {"clean", "batch", "find", "mark", "ok"} : Goto(r, to)
    BY <1>3 DEF FindBatch, DeleteBatch, Row, CommitUpload
  <2>2. {"clean", "batch", "find", "mark", "ok"} \subseteq Pcs BY DEF Pcs, Ended
  <2>3. pc' \in [Requests -> Pcs] BY <2>1, <2>2, ToPhase DEF LocalsAre
  <2> QED BY <1>3, <2>3 DEF LocalsAre, FindBatch, DeleteBatch, Row, CommitUpload
<1>4. ASSUME NEW p, WriteVariants(r, p)
      PROVE  LocalsAre'
  BY <1>4 DEF LocalsAre, WriteVariants, Goto, Pcs, Ended
<1>5. CASE Part(r)
  <2>1. PICK i : MakePack(r, i) \/ CheckSupplier(r, i) \/ LinkVariant(r, i) BY <1>5 DEF Part
  <2>2. pc' = pc \/ pc' = [pc EXCEPT ![r] = IF @ = "parts" THEN "failed" ELSE @]
    BY <2>1 DEF MakePack, CheckSupplier, LinkVariant, PartThrows
  <2>3. pc' \in [Requests -> Pcs] BY <2>2 DEF LocalsAre, Pcs, Ended
  <2>4. /\ UNCHANGED <<call, read, jobs, left, todo>>
        /\ DOMAIN parts' = DOMAIN parts /\ DOMAIN assigned' = DOMAIN assigned
    BY <2>1 DEF MakePack, CheckSupplier, LinkVariant, PartThrows
  <2> QED BY <2>3, <2>4 DEF LocalsAre
<1>6. CASE Link_(r)
  <2>1. PICK j : MakeLink(r, j) \/ ReadLinks(r, j) \/ AssignLink(r, j) BY <1>6 DEF Link_
  <2>2. \/ pc' = pc \/ pc' = [pc EXCEPT ![r] = IF @ = "links" THEN "failed" ELSE @]
        \/ Goto(r, "parts")
    BY <2>1 DEF MakeLink, ReadLinks, AssignLink, EnterParts
  <2>3. pc' \in [Requests -> Pcs] BY <2>2 DEF LocalsAre, Pcs, Ended, Goto
  <2>4. /\ UNCHANGED <<call, read, left, todo, assigned>>
        /\ DOMAIN parts' = DOMAIN parts /\ DOMAIN jobs' = DOMAIN jobs
    BY <2>1 DEF MakeLink, ReadLinks, AssignLink, EnterParts
  <2> QED BY <2>3, <2>4 DEF LocalsAre
<1> QED BY <1>1, <1>2, <1>3, <1>4, <1>5, <1>6 DEF Works, Step, SimpleStep

\* The process dies: what was written stays, nobody is at work.
LEMMA CrashTyped ==
    ASSUME TypeInv, Crash, NEW r \in Requests
    PROVE  /\ RequestTyped(r)' /\ UNCHANGED <<db, call, read>> /\ ~ Busy(r)'
           /\ pc'[r] = pc[r] \/ (pc'[r] = "failed" /\ InFlight(r))
<1>1. /\ pc'[r] = IF InFlight(r) THEN "failed" ELSE pc[r]
      /\ jobs'[r] = {} /\ parts'[r] = EmptyFun
      /\ UNCHANGED <<db, call, read, assigned, left, todo, raced>>
      /\ RequestTyped(r)
  BY DEF Crash, TypeInv
<1>2. pc'[r] \in Ended \cup {"idle"} /\ DOMAIN parts'[r] = {}
  BY <1>1 DEF InFlight, Ended, EmptyFun
<1>3. parts'[r] = [i \in DOMAIN parts'[r] |-> parts'[r][i]] BY <1>1 DEF EmptyFun
<1>4. pc[r] # "refused" => pc'[r] # "refused" BY <1>1
<1>5. pc[r] = "idle" <=> pc'[r] = "idle" BY <1>1 DEF InFlight
<1>6. InPhase(r)' BY <1>1, <1>2, <1>5 DEF RequestTyped, InPhase, Ended, InFlight
<1>7. OnTarget(r)' BY <1>1, <1>2, <1>5 DEF RequestTyped, OnTarget, Ended, InFlight, Target
<1>8. TasksTyped(r)' /\ JobsTyped(r)'
  <2>1. pc'[r] # "parts" BY <1>2 DEF Ended
  <2>2. TasksTyped(r)' BY <1>2, <1>3, <2>1 DEF TasksTyped, PartsDone
  <2>3. JobsTyped(r)' BY <1>1 DEF JobsTyped
  <2> QED BY <2>2, <2>3
<1>9. ~ Busy(r)' BY <1>1, <1>2 DEF Busy, InFlight
<1> QED BY <1>1, <1>6, <1>7, <1>8, <1>9 DEF RequestTyped

RequestsTyped == \A r \in Requests : RequestTyped(r)

LEMMA TypeInvIs == RowsTyped /\ LocalsAre /\ RequestsTyped => TypeInv
<1> SUFFICES ASSUME RowsTyped, LocalsAre, RequestsTyped
             PROVE  TypeInv
  OBVIOUS
<1>1. \A r \in Requests : todo[r] \subseteq Target(r)
  BY DEF RequestsTyped, RequestTyped, OnTarget
<1> QED BY <1>1 DEF TypeInv, TypeOK, RowsTyped, LocalsAre, RequestsTyped

LEMMA TypeInvInit == Init => TypeInv
<1> SUFFICES ASSUME Init PROVE TypeInv OBVIOUS
<1>1. RowsTyped
  <2>1. DOMAIN products \subseteq ProductId /\ DOMAIN packs \subseteq PackId
    BY CatalogueAssumption DEF Init, ProductId, PackId
  <2>2. DOMAIN files = {} BY DEF Init, EmptyFun
  <2> QED BY <2>1, <2>2, CatalogueAssumption DEF Init, RowsTyped
<1>2. LocalsAre BY DEF Init, LocalsAre, Pcs
<1>3. ASSUME NEW r \in Requests
      PROVE  RequestTyped(r)
  <2>1. /\ pc[r] = "idle" /\ call[r].op = "none" /\ read[r] = EmptyFun /\ Target(r) = {}
        /\ parts[r] = EmptyFun /\ DOMAIN parts[r] = {} /\ jobs[r] = {} /\ left[r] = 0 /\ todo[r] = {}
    BY DEF Init, NoCall, EmptyFun, Target
  <2>2. /\ parts[r] = [i \in DOMAIN parts[r] |-> parts[r][i]]
        /\ read[r] \in [{} -> Product]
    BY <2>1 DEF EmptyFun
  <2>3. CallTyped(call[r]) /\ InPhase(r) BY <2>1 DEF CallTyped, InPhase, Ops, VariantOps
  <2>4. OnTarget(r) /\ JobsTyped(r)
    BY <2>1, <2>2 DEF OnTarget, JobsTyped, OneTarget, VariantOps
  <2>5. TasksTyped(r) BY <2>1, <2>2 DEF TasksTyped, PartsDone
  <2> QED BY <2>3, <2>4, <2>5 DEF RequestTyped
<1> QED BY <1>1, <1>2, <1>3, TypeInvIs DEF RequestsTyped

LEMMA TypeInvNext == TypeInv /\ [Next]_vars => TypeInv'
<1> SUFFICES ASSUME TypeInv, [Next]_vars
             PROVE  TypeInv'
  OBVIOUS
<1>0. RowsTyped /\ LocalsAre /\ \A r \in Requests : RequestTyped(r)
  BY RowsAreTyped DEF TypeInv, TypeOK, LocalsAre
<1>1. RowsTyped' /\ LocalsAre' /\ (\A r \in Requests : RequestTyped(r)') => TypeInv'
  <2>1. RowsTyped' /\ LocalsAre' /\ RequestsTyped' => TypeInv' BY TypeInvIs, PTL
  <2> QED BY <2>1 DEF RequestsTyped
<1>2. ASSUME NEW r \in Requests, Receive(r)
      PROVE  TypeInv'
  <2>1. UNCHANGED db /\ OthersStay(r) /\ RequestTyped(r)' BY <1>2, ReceiveTyped
  <2>2. \A q \in Requests : RequestTyped(q)' BY <2>1, OtherTyped
  <2>3. RowsTyped' BY <1>0, <2>1 DEF RowsTyped, db
  <2> QED BY <1>0, <1>1, <1>2, <2>2, <2>3, ReceiveLocals
<1>3. ASSUME NEW r \in Requests, Works(r)
      PROVE  TypeInv'
  <2>1. OthersStay(r) /\ RequestTyped(r)' BY <1>3, WorksMovesOnly DEF MovesOnly
  <2>2. \A q \in Requests : RequestTyped(q)' BY <2>1, OtherTyped
  <2>3. RowsTyped' BY <1>3, WorksEffect, EffectTyped
  <2> QED BY <1>0, <1>1, <1>3, <2>2, <2>3, WorksLocals
<1>4. CASE Crash
  <2>1. \A r \in Requests : RequestTyped(r)' BY <1>4, CrashTyped
  <2>2. RowsTyped' BY <1>0, <1>4 DEF Crash, RowsTyped, db
  <2>3. LocalsAre' BY <1>0, <1>4 DEF Crash, LocalsAre, InFlight, Ended, Pcs
  <2> QED BY <1>1, <2>1, <2>2, <2>3
<1>5. CASE UNCHANGED vars
  BY <1>5 DEF vars, db, locals, TypeInv, TypeOK, RequestTyped, InPhase, OnTarget,
              TasksTyped, TaskTyped, JobsTyped, Target, Own, PartsDone
<1> QED BY <1>2, <1>3, <1>4, <1>5 DEF Next, Works

LEMMA TypeInvHolds == Spec => []TypeInv
  BY TypeInvInit, TypeInvNext, PTL DEF Spec

\* The tables and the calls keep their types, whatever interleaves, fails or is
\* cut off: rows refer to ids that were drawn, and a link, a pack or a variant
\* names a product; the handlers of product.service.ts, for any requests.
THEOREM CatalogueTypeOK == Spec => []TypeOK
<1>1. TypeInv => TypeOK BY DEF TypeInv
<1> QED BY <1>1, TypeInvHolds, PTL

----------------------------------------------------------------------------
(* Requests that are at work together *)

LEMMA OthersBusy ==
    ASSUME NEW r \in Requests, OthersStay(r), NEW q \in Requests \ {r}
    PROVE  /\ Busy(q)' <=> Busy(q)
           /\ InFlight(q)' <=> InFlight(q)
           /\ Target(q)' = Target(q)
  BY DEF OthersStay, Busy, InFlight, Target

LEMMA BeginsBusy ==
    ASSUME TypeInv, NEW r \in Requests, NEW S \in SUBSET DOMAIN products, Begins(r, S)
    PROVE  /\ ~ Busy(r) /\ Target(r) = {} /\ call[r].op = "none" /\ Target(r)' = S
           /\ pc'[r] = "refused" => ~ Busy(r)'
           /\ DOMAIN parts[r] = {} /\ jobs[r] = {}
<1>1. Target(r) = {} /\ DOMAIN parts[r] = {} /\ jobs[r] = {} /\ pc[r] = "idle" /\ call[r].op = "none"
  BY IdleHolds DEF Begins
<1>2. ~ Busy(r) BY <1>1 DEF Busy, InFlight
<1>3. pc'[r] = "refused" => ~ Busy(r)' BY <1>1 DEF Begins, Busy, InFlight, Ended
<1> QED BY <1>1, <1>2, <1>3 DEF Begins, Target

LEMMA TogetherInit == Init => Together
  BY DEF Init, Together, Busy, InFlight, EmptyFun

LEMMA TogetherNext == TypeInv /\ Together /\ [Next]_vars => Together'
<1> SUFFICES ASSUME TypeInv, Together, [Next]_vars,
                    NEW q \in Requests, NEW s \in Requests, q # s, Busy(q)', Busy(s)'
             PROVE  {q, s} \in raced'
  BY DEF Together
<1>1. ASSUME NEW r \in Requests, Receive(r)
      PROVE  {q, s} \in raced'
  <2>1. PICK S \in SUBSET DOMAIN products : Begins(r, S) BY <1>1, ReceiveBegins
  <2>2. OthersStay(r) /\ raced \subseteq raced' BY <2>1 DEF Begins
  <2>3. ASSUME NEW x \in Requests \ {r}, Busy(x), Busy(r)'
        PROVE  {x, r} \in raced'
    BY <2>1, <2>3, BeginsBusy DEF Begins
  <2>4. CASE q # r /\ s # r BY <2>2, <2>4, OthersBusy DEF Together
  <2>5. CASE q = r
    <3>1. Busy(s) BY <2>2, <2>5, OthersBusy
    <3>2. {s, r} = {q, s} BY <2>5
    <3> QED BY <2>3, <2>5, <3>1, <3>2
  <2>6. CASE s = r
    <3>1. Busy(q) BY <2>2, <2>6, OthersBusy
    <3> QED BY <2>3, <2>6, <3>1
  <2> QED BY <2>4, <2>5, <2>6
<1>2. ASSUME NEW r \in Requests, Works(r)
      PROVE  {q, s} \in raced'
  <2>1. OthersStay(r) /\ raced' = raced /\ Busy(r) BY <1>2, WorksMovesOnly DEF MovesOnly
  <2>2. Busy(q) /\ Busy(s) BY <2>1, OthersBusy
  <2> QED BY <2>1, <2>2 DEF Together
<1>3. CASE Crash BY <1>3, CrashTyped
<1>4. CASE UNCHANGED vars BY <1>4 DEF vars, locals, Together, Busy, InFlight
<1> QED BY <1>1, <1>2, <1>3, <1>4 DEF Next, Works

LEMMA TogetherHolds == Spec => []Together
  BY TogetherInit, TogetherNext, TypeInvHolds, PTL DEF Spec

----------------------------------------------------------------------------
(* The steps of each kind of request *)

LEMMA StepOps ==
    ASSUME TypeInv, NEW r \in Requests
    PROVE  /\ CreateProduct(r) \/ FindSuppliers(r) \/ FinishCreate(r) => call[r].op = "create"
           /\ WipePacks(r) \/ WriteUpdate(r) \/ Unlink(r) \/ Relink(r) \/ RelinkThrows(r) =>
                call[r].op = "update"
           /\ PartsThrow(r) \/ Part(r) => call[r].op \in {"create", "update"}
           /\ DeletePacks(r) \/ DeleteRows(r) \/ DeleteThrows(r) => call[r].op = "delete"
           /\ FindBatch(r) \/ DeleteBatch(r) \/ BatchThrows(r) \/ CleanFiles(r) =>
                call[r].op = "deleteAll"
           /\ FinishAssign(r) => call[r].op = "assign"
           /\ DeletePack(r) \/ DeletePackThrows(r) \/ UnlistPack(r) => call[r].op = "deletePack"
           /\ WriteQuantity(r) => call[r].op = "quantity"
           /\ (\E p \in todo[r] : WriteVariants(r, p)) => call[r].op \in VariantOps
           /\ WriteThrows(r) => call[r].op \in VariantOps \cup {"deletePack", "quantity"}
           /\ Link_(r) => call[r].op \in {"create", "assign"}
           /\ Register(r) \/ Row(r) \/ CommitUpload(r) \/ MarkFailed(r) \/ UploadExpires(r) =>
                call[r].op = "upload"
           /\ NoConnection(r) => call[r].op # "upload"
<1>1. InPhase(r) /\ TasksTyped(r) /\ JobsTyped(r) /\ RequestTyped(r) /\ pc[r] \in Pcs
  BY DEF TypeInv, TypeOK, RequestTyped
<1>2. CreateProduct(r) \/ FindSuppliers(r) \/ FinishCreate(r) => call[r].op = "create"
  BY <1>1 DEF InPhase, CreateProduct, FindSuppliers, FinishCreate
<1>3. WipePacks(r) \/ WriteUpdate(r) \/ Unlink(r) \/ Relink(r) \/ RelinkThrows(r) =>
        call[r].op = "update"
  BY <1>1 DEF InPhase, WipePacks, WriteUpdate, Unlink, Relink, RelinkThrows
<1>4. PartsThrow(r) \/ Part(r) => call[r].op \in {"create", "update"}
  BY <1>1 DEF InPhase, TasksTyped, TaskTyped, PartsThrow, Part
<1>5. DeletePacks(r) \/ DeleteRows(r) \/ DeleteThrows(r) => call[r].op = "delete"
  BY <1>1 DEF InPhase, DeletePacks, DeleteRows, DeleteThrows
<1>6. FindBatch(r) \/ DeleteBatch(r) \/ BatchThrows(r) \/ CleanFiles(r) =>
        call[r].op = "deleteAll"
  BY <1>1 DEF InPhase, FindBatch, DeleteBatch, BatchThrows, CleanFiles
<1>7. FinishAssign(r) => call[r].op = "assign" BY <1>1 DEF InPhase, FinishAssign
<1>8. DeletePack(r) \/ DeletePackThrows(r) \/ UnlistPack(r) => call[r].op = "deletePack"
  BY <1>1 DEF InPhase, DeletePack, DeletePackThrows, UnlistPack
<1>9. WriteQuantity(r) => call[r].op = "quantity" BY <1>1 DEF InPhase, WriteQuantity
<1>10. (\E p \in todo[r] : WriteVariants(r, p)) => call[r].op \in VariantOps
  BY <1>1 DEF InPhase, WriteVariants
<1>11. WriteThrows(r) => call[r].op \in VariantOps \cup {"deletePack", "quantity"}
  BY <1>1 DEF InPhase, WriteThrows
<1>12. Link_(r) => call[r].op \in {"create", "assign"} BY <1>1 DEF JobsTyped, Link_
<1>13. Register(r) \/ Row(r) \/ CommitUpload(r) \/ MarkFailed(r) \/ UploadExpires(r) =>
         call[r].op = "upload"
  BY <1>1 DEF InPhase, Register, Row, CommitUpload, MarkFailed, UploadExpires, Uploading
<1>14. NoConnection(r) => call[r].op # "upload"
  BY <1>1 DEF InPhase, NoConnection, InFlight, Pcs, Ended, VariantOps
<1> QED BY <1>2, <1>3, <1>4, <1>5, <1>6, <1>7, <1>8, <1>9, <1>10, <1>11, <1>12, <1>13, <1>14

\* An upload ends well only by its commit, a deletion of all by cleaning up.
LEMMA UploadSteps ==
    ASSUME TypeInv, NEW r \in Requests, Works(r), call[r].op = "upload"
    PROVE  Register(r) \/ Row(r) \/ CommitUpload(r) \/ MarkFailed(r) \/ UploadExpires(r)
  BY StepOps DEF Works, Step, VariantOps

LEMMA FilesStay ==
    ASSUME TypeInv, NEW r \in Requests, Works(r), ~ CleanFiles(r), call[r].op # "upload"
    PROVE  files' = files
<1>1. ~ CommitUpload(r) /\ ~ MarkFailed(r) BY StepOps
<1>2. CASE \/ FindSuppliers(r) \/ RelinkThrows(r) \/ PartsThrow(r) \/ DeleteThrows(r)
           \/ BatchThrows(r) \/ DeletePackThrows(r) \/ WriteThrows(r) \/ NoConnection(r)
           \/ FindBatch(r) \/ FinishAssign(r) \/ Register(r) \/ Row(r) \/ UploadExpires(r)
  BY <1>2, NoEffect DEF db
<1>3. CASE CreateProduct(r) \/ FinishCreate(r) \/ WriteUpdate(r) \/ UnlistPack(r) \/ WriteQuantity(r)
  BY <1>3 DEF CreateProduct, FinishCreate, WriteUpdate, UnlistPack, WriteQuantity
<1>4. CASE \E p \in todo[r] : WriteVariants(r, p) BY <1>4 DEF WriteVariants
<1>5. CASE \/ WipePacks(r) \/ DeletePacks(r) \/ DeletePack(r) \/ Unlink(r) \/ Relink(r)
           \/ DeleteRows(r) \/ DeleteBatch(r)
  BY <1>5 DEF WipePacks, DeletePacks, DeletePack, Unlink, Relink, DeleteRows, DeleteBatch
<1>6. CASE Part(r) BY <1>6, PartEffect DEF PackComes, LinksCome, db
<1>7. CASE Link_(r) BY <1>7, LinkEffect DEF LinksCome, Link_, db
<1> QED BY <1>1, <1>2, <1>3, <1>4, <1>5, <1>6, <1>7 DEF Works, Step

----------------------------------------------------------------------------
(* Uploads *)

OkUploads(f) == {r \in Uploads(f) : pc[r] = "ok"}
OkDeletes == {r \in Requests : call[r].op = "deleteAll" /\ pc[r] = "ok"}
Counted ==
    \A f \in Files :
        Cardinality(OkUploads(f)) <= (IF f \in DOMAIN files THEN 1 ELSE 0) + Cardinality(OkDeletes)
FailuresRaced ==
    \A f \in DOMAIN files :
        files[f] = "failed" => \E q, r \in Uploads(f) : q # r /\ {q, r} \in raced

LEMMA FilesInvIs ==
    FilesInv <=> IsFiniteSet(Received) /\ UploadsExclude /\ Counted /\ FailuresRaced
  BY DEF FilesInv, Counted, FailuresRaced, OkUploads, OkDeletes

LEMMA OkCounts ==
    ASSUME IsFiniteSet(Received), TypeInv, NEW f
    PROVE  /\ IsFiniteSet(OkUploads(f)) /\ IsFiniteSet(OkDeletes)
           /\ Cardinality(OkUploads(f)) \in Nat /\ Cardinality(OkDeletes) \in Nat
<1>1. OkUploads(f) \subseteq Received /\ OkDeletes \subseteq Received
  BY DEF OkUploads, OkDeletes, Uploads, Received
<1>2. IsFiniteSet(OkUploads(f)) /\ IsFiniteSet(OkDeletes) BY <1>1, FS_Subset
<1> QED BY <1>2, FS_CardinalityType

\* The reception of a request.
LEMMA BeginUploadFile ==
    ASSUME TypeInv, NEW r \in Requests, Receive(r), call'[r].op = "upload", pc'[r] # "refused"
    PROVE  call'[r].file \notin DOMAIN files
<1>0. DOMAIN call = Requests /\ DOMAIN pc = Requests BY DEF TypeInv, TypeOK
<1>1. ASSUME NEW b, BeginCreate(r, b) \/ RefuseCreate(r, b) PROVE FALSE
  BY <1>0, <1>1 DEF BeginCreate, RefuseCreate, Begin, Refuse
<1>2. ASSUME NEW p, NEW b, BeginUpdate(r, p, b) \/ RefuseUpdate(r, p, b) PROVE FALSE
  BY <1>0, <1>2 DEF BeginUpdate, RefuseUpdate, Begin, Refuse
<1>3. ASSUME NEW S, BeginDelete(r, S) PROVE FALSE BY <1>0, <1>3 DEF BeginDelete, Begin
<1>4. ~ BeginDeleteAll(r) BY <1>0 DEF BeginDeleteAll, Begin
<1>5. ASSUME NEW s, NEW S, BeginAssign(r, s, S) PROVE FALSE
  BY <1>0, <1>5 DEF BeginAssign, Begin
<1>6. ASSUME NEW k, BeginDeletePack(r, k) PROVE FALSE BY <1>0, <1>6 DEF BeginDeletePack, Begin
<1>7. ASSUME NEW p, NEW n, BeginQuantity(r, p, n) PROVE FALSE
  BY <1>0, <1>7 DEF BeginQuantity, Begin
<1>8. ASSUME NEW op, NEW C, NEW n, op # "upload", BeginVariants(r, op, C, n) PROVE FALSE
  <2>1. \E S : Begin(r, [op |-> op, codes |-> C, qty |-> n], S) BY <1>8 DEF BeginVariants
  <2> QED BY <1>0, <1>8, <2>1 DEF Begin
<1>9. ASSUME NEW f, RefuseUpload(r, f) PROVE FALSE
  BY <1>0, <1>9 DEF RefuseUpload, Refuse, Goto
<1>10. ASSUME NEW f, BeginUpload(r, f) PROVE call'[r].file \notin DOMAIN files
  BY <1>0, <1>10 DEF BeginUpload, Begin
<1> QED BY <1>1, <1>2, <1>3, <1>4, <1>5, <1>6, <1>7, <1>8, <1>9, <1>10 DEF Receive

LEMMA ReceiveFiles ==
    ASSUME TypeInv, FilesInv, NEW r \in Requests, Receive(r)
    PROVE  FilesInv'
<1>1. PICK S \in SUBSET DOMAIN products : Begins(r, S) BY ReceiveBegins
<1>2. /\ pc[r] = "idle" /\ call[r].op = "none"
      /\ pc'[r] \notin {"idle", "ok", "rows"}
      /\ raced \subseteq raced' /\ files' = files /\ OthersStay(r)
      /\ \A q \in Requests \ {r} : pc'[q] = pc[q] /\ call'[q] = call[q]
  BY <1>1, BeginsBusy DEF Begins, db, OthersStay
<1>3. IsFiniteSet(Received)'
  <2>1. Received' = Received \cup {r} BY <1>2 DEF Received
  <2>2. IsFiniteSet(Received) /\ r \notin Received BY <1>2, FilesInvIs DEF Received
  <2> QED BY <2>1, <2>2, FS_AddElement
<1>4. \A f : Uploads(f) \subseteq Uploads(f)' BY <1>2 DEF Uploads
<1>5. \A f : OkUploads(f)' = OkUploads(f) BY <1>2 DEF OkUploads, Uploads
<1>6. OkDeletes' = OkDeletes BY <1>2 DEF OkDeletes
<1>7. Counted' BY <1>2, <1>5, <1>6, FilesInvIs DEF Counted
<1>8. FailuresRaced'
  <2>1. ASSUME NEW f \in DOMAIN files, files[f] = "failed"
        PROVE  \E q, s \in Uploads(f)' : q # s /\ {q, s} \in raced'
    BY <1>2, <1>4, <2>1, FilesInvIs DEF FailuresRaced
  <2> QED BY <1>2, <2>1 DEF FailuresRaced
<1>9. UploadsExclude'
  <2>1. \A q \in Requests : Uploading(q)' => Uploading(q) /\ call'[q] = call[q]
    BY <1>2 DEF Uploading
  <2>2. ASSUME NEW q \in Requests, InFlight(q)', call'[q].op = "upload",
               call'[q].file \in DOMAIN files
        PROVE  \E s \in Requests : /\ call'[s].op = "upload" /\ call'[s].file = call'[q].file
                                  /\ s # q /\ {s, q} \in raced'
    <3>1. q # r BY <1>2, <2>2, BeginUploadFile DEF InFlight, Ended
    <3>2. InFlight(q) /\ call'[q] = call[q] BY <1>2, <2>2, <3>1, OthersBusy
    <3>3. PICK s \in Uploads(call[q].file) : s # q /\ {s, q} \in raced
      BY <2>2, <3>2, FilesInvIs DEF UploadsExclude
    <3>4. s \in Requests /\ s # r /\ call[s].op = "upload" /\ call[s].file = call[q].file
      BY <1>2, <3>3 DEF Uploads
    <3> QED BY <1>2, <3>2, <3>3, <3>4
  <2>3. UploadsExclude BY FilesInvIs
  <2>4. \A q, s \in Requests :
          (Uploading(q)' /\ Uploading(s)' /\ call'[q].file = call'[s].file) => q = s
    BY <2>1, <2>3 DEF UploadsExclude
  <2>5. \A q \in Requests : Uploading(q)' => call'[q].file \notin DOMAIN files'
    BY <1>2, <2>1, <2>3 DEF UploadsExclude
  <2> QED BY <1>2, <2>2, <2>4, <2>5 DEF UploadsExclude, Uploads
<1>10. IsFiniteSet(Received)' /\ UploadsExclude' /\ Counted' /\ FailuresRaced' => FilesInv'
  BY FilesInvIs, PTL
<1> QED BY <1>3, <1>7, <1>8, <1>9, <1>10

LEMMA WorksStay ==
    ASSUME TypeInv, NEW r \in Requests, Works(r)
    PROVE  /\ Received' = Received
           /\ \A f : Uploads(f)' = Uploads(f)
           /\ raced' = raced /\ call' = call
           /\ \A q \in Requests \ {r} : pc'[q] = pc[q]
           /\ pc[r] \notin {"idle", "ok"} /\ pc'[r] # "idle"
           /\ (pc'[r] \in {"rows", "register", "mark"} => call[r].op = "upload")
<1>1. /\ OthersStay(r) /\ call' = call /\ raced' = raced /\ Busy(r) /\ pc'[r] # "idle"
      /\ RequestTyped(r)' /\ RequestTyped(r)
  BY WorksMovesOnly DEF MovesOnly, TypeInv
<1>2. pc[r] \notin {"idle", "ok"} BY <1>1, BusyOps
<1>3. pc'[r] \in {"rows", "register", "mark"} => call[r].op = "upload"
  BY <1>1 DEF RequestTyped, InPhase
<1> QED BY <1>1, <1>2, <1>3 DEF OthersStay, Received, Uploads

LEMMA OtherFiles ==
    ASSUME TypeInv, FilesInv, NEW r \in Requests, Works(r), call[r].op # "upload"
    PROVE  FilesInv'
<1>0. IsFiniteSet(Received) /\ UploadsExclude /\ Counted /\ FailuresRaced BY FilesInvIs
<1>1. /\ Received' = Received /\ raced' = raced /\ call' = call
      /\ \A f : Uploads(f)' = Uploads(f)
      /\ \A q \in Requests \ {r} : pc'[q] = pc[q]
      /\ pc[r] \notin {"idle", "ok"} /\ pc'[r] # "idle"
      /\ pc'[r] # "rows"
  BY WorksStay
<1>2. /\ files' = EmptyFun \/ files' = files
      /\ files' # files => /\ call[r].op = "deleteAll" /\ pc'[r] = "ok"
  <2>1. CASE CleanFiles(r) BY <2>1, StepOps DEF CleanFiles, Goto, TypeInv, TypeOK
  <2>2. CASE ~ CleanFiles(r) BY <2>2, FilesStay
  <2> QED BY <2>1, <2>2
<1>3. \A f : OkUploads(f)' = OkUploads(f) BY <1>1 DEF OkUploads, Uploads
<1>4. /\ OkDeletes \subseteq OkDeletes'
      /\ files' # files => OkDeletes' = OkDeletes \cup {r}
      /\ r \notin OkDeletes
  BY <1>1, <1>2 DEF OkDeletes
<1>5. Counted'
  <2>1. SUFFICES ASSUME NEW f \in Files
                 PROVE  Cardinality(OkUploads(f)') <=
                          (IF f \in DOMAIN files' THEN 1 ELSE 0) + Cardinality(OkDeletes')
    BY DEF Counted
  <2>2. /\ IsFiniteSet(OkDeletes) /\ Cardinality(OkUploads(f)) \in Nat
        /\ Cardinality(OkDeletes) \in Nat
    BY <1>0, OkCounts
  <2>3. Cardinality(OkUploads(f)) <= (IF f \in DOMAIN files THEN 1 ELSE 0) + Cardinality(OkDeletes)
    BY <1>0 DEF Counted
  <2>4. CASE files' = files
    <3>1. OkDeletes' \subseteq Received BY <1>1 DEF OkDeletes, Received
    <3>2. IsFiniteSet(OkDeletes') BY <1>0, <3>1, FS_Subset
    <3>3. Cardinality(OkDeletes) <= Cardinality(OkDeletes') /\ Cardinality(OkDeletes') \in Nat
      BY <1>4, <3>2, FS_Subset, FS_CardinalityType
    <3> QED BY <1>3, <2>2, <2>3, <2>4, <3>3
  <2>5. CASE files' # files
    <3>1. Cardinality(OkDeletes') = Cardinality(OkDeletes) + 1
      BY <1>4, <2>2, <2>5, FS_AddElement
    <3>2. DOMAIN files' = {} BY <1>2, <2>5 DEF EmptyFun
    <3> QED BY <1>3, <2>2, <2>3, <3>1, <3>2
  <2> QED BY <2>4, <2>5
<1>6. DOMAIN files' \subseteq DOMAIN files /\ \A f \in DOMAIN files' : files'[f] = files[f]
  BY <1>2 DEF EmptyFun
<1>7. FailuresRaced' BY <1>0, <1>1, <1>6 DEF FailuresRaced
<1>8. UploadsExclude'
  <2>1. \A q \in Requests : Uploading(q)' => Uploading(q) BY <1>1 DEF Uploading
  <2>2. \A q \in Requests : (InFlight(q)' /\ call[q].op = "upload") => InFlight(q)
    BY <1>1 DEF InFlight
  <2> QED BY <1>0, <1>1, <1>6, <2>1, <2>2 DEF UploadsExclude
<1>9. IsFiniteSet(Received)' /\ UploadsExclude' /\ Counted' /\ FailuresRaced' => FilesInv'
  BY FilesInvIs, PTL
<1> QED BY <1>0, <1>1, <1>5, <1>7, <1>8, <1>9

LEMMA UploadFiles ==
    ASSUME TypeInv, Together, FilesInv, NEW r \in Requests, Works(r), call[r].op = "upload"
    PROVE  FilesInv'
<1>0. IsFiniteSet(Received) /\ UploadsExclude /\ Counted /\ FailuresRaced BY FilesInvIs
<1>1. /\ Received' = Received /\ raced' = raced /\ call' = call
      /\ \A f : Uploads(f)' = Uploads(f)
      /\ \A q \in Requests \ {r} : pc'[q] = pc[q]
      /\ pc[r] \notin {"idle", "ok"} /\ pc'[r] # "idle"
      /\ DOMAIN pc = Requests /\ call[r].file \in Files /\ r \in Uploads(call[r].file)
  BY WorksStay DEF TypeInv, TypeOK, RequestTyped, CallTyped, Uploads
<1>2. OkDeletes' = OkDeletes BY <1>1 DEF OkDeletes
<1>3. IsFiniteSet(Received)' /\ UploadsExclude' /\ Counted' /\ FailuresRaced' => FilesInv'
  BY FilesInvIs, PTL
<1>4. InFlight(r)
  BY UploadSteps DEF Register, Row, CommitUpload, MarkFailed, UploadExpires, Uploading,
                     InFlight, Ended
<1>5. CASE CommitUpload(r)
  <2>1. PICK f \in Files : f = call[r].file BY <1>1
  <2>2. /\ files' = With(files, f, "completed") /\ pc' = [pc EXCEPT ![r] = "ok"]
        /\ Uploading(r) /\ f \notin DOMAIN files
    BY <1>0, <1>5, <2>1 DEF CommitUpload, Goto, UploadsExclude
  <2>3. /\ DOMAIN files' = DOMAIN files \cup {f} /\ files'[f] = "completed"
        /\ \A g \in DOMAIN files : files'[g] = files[g]
    BY <2>2 DEF With
  <2>4. /\ OkUploads(f)' = OkUploads(f) \cup {r} /\ r \notin OkUploads(f)
        /\ \A g \in Files \ {f} : OkUploads(g)' = OkUploads(g)
    BY <1>1, <2>1, <2>2 DEF OkUploads, Uploads
  <2>5. Counted'
    <3>1. SUFFICES ASSUME NEW g \in Files
                   PROVE  Cardinality(OkUploads(g)') <=
                            (IF g \in DOMAIN files' THEN 1 ELSE 0) + Cardinality(OkDeletes')
      BY DEF Counted
    <3>2. /\ IsFiniteSet(OkUploads(g)) /\ Cardinality(OkUploads(g)) \in Nat
          /\ Cardinality(OkDeletes) \in Nat
      BY <1>0, OkCounts
    <3>3. Cardinality(OkUploads(g)) <= (IF g \in DOMAIN files THEN 1 ELSE 0) + Cardinality(OkDeletes)
      BY <1>0 DEF Counted
    <3>4. CASE g = f
      <4>1. Cardinality(OkUploads(g)') = Cardinality(OkUploads(g)) + 1
        BY <2>4, <3>2, <3>4, FS_AddElement
      <4>2. f \in DOMAIN files' BY <2>3
      <4> QED BY <1>2, <2>2, <3>2, <3>3, <3>4, <4>1, <4>2
    <3>5. CASE g # f BY <1>2, <2>3, <2>4, <3>3, <3>5
    <3> QED BY <3>4, <3>5
  <2>6. FailuresRaced' BY <1>0, <1>1, <2>3 DEF FailuresRaced
  <2>7. UploadsExclude'
    <3>1. \A q \in Requests : Uploading(q)' => Uploading(q) /\ q # r
      BY <1>1, <2>2 DEF Uploading
    <3>2. \A q \in Requests : Uploading(q)' => call[q].file \notin DOMAIN files'
      BY <1>0, <2>1, <2>2, <2>3, <3>1 DEF UploadsExclude
    <3>3. ASSUME NEW q \in Requests, InFlight(q)', call[q].op = "upload",
                 call[q].file \in DOMAIN files'
          PROVE  \E s \in Uploads(call[q].file) : s # q /\ {s, q} \in raced
      <4>1. q # r /\ InFlight(q) BY <1>1, <2>2, <3>3 DEF InFlight, Ended
      <4>2. CASE call[q].file = f
        <5>1. {r, q} \in raced BY <1>4, <4>1 DEF Together, Busy
        <5> QED BY <1>1, <2>1, <4>1, <4>2, <5>1
      <4>3. CASE call[q].file # f BY <1>0, <2>3, <3>3, <4>1, <4>3 DEF UploadsExclude
      <4> QED BY <4>2, <4>3
    <3> QED BY <1>0, <1>1, <3>1, <3>2, <3>3 DEF UploadsExclude
  <2> QED BY <1>0, <1>1, <1>3, <2>5, <2>6, <2>7
<1>6. CASE ~ CommitUpload(r)
  <2>1. Register(r) \/ Row(r) \/ MarkFailed(r) \/ UploadExpires(r) BY <1>6, UploadSteps
  <2>2. /\ DOMAIN files' = DOMAIN files
        /\ files' = files \/ (MarkFailed(r) /\ call[r].file \in DOMAIN files
                              /\ \A g \in DOMAIN files \ {call[r].file} : files'[g] = files[g])
        /\ pc'[r] \in {"mark", "rows", "failed"}
        /\ pc'[r] = "rows" => Uploading(r) \/ Register(r)
    BY <1>1, <2>1 DEF Register, Row, MarkFailed, UploadExpires, Goto, db, Uploading
  <2>3. \A g : OkUploads(g)' = OkUploads(g) BY <1>1, <2>2 DEF OkUploads, Uploads
  <2>4. Counted' BY <1>0, <1>2, <2>2, <2>3 DEF Counted
  <2>5. FailuresRaced'
    <3>1. ASSUME NEW g \in DOMAIN files, files'[g] = "failed"
          PROVE  \E q, s \in Uploads(g) : q # s /\ {q, s} \in raced
      <4>1. CASE files'[g] = files[g] BY <1>0, <3>1, <4>1 DEF FailuresRaced
      <4>2. CASE g = call[r].file
        <5>1. PICK q \in Uploads(call[r].file) : q # r /\ {q, r} \in raced
          BY <1>0, <1>4, <4>2 DEF UploadsExclude
        <5> QED BY <1>1, <4>2, <5>1
      <4> QED BY <2>2, <4>1, <4>2
    <3> QED BY <1>1, <2>2, <3>1 DEF FailuresRaced
  <2>6. UploadsExclude'
    <3>1. \A q \in Requests : Uploading(q)' => Uploading(q) \/ (q = r /\ Register(r))
      BY <1>1, <2>2 DEF Uploading
    <3>2. \A q \in Requests : InFlight(q)' => InFlight(q) BY <1>1, <1>4 DEF InFlight
    <3>3. (Register(r) /\ Uploading(r)') =>
            /\ call[r].file \notin DOMAIN files
            /\ \A q \in Requests : Uploading(q) => call[q].file # call[r].file
      BY <1>1 DEF Register, Goto, Uploading
    <3>4. \A q \in Requests : Uploading(q)' => call[q].file \notin DOMAIN files
      BY <1>0, <3>1, <3>3 DEF UploadsExclude
    <3>5. ASSUME NEW q \in Requests, NEW s \in Requests, Uploading(q)', Uploading(s)',
                 call[q].file = call[s].file
          PROVE  q = s
      <4>1. CASE Uploading(q) /\ Uploading(s) BY <1>0, <3>5, <4>1 DEF UploadsExclude
      <4>2. CASE q # s /\ ~ (Uploading(q) /\ Uploading(s)) BY <3>1, <3>3, <3>5, <4>2
      <4> QED BY <4>1, <4>2
    <3> QED BY <1>0, <1>1, <2>2, <3>2, <3>4, <3>5 DEF UploadsExclude
  <2> QED BY <1>0, <1>1, <1>3, <2>4, <2>5, <2>6
<1> QED BY <1>5, <1>6

LEMMA CrashFiles ==
    ASSUME TypeInv, FilesInv, Crash
    PROVE  FilesInv'
<1>0. IsFiniteSet(Received) /\ UploadsExclude /\ Counted /\ FailuresRaced BY FilesInvIs
<1>1. /\ call' = call /\ raced' = raced /\ files' = files
      /\ \A r \in Requests : pc'[r] = IF InFlight(r) THEN "failed" ELSE pc[r]
  BY DEF Crash, db
<1>2. \A r \in Requests : /\ pc'[r] = "idle" <=> pc[r] = "idle"
                          /\ pc'[r] = "ok" <=> pc[r] = "ok"
                          /\ ~ InFlight(r)' /\ ~ Uploading(r)'
  BY <1>1 DEF InFlight, Ended, Uploading
<1>3. /\ Received' = Received /\ OkDeletes' = OkDeletes
      /\ \A f : Uploads(f)' = Uploads(f) /\ OkUploads(f)' = OkUploads(f)
  BY <1>1, <1>2 DEF Received, OkDeletes, Uploads, OkUploads
<1>4. Counted' /\ FailuresRaced' BY <1>0, <1>1, <1>3 DEF Counted, FailuresRaced
<1>5. UploadsExclude' BY <1>2 DEF UploadsExclude
<1>6. IsFiniteSet(Received)' /\ UploadsExclude' /\ Counted' /\ FailuresRaced' => FilesInv'
  BY FilesInvIs, PTL
<1> QED BY <1>0, <1>3, <1>4, <1>5, <1>6

LEMMA FilesInvInit == Init => FilesInv
<1> SUFFICES ASSUME Init PROVE FilesInv OBVIOUS
<1>1. /\ \A r \in Requests : pc[r] = "idle" /\ call[r].op = "none"
      /\ DOMAIN files = {}
  BY DEF Init, NoCall, EmptyFun
<1>2. Received = {} /\ OkDeletes = {} /\ \A f : OkUploads(f) = {}
  BY <1>1 DEF Received, OkDeletes, OkUploads, Uploads
<1>3. IsFiniteSet({}) /\ Cardinality({}) = 0 BY FS_EmptySet
<1>4. UploadsExclude /\ FailuresRaced BY <1>1 DEF UploadsExclude, FailuresRaced, Uploading
<1>5. Counted BY <1>1, <1>2, <1>3 DEF Counted
<1> QED BY <1>2, <1>3, <1>4, <1>5, FilesInvIs

LEMMA FilesInvNext == TypeInv /\ Together /\ FilesInv /\ [Next]_vars => FilesInv'
<1> SUFFICES ASSUME TypeInv, Together, FilesInv, [Next]_vars
             PROVE  FilesInv'
  OBVIOUS
<1>1. CASE UNCHANGED vars
  BY <1>1, ZenonT(60) DEF vars, db, locals, FilesInv, Received, UploadsExclude, Uploading, Uploads, InFlight
<1>2. ASSUME NEW r \in Requests, Works(r)
      PROVE  FilesInv'
  BY <1>2, OtherFiles, UploadFiles
<1> QED BY <1>1, <1>2, ReceiveFiles, CrashFiles DEF Next, Works

\* However uploads overlap, expire, fail and are retried, a file is added once, unless
\* all products were deleted in between, and it is marked failed only where two uploads
\* of it overlapped (checkInventoryFileStatus, uploadInventorySheet).
THEOREM FilesAreTrue == Spec => []FilesTellTruth
<1>1. FilesInv => FilesTellTruth
  <2> SUFFICES ASSUME FilesInv PROVE FilesTellTruth OBVIOUS
  <2>1. ASSUME NEW f \in Files
        PROVE  Cardinality(OkUploads(f)) <= 1 + Cardinality(OkDeletes)
    <3>1. Cardinality(OkUploads(f)) <=
            (IF f \in DOMAIN files THEN 1 ELSE 0) + Cardinality(OkDeletes)
      BY FilesInvIs DEF Counted
    <3>2. OkUploads(f) \subseteq Received /\ OkDeletes \subseteq Received
      <4>1. \A r \in Requests : pc[r] = "ok" => r \in Received BY DEF Received
      <4> QED BY <4>1 DEF OkUploads, OkDeletes, Uploads
    <3>3. Cardinality(OkUploads(f)) \in Nat /\ Cardinality(OkDeletes) \in Nat
      BY <3>2, FilesInvIs, FS_Subset, FS_CardinalityType
    <3> QED BY <3>1, <3>3
  <2> QED BY <2>1, FilesInvIs DEF FilesTellTruth, FailuresRaced, OkUploads, OkDeletes
<1> QED BY <1>1, FilesInvInit, FilesInvNext, TypeInvHolds, TogetherHolds, PTL DEF Spec

----------------------------------------------------------------------------
(* What a step leaves alone *)

LinksOf(p) == {l \in links : l.product = p}
JobsOn(r, p) == {j \in jobs[r] : j.product = p}

\* An upload commits products, packs and links of its own.
LEMMA CommitRows ==
    ASSUME TypeInv, NEW r \in Requests, CommitUpload(r)
    PROVE  /\ Target(r) = {} /\ Target(r)' \subseteq {r} \X Nat
           /\ DOMAIN products' = DOMAIN products \cup Target(r)'
           /\ \A p \in DOMAIN products \ Target(r)' : products'[p] = products[p]
           /\ \A p \in Target(r)' :
                p[2] \in DOMAIN RowsOf[call[r].file] /\ products'[p] = UploadedRow(r, p[2])
           /\ \A p : p \notin Target(r)' => LinksOf(p)' = LinksOf(p)
           /\ \A p \in Target(r)' :
                LinksOf(p)' \subseteq LinksOf(p) \cup
                  {LinkOf(p, RowsOf[call[r].file][p[2]].supplier, "primary")}
           /\ jobs' = jobs /\ jobs[r] = {} /\ call[r].op = "upload" /\ call[r].file \in Files
           /\ Uploading(r)
<1>0. /\ call[r].file \in Files /\ Uploading(r) /\ call[r].op = "upload" /\ jobs[r] = {}
      /\ jobs' = jobs /\ DOMAIN read = Requests
  BY DEF TypeInv, RequestTyped, CallTyped, InPhase, JobsTyped, CommitUpload, Uploading
<1>1. PICK f \in Files : f = call[r].file BY <1>0
<1> DEFINE rows == RowsOf[f]
           new == [p \in {<<r, i>> : i \in DOMAIN rows} |-> UploadedRow(r, p[2])]
           vended == {i \in DOMAIN rows : rows[i].supplier # NoSupplier /\ ~ InBulk(r)}
           L == {LinkOf(<<r, i>>, rows[i].supplier, "primary") : i \in vended}
<1>2. /\ products' = WithAll(products, new)
      /\ links' = links \cup L
      /\ read' = [read EXCEPT ![r] = new]
  BY <1>1 DEF CommitUpload
<1>3. \A i \in DOMAIN rows : i \in Nat BY <1>1, UploadedRowTyped
<1>4. /\ DOMAIN new \subseteq {r} \X Nat
      /\ \A p \in DOMAIN new : /\ p[2] \in DOMAIN rows /\ new[p] = UploadedRow(r, p[2])
                               /\ p = <<r, p[2]>>
  BY <1>3
<1>5. \A l \in L : \E i \in vended :
        /\ l = LinkOf(<<r, i>>, rows[i].supplier, "primary") /\ l.product = <<r, i>>
        /\ <<r, i>> \in DOMAIN new
  BY DEF LinkOf
<1>6. \A l \in L : l.product \in DOMAIN new BY <1>5
<1>7. ASSUME NEW p \in DOMAIN new, NEW l \in L, l.product = p
      PROVE  l = LinkOf(p, rows[p[2]].supplier, "primary")
  <2>1. PICK i \in vended : /\ l = LinkOf(<<r, i>>, rows[i].supplier, "primary")
                            /\ l.product = <<r, i>>
    BY <1>5
  <2> QED BY <1>7, <2>1
<1> HIDE DEF new, L
<1>8. Target(r)' = DOMAIN new BY <1>0, <1>2 DEF Target
<1>9. Target(r) = {} BY CommitUploadTyped
<1>10. /\ DOMAIN products' = DOMAIN products \cup DOMAIN new
       /\ \A y \in DOMAIN new : products'[y] = new[y]
       /\ \A y \in DOMAIN products \ DOMAIN new : products'[y] = products[y]
  BY <1>2 DEF WithAll
<1>11. \A p : p \notin DOMAIN new => LinksOf(p)' = LinksOf(p) BY <1>2, <1>6 DEF LinksOf
<1>12. \A p \in DOMAIN new :
         LinksOf(p)' \subseteq LinksOf(p) \cup {LinkOf(p, rows[p[2]].supplier, "primary")}
  BY <1>2, <1>7 DEF LinksOf
<1> QED BY <1>0, <1>1, <1>4, <1>8, <1>9, <1>10, <1>11, <1>12

LEMMA JobsOnTarget ==
    ASSUME NEW r \in Requests, JobsTyped(r), NEW j \in jobs[r]
    PROVE  j.product \in Target(r)
  BY DEF JobsTyped

LEMMA Frame ==
    ASSUME TypeInv, NEW r \in Requests, Works(r), NEW p, p \notin Target(r)'
    PROVE  /\ p \in DOMAIN products' <=> p \in DOMAIN products
           /\ p \in DOMAIN products => products'[p] = products[p]
           /\ LinksOf(p)' = LinksOf(p)
           /\ JobsOn(r, p) = {} /\ JobsOn(r, p)' = {}
           /\ p \notin Target(r)
<1>0. Effect(r) /\ Target(r) \subseteq Target(r)' /\ JobsTyped(r) /\ JobsTyped(r)'
  BY WorksEffect, WorksMovesOnly DEF MovesOnly, TypeInv, RequestTyped
<1>1. p \notin Target(r) BY <1>0
<1>2. \A j \in jobs[r] : j.product \in Target(r) BY <1>0, JobsOnTarget
<1>3. \A j \in jobs'[r] : j.product \in Target(r)' BY <1>0 DEF JobsTyped
<1>4. JobsOn(r, p) = {} /\ JobsOn(r, p)' = {} BY <1>1, <1>2, <1>3 DEF JobsOn
<1> DEFINE G == /\ p \in DOMAIN products' <=> p \in DOMAIN products
                /\ p \in DOMAIN products => products'[p] = products[p]
                /\ LinksOf(p)' = LinksOf(p)
<1> SUFFICES G BY <1>1, <1>4
<1>5. CASE UNCHANGED db \/ PacksGo \/ PackComes(r) \/ FilesChange
  BY <1>5 DEF db, PacksGo, PackComes, FilesChange, LinksOf
<1>6. CASE RowChanges(r) BY <1>1, <1>6 DEF RowChanges, LinksOf
<1>7. CASE LinksCome(r) BY <1>1, <1>7 DEF LinksCome, LinksOf
<1>8. CASE LinksGo(r) BY <1>1, <1>8 DEF LinksGo, LinksOf
<1>9. CASE RowsGo(r) BY <1>1, <1>9 DEF RowsGo, Erase, Without, LinksOf
<1>10. CASE RowComes(r)
  <2>1. p # Own(r) BY <1>10 DEF RowComes
  <2> QED BY <1>10, <2>1 DEF RowComes, With, LinksOf
<1>11. CASE CommitUpload(r) BY <1>11, CommitRows
<1> QED BY <1>0, <1>5, <1>6, <1>7, <1>8, <1>9, <1>10, <1>11 DEF Effect

\* What a request takes up while it works.
LEMMA TargetGrows ==
    ASSUME TypeInv, NEW r \in Requests, Works(r)
    PROVE  /\ Target(r)' \subseteq Target(r) \cup DOMAIN products \cup {p \in ProductId : p[1] = r}
           /\ Target(r)' = Target(r) \/ FindBatch(r) \/ CreateProduct(r) \/ CommitUpload(r)
<1>0. /\ DOMAIN read = Requests BY DEF TypeInv
<1>1. CASE FindBatch(r) BY <1>0, <1>1 DEF FindBatch, WithAll, Target
<1>2. CASE CreateProduct(r)
  <2>1. Own(r) \in ProductId /\ Own(r)[1] = r BY DEF Own, ProductId
  <2> QED BY <1>2, <2>1, CreateProductTyped
<1>3. CASE CommitUpload(r) BY <1>3, CommitRows, ZenonT(60) DEF ProductId
<1>4. CASE SimpleStep(r) BY <1>4, SimpleStepMoves DEF locals, Target
<1>5. CASE FindSuppliers(r) \/ WipePacks(r) \/ DeleteBatch(r) \/ Row(r)
  BY <1>5 DEF FindSuppliers, Throws, locals, WipePacks, DeleteBatch, Row, Target
<1>6. CASE \E p \in todo[r] : WriteVariants(r, p) BY <1>6 DEF WriteVariants, Target
<1>7. CASE Part(r) BY <1>7 DEF Part, MakePack, CheckSupplier, LinkVariant, PartThrows, Target
<1>8. CASE Link_(r) BY <1>8 DEF Link_, MakeLink, ReadLinks, AssignLink, Target
<1> QED BY <1>1, <1>2, <1>3, <1>4, <1>5, <1>6, <1>7, <1>8 DEF Works, Step, SimpleStep

----------------------------------------------------------------------------
(* Products a request makes are its own *)

RowsAreFresh ==
    \A p \in DOMAIN products \cup UNION {Target(q) : q \in Requests} :
        p[1] \in Requests => p \in Target(p[1])

LEMMA FreshInit == Init => RowsAreFresh
<1> SUFFICES ASSUME Init PROVE RowsAreFresh OBVIOUS
<1>1. \A q \in Requests : Target(q) = {} BY DEF Init, Target, EmptyFun
<1>2. \A p \in DOMAIN products : p[1] \notin Requests BY CatalogueAssumption DEF Init
<1> QED BY <1>1, <1>2 DEF RowsAreFresh

LEMMA FreshNext == TypeInv /\ RowsAreFresh /\ [Next]_vars => RowsAreFresh'
<1> SUFFICES ASSUME TypeInv, RowsAreFresh, [Next]_vars,
                    NEW p \in DOMAIN products' \cup UNION {Target(q)' : q \in Requests},
                    p[1] \in Requests
             PROVE  p \in Target(p[1])'
  BY DEF RowsAreFresh
<1>1. ASSUME NEW r \in Requests, Receive(r)
      PROVE  p \in Target(p[1])'
  <2>1. PICK S \in SUBSET DOMAIN products : Begins(r, S) BY <1>1, ReceiveBegins
  <2>2. /\ Target(r) = {} /\ Target(r)' = S /\ products' = products
        /\ \A q \in Requests \ {r} : Target(q)' = Target(q)
    BY <2>1, BeginsBusy, OthersBusy DEF Begins, db
  <2> QED BY <2>2 DEF RowsAreFresh
<1>2. ASSUME NEW r \in Requests, Works(r)
      PROVE  p \in Target(p[1])'
  <2>1. /\ \A q \in Requests \ {r} : Target(q)' = Target(q)
        /\ Target(r) \subseteq Target(r)'
        /\ Target(r)' \subseteq Target(r) \cup DOMAIN products \cup {x \in ProductId : x[1] = r}
    BY <1>2, WorksMovesOnly, OthersBusy, TargetGrows DEF MovesOnly
  <2>2. p \in Target(r)' \/ p \in DOMAIN products \/ p \in UNION {Target(q) : q \in Requests}
    <3>1. CASE p \in DOMAIN products' /\ p \notin Target(r)' BY <1>2, <3>1, Frame
    <3> QED BY <2>1, <3>1
  <2>3. CASE p[1] = r /\ p \in Target(r)' BY <2>3
  <2>4. CASE p \in DOMAIN products \cup UNION {Target(q) : q \in Requests}
    BY <2>1, <2>4 DEF RowsAreFresh
  <2> QED BY <2>1, <2>2, <2>3, <2>4
<1>3. CASE Crash \/ UNCHANGED vars BY <1>3 DEF Crash, vars, db, locals, Target, RowsAreFresh
<1> QED BY <1>1, <1>2, <1>3 DEF Next, Works

LEMMA FreshHolds == Spec => []RowsAreFresh
  BY FreshInit, FreshNext, TypeInvHolds, PTL DEF Spec

----------------------------------------------------------------------------
(* Products that one request at a time works on *)

LEMMA RacedGrows ==
    ASSUME TypeInv, [Next]_vars, NEW p, Raced(p)
    PROVE  Raced(p)'
<1>1. raced \subseteq raced' /\ \A q \in Requests : Target(q) \subseteq Target(q)'
  <2>1. ASSUME NEW r \in Requests, Receive(r)
        PROVE  raced \subseteq raced' /\ \A q \in Requests : Target(q) \subseteq Target(q)'
    <3>1. PICK S \in SUBSET DOMAIN products : Begins(r, S) BY <2>1, ReceiveBegins
    <3> QED BY <3>1, BeginsBusy, OthersBusy DEF Begins
  <2>2. ASSUME NEW r \in Requests, Works(r)
        PROVE  raced \subseteq raced' /\ \A q \in Requests : Target(q) \subseteq Target(q)'
    BY <2>2, WorksMovesOnly, OthersBusy DEF MovesOnly
  <2>3. CASE Crash \/ UNCHANGED vars BY <2>3 DEF Crash, vars, db, locals, Target
  <2> QED BY <2>1, <2>2, <2>3 DEF Next, Works
<1> QED BY <1>1 DEF Raced

\* While r works on a product that is not raced for, nobody else does.
LEMMA Sole ==
    ASSUME TypeInv, Together, NEW r \in Requests, Works(r), NEW p \in Target(r)', ~ Raced(p)',
           NEW q \in Requests \ {r}, p \in Target(q)
    PROVE  ~ Busy(q)
<1>1. Busy(r) /\ raced' = raced /\ Target(q)' = Target(q)
  BY WorksMovesOnly, OthersBusy DEF MovesOnly
<1>2. Busy(q) => {q, r} \in raced' BY <1>1 DEF Together
<1> QED BY <1>1, <1>2 DEF Raced

LEMMA JobsBusy ==
    ASSUME TypeInv, NEW r \in Requests, NEW p, JobsOn(r, p) # {}
    PROVE  Busy(r) /\ p \in Target(r)
<1>1. PICK j \in jobs[r] : j.product = p BY DEF JobsOn
<1> QED BY <1>1, JobsOnTarget DEF TypeInv, RequestTyped, Busy

----------------------------------------------------------------------------
(* One primary supplier *)

\* The links of p, and those r is making, have one primary at most.
OnceBy(r, p) ==
    \A l, m \in LinksOf(p) \cup JobsOn(r, p) :
        (l.state = "primary" /\ m.state = "primary") => l = m

\* Where r is to make a primary link, there is none.
RoomFor(r, p) ==
    /\ (p \in Target(r) /\ pc[r] \in {"suppliers", "relink"}) => LinksOf(p) = {}
    /\ \A j \in JobsOn(r, p) :
         (call[r].op = "assign" /\ j.state = "primary") => LinksOf(p) = {}

PrimaryInv ==
    \A p \in DOMAIN products : \A r \in Requests :
        Raced(p) \/ (OnceBy(r, p) /\ RoomFor(r, p))

\* A step that makes no link for p, and comes not to where one is to be made.
LEMMA NoLinkMade ==
    ASSUME NEW r \in Requests, NEW p, OnceBy(r, p), RoomFor(r, p),
           LinksOf(p)' \subseteq LinksOf(p), JobsOn(r, p)' \subseteq JobsOn(r, p),
           call' = call,
           \/ pc'[r] \notin {"suppliers", "relink"}
           \/ pc'[r] = pc[r] /\ Target(r)' = Target(r)
           \/ LinksOf(p)' = {}
    PROVE  OnceBy(r, p)' /\ RoomFor(r, p)'
  BY DEF OnceBy, RoomFor

LEMMA CreateProductOnce ==
    ASSUME TypeInv, NEW r \in Requests, CreateProduct(r), RowsAreFresh, NEW p \in Target(r)'
    PROVE  OnceBy(r, p)' /\ RoomFor(r, p)'
<1>1. /\ Target(r) = {} /\ p = Own(r) /\ jobs[r] = {} /\ UNCHANGED <<links, jobs>>
  BY CreateProductEffect DEF RowComes
<1>2. p \notin DOMAIN products
  <2>1. p[1] = r BY <1>1 DEF Own
  <2> QED BY <1>1, <2>1 DEF RowsAreFresh
<1>3. LinksOf(p) = {} BY <1>2 DEF TypeInv, TypeOK, LinksOf
<1>4. LinksOf(p)' = {} /\ JobsOn(r, p)' = {} BY <1>1, <1>3 DEF LinksOf, JobsOn
<1> QED BY <1>4 DEF OnceBy, RoomFor

LEMMA CommitOnce ==
    ASSUME TypeInv, NEW r \in Requests, CommitUpload(r), RowsAreFresh, NEW p \in Target(r)'
    PROVE  OnceBy(r, p)' /\ RoomFor(r, p)'
<1>1. /\ Target(r) = {} /\ p[1] = r /\ jobs[r] = {} /\ jobs' = jobs
      /\ LinksOf(p)' \subseteq LinksOf(p) \cup
           {LinkOf(p, RowsOf[call[r].file][p[2]].supplier, "primary")}
      /\ pc'[r] = "ok"
  <2>1. pc'[r] = "ok" BY DEF CommitUpload, Goto, TypeInv, TypeOK
  <2>2. Target(r)' \subseteq {r} \X Nat BY CommitRows
  <2>3. p[1] = r BY <2>2
  <2> QED BY <2>1, <2>3, CommitRows
<1>2. p \notin DOMAIN products BY <1>1 DEF RowsAreFresh
<1>3. LinksOf(p) = {} /\ JobsOn(r, p)' = {} BY <1>1, <1>2 DEF TypeInv, TypeOK, LinksOf, JobsOn
<1> QED BY <1>1, <1>3 DEF OnceBy, RoomFor

\* A list of suppliers has one primary at most.
LEMMA ListedOnce ==
    ASSUME NEW r \in Requests, RequestTyped(r), call[r].op \in {"create", "update"},
           pc[r] # "refused",
           NEW l \in call[r].body.listed, NEW m \in call[r].body.listed,
           l.state = "primary", m.state = "primary"
    PROVE  l = m
<1> DEFINE P == {x \in call[r].body.listed : x.state = "primary"}
<1>1. Cardinality(P) = 1 /\ IsFiniteSet(call[r].body.listed) BY BodyTyped DEF WellFormed
<1>2. IsFiniteSet(P)
  <2>1. P \subseteq call[r].body.listed OBVIOUS
  <2> QED BY <1>1, <2>1, FS_Subset
<1>3. \E x : P = {x} BY <1>1, <1>2, FS_Singleton
<1> QED BY <1>3

\* The suppliers of a list are linked to a product that has none.
LEMMA ListLinked ==
    ASSUME NEW r \in Requests, RequestTyped(r), call[r].op \in {"create", "update"},
           pc[r] # "refused", NEW p,
           LinksOf(p)' \cup JobsOn(r, p)' \subseteq
             {LinkOf(p, x.supplier, x.state) : x \in call[r].body.listed}
    PROVE  OnceBy(r, p)'
<1>1. ASSUME NEW l \in LinksOf(p)' \cup JobsOn(r, p)', NEW m \in LinksOf(p)' \cup JobsOn(r, p)',
             l.state = "primary", m.state = "primary"
      PROVE  l = m
  <2>1. PICK x \in call[r].body.listed : l = LinkOf(p, x.supplier, x.state) OBVIOUS
  <2>2. PICK y \in call[r].body.listed : m = LinkOf(p, y.supplier, y.state) OBVIOUS
  <2>3. x.state = "primary" /\ y.state = "primary" BY <1>1, <2>1, <2>2 DEF LinkOf
  <2>4. x = y BY <2>3, ListedOnce
  <2> QED BY <2>1, <2>2, <2>4
<1> QED BY <1>1 DEF OnceBy

LEMMA FindSuppliersOnce ==
    ASSUME TypeInv, NEW r \in Requests, FindSuppliers(r), NEW p \in Target(r),
           OnceBy(r, p), RoomFor(r, p)
    PROVE  OnceBy(r, p)' /\ RoomFor(r, p)'
<1>1. /\ pc[r] = "suppliers" /\ call[r].op = "create" /\ jobs[r] = {} /\ p = Own(r)
      /\ UNCHANGED <<db, call, read>> /\ RequestTyped(r) /\ DOMAIN pc = Requests
      /\ DOMAIN jobs = Requests
  BY StepOps DEF FindSuppliers, Throws, locals, TypeInv, TypeOK, RequestTyped, JobsTyped,
                 InPhase, OnTarget
<1>2. LinksOf(p) = {} /\ LinksOf(p)' = {} BY <1>1 DEF RoomFor, LinksOf, db
<1>3. pc'[r] \in {"links", "failed"} BY <1>1 DEF FindSuppliers, Throws, Goto
<1>4. RoomFor(r, p)' BY <1>1, <1>2 DEF RoomFor
<1>5. JobsOn(r, p)' \subseteq {LinkOf(p, x.supplier, x.state) : x \in call[r].body.listed}
  <2>1. \/ jobs' = jobs
        \/ jobs'[r] = {LinkOf(Own(r), x.supplier, x.state) : x \in call[r].body.listed}
    BY <1>1 DEF FindSuppliers, Throws, locals
  <2> QED BY <1>1, <2>1 DEF JobsOn
<1>6. OnceBy(r, p)' BY <1>1, <1>2, <1>5, ListLinked
<1> QED BY <1>4, <1>6

LEMMA RelinkOnce ==
    ASSUME TypeInv, NEW r \in Requests, Relink(r), NEW p \in Target(r),
           OnceBy(r, p), RoomFor(r, p)
    PROVE  OnceBy(r, p)' /\ RoomFor(r, p)'
<1>1. /\ pc[r] = "relink" /\ call[r].op = "update" /\ jobs[r] = {} /\ p = The(r)
      /\ UNCHANGED <<call, read, jobs>> /\ RequestTyped(r) /\ pc'[r] = "ok"
  BY StepOps, RelinkEffect, ZenonT(60) DEF Relink, Goto, locals, TypeInv, TypeOK, RequestTyped, JobsTyped
<1>2. LinksOf(p) = {} BY <1>1 DEF RoomFor
<1>3. links' = links \cup {LinkOf(p, x.supplier, x.state) : x \in call[r].body.listed}
  BY <1>1 DEF Relink
<1>4. LinksOf(p)' \subseteq {LinkOf(p, x.supplier, x.state) : x \in call[r].body.listed}
  BY <1>2, <1>3 DEF LinksOf
<1>5. JobsOn(r, p)' = {} BY <1>1 DEF JobsOn
<1>6. OnceBy(r, p)' BY <1>1, <1>4, <1>5, ListLinked
<1> QED BY <1>1, <1>5, <1>6 DEF RoomFor

LEMMA MakeLinkOnce ==
    ASSUME TypeInv, NEW r \in Requests, NEW j \in jobs[r], MakeLink(r, j), NEW p \in Target(r),
           OnceBy(r, p), RoomFor(r, p)
    PROVE  OnceBy(r, p)' /\ RoomFor(r, p)'
<1>1. /\ call[r].op = "create" /\ call' = call /\ pc'[r] \in {"links", "parts", "failed"}
  <2>1. call[r].op = "create" /\ call' = call /\ pc[r] \in {"links", "failed"}
    BY DEF MakeLink, TypeInv, RequestTyped, JobsTyped, InPhase
  <2> QED BY <2>1 DEF MakeLink, EnterParts, Goto, TypeInv, TypeOK
<1>2. jobs'[r] = jobs[r] \ {j} /\ (links' = links \/ links' = links \cup {j})
  BY DEF MakeLink, TypeInv
<1>3. LinksOf(p)' \cup JobsOn(r, p)' \subseteq LinksOf(p) \cup JobsOn(r, p)
  BY <1>2 DEF LinksOf, JobsOn
<1> QED BY <1>1, <1>3 DEF OnceBy, RoomFor

LEMMA AssignOnce ==
    ASSUME TypeInv, NEW r \in Requests, NEW j \in jobs[r], ReadLinks(r, j) \/ AssignLink(r, j),
           NEW p \in Target(r), OnceBy(r, p), RoomFor(r, p)
    PROVE  OnceBy(r, p)' /\ RoomFor(r, p)'
<1>1. /\ call[r].op = "assign" /\ UNCHANGED <<call, pc, read>> /\ DOMAIN jobs = Requests
      /\ pc[r] \notin {"suppliers", "relink"} /\ JobsTyped(r)
      /\ j.product \in Target(r)
  BY AssignStepTyped DEF TypeInv, RequestTyped, InPhase, ReadLinks, AssignLink
<1>2. \A i \in jobs[r] : i.product = j.product => i = j BY <1>1 DEF JobsTyped
<1>3. CASE j.product # p
  <2>1. \A i : i.product = p => (i \in jobs'[r] <=> i \in jobs[r])
    BY <1>1, <1>3 DEF ReadLinks, AssignLink, JobsTyped
  <2>2. LinksOf(p)' = LinksOf(p) BY <1>3 DEF ReadLinks, AssignLink, LinksOf, db
  <2>3. JobsOn(r, p)' = JobsOn(r, p) BY <2>1 DEF JobsOn
  <2> QED BY <1>1, <2>2, <2>3, NoLinkMade
<1>4. CASE j.product = p /\ AssignLink(r, j)
  <2>1. JobsOn(r, p)' = {} /\ j \in JobsOn(r, p) /\ j.state # "unread"
    BY <1>1, <1>2, <1>4 DEF JobsOn, AssignLink
  <2>2. LinksOf(p)' = LinksOf(p) \/ LinksOf(p)' = LinksOf(p) \cup {j}
    BY <1>4 DEF LinksOf, AssignLink
  <2> QED BY <1>1, <2>1, <2>2 DEF OnceBy, RoomFor
<1>5. CASE j.product = p /\ ReadLinks(r, j)
  <2> DEFINE first == \A l \in links : l.product # j.product
  <2>1. PICK k : k = [j EXCEPT !.state = IF first THEN "primary" ELSE "secondary"] OBVIOUS
  <2>2. jobs'[r] \subseteq (jobs[r] \ {j}) \cup {k} /\ UNCHANGED db
    BY <1>1, <1>5, <2>1 DEF ReadLinks
  <2>3. LinksOf(p)' = LinksOf(p) BY <2>2 DEF LinksOf, db
  <2>4. JobsOn(r, p)' \subseteq {k} BY <1>2, <1>5, <2>2 DEF JobsOn
  <2>5. k.state = "primary" => LinksOf(p) = {}
    <3>1. j \in [product : Target(r), supplier : {call[r].supplier},
                 state : SupplierState \cup {"unread"}]
      BY <1>1 DEF JobsTyped
    <3> QED BY <1>5, <2>1, <3>1 DEF LinksOf
  <2> QED BY <1>1, <2>3, <2>4, <2>5 DEF OnceBy, RoomFor
<1> QED BY <1>3, <1>4, <1>5

LEMMA LinkVariantOnce ==
    ASSUME TypeInv, NEW r \in Requests, NEW i \in DOMAIN parts[r], LinkVariant(r, i),
           NEW p \in Target(r), OnceBy(r, p), RoomFor(r, p)
    PROVE  OnceBy(r, p)' /\ RoomFor(r, p)'
<1>1. /\ PartMoves(r, i, DonePart) /\ pc[r] \in {"parts", "failed"}
      /\ call[r].op \in {"create", "update"}
  BY LinkVariantMoves, PartMovesTyped DEF TypeInv, RequestTyped, TasksTyped, TaskTyped
<1>2. /\ pc'[r] \in {"parts", "failed"} /\ UNCHANGED <<call, jobs>>
  BY <1>1 DEF PartMoves, TypeInv, TypeOK
<1>3. \/ LinksOf(p)' = LinksOf(p)
      \/ \E s : LinksOf(p)' = LinksOf(p) \cup {LinkOf(p, s, "secondary")}
  <2>1. CASE links' = links BY <2>1 DEF LinksOf
  <2>2. ASSUME NEW s, links' = links \cup {LinkOf(The(r), s, "secondary")}
        PROVE  \/ LinksOf(p)' = LinksOf(p)
               \/ LinksOf(p)' = LinksOf(p) \cup {LinkOf(p, s, "secondary")}
    BY <2>2 DEF LinksOf, LinkOf
  <2> QED BY <2>1, <2>2, LinkVariantMoves
<1>4. JobsOn(r, p)' = JobsOn(r, p) BY <1>2 DEF JobsOn
<1> QED BY <1>1, <1>2, <1>3, <1>4 DEF OnceBy, RoomFor, LinkOf

\* The other steps make no link.
LEMMA NoLinkSteps ==
    ASSUME TypeInv, NEW r \in Requests, Works(r),
           ~ CreateProduct(r), ~ CommitUpload(r), ~ FindSuppliers(r), ~ Relink(r),
           ~ Part(r), ~ Link_(r)
    PROVE  /\ jobs' = jobs /\ call' = call
           /\ links' \subseteq links
           /\ \/ pc'[r] \notin {"suppliers", "relink"}
              \/ \A p \in Target(r)' : LinksOf(p)' = {}
<1>0. DOMAIN pc = Requests BY DEF TypeInv, TypeOK
<1>1. CASE Unlink(r)
  <2>1. \A p \in Target(r)' : LinksOf(p)' = {} BY <1>1 DEF Unlink, LinksOf, locals, Target
  <2> QED BY <1>1, <2>1 DEF Unlink, locals
<1>2. CASE SimpleStep(r) /\ ~ Unlink(r)
  <2>1. /\ UNCHANGED locals
        /\ \E to \in {"ok", "failed", "unlink", "relink", "erase", "unlist", "mark", "rows"} :
             Goto(r, to)
    BY <1>2, SimpleStepMoves
  <2>2. pc'[r] # "suppliers" BY <1>0, <2>1 DEF Goto
  <2>3. CASE FinishCreate(r) \/ WriteUpdate(r) \/ DeletePacks(r) \/ DeletePack(r) \/ CleanFiles(r)
    BY <1>0, <2>1, <2>3 DEF FinishCreate, WriteUpdate, DeletePacks, DeletePack, CleanFiles,
                            Goto, locals
  <2>4. CASE DeleteRows(r) \/ UnlistPack(r) \/ WriteQuantity(r) \/ MarkFailed(r)
    BY <1>0, <2>1, <2>4 DEF DeleteRows, Erase, UnlistPack, WriteQuantity, MarkFailed, Goto, locals
  <2>5. CASE \/ RelinkThrows(r) \/ PartsThrow(r) \/ DeleteThrows(r) \/ BatchThrows(r)
             \/ DeletePackThrows(r) \/ WriteThrows(r) \/ NoConnection(r)
    BY <1>0, <2>1, <2>5 DEF RelinkThrows, PartsThrow, DeleteThrows, BatchThrows,
                            DeletePackThrows, WriteThrows, NoConnection, Throws, Goto, db, locals
  <2>6. CASE FinishAssign(r) \/ Register(r) \/ UploadExpires(r)
    BY <1>0, <2>1, <2>6 DEF FinishAssign, Register, UploadExpires, Goto, db, locals
  <2> QED BY <1>2, <2>3, <2>4, <2>5, <2>6 DEF SimpleStep
<1>3. CASE WipePacks(r) \/ FindBatch(r) \/ DeleteBatch(r) \/ Row(r)
  BY <1>0, <1>3 DEF WipePacks, EnterParts, FindBatch, DeleteBatch, Erase, Row, Uploading, Goto, db
<1>4. CASE \E p \in todo[r] : WriteVariants(r, p) BY <1>0, <1>4 DEF WriteVariants, Goto
<1> QED BY <1>1, <1>2, <1>3, <1>4 DEF Works, Step, SimpleStep

LEMMA LinkStep ==
    ASSUME TypeInv, RowsAreFresh, NEW r \in Requests, Works(r), NEW p \in Target(r)',
           p \in DOMAIN products',
           p \in DOMAIN products => OnceBy(r, p) /\ RoomFor(r, p)
    PROVE  OnceBy(r, p)' /\ RoomFor(r, p)'
<1>1. CASE CreateProduct(r) BY <1>1, CreateProductOnce
<1>2. CASE CommitUpload(r) BY <1>2, CommitOnce
<1>3. CASE ~ CreateProduct(r) /\ ~ CommitUpload(r)
  <2>1. p \in DOMAIN products
    <3>1. ~ RowComes(r)
      <4>1. RowComes(r) => Target(r)' # Target(r) /\ ~ FindBatch(r) BY StepOps DEF RowComes
      <4> QED BY <1>3, <4>1, TargetGrows
    <3> QED
      BY <1>3, <3>1, WorksEffect
         DEF Effect, db, RowChanges, PacksGo, PackComes, LinksCome, LinksGo, RowsGo, Erase,
             Without, FilesChange
  <2>2. OnceBy(r, p) /\ RoomFor(r, p) BY <2>1
  <2>3. FindBatch(r) \/ p \in Target(r) BY <1>3, TargetGrows
  <2>4. CASE FindSuppliers(r)
    BY <2>2, <2>4, FindSuppliersOnce DEF FindSuppliers, Throws, locals, Target
  <2>5. CASE Relink(r) BY <2>2, <2>5, RelinkOnce DEF Relink, locals, Target
  <2>6. CASE Link_(r)
    <3>1. PICK j \in jobs[r] : MakeLink(r, j) \/ ReadLinks(r, j) \/ AssignLink(r, j)
      BY <2>6 DEF Link_
    <3>2. p \in Target(r) BY <3>1 DEF MakeLink, ReadLinks, AssignLink, Target
    <3> QED BY <2>2, <3>1, <3>2, MakeLinkOnce, AssignOnce
  <2>7. CASE Part(r)
    <3>1. PICK i \in DOMAIN parts[r] :
            MakePack(r, i) \/ CheckSupplier(r, i) \/ LinkVariant(r, i)
      BY <2>7 DEF Part
    <3>2. p \in Target(r) BY <3>1 DEF MakePack, CheckSupplier, LinkVariant, PartThrows, Target
    <3>3. CASE LinkVariant(r, i) BY <2>2, <3>2, <3>3, LinkVariantOnce
    <3>4. CASE MakePack(r, i) \/ CheckSupplier(r, i)
      <4>1. /\ UNCHANGED <<links, jobs, call, read>>
            /\ pc' = pc \/ pc' = [pc EXCEPT ![r] = IF @ = "parts" THEN "failed" ELSE @]
        BY <3>4 DEF MakePack, CheckSupplier, PartThrows, db
      <4>2. /\ LinksOf(p)' = LinksOf(p) /\ JobsOn(r, p)' = JobsOn(r, p)
            /\ Target(r)' = Target(r)
        BY <4>1 DEF LinksOf, JobsOn, Target
      <4>3. pc'[r] = pc[r] \/ pc'[r] = "failed" BY <4>1 DEF TypeInv, TypeOK
      <4> QED BY <2>2, <4>1, <4>2, <4>3, NoLinkMade
    <3> QED BY <3>1, <3>3, <3>4
  <2>8. CASE ~ FindSuppliers(r) /\ ~ Relink(r) /\ ~ Part(r) /\ ~ Link_(r)
    <3>1. LinksOf(p)' \subseteq LinksOf(p) /\ JobsOn(r, p)' = JobsOn(r, p) /\ call' = call
      BY <1>3, <2>8, NoLinkSteps DEF LinksOf, JobsOn
    <3>2. pc'[r] \notin {"suppliers", "relink"} \/ LinksOf(p)' = {} BY <1>3, <2>8, NoLinkSteps
    <3> QED BY <2>2, <3>1, <3>2, NoLinkMade
  <2> QED BY <2>4, <2>5, <2>6, <2>7, <2>8
<1> QED BY <1>1, <1>2, <1>3

LEMMA PrimaryInit == SeedsHaveOnePrimary /\ Init => PrimaryInv
<1> SUFFICES ASSUME SeedsHaveOnePrimary, Init, NEW p, NEW r \in Requests
             PROVE  OnceBy(r, p) /\ RoomFor(r, p)
  BY DEF PrimaryInv
<1>1. JobsOn(r, p) = {} /\ pc[r] = "idle" /\ links = SeedLinks BY DEF Init, JobsOn
<1>2. \A l, m \in LinksOf(p) : (l.state = "primary" /\ m.state = "primary") => l = m
  BY <1>1 DEF SeedsHaveOnePrimary, LinksOf
<1> QED BY <1>1, <1>2 DEF OnceBy, RoomFor

LEMMA PrimaryNext ==
    TypeInv /\ Together /\ RowsAreFresh /\ PrimaryInv /\ [Next]_vars => PrimaryInv'
<1> SUFFICES ASSUME TypeInv, Together, RowsAreFresh, PrimaryInv, [Next]_vars,
                    NEW p \in DOMAIN products', NEW q \in Requests, ~ Raced(p)'
             PROVE  OnceBy(q, p)' /\ RoomFor(q, p)'
  BY DEF PrimaryInv
<1>0. ~ Raced(p) BY RacedGrows
<1>1. ASSUME NEW r \in Requests, Receive(r)
      PROVE  OnceBy(q, p)' /\ RoomFor(q, p)'
  <2>1. PICK S \in SUBSET DOMAIN products : Begins(r, S) BY <1>1, ReceiveBegins
  <2>2. /\ UNCHANGED db /\ OthersStay(r)
        /\ pc'[r] \notin {"suppliers", "relink"} /\ RequestTyped(r)'
    BY <2>1 DEF Begins
  <2>3. /\ p \in DOMAIN products /\ LinksOf(p)' = LinksOf(p)
        /\ OnceBy(q, p) /\ RoomFor(q, p)
    BY <1>0, <2>2 DEF db, LinksOf, PrimaryInv
  <2>4. CASE q # r
    <3>1. JobsOn(q, p)' = JobsOn(q, p) /\ pc'[q] = pc[q] /\ call'[q] = call[q]
          /\ Target(q)' = Target(q)
      BY <2>2, <2>4 DEF OthersStay, JobsOn, Target
    <3> QED BY <2>3, <3>1 DEF OnceBy, RoomFor
  <2>5. CASE q = r
    <3>1. jobs[r] = {} BY <2>1, BeginsBusy
    <3>2. \A j \in jobs'[r] : j.state = "unread" BY <2>1, <3>1 DEF Begins
    <3>3. \A j \in JobsOn(r, p)' : j.state # "primary" BY <3>2 DEF JobsOn
    <3> QED BY <2>2, <2>3, <2>5, <3>3 DEF OnceBy, RoomFor
  <2> QED BY <2>4, <2>5
<1>2. ASSUME NEW r \in Requests, Works(r)
      PROVE  OnceBy(q, p)' /\ RoomFor(q, p)'
  <2>1. OthersStay(r) BY <1>2, WorksMovesOnly DEF MovesOnly
  <2>2. CASE p \notin Target(r)'
    <3>1. /\ p \in DOMAIN products /\ LinksOf(p)' = LinksOf(p)
          /\ JobsOn(r, p) = {} /\ JobsOn(r, p)' = {} /\ p \notin Target(r)
      BY <1>2, <2>2, Frame
    <3>2. OnceBy(q, p) /\ RoomFor(q, p) BY <1>0, <3>1 DEF PrimaryInv
    <3>3. CASE q = r BY <2>2, <3>1, <3>2, <3>3 DEF OnceBy, RoomFor
    <3>4. CASE q # r
      <4>1. JobsOn(q, p)' = JobsOn(q, p) /\ pc'[q] = pc[q] /\ call'[q] = call[q]
            /\ Target(q)' = Target(q)
        BY <2>1, <3>4 DEF OthersStay, JobsOn, Target
      <4> QED BY <3>1, <3>2, <4>1 DEF OnceBy, RoomFor
    <3> QED BY <3>3, <3>4
  <2>3. CASE p \in Target(r)'
    <3>1. OnceBy(r, p)' /\ RoomFor(r, p)' BY <1>0, <1>2, <2>3, LinkStep DEF PrimaryInv
    <3>2. CASE q # r
      <4>1. Target(q)' = Target(q) /\ (Busy(q)' <=> Busy(q)) /\ JobsOn(q, p)' = JobsOn(q, p)
        BY <2>1, <3>2, OthersBusy DEF OthersStay, JobsOn
      <4>2. p \in Target(q) => ~ Busy(q) BY <1>2, <2>3, <3>2, Sole
      <4>3. JobsOn(q, p)' = {} /\ ~ (p \in Target(q)' /\ Busy(q)') BY <4>1, <4>2, JobsBusy
      <4>4. pc'[q] \in {"suppliers", "relink"} => Busy(q)' BY DEF Busy, InFlight, Ended
      <4> QED BY <3>1, <4>3, <4>4 DEF OnceBy, RoomFor
    <3> QED BY <3>1, <3>2
  <2> QED BY <2>2, <2>3
<1>3. CASE Crash
  <2>1. /\ p \in DOMAIN products /\ LinksOf(p)' = LinksOf(p) /\ JobsOn(q, p)' = {}
        /\ pc'[q] \in {pc[q], "failed"} /\ Target(q)' = Target(q)
        /\ OnceBy(q, p) /\ RoomFor(q, p)
    BY <1>0, <1>3, CrashTyped DEF Crash, db, LinksOf, JobsOn, Target, PrimaryInv
  <2> QED BY <2>1 DEF OnceBy, RoomFor
<1>4. CASE UNCHANGED vars
  <2>1. p \in DOMAIN products /\ OnceBy(q, p) /\ RoomFor(q, p)
    BY <1>0, <1>4 DEF vars, db, PrimaryInv
  <2> QED BY <1>4, <2>1 DEF vars, db, locals, OnceBy, RoomFor, LinksOf, JobsOn, Target
<1> QED BY <1>1, <1>2, <1>3, <1>4 DEF Next, Works

\* A product has one primary supplier at most unless two requests worked on it at
\* once, and a request about to make one finds none (assignSupplier, createProduct,
\* updateProduct, the upload; no index stands behind them).
THEOREM PrimariesAreOne == SeedsHaveOnePrimary /\ Spec => []PrimaryInv
  BY PrimaryInit, PrimaryNext, TypeInvHolds, TogetherHolds, FreshHolds, PTL DEF Spec

----------------------------------------------------------------------------
(* Codes of products *)

CodeRace(p, q) ==
    \E r, s \in CodeWriters(p) \cup CodeWriters(q) : Unchecked(r) \/ {r, s} \in raced

\* Update r has checked code c, and will write it.
Writing(r, c) ==
    /\ call[r].op = "update" /\ pc[r] \in {"wipe", "parts"}
    /\ call[r].body.hv = "no" /\ call[r].body.code = c /\ c # NoCode

UpdatesChecked ==
    \A r \in Requests : \A c \in Codes : Writing(r, c) =>
        \A p \in Target(r) : \A q \in DOMAIN products \ {p} :
            products[q].code = c => CodeRace(p, q)

\* The code of a row that upload r has checked.
Checked(r, i) == RowCode(RowsOf[call[r].file][i])

RacedWriter(r, q) == \E s \in CodeWriters(q) : Unchecked(s) \/ {r, s} \in raced

RowsChecked(r) ==
    ~ InBulk(r) => \A i \in 1..left[r] : Checked(r, i) # NoCode =>
        /\ \A j \in 1..left[r] : Checked(r, j) = Checked(r, i) => i = j
        /\ \A q \in DOMAIN products : products[q].code = Checked(r, i) => RacedWriter(r, q)

UploadsChecked ==
    \A r \in Requests :
        /\ Uploading(r) => left[r] <= Len(RowsOf[call[r].file]) /\ RowsChecked(r)
        /\ (call[r].op = "none" \/ pc[r] = "register") => left[r] = 0

CodeInv == SharedCodesAreRaced /\ UpdatesChecked /\ UploadsChecked

LEMMA SharedIs ==
    SharedCodesAreRaced <=>
      \A p, q \in DOMAIN products :
        (p # q /\ products[p].code = products[q].code /\ products[p].code # NoCode) =>
            CodeRace(p, q)
  BY DEF SharedCodesAreRaced, CodeRace

\* Who wrote a product once has written it for good.
LEMMA WritersGrow ==
    ASSUME TypeInv, [Next]_vars
    PROVE  /\ raced \subseteq raced'
           /\ \A p : \A s \in CodeWriters(p) : s \in CodeWriters(p)' /\ call'[s] = call[s]
<1>1. ASSUME NEW r \in Requests, Receive(r)
      PROVE  /\ raced \subseteq raced'
             /\ \A p : \A s \in CodeWriters(p) : s \in CodeWriters(p)' /\ call'[s] = call[s]
  <2>1. PICK S \in SUBSET DOMAIN products : Begins(r, S) BY <1>1, ReceiveBegins
  <2>2. Target(r) = {} /\ raced \subseteq raced' /\ OthersStay(r)
    BY <2>1, BeginsBusy DEF Begins
  <2> QED BY <2>2, OthersBusy DEF CodeWriters, OthersStay
<1>2. ASSUME NEW r \in Requests, Works(r)
      PROVE  /\ raced \subseteq raced'
             /\ \A p : \A s \in CodeWriters(p) : s \in CodeWriters(p)' /\ call'[s] = call[s]
  <2>1. raced' = raced /\ call' = call /\ \A q \in Requests : Target(q) \subseteq Target(q)'
    BY <1>2, WorksMovesOnly, OthersBusy DEF MovesOnly
  <2> QED BY <2>1 DEF CodeWriters
<1>3. CASE Crash \/ UNCHANGED vars BY <1>3 DEF Crash, vars, db, locals, Target, CodeWriters
<1> QED BY <1>1, <1>2, <1>3 DEF Next, Works

LEMMA RaceGrows ==
    ASSUME TypeInv, [Next]_vars, NEW p, NEW q
    PROVE  /\ CodeRace(p, q) => CodeRace(p, q)'
           /\ \A r : RacedWriter(r, q) => RacedWriter(r, q)'
  BY WritersGrow DEF CodeRace, RacedWriter, Unchecked, InBulk

LEMMA SharedStays ==
    ASSUME TypeInv, [Next]_vars, SharedCodesAreRaced, products' = products
    PROVE  SharedCodesAreRaced'
<1>1. (SharedCodesAreRaced <=>
        \A p, q \in DOMAIN products :
          (p # q /\ products[p].code = products[q].code /\ products[p].code # NoCode) =>
            CodeRace(p, q))'
  BY SharedIs, PTL
<1> QED BY <1>1, SharedIs, RaceGrows

LEMMA UploadedCode ==
    ASSUME NEW r \in Requests, NEW i, ~ InBulk(r)
    PROVE  UploadedRow(r, i).code = Checked(r, i)
  BY DEF UploadedRow, Checked

\* Only creations, updates and uploads write a code.
LEMMA CodesStay ==
    ASSUME TypeInv, NEW r \in Requests, Works(r),
           ~ CreateProduct(r), ~ WriteUpdate(r), ~ CommitUpload(r)
    PROVE  /\ DOMAIN products' \subseteq DOMAIN products
           /\ \A p \in DOMAIN products' : products'[p].code = products[p].code
<1> DEFINE G == /\ DOMAIN products' \subseteq DOMAIN products
                /\ \A p \in DOMAIN products' : products'[p].code = products[p].code
<1>0. \A p \in DOMAIN products : products[p] \in Product BY DEF TypeInv, TypeOK
<1>1. CASE products' = products BY <1>1
<1>2. CASE DeleteRows(r) \/ DeleteBatch(r) BY <1>2 DEF DeleteRows, DeleteBatch, Erase, Without
<1>3. CASE FinishCreate(r)
  <2>1. PICK vs, S : vs = VariantsMade(r) /\ S = PacksMade(r, 0, call[r].body.packs) OBVIOUS
  <2>2. \/ products' = products
        \/ products' = [products EXCEPT ![Own(r)].variants = vs]
        \/ products' = [products EXCEPT ![Own(r)].packIds = S]
    BY <1>3, <2>1 DEF FinishCreate
  <2> QED BY <1>0, <2>2 DEF Product
<1>4. CASE UnlistPack(r) \/ WriteQuantity(r)
  <2>1. PICK S, n : S = read[r][The(r)].packIds \ {call[r].pack} /\ n = call[r].qty OBVIOUS
  <2>2. \/ products' = [products EXCEPT ![The(r)].packIds = S]
        \/ products' = [products EXCEPT ![The(r)].qty = n]
    BY <1>4, <2>1 DEF UnlistPack, WriteQuantity
  <2> QED BY <1>0, <2>2 DEF Product
<1>5. ASSUME NEW p \in todo[r], WriteVariants(r, p)
      PROVE  G
  <2>1. PICK vs : vs = NewVariants(r, p) OBVIOUS
  <2>2. PICK b \in BOOLEAN : products' = [products EXCEPT ![p] =
              [products[p] EXCEPT !.variants = vs, !.hasVariants = b]]
    BY <1>5, <2>1, WriteVariantsEffect
  <2> QED BY <1>0, <2>2 DEF Product
<1>6. CASE \/ FindSuppliers(r) \/ RelinkThrows(r) \/ PartsThrow(r) \/ DeleteThrows(r)
           \/ BatchThrows(r) \/ DeletePackThrows(r) \/ WriteThrows(r) \/ NoConnection(r)
           \/ FindBatch(r) \/ FinishAssign(r) \/ Register(r) \/ Row(r) \/ UploadExpires(r)
  BY <1>1, <1>6, NoEffect DEF db
<1>7. CASE \/ WipePacks(r) \/ Unlink(r) \/ Relink(r) \/ DeletePacks(r) \/ DeletePack(r)
           \/ CleanFiles(r) \/ MarkFailed(r)
  BY <1>7 DEF WipePacks, Unlink, Relink, DeletePacks, DeletePack, CleanFiles, MarkFailed
<1>8. CASE Part(r) \/ Link_(r)
  <2>1. products' = products
    BY <1>8, PartEffect, LinkEffect DEF PackComes, LinksCome, Link_, db
  <2> QED BY <2>1
<1> QED BY <1>2, <1>3, <1>4, <1>5, <1>6, <1>7, <1>8 DEF Works, Step

LEMMA BusyTogether ==
    ASSUME TypeInv, Together, NEW r \in Requests, Works(r), NEW s \in Requests \ {r}, InFlight(s)
    PROVE  {r, s} \in raced /\ {s, r} \in raced
<1>1. Busy(r) /\ Busy(s) BY WorksMovesOnly DEF MovesOnly, Busy
<1> QED BY <1>1 DEF Together

LEMMA WritingBusy ==
    ASSUME NEW s \in Requests, (\E c : Writing(s, c)) \/ Uploading(s)
    PROVE  InFlight(s)
  BY DEF Writing, Uploading, InFlight, Ended

\* A step of an update that is to write, or of an upload, towards its end.
LEMMA WritingStays ==
    ASSUME TypeInv, NEW r \in Requests, Works(r), NEW c
    PROVE  /\ Writing(r, c)' => Writing(r, c) /\ ~ WriteUpdate(r) /\ Target(r)' = Target(r)
           /\ Uploading(r)' => /\ Uploading(r) \/ Register(r)
                               /\ left' = left \/ Row(r)
                               /\ ~ CommitUpload(r)
           /\ ~ (call'[r].op = "none" \/ pc'[r] = "register")
<1>0. /\ call' = call /\ RequestTyped(r) /\ RequestTyped(r)' /\ Busy(r) /\ DOMAIN pc = Requests
      /\ call[r].op # "none"
  BY WorksMovesOnly, BusyOps DEF MovesOnly, TypeInv, TypeOK
<1>1. ASSUME Writing(r, c)'
      PROVE  Writing(r, c) /\ ~ WriteUpdate(r) /\ Target(r)' = Target(r)
  <2>1. call[r].op = "update" /\ pc'[r] \in {"wipe", "parts"} BY <1>0, <1>1 DEF Writing
  <2>2. ~ WriteUpdate(r) BY <1>0, <2>1 DEF WriteUpdate, Goto
  <2>3. Target(r)' = Target(r) BY <2>1, TargetGrows, StepOps
  <2>4. pc[r] \in {"wipe", "parts"}
    <3>1. CASE SimpleStep(r) BY <1>0, <2>1, <3>1, SimpleStepMoves DEF Goto
    <3>2. CASE WipePacks(r) BY <3>2 DEF WipePacks
    <3>3. CASE Part(r)
      <4>1. pc' = pc \/ pc' = [pc EXCEPT ![r] = IF @ = "parts" THEN "failed" ELSE @]
        BY <3>3 DEF Part, MakePack, CheckSupplier, LinkVariant, PartThrows
      <4> QED BY <1>0, <2>1, <4>1
    <3>4. ~ Link_(r) BY <2>1, StepOps
    <3> QED BY <2>1, <3>1, <3>2, <3>3, <3>4, StepOps DEF Works, Step, SimpleStep, VariantOps
  <2> QED BY <1>0, <1>1, <2>2, <2>3, <2>4 DEF Writing
<1>2. ASSUME Uploading(r)'
      PROVE  /\ Uploading(r) \/ Register(r)
             /\ left' = left \/ Row(r)
             /\ ~ CommitUpload(r)
  <2>1. call[r].op = "upload" /\ pc'[r] = "rows"
    BY <1>0, <1>2 DEF Uploading, RequestTyped, InPhase
  <2>2. Register(r) \/ Row(r)
    BY <1>0, <2>1, UploadSteps DEF CommitUpload, MarkFailed, UploadExpires, Goto
  <2> QED BY <1>0, <2>1, <2>2 DEF Register, Row, locals, CommitUpload, Goto
<1>3. pc'[r] # "register"
  <2>1. CASE call[r].op = "upload"
    BY <1>0, <2>1, UploadSteps DEF Register, Row, CommitUpload, MarkFailed, UploadExpires,
                                   Uploading, Goto
  <2>2. CASE call[r].op # "upload" BY <1>0, <2>2 DEF RequestTyped, InPhase
  <2> QED BY <2>1, <2>2
<1> QED BY <1>0, <1>1, <1>2, <1>3

LEMMA UpdateBegins ==
    ASSUME TypeInv, NEW r \in Requests, Receive(r)
    PROVE  /\ pc'[r] = "wipe" =>
                \E p \in DOMAIN products : Target(r)' = {p} /\ CodesFree(p, call'[r].body)
           /\ pc'[r] # "find" => left' = left
<1>0. DOMAIN call = Requests /\ DOMAIN pc = Requests /\ DOMAIN read = Requests
  BY DEF TypeInv, TypeOK
<1> DEFINE G == /\ pc'[r] = "wipe" =>
                    \E p \in DOMAIN products : Target(r)' = {p} /\ CodesFree(p, call'[r].body)
                /\ pc'[r] # "find" => left' = left
<1>1. ASSUME NEW b, BeginCreate(r, b) \/ RefuseCreate(r, b) PROVE G
  BY <1>0, <1>1 DEF BeginCreate, RefuseCreate, Refuse, Goto
<1>2. ASSUME NEW p \in DOMAIN products, NEW b, BeginUpdate(r, p, b) PROVE G
  <2>1. PICK c : c = [op |-> "update", body |-> b] OBVIOUS
  <2>2. Begin(r, c, {p}) /\ c.body = b /\ left' = left /\ CodesFree(p, b)
    BY <1>2, <2>1 DEF BeginUpdate, UpdateChecked
  <2>3. Target(r)' = {p} /\ call'[r].body = b BY <1>0, <2>2 DEF Begin, Target
  <2>4. CodesFree(p, call'[r].body) BY <2>2, <2>3
  <2> QED BY <2>2, <2>3, <2>4
<1>3. ASSUME NEW p, NEW b, RefuseUpdate(r, p, b) PROVE G
  BY <1>0, <1>3 DEF RefuseUpdate, Refuse, Goto
<1>4. ASSUME NEW S, BeginDelete(r, S) PROVE G BY <1>0, <1>4 DEF BeginDelete, Goto
<1>5. ASSUME BeginDeleteAll(r) PROVE G BY <1>0, <1>5 DEF BeginDeleteAll, Goto
<1>6. ASSUME NEW s, NEW S, BeginAssign(r, s, S) PROVE G BY <1>0, <1>6 DEF BeginAssign, Goto
<1>7. ASSUME NEW k, BeginDeletePack(r, k) PROVE G BY <1>0, <1>7 DEF BeginDeletePack, Goto
<1>8. ASSUME NEW p, NEW n, BeginQuantity(r, p, n) PROVE G
  BY <1>0, <1>8 DEF BeginQuantity, Goto
<1>9. ASSUME NEW op, NEW C, NEW n, BeginVariants(r, op, C, n) PROVE G
  BY <1>0, <1>9 DEF BeginVariants, Goto
<1>10. ASSUME NEW f, BeginUpload(r, f) \/ RefuseUpload(r, f) PROVE G
  BY <1>0, <1>10 DEF BeginUpload, RefuseUpload, Refuse, Goto
<1> HIDE DEF G
<1>11. G BY <1>1, <1>2, <1>3, <1>4, <1>5, <1>6, <1>7, <1>8, <1>9, <1>10 DEF Receive
<1> QED BY <1>11 DEF G

LEMMA CodeInit == SeedsHaveOwnCodes /\ Init => CodeInv
<1> SUFFICES ASSUME SeedsHaveOwnCodes, Init
             PROVE  CodeInv
  OBVIOUS
<1>1. /\ products = SeedProducts
      /\ \A r \in Requests : pc[r] = "idle" /\ left[r] = 0
  BY DEF Init
<1>2. SharedCodesAreRaced BY <1>1 DEF SharedCodesAreRaced, SeedsHaveOwnCodes
<1>3. UpdatesChecked /\ UploadsChecked
  BY <1>1 DEF UpdatesChecked, UploadsChecked, Writing, Uploading
<1> QED BY <1>2, <1>3 DEF CodeInv

\* No code is written: what is shared was, what is checked stays.
LEMMA ReceiveCodes ==
    ASSUME TypeInv, CodeInv, NEW r \in Requests, Receive(r), [Next]_vars
    PROVE  CodeInv'
<1>0. PICK S \in SUBSET DOMAIN products : Begins(r, S) BY ReceiveBegins
<1>1. /\ products' = products /\ OthersStay(r) /\ RequestTyped(r)'
      /\ call[r].op = "none" /\ pc'[r] \notin {"parts", "rows"} /\ call'[r].op # "none"
      /\ SharedCodesAreRaced /\ UpdatesChecked /\ UploadsChecked
  BY <1>0, BeginsBusy DEF Begins, db, CodeInv
<1>2. SharedCodesAreRaced' BY <1>1, SharedStays
<1>3. UpdatesChecked'
  <2>1. SUFFICES ASSUME NEW s \in Requests, NEW c \in Codes, Writing(s, c)',
                        NEW p \in Target(s)', NEW q \in DOMAIN products' \ {p},
                        products'[q].code = c
                 PROVE  CodeRace(p, q)'
    BY DEF UpdatesChecked
  <2>2. CASE s = r
    <3>1. pc'[r] = "wipe" /\ call'[r].body.hv = "no" /\ call'[r].body.code = c /\ c # NoCode
      BY <1>1, <2>1, <2>2 DEF Writing
    <3>2. p \in DOMAIN products /\ CodesFree(p, call'[r].body)
      BY <2>1, <2>2, <3>1, UpdateBegins
    <3>3. products[q].code = c /\ q \in DOMAIN products \ {p} BY <1>1, <2>1
    <3>4. products[p].code = c BY <3>1, <3>2, <3>3 DEF CodesFree
    <3>5. CodeRace(p, q) BY <1>1, <3>1, <3>2, <3>3, <3>4, SharedIs
    <3> QED BY <3>5, RaceGrows
  <2>3. CASE s # r
    <3>1. Writing(s, c) /\ Target(s)' = Target(s)
      BY <1>1, <2>1, <2>3 DEF OthersStay, Writing, Target
    <3>2. CodeRace(p, q) BY <1>1, <2>1, <3>1 DEF UpdatesChecked
    <3> QED BY <3>2, RaceGrows
  <2> QED BY <2>2, <2>3
<1>4. UploadsChecked'
  <2>1. SUFFICES ASSUME NEW s \in Requests
                 PROVE  /\ Uploading(s)' => /\ left'[s] <= Len(RowsOf[call'[s].file])
                                            /\ RowsChecked(s)'
                        /\ (call'[s].op = "none" \/ pc'[s] = "register") => left'[s] = 0
    BY DEF UploadsChecked
  <2>2. CASE s = r
    <3>1. ~ Uploading(r)' BY <1>1 DEF Uploading
    <3>2. pc'[r] = "register" => left'[r] = 0 BY <1>1, UpdateBegins DEF UploadsChecked
    <3> QED BY <1>1, <2>2, <3>1, <3>2
  <2>3. CASE s # r
    <3>1. /\ pc'[s] = pc[s] /\ call'[s] = call[s] /\ left'[s] = left[s]
      BY <1>1, <2>3 DEF OthersStay
    <3>2. InBulk(s)' = InBulk(s) /\ \A i : Checked(s, i)' = Checked(s, i)
      BY <3>1 DEF Checked, InBulk
    <3>3. RowsChecked(s) => RowsChecked(s)'
      <4>1. \A q \in DOMAIN products : RacedWriter(s, q) => RacedWriter(s, q)' BY RaceGrows
      <4> QED BY <1>1, <3>1, <3>2, <4>1 DEF RowsChecked
    <3> QED BY <1>1, <3>1, <3>3 DEF UploadsChecked, Uploading
  <2> QED BY <2>2, <2>3
<1> QED BY <1>2, <1>3, <1>4 DEF CodeInv

\* What a step writes it may, and what others have checked it races with.
LEMMA WorksShared ==
    ASSUME TypeInv, Together, RowsAreFresh, CodeInv, NEW r \in Requests, Works(r), [Next]_vars,
           NEW p \in DOMAIN products', NEW q \in DOMAIN products', p # q,
           products'[p].code = products'[q].code, products'[p].code # NoCode,
           \/ p \in Target(r)' \/ (p \in DOMAIN products /\ products'[p].code = products[p].code),
           q \in DOMAIN products /\ products'[q].code = products[q].code
    PROVE  CodeRace(p, q)'
<1>0. call' = call /\ raced' = raced /\ SharedCodesAreRaced /\ UpdatesChecked /\ UploadsChecked
  BY WorksMovesOnly DEF MovesOnly, CodeInv
<1>1. CASE p \in DOMAIN products /\ products'[p].code = products[p].code
  <2>1. CodeRace(p, q) BY <1>0, <1>1, SharedIs
  <2> QED BY <2>1, RaceGrows
<1>2. CASE p \in Target(r)' /\ CreateProduct(r)
  <2>1. r \in CodeWriters(p)' /\ call'[r].op = "create" BY <1>0, <1>2, StepOps DEF CodeWriters
  <2> QED BY <2>1 DEF CodeRace, Unchecked
<1>a. ASSUME p \in Target(r)', CommitUpload(r), InBulk(r)
      PROVE  CodeRace(p, q)'
  <2>1. r \in CodeWriters(p)' /\ Unchecked(r)'
    BY <1>0, <1>a, CommitRows DEF CodeWriters, Unchecked, InBulk
  <2> QED BY <2>1 DEF CodeRace
<1>3. CASE p \in Target(r)' /\ CommitUpload(r) /\ ~ InBulk(r)
  <2>1. /\ p[2] \in DOMAIN RowsOf[call[r].file] /\ products'[p].code = Checked(r, p[2])
        /\ Uploading(r) /\ r \in CodeWriters(p)'
    BY <1>0, <1>3, CommitRows, UploadedCode DEF CodeWriters
  <2>2. p[2] \in 1..left[r]
    <3>1. RowsOf[call[r].file] \in Seq(FileRow) BY <1>3, CommitRows, CatalogueAssumption
    <3> QED BY <1>3, <2>1, <3>1 DEF CommitUpload
  <2>3. RacedWriter(r, q) BY <1>0, <1>3, <2>1, <2>2 DEF UploadsChecked, RowsChecked
  <2>4. RacedWriter(r, q)' BY <2>3, RaceGrows
  <2>5. PICK s \in CodeWriters(q)' : Unchecked(s)' \/ {r, s} \in raced'
    BY <2>4 DEF RacedWriter
  <2> QED BY <2>1, <2>5 DEF CodeRace
<1>4. CASE p \in Target(r)' /\ WriteUpdate(r)
  <2>1. /\ Target(r) = {The(r)} /\ Target(r)' = Target(r) /\ Exists(The(r)) /\ p = The(r)
        /\ products' = [products EXCEPT ![The(r)] = Updated(r, products[The(r)])]
    BY <1>4, WriteUpdateEffect, TargetGrows, StepOps
  <2>2. products'[p] = Updated(r, products[p]) /\ products[p] \in Product
    BY <2>1 DEF Exists, TypeInv, TypeOK
  <2>3. products'[p].code \in {products[p].code, NoCode} \/ Writing(r, products'[p].code)
    <3>1. /\ call[r].op = "update" /\ pc[r] = "parts" BY <1>4 DEF WriteUpdate
    <3>2. products'[p].code = IF call[r].body.hv = "yes" THEN NoCode
                              ELSE IF call[r].body.hv = "no" /\ call[r].body.code # NoCode
                                   THEN call[r].body.code ELSE products[p].code
      BY <2>2 DEF Updated, Product
    <3> QED BY <3>1, <3>2 DEF Writing
  <2>4. CASE Writing(r, products'[p].code)
    <3>1. products[q].code \in Codes BY DEF TypeInv, TypeOK, Product
    <3>2. CodeRace(p, q) BY <1>0, <2>1, <2>4, <3>1 DEF UpdatesChecked
    <3> QED BY <3>2, RaceGrows
  <2> QED BY <1>1, <2>1, <2>3, <2>4 DEF Exists
<1>5. CASE ~ CreateProduct(r) /\ ~ WriteUpdate(r) /\ ~ CommitUpload(r)
  <2>1. p \in DOMAIN products /\ products'[p].code = products[p].code BY <1>5, CodesStay
  <2> QED BY <1>1, <2>1
<1> QED BY <1>1, <1>2, <1>a, <1>3, <1>4, <1>5

\* A row that a step changes is one of its request; the others keep their codes.
LEMMA OldOrOwn ==
    ASSUME TypeInv, NEW r \in Requests, Works(r), NEW p \in DOMAIN products'
    PROVE  \/ p \in Target(r)' \/ (p \in DOMAIN products /\ products'[p].code = products[p].code)
<1>1. ASSUME p \notin Target(r)'
      PROVE  p \in DOMAIN products /\ products'[p] = products[p]
  BY <1>1, Frame
<1>2. CASE p \in Target(r)' BY <1>2
<1>3. CASE p \notin Target(r)' BY <1>1, <1>3
<1> QED BY <1>2, <1>3

LEMMA WrittenBy ==
    ASSUME TypeInv, NEW r \in Requests, Works(r), NEW p \in DOMAIN products' \cap Target(r)',
           ~ (p \in DOMAIN products /\ products'[p].code = products[p].code)
    PROVE  r \in CodeWriters(p)'
<1>1. CreateProduct(r) \/ WriteUpdate(r) \/ CommitUpload(r) BY CodesStay
<1>2. call' = call BY WorksMovesOnly DEF MovesOnly
<1> QED BY <1>1, <1>2, StepOps DEF CodeWriters

\* The rows of a file that is not bare have codes of their own.
LEMMA RowsOnce ==
    ASSUME TypeInv, RowsAreFresh, CodeInv, NEW r \in Requests, Works(r),
           NEW p \in DOMAIN products' \cap Target(r)', NEW q \in DOMAIN products' \cap Target(r)',
           CreateProduct(r) \/ WriteUpdate(r) \/ (CommitUpload(r) /\ ~ InBulk(r)),
           products'[p].code = products'[q].code, products'[p].code # NoCode
    PROVE  p = q
<1>1. CASE CreateProduct(r) BY <1>1, CreateProductTyped
<1>2. CASE WriteUpdate(r)
  <2>1. Target(r) = {The(r)} /\ Target(r)' = Target(r)
    BY <1>2, WriteUpdateEffect, TargetGrows, StepOps
  <2> QED BY <2>1
<1>3. CASE CommitUpload(r) /\ ~ InBulk(r)
  <2>1. /\ p[2] \in DOMAIN RowsOf[call[r].file] /\ products'[p].code = Checked(r, p[2])
        /\ q[2] \in DOMAIN RowsOf[call[r].file] /\ products'[q].code = Checked(r, q[2])
        /\ Uploading(r) /\ Target(r)' \subseteq {r} \X Nat
    BY <1>3, CommitRows, UploadedCode
  <2>2. p[2] \in 1..left[r] /\ q[2] \in 1..left[r]
    <3>1. RowsOf[call[r].file] \in Seq(FileRow) BY <1>3, CommitRows, CatalogueAssumption
    <3> QED BY <1>3, <2>1, <3>1 DEF CommitUpload
  <2>3. p[2] = q[2] BY <1>3, <2>1, <2>2 DEF CodeInv, UploadsChecked, RowsChecked
  <2>4. p = <<r, p[2]>> /\ q = <<r, q[2]>> BY <2>1
  <2> QED BY <2>3, <2>4
<1> QED BY <1>1, <1>2, <1>3

LEMMA WorksSharedCodes ==
    ASSUME TypeInv, Together, RowsAreFresh, CodeInv, NEW r \in Requests, Works(r), [Next]_vars
    PROVE  SharedCodesAreRaced'
<1> DEFINE old(p) == p \in DOMAIN products /\ products'[p].code = products[p].code
<1>1. SUFFICES ASSUME NEW p \in DOMAIN products', NEW q \in DOMAIN products', p # q,
                      products'[p].code = products'[q].code, products'[p].code # NoCode
               PROVE  CodeRace(p, q)'
  <2>1. (SharedCodesAreRaced <=>
          \A p, q \in DOMAIN products :
            (p # q /\ products[p].code = products[q].code /\ products[p].code # NoCode) =>
              CodeRace(p, q))'
    BY SharedIs, PTL
  <2> QED BY <2>1
<1>2. /\ p \in Target(r)' \/ old(p)
      /\ q \in Target(r)' \/ old(q)
  BY OldOrOwn
<1>3. CASE q \in DOMAIN products /\ products'[q].code = products[q].code
  <2>1. p \in Target(r)' \/ (p \in DOMAIN products /\ products'[p].code = products[p].code)
    BY <1>2
  <2> HIDE DEF old
  <2> QED BY <1>1, <1>3, <2>1, WorksShared
<1>4. CASE p \in DOMAIN products /\ products'[p].code = products[p].code
  <2>1. q \in Target(r)' \/ (q \in DOMAIN products /\ products'[q].code = products[q].code)
    BY <1>2
  <2>2. q # p /\ products'[q].code = products'[p].code /\ products'[q].code # NoCode BY <1>1
  <2> HIDE DEF old
  <2>3. CodeRace(q, p)' BY <1>1, <1>4, <2>1, <2>2, WorksShared
  <2> QED BY <2>3 DEF CodeRace
<1>5. CASE ~ old(p) /\ ~ old(q)
  <2>1. CreateProduct(r) \/ WriteUpdate(r) \/ CommitUpload(r) BY <1>5, CodesStay
  <2>2. CASE CommitUpload(r) /\ InBulk(r)
    <3>1. call' = call /\ p \in Target(r)' BY <1>2, <1>5, WorksMovesOnly DEF MovesOnly
    <3>2. r \in CodeWriters(p)' /\ Unchecked(r)'
      BY <2>2, <3>1, CommitRows DEF CodeWriters, Unchecked, InBulk
    <3> QED BY <3>2 DEF CodeRace
  <2> QED BY <1>1, <1>2, <1>5, <2>1, <2>2, RowsOnce
<1> QED BY <1>3, <1>4, <1>5

LEMMA WorksUpdates ==
    ASSUME TypeInv, Together, CodeInv, NEW r \in Requests, Works(r), [Next]_vars
    PROVE  UpdatesChecked'
<1>1. SUFFICES ASSUME NEW s \in Requests, NEW c \in Codes, Writing(s, c)',
                      NEW p \in Target(s)', NEW q \in DOMAIN products' \ {p},
                      products'[q].code = c
               PROVE  CodeRace(p, q)'
  BY DEF UpdatesChecked
<1>2. OthersStay(r) /\ call' = call /\ raced' = raced BY WorksMovesOnly DEF MovesOnly
<1>3. Writing(s, c) /\ Target(s)' = Target(s)
  <2>1. CASE s = r BY <1>1, <2>1, WritingStays
  <2>2. CASE s # r BY <1>1, <1>2, <2>2 DEF OthersStay, Writing, Target
  <2> QED BY <2>1, <2>2
<1>4. CASE q \in DOMAIN products /\ products'[q].code = products[q].code
  <2>1. CodeRace(p, q) BY <1>1, <1>3, <1>4 DEF CodeInv, UpdatesChecked
  <2> QED BY <2>1, RaceGrows
<1>5. CASE ~ (q \in DOMAIN products /\ products'[q].code = products[q].code)
  <2>1. CreateProduct(r) \/ WriteUpdate(r) \/ CommitUpload(r) BY <1>5, CodesStay
  <2>2. s # r BY <1>1, <1>3, <2>1, WritingStays, StepOps DEF Writing
  <2>3. {r, s} \in raced' BY <1>2, <1>3, <2>2, BusyTogether, WritingBusy
  <2>4. r \in CodeWriters(q)' BY <1>5, OldOrOwn, WrittenBy
  <2>5. s \in CodeWriters(p)' BY <1>1, <1>2, <1>3 DEF CodeWriters, Writing
  <2> QED BY <2>3, <2>4, <2>5 DEF CodeRace
<1> QED BY <1>4, <1>5

LEMMA RowChecks ==
    ASSUME TypeInv, CodeInv, NEW r \in Requests, Row(r), [Next]_vars, Uploading(r)'
    PROVE  left'[r] <= Len(RowsOf[call[r].file]) /\ RowsChecked(r)'
<1>0. /\ left[r] \in Nat /\ call[r].file \in Files /\ DOMAIN left = Requests
      /\ DOMAIN pc = Requests /\ call[r].op = "upload" /\ RowsChecked(r)
  BY StepOps DEF TypeInv, TypeOK, RequestTyped, OnTarget, CallTyped, CodeInv, UploadsChecked, Row
<1>1. PICK n \in Nat, rows \in Seq(FileRow), m \in Nat :
        n = left[r] /\ rows = RowsOf[call[r].file] /\ m = Len(rows)
  <2>1. RowsOf[call[r].file] \in Seq(FileRow) BY <1>0, CatalogueAssumption
  <2> QED BY <1>0, <2>1
<1>2. n < m BY <1>1 DEF Row
<1>3. /\ ~ InBulk(r) =>
           RowCode(rows[n + 1]) \notin
             ({products[p].code : p \in DOMAIN products} \cup {RowCode(rows[j]) : j \in 1..n})
               \ {NoCode}
      /\ left' = [left EXCEPT ![r] = n + 1]
  <2>1. (n + 1) - 1 = n OBVIOUS
  <2>2. pc'[r] # "mark" BY DEF Uploading
  <2> QED BY <1>0, <1>1, <2>1, <2>2 DEF Row, Goto
<1>4. left'[r] = n + 1 /\ UNCHANGED <<products, call>> BY <1>0, <1>3 DEF Row, db
<1>5. \A i : Checked(r, i) = RowCode(rows[i]) /\ Checked(r, i)' = RowCode(rows[i])
  BY <1>1, <1>4 DEF Checked
<1>6. ASSUME ~ InBulk(r), NEW i \in 1..(n + 1), RowCode(rows[i]) # NoCode
      PROVE  /\ \A j \in 1..(n + 1) : RowCode(rows[j]) = RowCode(rows[i]) => i = j
             /\ \A q \in DOMAIN products : products[q].code = RowCode(rows[i]) =>
                  RacedWriter(r, q)'
  <2>1. CASE i = n + 1
    <3>1. ASSUME NEW j \in 1..(n + 1), RowCode(rows[j]) = RowCode(rows[i])
          PROVE  i = j
      <4>1. j \in 1..n \/ j = n + 1 OBVIOUS
      <4> QED BY <1>3, <1>6, <2>1, <3>1, <4>1
    <3> QED BY <1>3, <1>6, <2>1, <3>1
  <2>2. CASE i # n + 1
    <3>1. i \in 1..n BY <2>2
    <3>2. ASSUME NEW j \in 1..(n + 1), RowCode(rows[j]) = RowCode(rows[i])
          PROVE  i = j
      <4>1. CASE j = n + 1 BY <1>3, <1>6, <3>1, <3>2, <4>1
      <4>2. CASE j # n + 1
        <5>1. j \in 1..n BY <4>2
        <5> QED BY <1>0, <1>1, <1>5, <1>6, <3>1, <3>2, <5>1 DEF RowsChecked
      <4> QED BY <4>1, <4>2
    <3>3. ASSUME NEW q \in DOMAIN products, products[q].code = RowCode(rows[i])
          PROVE  RacedWriter(r, q)'
      <4>1. RacedWriter(r, q) BY <1>0, <1>1, <1>5, <1>6, <3>1, <3>3 DEF RowsChecked
      <4> QED BY <4>1, RaceGrows
    <3> QED BY <3>2, <3>3
  <2> QED BY <2>1, <2>2
<1>7. RowsChecked(r)' BY <1>4, <1>5, <1>6 DEF RowsChecked, InBulk
<1>8. n + 1 <= m BY <1>2
<1> QED BY <1>1, <1>4, <1>7, <1>8

LEMMA WorksUploads ==
    ASSUME TypeInv, Together, CodeInv, NEW r \in Requests, Works(r), [Next]_vars
    PROVE  UploadsChecked'
<1>1. SUFFICES ASSUME NEW s \in Requests
               PROVE  /\ Uploading(s)' => left'[s] <= Len(RowsOf[call'[s].file]) /\ RowsChecked(s)'
                      /\ (call'[s].op = "none" \/ pc'[s] = "register") => left'[s] = 0
  BY DEF UploadsChecked
<1>2. OthersStay(r) /\ call' = call /\ raced' = raced /\ UploadsChecked
  BY WorksMovesOnly DEF MovesOnly, CodeInv
<1>3. ASSUME Uploading(r)'
      PROVE  left'[r] <= Len(RowsOf[call'[r].file]) /\ RowsChecked(r)'
  <2>1. (Uploading(r) \/ Register(r)) /\ (left' = left \/ Row(r)) /\ ~ CommitUpload(r)
    BY <1>3, WritingStays
  <2>2. CASE Row(r) BY <1>2, <1>3, <2>2, RowChecks
  <2>3. CASE Register(r) /\ ~ Row(r)
    <3>1. left'[r] = 0 BY <1>2, <2>1, <2>3 DEF UploadsChecked, Register
    <3>2. RowsOf[call[r].file] \in Seq(FileRow)
      BY <2>3, StepOps, CatalogueAssumption DEF TypeInv, RequestTyped, CallTyped
    <3> QED BY <1>2, <3>1, <3>2 DEF RowsChecked
  <2>4. CASE Uploading(r) /\ ~ Register(r) /\ ~ Row(r)
    <3>1. left' = left /\ RowsChecked(r) BY <1>2, <2>1, <2>4 DEF UploadsChecked
    <3>2. call[r].op = "upload" BY <2>4 DEF TypeInv, RequestTyped, InPhase, Uploading
    <3>3. MarkFailed(r) \/ UploadExpires(r) BY <2>1, <2>4, <3>2, UploadSteps
    <3>4. FALSE BY <1>3, <3>3 DEF MarkFailed, UploadExpires, Goto, Uploading, TypeInv, TypeOK
    <3> QED BY <3>4
  <2> QED BY <2>1, <2>2, <2>3, <2>4
<1>4. CASE s = r BY <1>3, <1>4, WritingStays
<1>5. CASE s # r
  <2>1. pc'[s] = pc[s] /\ call'[s] = call[s] /\ left'[s] = left[s]
    BY <1>2, <1>5 DEF OthersStay
  <2>2. ASSUME Uploading(s)
        PROVE  RowsChecked(s)'
    <3>1. RowsChecked(s) BY <1>2, <2>2 DEF UploadsChecked
    <3>2. InBulk(s)' = InBulk(s) /\ \A i : Checked(s, i)' = Checked(s, i)
      BY <2>1 DEF Checked, InBulk
    <3>3. ASSUME ~ InBulk(s), NEW i \in 1..left[s], Checked(s, i) # NoCode, NEW q \in DOMAIN products',
                 products'[q].code = Checked(s, i)
          PROVE  RacedWriter(s, q)'
      <4>1. CASE q \in DOMAIN products /\ products'[q].code = products[q].code
        <5>1. RacedWriter(s, q) BY <3>1, <3>3, <4>1 DEF RowsChecked
        <5> QED BY <5>1, RaceGrows
      <4>2. CASE ~ (q \in DOMAIN products /\ products'[q].code = products[q].code)
        <5>1. r \in CodeWriters(q)' BY <4>2, OldOrOwn, WrittenBy
        <5>2. {s, r} \in raced' BY <1>2, <1>5, <2>2, BusyTogether, WritingBusy
        <5> QED BY <5>1, <5>2 DEF RacedWriter
      <4> QED BY <4>1, <4>2
    <3> QED BY <2>1, <3>1, <3>2, <3>3 DEF RowsChecked
  <2> QED BY <1>2, <2>1, <2>2 DEF UploadsChecked, Uploading
<1> QED BY <1>4, <1>5

LEMMA CodeNext ==
    TypeInv /\ Together /\ RowsAreFresh /\ CodeInv /\ [Next]_vars => CodeInv'
<1> SUFFICES ASSUME TypeInv, Together, RowsAreFresh, CodeInv, [Next]_vars
             PROVE  CodeInv'
  OBVIOUS
<1>1. ASSUME NEW r \in Requests, Works(r)
      PROVE  CodeInv'
  BY <1>1, WorksSharedCodes, WorksUpdates, WorksUploads DEF CodeInv
<1>2. CASE Crash
  <2>1. /\ products' = products /\ call' = call /\ left' = left
        /\ \A s \in Requests : pc'[s] \in {pc[s], "failed"} /\ Target(s)' = Target(s)
    BY <1>2 DEF Crash, db, Target
  <2>2. SharedCodesAreRaced' /\ UpdatesChecked'
    <3>1. \A s \in Requests : \A c : Writing(s, c)' => Writing(s, c) BY <2>1 DEF Writing
    <3>2. UpdatesChecked' BY <2>1, <3>1, RaceGrows DEF UpdatesChecked, CodeInv
    <3> QED BY <2>1, <3>2, SharedStays DEF CodeInv
  <2>3. UploadsChecked'
    <3>1. \A s \in Requests : ~ Uploading(s)'
      BY <1>2, CrashTyped DEF Busy, InFlight, Uploading, Ended
    <3> QED BY <2>1, <3>1 DEF UploadsChecked, CodeInv
  <2> QED BY <2>2, <2>3 DEF CodeInv
<1>3. CASE UNCHANGED vars
  <2>0. UNCHANGED <<products, call, pc, left, read, raced>> BY <1>3 DEF vars, db, locals
  <2>1. /\ \A s : Target(s)' = Target(s) /\ (Uploading(s)' <=> Uploading(s))
        /\ \A s, c : Writing(s, c)' <=> Writing(s, c)
        /\ \A s, i : Checked(s, i)' = Checked(s, i)
    BY <2>0 DEF Target, Uploading, Writing, Checked
  <2>3. SharedCodesAreRaced' BY <2>0, SharedStays DEF CodeInv
  <2>4. UpdatesChecked' BY <2>0, <2>1, RaceGrows DEF CodeInv, UpdatesChecked
  <2>5. \A s : RowsChecked(s) => RowsChecked(s)'
    BY <2>0, <2>1, RaceGrows DEF RowsChecked, InBulk
  <2>6. UploadsChecked' BY <2>0, <2>1, <2>5 DEF CodeInv, UploadsChecked
  <2> QED BY <2>3, <2>4, <2>6 DEF CodeInv
<1> QED BY <1>1, <1>2, <1>3, ReceiveCodes DEF Next, Works

\* Without requests the links are the seeds.
LoneLinks ==
    Requests = {} =>
        \A l, m \in links :
            (l.product = m.product /\ l.state = "primary" /\ m.state = "primary") => l = m

LEMMA LoneInit == SeedsHaveOnePrimary /\ Init => LoneLinks
  BY DEF Init, LoneLinks, SeedsHaveOnePrimary

LEMMA LoneNext == LoneLinks /\ [Next]_vars => LoneLinks'
<1> SUFFICES ASSUME LoneLinks, [Next]_vars, Requests = {}
             PROVE  LoneLinks'
  BY DEF LoneLinks
<1>1. links' = links BY DEF Next, Crash, vars, db
<1> QED BY <1>1 DEF LoneLinks

\* One primary supplier at most, also in number.
LEMMA PrimaryOnce == PrimaryInv /\ LoneLinks => OnePrimary
<1> SUFFICES ASSUME PrimaryInv, LoneLinks, NEW p \in DOMAIN products, ~ Raced(p)
             PROVE  Cardinality(Primaries(p)) <= 1
  BY DEF OnePrimary
<1>1. ASSUME NEW l \in Primaries(p), NEW m \in Primaries(p)
      PROVE  l = m
  <2>1. CASE Requests = {} BY <1>1, <2>1 DEF LoneLinks, Primaries
  <2>2. ASSUME NEW r \in Requests PROVE l = m
    BY <1>1, <2>2 DEF PrimaryInv, OnceBy, Primaries, LinksOf
  <2> QED BY <2>1, <2>2
<1>2. CASE Primaries(p) = {} BY <1>2, FS_EmptySet
<1>3. ASSUME NEW l \in Primaries(p) PROVE Cardinality(Primaries(p)) <= 1
  <2>1. Primaries(p) = {l} BY <1>1, <1>3
  <2> QED BY <2>1, FS_Singleton
<1> QED BY <1>2, <1>3

LEMMA CodesHold == SeedsHaveOwnCodes /\ Spec => []CodeInv
  BY CodeInit, CodeNext, TypeInvHolds, TogetherHolds, FreshHolds, PTL DEF Spec

\* The primary supplier of a product and the code of a product are one unless
\* requests for the product overlapped, or one was created or comes from a file
\* without CustomSKU, which checks no code:
\* assignSupplier, createProduct, updateProduct and the upload, of any requests.
THEOREM CodesAreUnique == SeedsHaveOnePrimary /\ SeedsHaveOwnCodes /\ Spec => []UniqueByCode
<1>1. SeedsHaveOnePrimary /\ Spec => []LoneLinks BY LoneInit, LoneNext, PTL DEF Spec
<1>2. CodeInv => SharedCodesAreRaced BY DEF CodeInv
<1> QED BY <1>1, <1>2, PrimaryOnce, PrimariesAreOne, CodesHold, PTL DEF UniqueByCode

----------------------------------------------------------------------------
(* Whose product a pack is of *)

\* A pack that a request made is of a product of that request.
Owned(k, p) == k[1] \in Requests => p \in Target(k[1])

PackOwners ==
    /\ \A k \in DOMAIN packs : Owned(k, packs[k])
    /\ \A q \in Requests : call[q].op = "deletePack" =>
         \A p \in Target(q) :
           /\ Owned(call[q].pack, p)
           /\ call[q].pack \in DOMAIN packs => packs[call[q].pack] = p

\* How a step of r writes the packs.
MakesPack(r) ==
    \E i \in DOMAIN parts[r] : \E n \in Nat :
        /\ n + 1 = parts[r][i].packs /\ Exists(The(r))
        /\ packs' = With(packs, <<r, i, n + 1>>, The(r))
        /\ DOMAIN parts'[r] = DOMAIN parts[r] /\ parts'[r][i].packs = n
        /\ \A j \in DOMAIN parts[r] \ {i} : parts'[r][j] = parts[r][j]

PacksWritten(r) ==
    \/ packs' = packs
    \/ MakesPack(r) /\ Target(r) = {The(r)}
    \/ packs' = Without(packs, PacksOf(Target(r)))
    \/ DeletePack(r) /\ call[r].op = "deletePack"
    \/ CommitUpload(r)

\* A task makes a pack, or leaves what packs it has yet to make.
LEMMA PartPacks ==
    ASSUME TypeInv, NEW r \in Requests, Part(r), pc'[r] = "parts"
    PROVE  /\ products' = products /\ pc[r] = "parts" /\ Target(r) = {The(r)}
           /\ \/ MakesPack(r)
              \/ /\ packs' = packs /\ DOMAIN parts'[r] = DOMAIN parts[r]
                 /\ \A j \in DOMAIN parts[r] : parts'[r][j].packs = parts[r][j].packs
<1>1. PICK i \in DOMAIN parts[r] : MakePack(r, i) \/ CheckSupplier(r, i) \/ LinkVariant(r, i)
  BY DEF Part
<1>2. /\ TaskTyped(r, i) /\ RequestTyped(r) /\ DOMAIN pc = Requests /\ DOMAIN parts = Requests
      /\ parts[r] = [j \in DOMAIN parts[r] |-> parts[r][j]]
  BY <1>1 DEF TypeInv, TypeOK, RequestTyped, TasksTyped
<1>3. Target(r) = {The(r)} BY <1>2, TheIsTarget DEF OneTarget, TaskTyped
<1>4. ASSUME NEW part, PartMoves(r, i, part)
      PROVE  /\ pc[r] = "parts" /\ DOMAIN parts'[r] = DOMAIN parts[r]
             /\ parts'[r][i] = part
             /\ \A j \in DOMAIN parts[r] \ {i} : parts'[r][j] = parts[r][j]
  <2>1. pc[r] \in {"parts", "failed"} BY <1>4, PartMovesTyped
  <2> QED BY <1>2, <1>4, <2>1 DEF PartMoves
<1>5. CASE MakePack(r, i)
  <2>1. ~ PartThrows(r, i)
    <3>1. ASSUME PartThrows(r, i) PROVE FALSE BY <1>2, <3>1 DEF PartThrows
    <3> QED BY <3>1
  <2>2. PICK n \in Nat : /\ n + 1 = parts[r][i].packs
              /\ packs' = With(packs, <<r, i, n + 1>>, The(r)) /\ Exists(The(r))
              /\ UNCHANGED <<products, links, files, pc>>
              /\ PartMoves(r, i, [parts[r][i] EXCEPT !.packs = n])
    BY <1>5, <2>1, MakePackMoves
  <2>3. [parts[r][i] EXCEPT !.packs = n].packs = n BY <1>2 DEF TaskTyped
  <2> QED BY <1>3, <1>4, <2>2, <2>3 DEF MakesPack
<1>6. CASE CheckSupplier(r, i)
  <2>1. PICK part : PartMoves(r, i, part) /\ UNCHANGED db /\ part.packs = parts[r][i].packs
    BY <1>6, CheckSupplierMoves
  <2> QED BY <1>3, <1>4, <2>1 DEF db
<1>7. CASE LinkVariant(r, i)
  <2>1. PartMoves(r, i, DonePart) /\ UNCHANGED <<products, packs>> /\ parts[r][i].packs = 0
    BY <1>7, LinkVariantMoves
  <2>2. DonePart.packs = 0 BY DEF DonePart
  <2> QED BY <1>3, <1>4, <2>1, <2>2
<1> QED BY <1>1, <1>5, <1>6, <1>7

LEMMA WorksPacks ==
    ASSUME TypeInv, NEW r \in Requests, Works(r)
    PROVE  PacksWritten(r)
<1>1. CASE Part(r)
  <2>1. PICK i \in DOMAIN parts[r] : MakePack(r, i) \/ CheckSupplier(r, i) \/ LinkVariant(r, i)
    BY <1>1 DEF Part
  <2>2. /\ TaskTyped(r, i) /\ RequestTyped(r) /\ DOMAIN parts = Requests
        /\ parts[r] = [j \in DOMAIN parts[r] |-> parts[r][j]]
    BY <2>1 DEF TypeInv, TypeOK, RequestTyped, TasksTyped
  <2>3. Target(r) = {The(r)} BY <2>2, TheIsTarget DEF OneTarget, TaskTyped
  <2>4. CASE MakePack(r, i) /\ ~ PartThrows(r, i)
    <3>1. PICK n \in Nat : /\ n + 1 = parts[r][i].packs
                /\ packs' = With(packs, <<r, i, n + 1>>, The(r)) /\ Exists(The(r))
                /\ PartMoves(r, i, [parts[r][i] EXCEPT !.packs = n])
      BY <2>4, MakePackMoves
    <3>2. [parts[r][i] EXCEPT !.packs = n].packs = n BY <2>2 DEF TaskTyped
    <3>3. /\ DOMAIN parts'[r] = DOMAIN parts[r]
          /\ parts'[r][i] = [parts[r][i] EXCEPT !.packs = n]
          /\ \A j \in DOMAIN parts[r] \ {i} : parts'[r][j] = parts[r][j]
      BY <2>2, <3>1 DEF PartMoves
    <3> QED BY <2>3, <3>1, <3>2, <3>3 DEF MakesPack, PacksWritten
  <2>5. CASE PartThrows(r, i) \/ CheckSupplier(r, i) \/ LinkVariant(r, i)
    <3>1. packs' = packs BY <2>5, CheckSupplierMoves, LinkVariantMoves DEF PartThrows, db
    <3> QED BY <3>1 DEF PacksWritten
  <2> QED BY <2>1, <2>4, <2>5
<1>2. CASE Link_(r) BY <1>2, LinkEffect DEF Link_, LinksCome, PacksWritten, db
<1>3. CASE \/ FindSuppliers(r) \/ RelinkThrows(r) \/ PartsThrow(r) \/ DeleteThrows(r)
           \/ BatchThrows(r) \/ DeletePackThrows(r) \/ WriteThrows(r) \/ NoConnection(r)
           \/ FindBatch(r) \/ FinishAssign(r) \/ Register(r) \/ Row(r) \/ UploadExpires(r)
  BY <1>3, NoEffect DEF db, PacksWritten
<1>4. CASE \/ CreateProduct(r) \/ FinishCreate(r) \/ WriteUpdate(r) \/ Unlink(r) \/ Relink(r)
           \/ DeleteRows(r) \/ CleanFiles(r) \/ UnlistPack(r) \/ WriteQuantity(r)
           \/ MarkFailed(r) \/ (\E p \in todo[r] : WriteVariants(r, p))
  BY <1>4 DEF CreateProduct, FinishCreate, WriteUpdate, Unlink, Relink, DeleteRows,
              CleanFiles, UnlistPack, WriteQuantity, MarkFailed, WriteVariants, PacksWritten
<1>5. CASE WipePacks(r) \/ DeletePacks(r) \/ DeleteBatch(r)
  BY <1>5 DEF WipePacks, DeletePacks, DeleteBatch, PacksWritten
<1>6. CASE DeletePack(r) \/ CommitUpload(r) BY <1>6, StepOps DEF PacksWritten
<1> QED BY <1>1, <1>2, <1>3, <1>4, <1>5, <1>6 DEF Works, Step

\* The packs an upload commits are of its own products.
LEMMA CommitPacks ==
    ASSUME TypeInv, NEW r \in Requests, CommitUpload(r)
    PROVE  /\ DOMAIN packs \subseteq DOMAIN packs'
           /\ \A k \in DOMAIN packs' : /\ k \notin DOMAIN packs => k[1] = r
                                       /\ k[1] # r => k \in DOMAIN packs /\ packs'[k] = packs[k]
           /\ \A k \in DOMAIN packs' :
                (\A p \in DOMAIN packs : p[1] # r) /\ k[1] = r =>
                  /\ k[2] \in DOMAIN RowsOf[call[r].file] /\ packs'[k] = <<r, k[2]>>
                  /\ k \in UploadedPacks(r, k[2])
           /\ \A i \in DOMAIN RowsOf[call[r].file] : \A k \in UploadedPacks(r, i) :
                k \in DOMAIN packs' /\ packs'[k] = <<r, i>> /\ k[1] = r /\ k[2] = i
           /\ Target(r)' = {<<r, i>> : i \in DOMAIN RowsOf[call[r].file]}
<1>1. PICK rows : rows = RowsOf[call[r].file] OBVIOUS
<1> DEFINE newPacks == UNION {UploadedPacks(r, i) : i \in DOMAIN rows}
<1>2. packs' = WithAll(packs, [k \in newPacks |-> <<r, k[2]>>]) BY <1>1 DEF CommitUpload
<1>3. \A i : \A k \in UploadedPacks(r, i) : k[1] = r /\ k[2] = i BY DEF UploadedPacks
<1>4. /\ \A k \in newPacks : k[1] = r /\ k[2] \in DOMAIN rows /\ k \in UploadedPacks(r, k[2])
      /\ \A i \in DOMAIN rows : UploadedPacks(r, i) \subseteq newPacks
  BY <1>3
<1> HIDE DEF newPacks
<1>5. /\ DOMAIN packs' = DOMAIN packs \cup newPacks
      /\ \A k \in newPacks : packs'[k] = <<r, k[2]>>
      /\ \A k \in DOMAIN packs \ newPacks : packs'[k] = packs[k]
  BY <1>2 DEF WithAll
<1>6. Target(r)' = {<<r, i>> : i \in DOMAIN rows}
  <2>1. DOMAIN read = Requests BY DEF TypeInv
  <2> QED BY <1>1, <2>1 DEF CommitUpload, Target
<1>7. ASSUME NEW i \in DOMAIN rows, NEW k \in UploadedPacks(r, i)
      PROVE  k \in DOMAIN packs' /\ packs'[k] = <<r, i>> /\ k[1] = r /\ k[2] = i
  BY <1>3, <1>4, <1>5, <1>7
<1>8. \A k \in DOMAIN packs' : /\ k \notin DOMAIN packs => k[1] = r
                               /\ k[1] # r => k \in DOMAIN packs /\ packs'[k] = packs[k]
  BY <1>4, <1>5
<1>9. ASSUME \A p \in DOMAIN packs : p[1] # r, NEW k \in DOMAIN packs', k[1] = r
      PROVE  /\ k[2] \in DOMAIN rows /\ packs'[k] = <<r, k[2]>>
             /\ k \in UploadedPacks(r, k[2])
  <2>1. k \in newPacks BY <1>5, <1>9
  <2> QED BY <1>4, <1>5, <2>1
<1> QED BY <1>1, <1>5, <1>6, <1>7, <1>8, <1>9

\* A request to delete a pack works on the product of the pack.
LEMMA PackBegins ==
    ASSUME TypeInv, NEW r \in Requests, Receive(r), call'[r].op = "deletePack"
    PROVE  call'[r].pack \in DOMAIN packs /\ Target(r)' = {packs[call'[r].pack]}
<1>0. DOMAIN call = Requests /\ DOMAIN read = Requests BY DEF TypeInv
<1> DEFINE G == call'[r].op = "deletePack" =>
                  call'[r].pack \in DOMAIN packs /\ Target(r)' = {packs[call'[r].pack]}
           Other == call'[r].op # "deletePack"
<1>1. ASSUME NEW b, BeginCreate(r, b) \/ RefuseCreate(r, b) PROVE Other
  BY <1>0, <1>1 DEF BeginCreate, RefuseCreate, Refuse, Begin
<1>2. ASSUME NEW p, NEW b, BeginUpdate(r, p, b) \/ RefuseUpdate(r, p, b) PROVE Other
  BY <1>0, <1>2 DEF BeginUpdate, RefuseUpdate, Refuse, Begin
<1>3. ASSUME NEW S, BeginDelete(r, S) PROVE Other BY <1>0, <1>3 DEF BeginDelete, Begin
<1>4. ASSUME BeginDeleteAll(r) PROVE Other BY <1>0, <1>4 DEF BeginDeleteAll, Begin
<1>5. ASSUME NEW s, NEW S, BeginAssign(r, s, S) PROVE Other
  BY <1>0, <1>5 DEF BeginAssign, Begin
<1>6. ASSUME NEW k \in DOMAIN packs, BeginDeletePack(r, k) PROVE G
  <2>1. PICK c : c = [op |-> "deletePack", pack |-> k] OBVIOUS
  <2>2. Begin(r, c, {packs[k]}) /\ c.pack = k BY <1>6, <2>1 DEF BeginDeletePack
  <2>3. call'[r] = c /\ Target(r)' = {packs[k]} BY <1>0, <2>2 DEF Begin, Target
  <2> QED BY <2>2, <2>3
<1>7. ASSUME NEW p, NEW n, BeginQuantity(r, p, n) PROVE Other
  BY <1>0, <1>7 DEF BeginQuantity, Begin
<1>8. ASSUME NEW op \in VariantOps, NEW C, NEW n, BeginVariants(r, op, C, n) PROVE Other
  BY <1>0, <1>8 DEF BeginVariants, Begin, VariantOps
<1>9. ASSUME NEW f, BeginUpload(r, f) \/ RefuseUpload(r, f) PROVE Other
  BY <1>0, <1>9 DEF BeginUpload, RefuseUpload, Refuse, Begin
<1>10. Other => G OBVIOUS
<1> HIDE DEF G, Other
<1>11. G
  BY <1>1, <1>2, <1>3, <1>4, <1>5, <1>6, <1>7, <1>8, <1>9, <1>10 DEF Receive, VariantOps
<1> QED BY <1>11 DEF G

LEMMA TargetsGrow ==
    ASSUME TypeInv, [Next]_vars
    PROVE  \A q \in Requests : Target(q) \subseteq Target(q)'
<1>1. ASSUME NEW r \in Requests, Receive(r)
      PROVE  \A q \in Requests : Target(q) \subseteq Target(q)'
  <2>1. PICK S \in SUBSET DOMAIN products : Begins(r, S) BY <1>1, ReceiveBegins
  <2> QED BY <2>1, BeginsBusy, OthersBusy DEF Begins
<1>2. ASSUME NEW r \in Requests, Works(r)
      PROVE  \A q \in Requests : Target(q) \subseteq Target(q)'
  BY <1>2, WorksMovesOnly, OthersBusy DEF MovesOnly
<1>3. CASE Crash \/ UNCHANGED vars BY <1>3 DEF Crash, vars, db, locals, Target
<1> QED BY <1>1, <1>2, <1>3 DEF Next, Works

LEMMA PackOwnersInit == Init => PackOwners
<1> SUFFICES ASSUME Init PROVE PackOwners OBVIOUS
<1>1. \A k \in DOMAIN packs : k[1] \notin Requests BY CatalogueAssumption DEF Init
<1>2. \A q \in Requests : call[q].op # "deletePack" BY DEF Init, NoCall
<1> QED BY <1>1, <1>2 DEF PackOwners, Owned

\* No step moves a pack to another product.
LEMMA PacksStay ==
    ASSUME TypeInv, PackOwners, NEW r \in Requests, Works(r)
    PROVE  \A k \in DOMAIN packs' :
             /\ k \in DOMAIN packs => packs'[k] = packs[k]
             /\ k \notin DOMAIN packs => k[1] = r /\ packs'[k] \in Target(r)'
                                         /\ (Target(r) = {} \/ Target(r) = {packs'[k]})
<1>0. PacksWritten(r) /\ Target(r) \subseteq Target(r)'
  BY WorksPacks, WorksMovesOnly DEF MovesOnly
<1>1. CASE packs' = packs BY <1>1
<1>2. CASE MakesPack(r) /\ Target(r) = {The(r)}
  <2>1. PICK i \in DOMAIN parts[r], n \in Nat : packs' = With(packs, <<r, i, n + 1>>, The(r))
    BY <1>2 DEF MakesPack
  <2>2. PICK k, p : k = <<r, i, n + 1>> /\ p = The(r) OBVIOUS
  <2>3. k[1] = r BY <2>2
  <2>4. k \in DOMAIN packs => packs[k] = p BY <1>2, <2>2, <2>3 DEF PackOwners, Owned
  <2> QED BY <1>0, <1>2, <2>1, <2>2, <2>3, <2>4 DEF With
<1>3. CASE packs' = Without(packs, PacksOf(Target(r))) BY <1>3 DEF Without
<1>4. CASE DeletePack(r) BY <1>4 DEF Without, DeletePack
<1>5. CASE CommitUpload(r)
  <2>1. Target(r) = {} BY <1>5, CommitRows
  <2>2. \A k \in DOMAIN packs : k[1] # r BY <2>1 DEF PackOwners, Owned
  <2>3. ASSUME NEW k \in DOMAIN packs', k[1] = r
        PROVE  packs'[k] \in Target(r)'
    BY <1>5, <2>2, <2>3, CommitPacks
  <2> QED BY <1>5, <2>1, <2>2, <2>3, CommitPacks
<1> QED BY <1>0, <1>1, <1>2, <1>3, <1>4, <1>5 DEF PacksWritten

LEMMA PackOwnersNext == TypeInv /\ PackOwners /\ [Next]_vars => PackOwners'
<1> SUFFICES ASSUME TypeInv, PackOwners, [Next]_vars PROVE PackOwners' OBVIOUS
<1>0. \A q \in Requests : Target(q) \subseteq Target(q)' BY TargetsGrow
<1>1. ASSUME NEW r \in Requests, Receive(r)
      PROVE  PackOwners'
  <2>1. PICK S \in SUBSET DOMAIN products : Begins(r, S) BY <1>1, ReceiveBegins
  <2>2. packs' = packs /\ OthersStay(r) BY <2>1 DEF Begins, db
  <2>3. \A k \in DOMAIN packs' : k[1] \in Requests => packs'[k] \in Target(k[1])'
    BY <1>0, <2>2 DEF PackOwners, Owned
  <2>4. ASSUME NEW q \in Requests, NEW k, k = call'[q].pack, call'[q].op = "deletePack",
               NEW p \in Target(q)'
        PROVE  /\ k[1] \in Requests => p \in Target(k[1])'
               /\ k \in DOMAIN packs' => packs'[k] = p
    <3>1. CASE q = r
      <4>1. k \in DOMAIN packs /\ p = packs[k] BY <1>1, <2>4, <3>1, PackBegins
      <4>2. k[1] \in Requests => p \in Target(k[1]) BY <4>1 DEF PackOwners, Owned
      <4> QED BY <1>0, <2>2, <4>1, <4>2
    <3>2. CASE q # r
      <4>1. call'[q] = call[q] /\ Target(q)' = Target(q) BY <2>2, <3>2 DEF OthersStay, Target
      <4>2. /\ k[1] \in Requests => p \in Target(k[1])
            /\ k \in DOMAIN packs => packs[k] = p
        BY <2>4, <4>1 DEF PackOwners, Owned
      <4> QED BY <1>0, <2>2, <4>2
    <3> QED BY <3>1, <3>2
  <2> QED BY <2>3, <2>4 DEF PackOwners, Owned
<1>2. ASSUME NEW r \in Requests, Works(r)
      PROVE  PackOwners'
  <2>1. /\ call' = call /\ Target(r) \subseteq Target(r)'
        /\ \A q \in Requests \ {r} : Target(q)' = Target(q)
    BY <1>2, WorksMovesOnly, OthersBusy DEF MovesOnly
  <2>2. \A k \in DOMAIN packs' :
           /\ k \in DOMAIN packs => packs'[k] = packs[k]
           /\ k \notin DOMAIN packs => k[1] = r /\ packs'[k] \in Target(r)'
                                       /\ (Target(r) = {} \/ Target(r) = {packs'[k]})
    BY <1>2, PacksStay
  <2>3. ASSUME NEW k \in DOMAIN packs', k[1] \in Requests
        PROVE  packs'[k] \in Target(k[1])'
    <3>1. CASE k \in DOMAIN packs
      <4>1. packs[k] \in Target(k[1]) BY <2>3, <3>1 DEF PackOwners, Owned
      <4> QED BY <1>0, <2>2, <2>3, <3>1, <4>1
    <3>2. CASE k \notin DOMAIN packs BY <2>2, <3>2
    <3> QED BY <3>1, <3>2
  <2>4. ASSUME NEW q \in Requests, call[q].op = "deletePack", NEW p \in Target(q)',
               NEW k, k = call[q].pack
        PROVE  /\ k[1] \in Requests => p \in Target(k[1])'
               /\ k \in DOMAIN packs' => packs'[k] = p
    <3>1. p \in Target(q)
      <4>1. CASE q = r
        <5>1. Target(r)' = Target(r) BY <1>2, <2>4, <4>1, TargetGrows, StepOps
        <5> QED BY <2>4, <4>1, <5>1
      <4> QED BY <2>1, <2>4, <4>1
    <3>2. /\ k[1] \in Requests => p \in Target(k[1])
          /\ k \in DOMAIN packs => packs[k] = p
      BY <2>4, <3>1 DEF PackOwners, Owned
    <3>3. ASSUME k \in DOMAIN packs', k \notin DOMAIN packs
          PROVE  packs'[k] = p
      <4>1. k[1] = r BY <2>2, <3>3
      <4>2. p \in Target(r) BY <3>2, <4>1
      <4> QED BY <2>2, <3>3, <4>2
    <3> QED BY <1>0, <2>2, <3>2, <3>3
  <2> QED BY <2>1, <2>3, <2>4 DEF PackOwners, Owned
<1>3. CASE Crash \/ UNCHANGED vars
  BY <1>3 DEF Crash, vars, db, locals, Target, PackOwners, Owned
<1> QED BY <1>1, <1>2, <1>3 DEF Next, Works

LEMMA PackOwnersHold == Spec => []PackOwners
  BY PackOwnersInit, PackOwnersNext, TypeInvHolds, PTL DEF Spec

\* The packs of a product that a request works not on stay.
LEMMA PacksFrame ==
    ASSUME TypeInv, PackOwners, NEW r \in Requests, Works(r), NEW p, p \notin Target(r)'
    PROVE  PacksOf({p})' = PacksOf({p})
<1>0. PacksWritten(r) /\ p \notin Target(r) BY WorksPacks, WorksMovesOnly DEF MovesOnly
<1>1. PacksOf({p})' \subseteq PacksOf({p}) BY PacksStay DEF PacksOf
<1>2. ASSUME NEW k \in DOMAIN packs, packs[k] = p
      PROVE  k \in DOMAIN packs'
  <2>1. CASE packs' = Without(packs, PacksOf(Target(r)))
    BY <1>0, <1>2, <2>1 DEF Without, PacksOf
  <2>2. CASE DeletePack(r) /\ call[r].op = "deletePack"
    <3>1. \E q \in Target(r) : TRUE
      BY <2>2 DEF TypeInv, RequestTyped, OnTarget, OneTarget, DeletePack
    <3>2. k # call[r].pack BY <1>0, <1>2, <2>2, <3>1 DEF PackOwners
    <3> QED BY <2>2, <3>2 DEF DeletePack, Without
  <2>3. CASE MakesPack(r) BY <2>3 DEF MakesPack, With
  <2>4. CASE CommitUpload(r) BY <2>4, CommitPacks
  <2> QED BY <1>0, <1>2, <2>1, <2>2, <2>3, <2>4 DEF PacksWritten
<1>3. PacksOf({p}) \subseteq PacksOf({p})' BY <1>2, PacksStay DEF PacksOf
<1> QED BY <1>1, <1>3

----------------------------------------------------------------------------
(* The packs a product lists *)

\* No two requests worked on p at a time, and none that did has failed.
Calm(p) == ~ Raced(p) /\ \A r \in Requests : p \in Target(r) => pc[r] # "failed"

Agrees(p) ==
    /\ DidOn(p, {"deletePack"}) \/ ListedPacks(products[p]) \subseteq PacksOf({p})
    /\ DidOn(p, {"deleteVariant", "deleteSelected"}) \/
         PacksOf({p}) \subseteq ListedPacks(products[p])
    /\ products[p].packIds \subseteq PacksOf({p})

\* The packs that the tasks of r have made.
MadeSoFar(r) ==
    UNION {{<<r, i, k>> : k \in (parts[r][i].packs + 1)..PartsOf(call[r].body)[i].packs} :
             i \in DOMAIN parts[r]}

Bare(p) == products[p].packIds = {} /\ products[p].variants = <<>>

\* The pack is gone, and the list of the product has yet to be written.
Unlisted(r, p) ==
    /\ call[r].pack \notin PacksOf({p})
    /\ DidOn(p, {"deleteVariant", "deleteSelected"}) \/
         PacksOf({p}) \subseteq ListedPacks(products[p])
    /\ products[p].packIds \subseteq PacksOf({p}) \cup {call[r].pack}

\* What r has done so far for p, by what it awaits.
PhaseFits(r, p) ==
    /\ pc[r] \in {"suppliers", "links"} => PacksOf({p}) = {} /\ Bare(p)
    /\ pc[r] = "parts" =>
         PacksOf({p}) = MadeSoFar(r) /\ (call[r].op = "create" => Bare(p))
    /\ pc[r] = "unlist" => Unlisted(r, p)
    /\ (pc[r] \in {"pack", "unlist"} \/ (pc[r] = "variants" /\ p \in todo[r])) =>
         read[r][p] = products[p]

Halfway == {"parts", "erase", "unlist"}
Settled(p) == \A r \in Requests : p \in Target(r) => pc[r] \notin Halfway

PacksInv ==
    \A p \in DOMAIN products : Calm(p) =>
        /\ Settled(p) => Agrees(p)
        /\ \A r \in Requests : p \in Target(r) => PhaseFits(r, p)

LEMMA DidGrows ==
    ASSUME TypeInv, [Next]_vars, NEW p, NEW ops, DidOn(p, ops)
    PROVE  DidOn(p, ops)'
<1>1. PICK q \in Requests : p \in Target(q) /\ call[q].op \in ops BY DEF DidOn
<1>2. p \in Target(q)' /\ call'[q] = call[q]
  <2>1. ASSUME NEW r \in Requests, Receive(r)
        PROVE  p \in Target(q)' /\ call'[q] = call[q]
    <3>1. PICK S \in SUBSET DOMAIN products : Begins(r, S) BY <2>1, ReceiveBegins
    <3>2. Target(r) = {} /\ OthersStay(r) BY <3>1, BeginsBusy DEF Begins
    <3> QED BY <1>1, <3>2, OthersBusy DEF OthersStay
  <2>2. ASSUME NEW r \in Requests, Works(r)
        PROVE  p \in Target(q)' /\ call'[q] = call[q]
    BY <1>1, <2>2, WorksMovesOnly, TargetsGrow DEF MovesOnly
  <2>3. CASE Crash \/ UNCHANGED vars BY <1>1, <2>3 DEF Crash, vars, db, locals, Target
  <2> QED BY <2>1, <2>2, <2>3 DEF Next, Works
<1> QED BY <1>1, <1>2 DEF DidOn

\* A request that failed has failed, whatever its tasks go on to do.
LEMMA FailedStays ==
    ASSUME TypeInv, NEW r \in Requests, Works(r), pc[r] = "failed"
    PROVE  pc'[r] = "failed"
<1>0. DOMAIN pc = Requests BY DEF TypeInv, TypeOK
<1>1. ~ SimpleStep(r) BY SimpleStepMoves DEF InFlight, Ended
<1>2. /\ ~ CreateProduct(r) /\ ~ FindSuppliers(r) /\ ~ WipePacks(r) /\ ~ FindBatch(r)
      /\ ~ DeleteBatch(r) /\ ~ (\E p \in todo[r] : WriteVariants(r, p)) /\ ~ Row(r)
      /\ ~ CommitUpload(r)
  BY DEF CreateProduct, FindSuppliers, WipePacks, FindBatch, DeleteBatch, WriteVariants,
         Row, CommitUpload, Uploading
<1>3. CASE Part(r)
  <2>1. PICK i \in DOMAIN parts[r] : MakePack(r, i) \/ CheckSupplier(r, i) \/ LinkVariant(r, i)
    BY <1>3 DEF Part
  <2> QED BY <1>0, <2>1 DEF MakePack, CheckSupplier, LinkVariant, PartThrows
<1>4. CASE Link_(r) BY <1>0, <1>4 DEF Link_, MakeLink, ReadLinks, AssignLink
<1> QED BY <1>1, <1>2, <1>3, <1>4 DEF Works, Step, SimpleStep

LEMMA CalmBack ==
    ASSUME TypeInv, [Next]_vars, NEW p, Calm(p)'
    PROVE  Calm(p)
<1>1. ~ Raced(p) BY RacedGrows DEF Calm
<1>2. ASSUME NEW q \in Requests, p \in Target(q), pc[q] = "failed"
      PROVE  p \in Target(q)' /\ pc'[q] = "failed"
  <2>1. ASSUME NEW r \in Requests, Receive(r)
        PROVE  pc'[q] = "failed"
    <3>1. PICK S \in SUBSET DOMAIN products : Begins(r, S) BY <2>1, ReceiveBegins
    <3> QED BY <1>2, <3>1 DEF Begins, OthersStay
  <2>2. ASSUME NEW r \in Requests, Works(r)
        PROVE  pc'[q] = "failed"
    BY <1>2, <2>2, WorksMovesOnly, FailedStays DEF MovesOnly, OthersStay
  <2>3. ASSUME Crash
        PROVE  pc'[q] = "failed"
    <3>1. ~ InFlight(q) BY <1>2 DEF InFlight, Ended
    <3> QED BY <1>2, <2>3, <3>1 DEF Crash
  <2>5. ASSUME UNCHANGED vars
        PROVE  pc'[q] = "failed"
    BY <1>2, <2>5 DEF vars
  <2>4. pc'[q] = "failed" BY <2>1, <2>2, <2>3, <2>5 DEF Next, Works
  <2> QED BY <1>2, <2>4, TargetsGrow
<1> QED BY <1>1, <1>2 DEF Calm

\* What neither touches the lists of p nor its packs leaves them agreeing.
LEMMA AgreesKept ==
    ASSUME TypeInv, [Next]_vars, NEW p, Agrees(p), PacksOf({p})' = PacksOf({p}),
           products'[p].packIds = products[p].packIds,
           products'[p].variants = products[p].variants
    PROVE  Agrees(p)'
<1>1. ListedPacks(products'[p]) = ListedPacks(products[p]) BY DEF ListedPacks
<1> QED BY <1>1, DidGrows DEF Agrees

LEMMA FitsKept ==
    ASSUME TypeInv, [Next]_vars, NEW q \in Requests, NEW p, PhaseFits(q, p),
           PacksOf({p})' = PacksOf({p}), products'[p] = products[p],
           pc'[q] = pc[q], call'[q] = call[q], read'[q] = read[q], parts'[q] = parts[q],
           todo'[q] = todo[q]
    PROVE  PhaseFits(q, p)'
<1>1. MadeSoFar(q)' = MadeSoFar(q) BY DEF MadeSoFar
<1>2. Unlisted(q, p) => Unlisted(q, p)' BY DidGrows DEF Unlisted
<1>3. Bare(p) => Bare(p)' BY DEF Bare
<1> QED BY <1>1, <1>2, <1>3 DEF PhaseFits

LEMMA PacksInvInit == SeedPacksAgree /\ Init => PacksInv
<1> SUFFICES ASSUME SeedPacksAgree, Init, NEW p \in DOMAIN products
             PROVE  Agrees(p) /\ \A r \in Requests : p \notin Target(r)
  BY DEF PacksInv
<1>1. ListedPacks(products[p]) = PacksOf({p}) BY DEF Init, SeedPacksAgree, PacksOf
<1>2. products[p].packIds \subseteq ListedPacks(products[p]) BY DEF ListedPacks
<1> QED BY <1>1, <1>2 DEF Agrees, Init, Target, EmptyFun

\* What holds of a calm product before one of its requests, r, steps: the others
\* are done with it.
LEMMA SoleFits ==
    ASSUME TypeInv, Together, PacksInv, [Next]_vars, NEW r \in Requests, Works(r),
           NEW p \in Target(r)', p \in DOMAIN products, Calm(p)'
    PROVE  /\ p \in Target(r) => PhaseFits(r, p)
           /\ (p \in Target(r) => pc[r] \notin Halfway) => Agrees(p)
           /\ \A q \in Requests \ {r} : p \in Target(q) => pc[q] = "ok"
<1>1. Calm(p) BY CalmBack
<1>2. ASSUME NEW q \in Requests \ {r}, p \in Target(q)
      PROVE  pc[q] = "ok"
  <2>1. ~ Raced(p)' BY DEF Calm
  <2>2. ~ Busy(q) BY <1>2, <2>1, Sole
  <2>3. pc[q] \notin {"failed", "idle", "refused"}
    BY <1>1, <1>2 DEF Calm, TypeInv, RequestTyped, OnTarget
  <2> QED BY <2>2, <2>3 DEF Busy, InFlight, Ended
<1>3. (p \in Target(r) => pc[r] \notin Halfway) => Settled(p) BY <1>2 DEF Settled, Halfway
<1> QED BY <1>1, <1>2, <1>3 DEF PacksInv

\* What is to be shown of the step.
Fits(r, p) == PhaseFits(r, p) /\ (pc[r] \notin Halfway => Agrees(p))

LEMMA TasksEntered ==
    ASSUME TypeInv, NEW r \in Requests, EnterParts(r), call' = call,
           call[r].op \in {"create", "update"}
    PROVE  MadeSoFar(r)' = {} /\ pc'[r] = "parts"
<1>1. parts'[r] = PartsOf(call[r].body) /\ pc'[r] = "parts"
  BY DEF EnterParts, Goto, TypeInv, TypeOK
<1>2. \A n : n \in Nat => (n + 1)..n = {} OBVIOUS
<1>3. ASSUME NEW i \in DOMAIN PartsOf(call[r].body)
      PROVE  (PartsOf(call[r].body)[i].packs + 1)..PartsOf(call[r].body)[i].packs = {}
  <2>1. call[r].body \in Body BY BodyTyped DEF TypeInv
  <2>2. PartsOf(call[r].body)[i] \in [packs : Nat, sup : {"todo", "create", "done"}]
    BY <1>3, <2>1, PartsOfTyped
  <2> QED BY <1>2, <2>2
<1> QED BY <1>1, <1>3 DEF MadeSoFar

LEMMA SameTables ==
    ASSUME TypeInv, Together, PacksInv, [Next]_vars, NEW r \in Requests, Works(r),
           NEW p \in Target(r)', p \in DOMAIN products, Calm(p)',
           UNCHANGED <<products, packs>>,
           pc'[r] \notin Halfway \cup {"suppliers", "links", "pack", "variants"},
           p \in Target(r) => pc[r] \notin Halfway
    PROVE  Fits(r, p)'
<1>1. Agrees(p) BY SoleFits
<1>2. Agrees(p)'
  <2>1. PacksOf({p})' = PacksOf({p}) BY DEF PacksOf
  <2> QED BY <1>1, <2>1, AgreesKept
<1>3. PhaseFits(r, p)' BY DEF PhaseFits, Halfway
<1> QED BY <1>2, <1>3 DEF Fits

LEMMA CreateProductFits ==
    ASSUME TypeInv, RowsAreFresh, NEW r \in Requests, CreateProduct(r), NEW p \in Target(r)'
    PROVE  Fits(r, p)'
<1>1. /\ p = Own(r) /\ packs' = packs /\ call' = call /\ Target(r) = {}
      /\ call[r].op = "create" /\ DOMAIN pc = Requests
  BY CreateProductEffect DEF RowComes, CreateProduct, TypeInv, TypeOK
<1>2. PacksOf({p})' = {}
  <2>1. p \notin DOMAIN products BY <1>1 DEF RowsAreFresh, Own
  <2> QED BY <1>1, <2>1 DEF PacksOf, TypeInv, TypeOK
<1>3. products'[p].packIds = {} /\ products'[p].variants = <<>>
  BY <1>1 DEF CreateProduct, With
<1>4. Bare(p)' /\ Agrees(p)'
  <2>1. ListedPacks(products'[p]) = {} BY <1>3 DEF ListedPacks, Range
  <2> QED BY <1>2, <1>3, <2>1 DEF Bare, Agrees
<1>5. pc'[r] = "suppliers" \/ (pc'[r] = "parts" /\ MadeSoFar(r)' = {})
  <2>1. (pc'[r] = "suppliers") \/ EnterParts(r) BY <1>1 DEF CreateProduct, Goto
  <2> QED BY <1>1, <2>1, TasksEntered
<1> QED BY <1>2, <1>4, <1>5 DEF Fits, PhaseFits

LEMMA ToPartsFits ==
    ASSUME TypeInv, NEW r \in Requests, NEW p, EnterParts(r), call' = call,
           call[r].op \in {"create", "update"}, PacksOf({p})' = {}, call[r].op = "create" => Bare(p)'
    PROVE  Fits(r, p)'
<1>1. MadeSoFar(r)' = {} /\ pc'[r] = "parts" BY TasksEntered
<1> QED BY <1>1 DEF Fits, PhaseFits, Halfway

LEMMA MakeLinkFits ==
    ASSUME TypeInv, Together, PacksInv, [Next]_vars, NEW r \in Requests, Works(r),
           NEW p \in Target(r)', p \in DOMAIN products, Calm(p)', NEW j \in jobs[r], MakeLink(r, j)
    PROVE  Fits(r, p)'
<1>1. /\ UNCHANGED <<products, packs, call, read, todo>> /\ Target(r)' = Target(r)
      /\ call[r].op = "create"
  BY DEF MakeLink, Target
<1>2. PacksOf({p})' = PacksOf({p}) BY <1>1 DEF PacksOf
<1>3. pc'[r] # "failed" /\ pc[r] # "failed" BY <1>1, FailedStays DEF Calm
<1>4. pc[r] = "links" BY <1>1, <1>3 DEF TypeInv, RequestTyped, JobsTyped, InPhase
<1>5. PacksOf({p}) = {} /\ Bare(p) /\ Agrees(p) BY <1>1, <1>4, SoleFits DEF PhaseFits, Halfway
<1>6. Bare(p)' /\ Agrees(p)' BY <1>1, <1>2, <1>5, AgreesKept DEF Bare
<1>7. CASE EnterParts(r) BY <1>1, <1>2, <1>5, <1>6, <1>7, ToPartsFits
<1>8. CASE pc'[r] = "links" BY <1>2, <1>5, <1>6, <1>8 DEF Fits, PhaseFits
<1> QED BY <1>3, <1>4, <1>7, <1>8 DEF MakeLink, TypeInv, TypeOK

\* When all tasks are done, they have made the packs of the body.
LEMMA AllMade ==
    ASSUME TypeInv, NEW r \in Requests, call[r].op \in {"create", "update"}, pc[r] = "parts",
           PartsDone(r)
    PROVE  /\ call[r].body.hv = "yes" =>
                UNION {v.packs : v \in Range(VariantsMade(r))} = MadeSoFar(r)
           /\ call[r].body.hv # "yes" => PacksMade(r, 0, call[r].body.packs) = MadeSoFar(r)
<1>1. /\ DOMAIN parts[r] = DOMAIN PartsOf(call[r].body) /\ RequestTyped(r)
      /\ \A i \in DOMAIN parts[r] : parts[r][i].packs = 0
  BY DEF TypeInv, RequestTyped, TasksTyped, PartsDone, DonePart
<1>2. \A i \in DOMAIN parts[r] :
        {<<r, i, k>> : k \in (parts[r][i].packs + 1)..PartsOf(call[r].body)[i].packs} =
          PacksMade(r, i, PartsOf(call[r].body)[i].packs)
  BY <1>1 DEF PacksMade
<1>3. MadeSoFar(r) = UNION {PacksMade(r, i, PartsOf(call[r].body)[i].packs) :
                              i \in DOMAIN PartsOf(call[r].body)}
  BY <1>1, <1>2 DEF MadeSoFar
<1>4. CASE call[r].body.hv = "yes"
  <2>1. /\ DOMAIN VariantsMade(r) = DOMAIN call[r].body.variants
        /\ \A i \in DOMAIN call[r].body.variants :
             VariantsMade(r)[i].packs = PacksMade(r, i, call[r].body.variants[i].packs)
    BY <1>1, <1>4, VariantsMadeTyped
  <2>2. /\ DOMAIN PartsOf(call[r].body) = DOMAIN call[r].body.variants
        /\ \A i \in DOMAIN call[r].body.variants :
             PartsOf(call[r].body)[i].packs = call[r].body.variants[i].packs
    BY <1>4 DEF PartsOf
  <2>3. UNION {v.packs : v \in Range(VariantsMade(r))} =
          UNION {VariantsMade(r)[i].packs : i \in DOMAIN VariantsMade(r)}
    BY DEF Range
  <2> QED BY <1>3, <1>4, <2>1, <2>2, <2>3
<1>5. CASE call[r].body.hv # "yes"
  <2>1. DOMAIN PartsOf(call[r].body) = {0} /\ PartsOf(call[r].body)[0].packs = call[r].body.packs
    BY <1>5 DEF PartsOf
  <2> QED BY <1>3, <1>5, <2>1
<1> QED BY <1>4, <1>5

\* A product that lists exactly its packs agrees.
LEMMA ListedAgrees ==
    ASSUME NEW p, ListedPacks(products'[p]) = PacksOf({p})'
    PROVE  Agrees(p)'
  BY DEF Agrees, ListedPacks

LEMMA TasksFit ==
    ASSUME TypeInv, Together, PacksInv, [Next]_vars, NEW r \in Requests, Works(r),
           NEW p \in Target(r)', p \in DOMAIN products, Calm(p)', pc[r] = "parts",
           Target(r)' = Target(r)
    PROVE  PacksOf({p}) = MadeSoFar(r) /\ (call[r].op = "create" => Bare(p))
  BY SoleFits DEF PhaseFits

LEMMA FinishCreateFits ==
    ASSUME TypeInv, Together, PacksInv, [Next]_vars, NEW r \in Requests, Works(r),
           NEW p \in Target(r)', p \in DOMAIN products, Calm(p)', FinishCreate(r)
    PROVE  Fits(r, p)'
<1>1. /\ packs' = packs /\ pc'[r] = "ok" /\ Target(r)' = Target(r) /\ call[r].op = "create"
      /\ pc[r] = "parts" /\ PartsDone(r) /\ Target(r) = {Own(r)} /\ p = Own(r)
      /\ call[r].body \in Body /\ products[p] \in Product
  <2>1. Target(r) = {Own(r)} /\ call[r].body \in Body /\ DOMAIN pc = Requests
    BY BodyTyped DEF TypeInv, TypeOK, RequestTyped, OnTarget, FinishCreate
  <2> QED BY <2>1 DEF FinishCreate, locals, Target, Goto, TypeInv, TypeOK
<1>2. PacksOf({p}) = MadeSoFar(r) /\ Bare(p) /\ PacksOf({p})' = PacksOf({p})
  BY <1>1, TasksFit DEF PacksOf
<1>3. ListedPacks(products'[p]) = MadeSoFar(r)
  <2>1. CASE call[r].body.hv = "no" /\ call[r].body.packs = 0
    <3>1. products'[p] = products[p] BY <1>1, <2>1 DEF FinishCreate
    <3>2. ListedPacks(products[p]) = {} BY <1>2 DEF Bare, ListedPacks, Range
    <3>3. PacksMade(r, 0, 0) = {} BY DEF PacksMade
    <3>4. MadeSoFar(r) = {} BY <1>1, <2>1, <3>3, AllMade
    <3> QED BY <3>1, <3>2, <3>4
  <2>2. CASE call[r].body.hv = "yes"
    <3>1. products'[p].variants = VariantsMade(r) /\ products'[p].packIds = {}
      <4>1. products' = [products EXCEPT ![p].variants = VariantsMade(r)]
        BY <1>1, <2>2 DEF FinishCreate
      <4> QED BY <1>1, <1>2, <4>1 DEF Bare, Product
    <3> QED BY <1>1, <2>2, <3>1, AllMade DEF ListedPacks
  <2>3. CASE call[r].body.hv # "yes" /\ ~ (call[r].body.hv = "no" /\ call[r].body.packs = 0)
    <3>1. /\ products'[p].packIds = PacksMade(r, 0, call[r].body.packs)
          /\ products'[p].variants = <<>>
      <4>1. products' = [products EXCEPT ![p].packIds = PacksMade(r, 0, call[r].body.packs)]
        BY <1>1, <2>3 DEF FinishCreate
      <4> QED BY <1>1, <1>2, <4>1 DEF Bare, Product
    <3>2. ListedPacks(products'[p]) = PacksMade(r, 0, call[r].body.packs)
      BY <3>1 DEF ListedPacks, Range
    <3> QED BY <1>1, <2>3, <3>2, AllMade
  <2> QED BY <2>1, <2>2, <2>3
<1> QED BY <1>1, <1>2, <1>3, ListedAgrees DEF Fits, PhaseFits

LEMMA WriteUpdateFits ==
    ASSUME TypeInv, Together, PacksInv, [Next]_vars, NEW r \in Requests, Works(r),
           NEW p \in Target(r)', p \in DOMAIN products, Calm(p)', WriteUpdate(r)
    PROVE  Fits(r, p)'
<1>1. /\ packs' = packs /\ pc'[r] \in {"ok", "unlink"} /\ Target(r)' = Target(r)
      /\ call[r].op = "update" /\ pc[r] = "parts" /\ PartsDone(r)
      /\ p = The(r) /\ products'[p] = Updated(r, products[p]) /\ products[p] \in Product
  <2>1. Target(r) = {The(r)} /\ products' = [products EXCEPT ![The(r)] = Updated(r, products[The(r)])]
    BY WriteUpdateEffect
  <2>2. Target(r)' = Target(r) /\ packs' = packs /\ call[r].op = "update" /\ pc[r] = "parts"
        /\ PartsDone(r) /\ pc'[r] \in {"ok", "unlink"}
    BY DEF WriteUpdate, locals, Target, Goto, TypeInv, TypeOK
  <2> QED BY <2>1, <2>2 DEF TypeInv, TypeOK
<1>2. PacksOf({p}) = MadeSoFar(r) /\ PacksOf({p})' = PacksOf({p})
  BY <1>1, TasksFit DEF PacksOf
<1>3. ListedPacks(products'[p]) = MadeSoFar(r)
  <2>1. CASE call[r].body.hv = "yes"
    <3>1. products'[p].variants = VariantsMade(r) /\ products'[p].packIds = {}
      BY <1>1, <2>1 DEF Updated, Product
    <3> QED BY <1>1, <2>1, <3>1, AllMade DEF ListedPacks
  <2>2. CASE call[r].body.hv # "yes"
    <3>1. /\ products'[p].packIds = PacksMade(r, 0, call[r].body.packs)
          /\ products'[p].variants = <<>>
      BY <1>1, <2>2 DEF Updated, Product
    <3>2. ListedPacks(products'[p]) = PacksMade(r, 0, call[r].body.packs)
      BY <3>1 DEF ListedPacks, Range
    <3> QED BY <1>1, <2>2, <3>2, AllMade
  <2> QED BY <2>1, <2>2
<1> QED BY <1>1, <1>2, <1>3, ListedAgrees DEF Fits, PhaseFits

LEMMA WipePacksFits ==
    ASSUME TypeInv, NEW r \in Requests, NEW p \in Target(r)', WipePacks(r)
    PROVE  Fits(r, p)'
<1>1. /\ packs' = Without(packs, PacksOf(Target(r))) /\ Target(r)' = Target(r)
      /\ EnterParts(r) /\ call' = call
  BY DEF WipePacks, Target
<1>2. PacksOf({p})' = {} BY <1>1 DEF PacksOf, Without
<1> QED BY <1>1, <1>2, ToPartsFits, StepOps

\* A task that makes a pack has made one more.
LEMMA TaskMakes ==
    ASSUME TypeInv, NEW r \in Requests, call' = call, MakesPack(r)
    PROVE  \E k : packs' = With(packs, k, The(r)) /\ MadeSoFar(r)' = MadeSoFar(r) \cup {k}
<1>1. PICK i \in DOMAIN parts[r], n \in Nat :
        /\ n + 1 = parts[r][i].packs /\ packs' = With(packs, <<r, i, n + 1>>, The(r))
        /\ DOMAIN parts'[r] = DOMAIN parts[r] /\ parts'[r][i].packs = n
        /\ \A j \in DOMAIN parts[r] \ {i} : parts'[r][j] = parts[r][j]
  BY DEF MakesPack
<1>2. PICK m \in Nat : m = PartsOf(call[r].body)[i].packs /\ n + 1 <= m
  <2>1. TaskTyped(r, i) BY <1>1 DEF TypeInv, RequestTyped, TasksTyped
  <2>2. call[r].body \in Body /\ i \in DOMAIN PartsOf(call[r].body)
    BY <2>1, BodyTyped DEF TypeInv, TaskTyped
  <2>3. PartsOf(call[r].body)[i].packs \in Nat BY <2>2, PartsOfTyped
  <2> QED BY <1>1, <2>1, <2>3 DEF TaskTyped
<1>3. (n + 1)..m = ((n + 1) + 1)..m \cup {n + 1} BY <1>2
<1> DEFINE made(j) ==
      {<<r, j, k>> : k \in (parts[r][j].packs + 1)..PartsOf(call[r].body)[j].packs}
<1>4. made(i)' = made(i) \cup {<<r, i, n + 1>>} BY <1>1, <1>2, <1>3
<1>5. \A j \in DOMAIN parts[r] \ {i} : made(j)' = made(j) BY <1>1
<1>6. /\ MadeSoFar(r) = UNION {made(j) : j \in DOMAIN parts[r]}
      /\ MadeSoFar(r)' = UNION {made(j)' : j \in DOMAIN parts[r]}
  BY <1>1 DEF MadeSoFar
<1> HIDE DEF made
<1>7. MadeSoFar(r)' = MadeSoFar(r) \cup {<<r, i, n + 1>>} BY <1>4, <1>5, <1>6
<1> QED BY <1>1, <1>7

LEMMA PartFits ==
    ASSUME TypeInv, Together, PacksInv, [Next]_vars, NEW r \in Requests, Works(r),
           NEW p \in Target(r)', p \in DOMAIN products, Calm(p)', Part(r)
    PROVE  Fits(r, p)'
<1>1. pc'[r] = "parts" /\ call' = call /\ read' = read
  <2>1. PICK i \in DOMAIN parts[r] : MakePack(r, i) \/ CheckSupplier(r, i) \/ LinkVariant(r, i)
    BY DEF Part
  <2>2. PICK part : PartMoves(r, i, part)
    BY <2>1, MakePackMoves, CheckSupplierMoves, LinkVariantMoves
  <2>3. pc[r] \in {"parts", "failed"} /\ DOMAIN pc = Requests
    BY <2>2, PartMovesTyped DEF TypeInv, TypeOK
  <2>4. pc'[r] # "failed" BY DEF Calm
  <2>5. read' = read /\ call' = call BY <2>2 DEF PartMoves, MovesOnly
  <2> QED BY <2>2, <2>3, <2>4, <2>5 DEF PartMoves
<1>2. /\ products' = products /\ pc[r] = "parts" /\ Target(r) = {The(r)}
      /\ \/ MakesPack(r)
         \/ /\ packs' = packs /\ DOMAIN parts'[r] = DOMAIN parts[r]
            /\ \A j \in DOMAIN parts[r] : parts'[r][j].packs = parts[r][j].packs
  BY <1>1, PartPacks
<1>3. Target(r)' = Target(r) /\ p = The(r) BY <1>1, <1>2 DEF Target
<1>4. PacksOf({p}) = MadeSoFar(r) /\ (call[r].op = "create" => Bare(p))
  BY <1>2, <1>3, TasksFit
<1>5. PacksOf({p})' = MadeSoFar(r)'
  <2>1. CASE /\ packs' = packs /\ DOMAIN parts'[r] = DOMAIN parts[r]
             /\ \A j \in DOMAIN parts[r] : parts'[r][j].packs = parts[r][j].packs
    <3>1. MadeSoFar(r)' = MadeSoFar(r) BY <1>1, <2>1 DEF MadeSoFar
    <3> QED BY <1>4, <2>1, <3>1 DEF PacksOf
  <2>2. CASE MakesPack(r)
    <3>1. PICK k : packs' = With(packs, k, p) /\ MadeSoFar(r)' = MadeSoFar(r) \cup {k}
      BY <1>1, <1>3, <2>2, TaskMakes
    <3>2. PacksOf({p})' = PacksOf({p}) \cup {k} BY <3>1 DEF PacksOf, With
    <3> QED BY <1>4, <3>1, <3>2
  <2> QED BY <1>2, <2>1, <2>2
<1>6. call'[r].op = "create" => Bare(p)' BY <1>1, <1>2, <1>4 DEF Bare
<1> QED BY <1>1, <1>5, <1>6 DEF Fits, PhaseFits, Halfway

\* The rows of a file list the packs that come with them.
LEMMA UploadedLists ==
    ASSUME TypeInv, NEW r \in Requests, CommitUpload(r), NEW i \in DOMAIN RowsOf[call[r].file]
    PROVE  ListedPacks(UploadedRow(r, i)) = UploadedPacks(r, i)
<1>a. CASE InBulk(r)
  BY <1>a DEF UploadedRow, UploadedPacks, ListedPacks, Range
<1>b. SUFFICES ASSUME ~ InBulk(r)
               PROVE  ListedPacks(UploadedRow(r, i)) = UploadedPacks(r, i)
  BY <1>a
<1>1. PICK vs : vs = RowsOf[call[r].file][i].variants OBVIOUS
<1>2. vs \in Seq(Codes)
  <2>1. call[r].file \in Files BY CommitRows
  <2>2. RowsOf[call[r].file] \in Seq(FileRow) BY <2>1, CatalogueAssumption
  <2>3. RowsOf[call[r].file][i] \in FileRow BY <2>2
  <2> QED BY <1>1, <2>3 DEF FileRow
<1>3. PICK n \in Nat : n = Len(vs) /\ DOMAIN vs = 1..n BY <1>2
<1>4. PICK row :
        /\ row = UploadedRow(r, i)
        /\ row.packIds = IF vs = <<>> THEN {<<r, i, 0>>} ELSE {}
        /\ row.variants = [j \in DOMAIN vs |->
                            [code |-> vs[j], packs |-> {<<r, i, j>>}, qty |-> 0]]
  <2>1. UploadedRow(r, i).packIds = IF vs = <<>> THEN {<<r, i, 0>>} ELSE {}
    BY <1>b, <1>1 DEF UploadedRow
  <2>2. UploadedRow(r, i).variants = [j \in DOMAIN vs |->
                            [code |-> vs[j], packs |-> {<<r, i, j>>}, qty |-> 0]]
    BY <1>b, <1>1 DEF UploadedRow
  <2> QED BY <2>1, <2>2
<1>5. UNION {v.packs : v \in Range(row.variants)} = {<<r, i, j>> : j \in 1..n}
  BY <1>3, <1>4 DEF Range
<1>6. UploadedPacks(r, i) = {<<r, i, j>> : j \in IF n = 0 THEN {0} ELSE 1..n}
  BY <1>b, <1>1, <1>3 DEF UploadedPacks
<1>7. CASE n = 0
  <2>1. vs = <<>> /\ 1..n = {} BY <1>2, <1>3, <1>7
  <2> QED BY <1>4, <1>5, <1>6, <1>7, <2>1 DEF ListedPacks
<1>8. CASE n # 0
  <2>1. vs # <<>> BY <1>2, <1>3, <1>8
  <2> QED BY <1>4, <1>5, <1>6, <1>8, <2>1 DEF ListedPacks
<1> QED BY <1>7, <1>8

LEMMA CommitUploadFits ==
    ASSUME TypeInv, RowsAreFresh, PackOwners, NEW r \in Requests, NEW p \in Target(r)',
           CommitUpload(r)
    PROVE  Fits(r, p)'
<1>1. PICK i \in DOMAIN RowsOf[call[r].file] : p = <<r, i>> BY CommitPacks
<1>2. products'[p] = UploadedRow(r, i) /\ Target(r) = {} /\ pc'[r] = "ok"
  BY <1>1, CommitRows DEF CommitUpload, Goto, TypeInv, TypeOK
<1>3. p \notin DOMAIN products /\ \A k \in DOMAIN packs : k[1] # r
  BY <1>1, <1>2 DEF RowsAreFresh, PackOwners, Owned
<1>4. ASSUME NEW k \in PacksOf({p})'
      PROVE  k \in UploadedPacks(r, i)
  <2>1. k \in DOMAIN packs' /\ packs'[k] = p BY <1>4 DEF PacksOf
  <2>2. k[1] = r
    <3>1. ASSUME k[1] # r PROVE FALSE
      <4>1. k \in DOMAIN packs /\ packs[k] = p BY <2>1, <3>1, CommitPacks
      <4> QED BY <1>3, <4>1 DEF TypeInv, TypeOK
    <3> QED BY <3>1
  <2>3. packs'[k] = <<r, k[2]>> /\ k \in UploadedPacks(r, k[2])
    BY <1>3, <2>1, <2>2, CommitPacks
  <2>4. k[2] = i BY <1>1, <2>1, <2>3
  <2> QED BY <2>3, <2>4
<1>5. UploadedPacks(r, i) \subseteq PacksOf({p})' BY <1>1, CommitPacks DEF PacksOf
<1>6. ListedPacks(products'[p]) = PacksOf({p})' BY <1>2, <1>4, <1>5, UploadedLists
<1> QED BY <1>2, <1>6, ListedAgrees DEF Fits, PhaseFits

\* The one product of a request that works on one.
LEMMA OneOf ==
    ASSUME TypeInv, NEW r \in Requests, call[r].op \in OneTarget, pc[r] # "refused",
           Target(r)' = Target(r), NEW p \in Target(r)'
    PROVE  Target(r) = {p} /\ p = The(r)
<1>1. Target(r) = {The(r)} BY TheIsTarget DEF TypeInv
<1> QED BY <1>1

LEMMA DeletePackFits ==
    ASSUME TypeInv, Together, PacksInv, PackOwners, [Next]_vars, NEW r \in Requests, Works(r),
           NEW p \in Target(r)', p \in DOMAIN products, Calm(p)', DeletePack(r)
    PROVE  Fits(r, p)'
<1>1. /\ packs' = Without(packs, {call[r].pack}) /\ products' = products
      /\ pc[r] = "pack" /\ pc'[r] = "unlist" /\ call' = call /\ read' = read
      /\ Target(r)' = Target(r)
  BY DEF DeletePack, locals, Target, Goto, TypeInv, TypeOK
<1>2. PhaseFits(r, p) /\ Agrees(p) BY <1>1, SoleFits DEF Halfway
<1>3. PacksOf({p})' = PacksOf({p}) \ {call[r].pack} BY <1>1 DEF PacksOf, Without
<1>4. Unlisted(r, p)' BY <1>1, <1>2, <1>3, DidGrows DEF Unlisted, Agrees
<1>5. read'[r][p] = products'[p] BY <1>1, <1>2 DEF PhaseFits
<1> QED BY <1>1, <1>4, <1>5 DEF Fits, PhaseFits, Halfway

LEMMA UnlistPackFits ==
    ASSUME TypeInv, Together, PacksInv, [Next]_vars, NEW r \in Requests, Works(r),
           NEW p \in Target(r)', p \in DOMAIN products, Calm(p)', UnlistPack(r)
    PROVE  Fits(r, p)'
<1>1. /\ packs' = packs /\ call[r].op = "deletePack" /\ call' = call /\ pc[r] = "unlist"
      /\ pc'[r] = "ok" /\ Target(r)' = Target(r)
  BY StepOps DEF UnlistPack, locals, Target, Goto, TypeInv, TypeOK
<1>2. p = The(r) BY <1>1, OneOf DEF OneTarget
<1>3. PhaseFits(r, p) BY <1>1, SoleFits
<1>4. Unlisted(r, p) /\ read[r][p] = products[p] BY <1>1, <1>3 DEF PhaseFits
<1>5. products' = [products EXCEPT ![p].packIds = products[p].packIds \ {call[r].pack}]
  BY <1>2, <1>4 DEF UnlistPack
<1>6. /\ products'[p].packIds = products[p].packIds \ {call[r].pack}
      /\ products'[p].variants = products[p].variants
  <2>1. products[p] \in Product BY DEF TypeInv, TypeOK
  <2> QED BY <1>5, <2>1 DEF Product
<1>7. PacksOf({p})' = PacksOf({p}) BY <1>1 DEF PacksOf
<1>8. DidOn(p, {"deletePack"})' BY <1>1 DEF DidOn
<1>9. DidOn(p, {"deleteVariant", "deleteSelected"}) =>
        DidOn(p, {"deleteVariant", "deleteSelected"})'
  BY DidGrows
<1>10. ListedPacks(products[p]) \ {call[r].pack} \subseteq ListedPacks(products'[p])
  BY <1>6 DEF ListedPacks
<1>11. Agrees(p)' BY <1>4, <1>6, <1>7, <1>8, <1>9, <1>10 DEF Agrees, Unlisted
<1> QED BY <1>1, <1>11 DEF Fits, PhaseFits

LEMMA WriteQuantityFits ==
    ASSUME TypeInv, Together, PacksInv, [Next]_vars, NEW r \in Requests, Works(r),
           NEW p \in Target(r)', p \in DOMAIN products, Calm(p)', WriteQuantity(r)
    PROVE  Fits(r, p)'
<1>1. /\ packs' = packs /\ pc[r] = "quantity" /\ pc'[r] = "ok"
      /\ products' = [products EXCEPT ![The(r)].qty = call[r].qty]
  BY DEF WriteQuantity, Goto, TypeInv, TypeOK
<1>2. /\ products'[p].packIds = products[p].packIds
      /\ products'[p].variants = products[p].variants
  <2>1. products[p] \in Product BY DEF TypeInv, TypeOK
  <2> QED BY <1>1, <2>1 DEF Product
<1>3. Agrees(p) /\ PacksOf({p})' = PacksOf({p}) BY <1>1, SoleFits DEF PacksOf, Halfway
<1> QED BY <1>1, <1>2, <1>3, AgreesKept DEF Fits, PhaseFits

\* The array that r writes lists no pack that the array it read does not, and
\* all of them unless it deletes variants.
LEMMA NewVariantsPacks ==
    ASSUME TypeInv, NEW r \in Requests, NEW p \in Target(r), call[r].op \in VariantOps
    PROVE  LET was == UNION {v.packs : v \in Range(read[r][p].variants)}
               new == UNION {v.packs : v \in Range(NewVariants(r, p))}
           IN  /\ new \subseteq was
               /\ call[r].op \in {"setVariant", "sellVariant"} => new = was
<1>1. /\ read[r][p] \in Product /\ call[r].codes \in SUBSET Codes /\ call[r].qty \in Int
      /\ CodesOf(read[r][p].variants) \cap call[r].codes # {}
  BY DEF TypeInv, RequestTyped, OnTarget, CallTyped
<1>2. PICK vs \in Seq(Variant), C \in SUBSET Codes, n \in Int :
        vs = read[r][p].variants /\ C = call[r].codes /\ n = call[r].qty
  BY <1>1 DEF Product
<1>3. QtyOf(vs, C) \in Int
  <2>1. PICK i \in DOMAIN vs : QtyOf(vs, C) = vs[i].qty BY <1>1, <1>2, FirstHit
  <2>2. vs[i] \in Variant OBVIOUS
  <2> QED BY <2>1, <2>2 DEF Variant
<1>4. ASSUME NEW m \in Int
      PROVE  UNION {v.packs : v \in Range(Set(vs, C, m))} = UNION {v.packs : v \in Range(vs)}
  <2>1. /\ DOMAIN Set(vs, C, m) = DOMAIN vs
        /\ \A i \in DOMAIN vs : Set(vs, C, m)[i].packs = vs[i].packs
    BY SetTyped
  <2>2. PICK ws : ws = Set(vs, C, m) OBVIOUS
  <2> QED BY <2>1, <2>2 DEF Range
<1>5. UNION {v.packs : v \in Range(Others(vs, C))} \subseteq UNION {v.packs : v \in Range(vs)}
  <2>1. ASSUME NEW j \in DOMAIN Others(vs, C)
        PROVE  \E i \in DOMAIN vs : Others(vs, C)[j] = vs[i]
    <3>1. /\ Nth(Kept(vs, C), j) \in Kept(vs, C)
          /\ Others(vs, C)[j] = vs[Nth(Kept(vs, C), j)]
      BY OthersTyped
    <3>2. Kept(vs, C) \subseteq DOMAIN vs BY DEF Kept
    <3> QED BY <3>1, <3>2
  <2>2. PICK ws : ws = Others(vs, C) OBVIOUS
  <2> QED BY <2>1, <2>2 DEF Range
<1>6. QtyOf(vs, C) - n \in Int BY <1>3
<1>7. PICK m \in Int : m = QtyOf(vs, C) - n BY <1>6
<1>8. /\ call[r].op = "setVariant" => NewVariants(r, p) = Set(vs, C, n)
      /\ call[r].op = "sellVariant" => NewVariants(r, p) = Set(vs, C, m)
      /\ call[r].op \notin {"setVariant", "sellVariant"} => NewVariants(r, p) = Others(vs, C)
  BY <1>2, <1>7 DEF NewVariants
<1> QED BY <1>2, <1>4, <1>5, <1>8 DEF VariantOps

LEMMA WriteVariantsFits ==
    ASSUME TypeInv, Together, PacksInv, [Next]_vars, NEW r \in Requests, Works(r),
           NEW p \in Target(r)', p \in DOMAIN products, Calm(p)',
           NEW q \in todo[r], WriteVariants(r, q)
    PROVE  Fits(r, p)'
<1>1. /\ packs' = packs /\ call[r].op \in VariantOps /\ call' = call /\ pc[r] = "variants"
      /\ pc'[r] \in {"ok", "variants"} /\ Target(r)' = Target(r) /\ read' = read
      /\ todo'[r] = todo[r] \ {q} /\ PacksOf({p})' = PacksOf({p})
  BY WriteVariantsEffect DEF WriteVariants, Target, Goto, TypeInv, TypeOK, PacksOf
<1>2. PhaseFits(r, p) /\ Agrees(p) BY <1>1, SoleFits DEF Halfway
<1>3. /\ p # q => products'[p] = products[p]
      /\ p = q => /\ products'[p].packIds = products[p].packIds
                  /\ products'[p].variants = NewVariants(r, p)
  <2>1. PICK b \in BOOLEAN : products' = [products EXCEPT ![q] =
          [products[q] EXCEPT !.variants = NewVariants(r, q), !.hasVariants = b]]
    BY WriteVariantsEffect
  <2>2. products[p] \in Product BY DEF TypeInv, TypeOK
  <2> QED BY <2>1, <2>2 DEF Product
<1>4. Agrees(p)'
  <2>1. CASE p # q BY <1>1, <1>2, <1>3, <2>1, AgreesKept
  <2>2. CASE p = q
    <3>1. read[r][p] = products[p] /\ p \in Target(r) BY <1>1, <1>2, <2>2 DEF PhaseFits
    <3> DEFINE was == UNION {v.packs : v \in Range(products[p].variants)}
               new == UNION {v.packs : v \in Range(NewVariants(r, p))}
    <3>2. /\ new \subseteq was
          /\ call[r].op \in {"setVariant", "sellVariant"} => new = was
      BY <1>1, <3>1, NewVariantsPacks
    <3>3. /\ ListedPacks(products[p]) = products[p].packIds \cup was
          /\ ListedPacks(products'[p]) = products[p].packIds \cup new
      BY <1>3, <2>2 DEF ListedPacks
    <3>4. DidOn(p, {"deletePack"}) => DidOn(p, {"deletePack"})' BY DidGrows
    <3>5. DidOn(p, {"deleteVariant", "deleteSelected"}) =>
            DidOn(p, {"deleteVariant", "deleteSelected"})'
      BY DidGrows
    <3>6. call[r].op \in {"deleteVariant", "deleteSelected"} =>
            DidOn(p, {"deleteVariant", "deleteSelected"})'
      BY <1>1 DEF DidOn
    <3>7. call[r].op \in {"setVariant", "sellVariant", "deleteVariant", "deleteSelected"}
      BY <1>1 DEF VariantOps
    <3> HIDE DEF was, new
    <3> QED BY <1>1, <1>2, <1>3, <2>2, <3>2, <3>3, <3>4, <3>5, <3>6, <3>7 DEF Agrees
  <2> QED BY <2>1, <2>2
<1>5. PhaseFits(r, p)'
  <2>1. p \in todo'[r] => read'[r][p] = products'[p] BY <1>1, <1>2, <1>3 DEF PhaseFits
  <2> QED BY <1>1, <2>1 DEF PhaseFits
<1> QED BY <1>4, <1>5 DEF Fits

LEMMA FindSuppliersFits ==
    ASSUME TypeInv, Together, PacksInv, [Next]_vars, NEW r \in Requests, Works(r),
           NEW p \in Target(r)', p \in DOMAIN products, Calm(p)', FindSuppliers(r)
    PROVE  Fits(r, p)'
<1>1. /\ pc[r] = "suppliers" /\ UNCHANGED <<products, packs>> /\ Target(r)' = Target(r)
      /\ pc'[r] \in {"links", "failed"}
  BY DEF FindSuppliers, Throws, Goto, locals, db, Target, TypeInv, TypeOK
<1>2. pc'[r] = "links" BY <1>1 DEF Calm
<1>3. PhaseFits(r, p) /\ Agrees(p) /\ PacksOf({p})' = PacksOf({p})
  BY <1>1, SoleFits DEF Halfway, PacksOf
<1>4. Agrees(p)' /\ (Bare(p) => Bare(p)') BY <1>1, <1>3, AgreesKept DEF Bare
<1> QED BY <1>1, <1>2, <1>3, <1>4 DEF Fits, PhaseFits

\* The steps that write neither a product nor a pack.
LEMMA StillFits ==
    ASSUME TypeInv, Together, PacksInv, [Next]_vars, NEW r \in Requests, Works(r),
           NEW p \in Target(r)', p \in DOMAIN products, Calm(p)',
           \/ Unlink(r) \/ Relink(r) \/ FindBatch(r) \/ CleanFiles(r) \/ FinishAssign(r)
           \/ \E j \in jobs[r] : ReadLinks(r, j) \/ AssignLink(r, j)
    PROVE  Fits(r, p)'
<1>1. pc'[r] # "failed" /\ DOMAIN pc = Requests BY DEF Calm, TypeInv, TypeOK
<1>2. CASE Unlink(r) \/ Relink(r) \/ FindBatch(r) \/ CleanFiles(r) \/ FinishAssign(r)
  <2>1. /\ UNCHANGED <<products, packs>> /\ pc[r] \notin Halfway
        /\ pc'[r] \in {"ok", "relink", "clean", "batch"}
    BY <1>1, <1>2 DEF Unlink, Relink, FindBatch, CleanFiles, FinishAssign, Goto, db, Halfway
  <2> QED BY <2>1, SameTables DEF Halfway
<1>3. ASSUME NEW j \in jobs[r], ReadLinks(r, j) \/ AssignLink(r, j)
      PROVE  Fits(r, p)'
  <2>1. UNCHANGED <<products, packs, pc>> /\ call[r].op = "assign"
    BY <1>3, AssignStepTyped DEF ReadLinks, AssignLink, db
  <2>2. pc[r] \notin {"suppliers", "links", "parts", "erase", "pack", "unlist", "variants"}
    BY <2>1 DEF TypeInv, RequestTyped, InPhase, VariantOps
  <2> QED BY <2>1, <2>2, SameTables DEF Halfway
<1> QED BY <1>2, <1>3

\* After a step of r, a calm product that r works on is as r left it.
LEMMA StepFits ==
    ASSUME TypeInv, Together, RowsAreFresh, PackOwners, PacksInv, [Next]_vars,
           NEW r \in Requests, Works(r), NEW p \in Target(r)', p \in DOMAIN products', Calm(p)'
    PROVE  Fits(r, p)'
<1>0. pc'[r] # "failed" /\ DOMAIN pc = Requests BY DEF Calm, TypeInv, TypeOK
<1>1. CASE CreateProduct(r) BY <1>1, CreateProductFits
<1>2. CASE CommitUpload(r) BY <1>2, CommitUploadFits
<1>3. (~ CreateProduct(r) /\ ~ CommitUpload(r)) => p \in DOMAIN products
  <2>1. CASE WriteUpdate(r) BY <2>1, WriteUpdateEffect
  <2>2. CASE ~ WriteUpdate(r) BY <2>2, CodesStay
  <2> QED BY <2>1, <2>2
<1>4. ASSUME ~ CreateProduct(r), ~ CommitUpload(r)
      PROVE  Fits(r, p)'
  <2>0. p \in DOMAIN products BY <1>3, <1>4
  <2>1. CASE FinishCreate(r) \/ WriteUpdate(r) \/ WipePacks(r)
    BY <2>0, <2>1, FinishCreateFits, WriteUpdateFits, WipePacksFits
  <2>2. CASE Part(r) BY <2>0, <2>2, PartFits
  <2>3. ASSUME NEW j \in jobs[r], MakeLink(r, j)
        PROVE  Fits(r, p)'
    BY <2>0, <2>3, MakeLinkFits
  <2>4. CASE FindSuppliers(r) BY <2>0, <2>4, FindSuppliersFits
  <2>5. CASE DeletePack(r) \/ UnlistPack(r) \/ WriteQuantity(r)
    BY <2>0, <2>5, DeletePackFits, UnlistPackFits, WriteQuantityFits
  <2>6. ASSUME NEW q \in todo[r], WriteVariants(r, q)
        PROVE  Fits(r, p)'
    BY <2>0, <2>6, WriteVariantsFits
  <2>7. CASE \/ Unlink(r) \/ Relink(r) \/ FindBatch(r) \/ CleanFiles(r) \/ FinishAssign(r)
             \/ \E j \in jobs[r] : ReadLinks(r, j) \/ AssignLink(r, j)
    BY <2>0, <2>7, StillFits
  <2>8. CASE DeletePacks(r)
    <3>1. pc'[r] = "erase" BY <1>0, <2>8 DEF DeletePacks, Goto
    <3> QED BY <3>1 DEF Fits, PhaseFits, Halfway
  <2>9. CASE DeleteRows(r) \/ DeleteBatch(r)
    <3>1. Target(r)' = Target(r) /\ products' = Without(products, Target(r))
      BY <2>9 DEF DeleteRows, DeleteBatch, Erase, locals, Target
    <3> QED BY <3>1 DEF Without
  <2>10. CASE \/ RelinkThrows(r) \/ PartsThrow(r) \/ DeleteThrows(r) \/ BatchThrows(r)
              \/ DeletePackThrows(r) \/ WriteThrows(r) \/ NoConnection(r)
    BY <1>0, <2>10 DEF RelinkThrows, PartsThrow, DeleteThrows, BatchThrows,
                       DeletePackThrows, WriteThrows, NoConnection, Throws, Goto
  <2>11. CASE Register(r) \/ Row(r) \/ MarkFailed(r) \/ UploadExpires(r)
    <3>1. Target(r) = {}
      BY <2>11 DEF Register, Row, MarkFailed, UploadExpires, Uploading, TypeInv,
                   RequestTyped, OnTarget
    <3>2. Target(r)' = Target(r)
      BY <2>11 DEF Register, Row, MarkFailed, UploadExpires, locals, Target
    <3> QED BY <3>1, <3>2
  <2> QED
    BY <1>4, <2>1, <2>2, <2>3, <2>4, <2>5, <2>6, <2>7, <2>8, <2>9, <2>10, <2>11
       DEF Works, Step, Link_
<1> QED BY <1>1, <1>2, <1>4

\* What is to be shown of p after a step.
PacksFit(p) ==
    Calm(p) => /\ Settled(p) => Agrees(p)
               /\ \A r \in Requests : p \in Target(r) => PhaseFits(r, p)

LEMMA WorksFits ==
    ASSUME TypeInv, Together, RowsAreFresh, PackOwners, PacksInv, [Next]_vars,
           NEW r \in Requests, Works(r), NEW p \in DOMAIN products', Calm(p)'
    PROVE  PacksFit(p)'
<1>1. Calm(p) /\ OthersStay(r) BY CalmBack, WorksMovesOnly DEF MovesOnly
<1>2. \A q \in Requests \ {r} : Target(q)' = Target(q) BY <1>1, OthersBusy
<1>3. CASE p \in Target(r)'
  <2>1. Fits(r, p)' BY <1>3, StepFits
  <2>2. ASSUME NEW q \in Requests \ {r}, p \in Target(q)'
        PROVE  PhaseFits(q, p)'
    <3>1. pc'[q] = "ok"
      <4>1. ~ Busy(q) /\ p \in Target(q) /\ pc'[q] = pc[q]
        BY <1>1, <1>2, <1>3, <2>2, Sole DEF Calm, OthersStay
      <4>2. pc[q] \notin {"failed", "idle", "refused"}
        BY <1>1, <4>1 DEF Calm, TypeInv, RequestTyped, OnTarget
      <4> QED BY <4>1, <4>2 DEF Busy, InFlight, Ended
    <3> QED BY <3>1 DEF PhaseFits
  <2>3. Settled(p)' => pc'[r] \notin Halfway BY <1>3 DEF Settled
  <2> QED BY <2>1, <2>2, <2>3 DEF PacksFit, Fits
<1>4. CASE p \notin Target(r)'
  <2>1. p \in DOMAIN products /\ products'[p] = products[p] /\ p \notin Target(r)
        /\ PacksOf({p})' = PacksOf({p})
    BY <1>4, Frame, PacksFrame, WorksMovesOnly DEF MovesOnly
  <2>2. ASSUME NEW q \in Requests, p \in Target(q)'
        PROVE  PhaseFits(q, p)' /\ p \in Target(q) /\ pc'[q] = pc[q]
    <3>1. q # r /\ p \in Target(q) BY <1>2, <1>4, <2>2
    <3>2. PhaseFits(q, p) BY <1>1, <2>1, <3>1 DEF PacksInv
    <3>3. /\ pc'[q] = pc[q] /\ call'[q] = call[q] /\ read'[q] = read[q]
          /\ parts'[q] = parts[q] /\ todo'[q] = todo[q]
      BY <1>1, <3>1 DEF OthersStay
    <3> QED BY <2>1, <3>1, <3>2, <3>3, FitsKept
  <2>3. Settled(p)' => Settled(p)
    <3>1. ASSUME Settled(p)', NEW q \in Requests, p \in Target(q)
          PROVE  pc[q] \notin Halfway
      <4>1. q # r /\ p \in Target(q)' /\ pc'[q] = pc[q]
        BY <1>1, <1>2, <2>1, <3>1 DEF OthersStay
      <4> QED BY <3>1, <4>1 DEF Settled
    <3> QED BY <3>1 DEF Settled
  <2>4. Settled(p) => Agrees(p) BY <1>1, <2>1 DEF PacksInv
  <2>5. Agrees(p) => Agrees(p)' BY <2>1, AgreesKept
  <2> QED BY <2>2, <2>3, <2>4, <2>5 DEF PacksFit
<1> QED BY <1>3, <1>4

LEMMA ReceiveFits ==
    ASSUME TypeInv, PacksInv, [Next]_vars,
           NEW r \in Requests, Receive(r), NEW p \in DOMAIN products', Calm(p)'
    PROVE  PacksFit(p)'
<1>1. PICK S \in SUBSET DOMAIN products : Begins(r, S) BY ReceiveBegins
<1>2. /\ UNCHANGED <<products, packs>> /\ OthersStay(r) /\ Target(r) = {} /\ Target(r)' = S
      /\ Calm(p) /\ p \in DOMAIN products /\ PacksOf({p})' = PacksOf({p})
      /\ pc[r] = "idle" /\ pc'[r] \notin Halfway \cup {"suppliers", "links"}
      /\ read'[r] = [q \in S |-> products[q]]
  BY <1>1, BeginsBusy, CalmBack DEF Begins, db, PacksOf, Halfway
<1>3. \A q \in Requests \ {r} : Target(q)' = Target(q) BY <1>2, OthersBusy
<1>4. ASSUME NEW q \in Requests, p \in Target(q)'
      PROVE  PhaseFits(q, p)'
  <2>1. CASE q = r
    <3>1. read'[r][p] = products'[p] BY <1>2, <1>4, <2>1
    <3> QED BY <1>2, <2>1, <3>1 DEF PhaseFits, Halfway
  <2>2. CASE q # r
    <3>1. PhaseFits(q, p) BY <1>2, <1>3, <1>4, <2>2 DEF PacksInv
    <3>2. /\ pc'[q] = pc[q] /\ call'[q] = call[q] /\ read'[q] = read[q]
          /\ parts'[q] = parts[q] /\ todo'[q] = todo[q]
      BY <1>2, <2>2 DEF OthersStay
    <3> QED BY <1>2, <3>1, <3>2, FitsKept
  <2> QED BY <2>1, <2>2
<1>5. Settled(p)' => Settled(p)
  <2>1. ASSUME Settled(p)', NEW q \in Requests, p \in Target(q)
        PROVE  pc[q] \notin Halfway
    <3>1. q # r /\ p \in Target(q)' /\ pc'[q] = pc[q] BY <1>2, <1>3, <2>1 DEF OthersStay
    <3> QED BY <2>1, <3>1 DEF Settled
  <2> QED BY <2>1 DEF Settled
<1>6. Settled(p) => Agrees(p) BY <1>2 DEF PacksInv
<1>7. Agrees(p) => Agrees(p)' BY <1>2, AgreesKept
<1> QED BY <1>4, <1>5, <1>6, <1>7 DEF PacksFit

LEMMA CrashFits ==
    ASSUME TypeInv, PacksInv, [Next]_vars, Crash, NEW p \in DOMAIN products', Calm(p)'
    PROVE  PacksFit(p)'
<1>1. /\ UNCHANGED <<products, packs, call, read, todo>> /\ p \in DOMAIN products
      /\ \A q \in Requests : Target(q)' = Target(q)
      /\ PacksOf({p})' = PacksOf({p}) /\ Calm(p)
  BY CalmBack DEF Crash, db, Target, PacksOf
<1>2. ASSUME NEW q \in Requests, p \in Target(q)
      PROVE  pc[q] = "ok" /\ pc'[q] = "ok"
  <2>1. pc[q] \notin {"idle", "refused", "failed"}
    BY <1>1, <1>2 DEF Calm, TypeInv, RequestTyped, OnTarget
  <2>2. ~ InFlight(q) BY <1>1, <1>2 DEF Crash, Calm
  <2> QED BY <2>1, <2>2 DEF Crash, InFlight, Ended
<1>3. Agrees(p)
  <2>1. Settled(p) BY <1>2 DEF Settled, Halfway
  <2> QED BY <1>1, <2>1 DEF PacksInv
<1>4. Agrees(p)' BY <1>1, <1>3, AgreesKept
<1>5. ASSUME NEW q \in Requests, p \in Target(q)'
      PROVE  PhaseFits(q, p)'
  BY <1>1, <1>2, <1>5 DEF PhaseFits
<1> QED BY <1>4, <1>5 DEF PacksFit

LEMMA PacksInvNext ==
    TypeInv /\ Together /\ RowsAreFresh /\ PackOwners /\ PacksInv /\ [Next]_vars => PacksInv'
<1> SUFFICES ASSUME TypeInv, Together, RowsAreFresh, PackOwners, PacksInv, [Next]_vars,
                    NEW p \in DOMAIN products', Calm(p)'
             PROVE  PacksFit(p)'
  BY DEF PacksInv, PacksFit
<1>1. CASE UNCHANGED vars
  <2>1. /\ UNCHANGED <<products, packs, call, read, todo, parts, pc>> /\ p \in DOMAIN products
        /\ PacksOf({p})' = PacksOf({p}) /\ Calm(p)
    BY <1>1, CalmBack DEF vars, db, locals, PacksOf
  <2>2. Settled(p)' => Settled(p) BY <2>1 DEF Settled, Target
  <2>3. Agrees(p) => Agrees(p)' BY <2>1, AgreesKept
  <2>4. ASSUME NEW q \in Requests, p \in Target(q)'
        PROVE  PhaseFits(q, p)'
    <3>1. p \in Target(q) BY <2>1, <2>4 DEF Target
    <3> QED BY <2>1, <3>1, FitsKept DEF PacksInv
  <2> QED BY <2>1, <2>2, <2>3, <2>4 DEF PacksFit, PacksInv
<1> QED BY <1>1, WorksFits, ReceiveFits, CrashFits DEF Next, Works

\* The packs a product lists are its packs, unless requests that worked on it
\* overlapped or failed; a pack deleted on its own stays in the list of its
\* variant, and a variant that is deleted leaves its packs.
THEOREM PacksAreListed == SeedPacksAgree /\ Spec => []PacksAgree
<1>1. PacksInv => PacksAgree
  <2> SUFFICES ASSUME PacksInv, NEW p \in DOMAIN products, Quiet(p)
               PROVE  /\ ~ DidOn(p, {"deletePack"}) =>
                           ListedPacks(products[p]) \subseteq PacksOf({p})
                      /\ ~ DidOn(p, {"deleteVariant", "deleteSelected"}) =>
                           PacksOf({p}) \subseteq ListedPacks(products[p])
                      /\ products[p].packIds \subseteq PacksOf({p})
    BY DEF PacksAgree
  <2>1. Calm(p) /\ Settled(p) BY DEF Quiet, Calm, Settled, Halfway
  <2> QED BY <2>1 DEF PacksInv, Agrees
<1> QED
  BY <1>1, PacksInvInit, PacksInvNext, TypeInvHolds, TogetherHolds, FreshHolds,
     PackOwnersHold, PTL DEF Spec

===============================================================================
