# Accurack backend: verification in TLA+

The Accurack backend is a NestJS server on PostgreSQL (through Prisma): a point
of sale and inventory system of many tenants.  This directory holds TLA+ models
of its core, the TLC configurations that check them, and proofs that TLAPS
checks.  `PROJECT.json` maps every definition to the lines it models.

## 1. The system

### How requests run

Every HTTP write is an async handler.  Node runs many of them at once, and each
`await` is a point where others go on.  All handlers share one Prisma client with
a pool of connections; `prisma.$transaction(async tx => ...)` takes a connection
for an interactive transaction at PostgreSQL's default level, Read Committed, and
rolls it back after five seconds.  **Only statements made through `tx` are part of
it.**  Services that are called from a transaction and use their own client
(`SaleInventoryService`, `SaleValidationService`, parts of
`CustomerBalanceService`) commit each statement on its own, while the transaction
is open and whether or not it commits later.  Nothing queues requests: two writes
of one sale, customer or product may overlap, and clients retry.

This is the hazard the project is about: sequences of statements that look like
one operation and are not.

### Components

| component | state | operations | how it interacts |
|---|---|---|---|
| Sales and their stock (`sales/sales.service.ts`, `sale-inventory`, `sale-validation`, `sale-return`) | Sales, SaleItem, SaleReturn; `itemQuantity` of products, `totalPacksQuantity` of packs | create, update, delete, delete all, return, upload a sheet | calls inventory and balance services from open transactions; writes entries of the ledger |
| Customer ledger (`sales/customer-balance.service.ts`, `customer/`) | BalanceSheet entries, `currentBalance` and `credits` of customers | payment, initial balance, refund, report, deletion of a customer | moves sales to DELIVERED; returns call it; deliveries write what payments read |
| Fulfilment (`status-management`, `order-processing`, `bulkAssignDriver`) | `Sales.status`, `assignedDriverId`, OrderProcessing, BalanceSheet | change of status, assignment of drivers, update, approval, rejection and cancellation of orders | writes orders and entries before the status |
| Drafts and history | SalesDraft, SalesDraftItems, SaleHistory | save, list, delete; append | a draft is saved again and again and copied into a sale by the client; rows of history lack the client the schema requires, so that none is ever written, and the error is swallowed |
| Products, packs, variants (`product/`) | Product, Pack, a JSON array of variants, ProductSupplier, FileUploadInventory | create, update, delete, delete all, upload, assign a supplier, delete packs and variants, quantities | sales change its quantities; suppliers are looked up |
| Authentication (`auth/`) | users, clients, tokens, one-time passwords, invitations | sign-up, codes, reset and change of a password, invite, accept, creation of a client | mails; gives default permissions; compensating actions when creation fails |
| Access: permissions and employees (`permissions/`, `employee/`, `guards/permissions.guard.ts`) | rows of rights, role templates, roles, employees, store maps | assign, assign in bulk, revoke, make, change and delete templates, assign templates, hire, invite, edit, set stores | read by the guard on every request |
| Users | profiles, excluded permissions | add and remove exclusions, update | read by the guard |
| Expenses (`expense/`) | a tree of directories with levels, sheets with columns, entries and values, a trash | create, rename and delete directories; create, replace, fill, delete sheets; export | sheets live in directories |
| Invoices (`invoice/`) | Business, Invoice | business information, next number of a store, create, update, delete softly | reads sales and customers; a business is linked to its user in a second commit |
| Taxes (`tax/`) | types, codes, regions, rates, assignments | single writes, bundles, assignment, replacement, calculation | read by sales |
| Suppliers, stores, customers (`supplier/`, `store/`, `customer/`) | Stores with settings, Suppliers, Customer | create, update, deactivate, lists | suppliers and customers belong to a store that must be open |
| Tenants (`tenant/`, `database/`) | Clients, status of their users | create, update, status, deletion of everything a tenant has | a deletion meets every other writer of the tenant |
| Drivers, validators | none of their own | reads; commented out | |
| Dashboard, metrics, health, mail, client | none | read only, I/O | |

### What is hard here, and what makes each component correct

* **Stock.**  Units in stock and units sold must add up.  An update puts every old
  line back and takes every new one, in autocommitted statements, around a
  `deleteMany` and a `create` in a transaction.  Overlapping writes, expired
  transactions, crashes, checks that are stale when the stock is decremented, and
  throws halfway through a loop all threaten it.
* **Rows.**  Lines and returns must belong to a sale that exists, and come from
  requests that committed, although deletions race with updates and returns.
* **Money.**  Entries, their statuses and the customer's running balance tell the
  same debt.  Payments distribute an amount over entries read before the
  transaction wrote anything.
* **Lifecycle.**  A status follows the table of transitions; a SHIPPED sale has an
  order, a DELIVERED one is in the books, although both are written by statements
  before the status, and requests die between them and are tried again.
* **Catalogue.**  A product lists its packs by id, and they are written, wiped and
  listed by different statements and by tasks that run side by side.  Variants
  live in one JSON value that is read, changed and written back.  Codes, primary
  suppliers and files are to be unique, and no constraint of the database says so
  of the first two.
* **Accounts.**  Codes, tokens and invitations work once.  An account is complete or
  absent, although user, client, roles and mails are steps that fail one by one.
* **Expenses.**  The tree keeps its levels and nothing in use sits in the trash.  Rows
  added to a sheet go to entries that are found again as its latest, while others
  add theirs or replace the sheet.
* **Access.**  An employee's rights are several rows, merged and reduced in memory and
  written back whole; its role, rights and stores are replaced by deletions and
  insertions.  No right may get lost or stay because two changes overlap, and no
  employee may end with two roles or none, or with a template that was deleted.
  What a list shows a user is computed by other queries than what the guard asks.
* **Office.**  Replacing the items of a draft or the assignments of a rate is a deletion
  and an insertion, and two of them may both insert.  Invoice numbers are texts, looked
  for in the order of texts.  Taxes are worked out in several ways that must agree.
  The status of a tenant is in its row and in those of its users, and its deletion is a
  list of some forty statements in an order that foreign keys must allow.

`PROJECT.json` lists the hazards one by one, at their lines.

## 2. Modules

| module | what it is |
|---|---|
| `SaleTypes` | the enums of the schema and the table of status transitions |
| `SaleStock` | writes of sales, lines, returns and stock, one step per statement |
| `CustomerLedger` | entries, balances and credits of customers |
| `SaleLifecycle` | the abstract promise of status management |
| `Fulfilment` | status changes, orders, assignments; implements `SaleLifecycle` |
| `Catalogue` | products, packs, variants, suppliers of products, uploads |
| `Accounts` | users, clients, codes, tokens, invitations |
| `Expenses` | directories and sheets of expenses |
| `Access` | rights, role templates, roles and stores of employees, the guard, and lists of permissions |
| `OfficeTables` | one database of tables with their foreign keys, cascades, locks and faults, for the five below |
| `Shops` | stores, suppliers, customers, exclusions of users, the making of users and their status |
| `Invoicing` | businesses, invoice numbers, invoices |
| `Taxes` | types, codes, regions, rates, assignments, and what taxes come to |
| `Drafts` | drafts of sales |
| `Tenants` | tenants, their status, their deletion |
| `Office` | the composition of these over one database |
| `MC...` | instances for TLC |
| `FoldTheorems` | sums over finite sets, folds and ranks, for the proofs |
| `..._proofs` | theorems and their proofs; those of `CustomerLedger` and of `Expenses` are in `Books_proofs` |

All components follow one scheme.  A request `r` is received at most once;
`pc[r]` names the statement it awaits, `call[r]` what it asks for, and further
variables hold what it has read.  `Receive(r)` are the actions that receive it and
carry out its first reads, `Step(r)` the actions that carry out one awaited
statement each.  `CustomerLedger` has names of its own for these (`awaits`, `ask`,
`got`, `met`; `Accept`, `LedgerStep`, `LedgerSpec`; its entries are `entered`), because `Books_proofs`
extends it together with `Expenses`.  Tables are sets of rows.  An exception is an action named
`...Throws`; a request ends as `ok`, or as `failed` / `refused` / `cut`.

### SaleStock

`Row`, `Return` are the rows of SaleItem and SaleReturn; a *slot* is what a line
sells (a product in one pack type) and a *bin* the counter it draws on.

* A transaction is a variable `tx[r]` (none, open, expired) with its uncommitted
  effects kept aside: `dels` and `gone` (rows deleted), `new` (rows inserted).
  `Committed` applies them, `Abort` drops them, `Expire` drops them while the
  callback goes on with base-client statements until it reaches for the
  transaction again (`Expired`).  `Crash` ends every request in flight.
* `deleteMany` is two steps: `DeleteRows` picks rows under the statement's
  snapshot, `LockRows` waits for other transactions' row locks and deletes what is
  still there, as Read Committed does.
* `POST /sales/create`: `BeginCreate`, `CheckLine`s, then `CreateRow` or
  `CreateRowThrows`, `TakeLine`s, `FinishCreate`.
* `PATCH /sales/:id`: `BeginUpdate`, `ReadOld`, a `RestoreLine` per old line,
  `DeleteRows`, `LockRows` (for a deletion, with the statements on returns and invoice that follow
  it in the transaction: nobody else sees or takes any of it before the commit), a `CheckLine` per new line, `InsertRows`, a `TakeLine` per
  line, `FinishUpdate`.
* `DELETE /sales/:id` and `DELETE /sales`: the same up to `LockRows`, then
  `DeleteEntries` (not for all sales) and `FinishDelete`, which the foreign keys may
  refuse (`FinishThrows`).
* `POST /sales/returns`: `BeginReturn` with the reads and checks, `InsertReturns`,
  `RestockLine`s, `Refund`, `FinishReturn` with the status computed at the start.

### CustomerLedger

Entries are numbered in the order they are written.  A payment reads its customer
(`BeginPayment`), reads the open entries (`ReadEntries`), distributes its amount
over them (`Allocation`, a fold in which the newest comes after all others) and commits
(`CommitPayment`): amounts are added by the database, statuses and totals are
written as computed from what was read.  `PaymentThrows` is the rollback.  Initial
balances, refunds (through the base client) and the deletion of a customer
(entries wiped in one statement, the customer deleted in another) complete it.

`PaymentsAreBooked` holds however payments overlap.  What a status tells does not:
overlapping payments overpay an entry and leave it PARTIAL, what is left to pay of it is
then negative, and payments that come later take that from their amount; two of those
leave it PAID with less paid than owed (`customer-balance.service.ts:119-140`).  It takes
four payments, so that the run, with three, does not show it; the proof of the invariant
failed there.  `StatusesTellPaid` is therefore about customers not in `met`.

### Fulfilment and SaleLifecycle

A change to SHIPPED looks for an order, creates one if none matches, rewrites what
the entries owe, and commits the status (`FindOrder`, `CreateOrder`, `ShipEntries`,
`CommitStatus`).  An order is taken for that of a sale if it has its id, or its customer, store,
name and amount (`LooksLike`, `SameOrder`).  So the second of two like sales ships without an order of its
own, and an edit that changes an amount (`Updated`; status and amount are each optional) can make an
order look like that of another sale; `ShippedHasOrder` names these cases (`Mistakable`) and asks for an order
with the sale's id in all others.  Amounts of sales and names of customers do not change in the model.  A change to DELIVERED finds an entry and updates it, or creates one.
`Cut` ends a request anywhere, what it wrote stays.  Other sources of steps are
assignments, edits of orders, and deletions, which take the entries away ahead of
their transaction.

`SaleLifecycle` is the specification a client of status management has in mind:
four sets and functions, one step per promise.  `Fulfilment` implements it under
`ordered <- Ordered, billed <- Billed`, provided no sale is written twice at a time.

### Catalogue

`products` are rows with their lists of packs and variants, `packs` gives the product
of each row of Pack, `links` the suppliers, `files` the uploads on record.

* `Promise.all` over variants is `parts[r]`, a task per variant that makes its packs
  (`MakePack`) and then looks up and links its supplier (`CheckSupplier`,
  `LinkVariant`), in any order with the others; `jobs[r]` are links made side by side
  (`MakeLink`).  When a task throws the request has failed, and the
  other tasks go on.
* Creation: `CreateProduct`, `FindSuppliers`, links, parts, `FinishCreate` (the row gets
  its list).  Update: `WipePacks`, parts, `WriteUpdate`, `Unlink`, `Relink`.
* Variants: a request reads whole rows (`BeginVariants`) and writes them back
  (`WriteVariants`); quantities are set or decremented by `WriteQuantity`.
* Deletions: packs, then rows; all products in batches, each a transaction.
* Upload: `Register` waits for a transaction that holds the same hash, `Row` checks a
  code, `CommitUpload` makes all of it visible, a rollback goes on to `MarkFailed`.  A sheet whose first
  row has no SKU (`BareFiles`, `InBulk`) goes through `createMany` instead: no code is compared with any,
  and its products get neither packs, variants nor suppliers (`product.service.ts:2520-2581`).
* `NoConnection` fails any single statement, `Crash` ends all.

`read[r]` names the products a request works on; `raced` the pairs of requests that
were at work together.

### Accounts

A row has the request that made it as its id.  `users`, `clients`, `templates`,
`members`, `invites`, `tokens` and `audited` are tables, `mailed` the mails delivered;
what a mail carries can be used from then on (`Codes`, `Receive`).

* Each public handler is a `Begin...` with its checks and a chain of single
  statements that share their actions: `CreateClient`, `CreateUser`, `WriteUser`,
  `CreateToken`, `Audit` and so on.  `Failure` says where a throw leads.
* `FindRole` and `MakeTemplate` are the default permissions: templates are made one by
  one; the assignment of the role that follows always throws for lack of a client
  and is swallowed, as is every error here.
* `MailFails` may deliver the mail all the same; an invitation is then deleted.
* `UndoUser` and `UndoClient` undo the creation of a client, where foreign keys allow.
* `Expire` ages codes and tokens; `NoConnection` and `Crash` as elsewhere, counted by
  `Fault`.  `torn` are
  the requests that could not try to undo.

### Expenses

`dirs` and `sheets` are the rows by id, `columns`, `entries` and `values` what hangs on a
sheet.  Directories: a `Begin...` with its reads, then the write.  Sheets:

* A body has a list of column names, in which one may occur twice (each becomes a column), and rows
  that are submitted or drafts one by one.
* `CreateSheet` and `HardDelete` are transactions in one step.  What is inserted is read back in no order
  (`Draft`), so that rows of a body with both kinds may change places.
* Adding rows, submitted or drafts: `BeginAddRows` reads the columns, `AddEntries` inserts,
  `ReadBack` takes as many of the `Latest` entries as there are rows, in an order left
  open within one insertion, `AddValues` fills them, or throws where an entry or column
  has gone or a cell is taken.
* Replacing a sheet is one transaction in up to four steps: `PickColumns` is the
  snapshot of its DELETE, `Lock` waits for other writers of the sheet and deletes what
  was picked, `Replace` deletes entries and inserts its own, `Fetch` reads entries back in
  no order and commits.  What it has deleted stays visible until then, and who
  puts values there waits (`Holders`).
* Deleting a sheet for good takes its columns, entries and values; replacing columns
  takes the values of all entries, by cascade.
* What is shown: `PathTo`, `Hierarchy`, `FirstLevel` for the tree; `SheetsShown`, `SheetsListed`,
  `PageOf` for sheets and their pages; `SheetTotals`, `StoreTotals`, `GrandTotal` and `FileOf` for
  totals and the export.  Entries carry whether they are drafts, which totals leave out.

### Access

`rights`, `roles`, `templates` are the rows of Permission, UserRole and RoleTemplate by id,
`users` the employees, `members` the rows of UserStoreMap.  A right has a place (a store,
or `None` for everywhere), a set of actions and one of four kinds of grant.  `work[r]` is
the local state of a request.

* `BeginAssign`, then for each user `NextUser`, `Join` (the store map), `FindRight`,
  `WriteRight`: what was read is merged and the whole row written.  `BeginRevoke`,
  `FindRight`, `RevokeRight` for one of the rows.
* A hire is a transaction: `Draw` reads what the template grants, `CommitHire` shows all
  of it.  An invitation commits the user first, and draws and inserts its rights
  (`InsertRights`) afterwards.  Both end in a mail.
* An edit is a transaction whose statements are its `Plan`: `LockUser`, then for roles,
  rights and stores `Look` (the snapshot of a DELETE) and `Take` (its row locks),
  `Draw`, and `CommitEdit`, which takes away what is `held` and adds the new rows.
  Whoever touches a held row waits (`Free`).
* `ClearStores` and `AddStore` replace stores statement by statement.  `CountRoles` and
  `RetireTemplate` delete a template.
* `May`, `RoleGrants`, `Allowed` and `Passes` are the checks of the guard, `Listing` what
  `getUserPermissions` answers for a store or without one; `Expire` ends timed rights.

### Office

A row is a record of its table, its id, what its foreign keys refer to (`to`), whether it is
active (`on`; a tenant or user may also be `Suspended`, pending ones count as inactive), a number the table is told apart by (`no`: an invoice number, a name, an
address) and a set (`out`: excluded features).  `Parent`, `Cascades` and `Nullable` are the
foreign keys of the schema; `Gone`, `Blocked` and `Loosen` what a deletion does along them.
`seen[r]` are rows a request read earlier, `lock[r]` those its open transaction changed, `at[r]`
how far that has come.  A reference waits for who deletes what it refers to (`NotDoomed`).
`Fault` loses a connection or a transaction, `Crash` the process; both count to `MaxFaults`.

* `Shops`: a store and its settings are one transaction; a supplier or a customer is checked
  against its store (`ValidateStoreAccess`) first and written later; exclusions are read,
  merged and written whole (`AddExclusions`, `RemoveExclusions`).  A user's status is written by
  `SetEmployee` (remove, activate, deactivate, update), by `Hire` (create, invite) and by sign-up and
  acceptance of an invitation (`BeginSignup`, `BeginAccept`, `CreateUser`, `MapUser`), none of which looks at
  the status of the tenant.
* `Invoicing`: `Text`, `TextLess` and `GenerateInvoiceNumber` are the numbers; a request asks
  for a number and sends the invoice with it, as the page does.  `CreateBusiness` and
  `LinkUser` are two commits.
* `Taxes`: `BundleRows` is `createTaxBundle`; `ReadAssignments` (the DELETE's snapshot, then its
  locks) and `ReplaceAssignments` are the replacement; `UpdateTax` may move an assignment to another rate; `TaxAmount`, `ComprehensiveTax`,
  `EffectiveTimesTotal`, `TotalByEntity` the calculation.
* `Drafts`: `ReadDraft` (the snapshot of the items), `ClearDraft`, `FillDraft` in one
  transaction; a deletion in two commits.
* `Tenants`: `Plan` lists the statements of a deletion from what was read before it
  (`Sought`), `DeleteRows` runs one, `DeleteClient` commits; `UpdateUsers` and
  `UpdateClient` set the status.  `Columns` and `Optional` are the columns of the tables a deletion is about.

What may be undone by whom is subtler than two requests show.  A change of exclusions writes the
whole list back as it read it, merged with what it asks for.  One that met no opponent may still bring back
what another had added and a third, which it met, had taken off again by writing back an older list
(`users.service.ts:89-161`).  It takes three requests, while the run has two; the proof of
`ExclusionsChangeAsAsked`, which used to rule that out, failed there.  It now asks for a race with any
change of the same user, and that the feature was asked for by some request.

## 3. Runs

| run | question | what it shows |
|---|---|---|
| `stock_serial` | Do the scattered statements of a write add up? | `StockAccounted`: stock plus outstanding lines is constant over clean histories, and only several lines together take more than there is. `ReturnStatusTellsTruth` |
| `stock_overlap` | What survives free overlap, expiry and crashes, and does every request end? | lines put back are off the sale, rows are atomic with their request, none is orphaned; `RequestsEnd` under weak fairness of each request's steps |
| `ledger` | Are overlapping payments booked, and do balance, entries and statuses agree for a customer written by one request at a time? | `BooksAreKept`, `CreditOnlyWithoutDebt` |
| `fulfilment_serial` | Is status management what it promises? | `Lifecycle` (refinement), and `WrittenOnce`: retries write neither a second entry nor a second order |
| `fulfilment_overlap` | What survives free overlap, when orders of one customer can look alike? | `ShippedHasOrder`, `DeliveredIsBilled` |
| `catalogue` | Are products, packs, suppliers and uploads consistent under overlap and failure? | `PacksAgree`, `UniqueByCode` (uniqueness as far as the code has it), `FilesTellTruth`, and `SuccessIsComplete`: what is answered with success was done |
| `accounts` | Do proofs of identity work once, and are accounts complete? | `OffersWorkOnce`, `ClientAndUserTogether`, `VerifiedStaysVerified`, `SuccessIsComplete` |
| `expenses` | Does the tree keep its shape, do rows keep apart, and do pages and totals show what is there? | `TreeIsTidy`, `SheetsKeepApart`, `UpdateReplaces` |
| `access` | Do rights, roles and stores survive overlap and failure, and does what is shown agree with what is let pass? | `OneRole`, `RightsLostOnlyWhenAsked`, `AnswersAgree`, `SuccessIsComplete`: who was given a right passes the guard, who was hired has what the template grants, a deleted template has no users |
| `office` | Requests of all kinds over one database: do replacements stand alone, do rows that belong together change together, and who fails why? | `ReplacementsStandAlone`, `TaxesAddUp`, `RowsChangeTogether`, `FailuresAreExplained`, `OnlyRacesMislead` |

Several properties are conjunctions of named parts, each with its own comment where it is
defined: `BooksAreKept` of `PaymentsAreBooked` and `BooksAgree`; `TreeIsTidy` of `FoldersOrSheets`,
`TrashIsEmpty` and `PagesShowTheTree`; `SheetsKeepApart` of `RowsKeepApart`, `ColumnsStandAlone`
and `PagesAddUp`; `StockAccounted` of `UnitsAddUp` and `OneLineNeverOversells`; `OffersWorkOnce` of `AcceptedOnce`,
`OneOpenOffer` and `ProofsWorkOnce`; `UniqueByCode` of
`OnePrimary` and `SharedCodesAreRaced`; and those of `Office`.

Runs that end in a violation show where a document and the code disagree; each has
its finding in `PROJECT.json`.

| run | the code does otherwise |
|---|---|
| `create_sale` | a sale with a line can never be created: `saleItem.create` lacks the required `clientId` |
| `lost_payment` | of two overlapping payments the balance takes off one |

### Bounds, and why they are enough

* **Requests.**  Two to four per run.  Each races with each at every statement.  Three
  are needed for a request that acts between two others (update, return, delete);
  four let a ship, a cut delivery, its retry and a deletion occur in one run.
  `catalogue` has two, each with several tasks, over a rich start.
  `accounts` and `expenses` have three: the least for a race of two over what a third
  made.  In `accounts` at most `AtOnce` = 2 of the three are at work at a time: a third is
  received when one of them has ended; `MaxFaults` = 1 bounds the connections and
  processes lost there and in `office`.  A run with N requests ends when they have, so deadlock is not checked
  (`CHECK_DEADLOCK FALSE`); that no request waits for ever is `RequestsEnd`.
* **Sales.**  Two existing ones and a new one: same sale, different sale, a sale
  that does not exist yet.  Sales share the bins, so that writes of different sales
  meet in stock.
* **Bodies.**  Empty, one line, two lines of both pack types, a line without
  `pluUpc`, a line larger than the stock.  Loops over lines are the same step
  repeated, two lines exercise the middle of a loop.
* **Emails, companies, templates**: two each, one taken at the start; two templates
  are one that is looked for and one that is only made.
* **Access**: two requests at a time over two pasts (a second template with two rows of
  one place and a timed right in a store; a denied right next to a deleted default
  template), two actions, one store; what one edit changes of role, rights and stores is free.
* **Directories and sheets**: an empty directory, one with a sheet of one column; bodies
  with a column that is there and one that is not, a name given twice, one row and two, submitted,
  drafts or one of each.
* **Fulfilment**: two sales of one customer, an edit that gives the order of one the amount of the other,
  an order in another store.
  **Catalogue**: two sheets with codes and a bare one that repeats a code.
* **Office**: two requests over three tenants: one with stores, invoices, taxes and a
  draft, one whose rows the deletion knows, one with a product it cannot delete.  Numbers
  are written in base 2 with two digits (10 and 3 in the code), so that the padding is
  outgrown after one invoice.  One number a new customer may give, two names and entities
  for taxes, a purchase of several pieces and one that costs nothing.
* **Quantities and amounts** of 0 to 5, so that a payment can fall short of, meet
  and exceed a debt, and stock can be short.
* `OnePerSale` is an **assumption on clients**: TRUE says that no two writes of one
  sale are in flight at a time.  The server does not enforce it.  Runs named *serial*
  assume it, for properties the code only has then; runs named *overlap* do not.
* History variables named `raced` (`met` in `CustomerLedger`) hold what two requests have written at a time.
  Properties the code only has for writes that come one by one exclude it, so that
  they are checked next to free overlap elsewhere.
* Requests are symmetric (`MCSymmetry`) where a run checks no liveness.

### Fairness

`FairSpec` of `SaleStock` asks weak fairness of `Step(r)` for each request: node runs
the continuation of an answered query, and the database answers.  It asks nothing of
`Receive` (clients need not call), `Expire` and `Crash`.  A request that waits for row
locks is released when the holder ends, which weak fairness of the holder gives.
A cycle of waits cannot arise in the model: each transaction locks all its rows of
one sale in one step.

## 4. Proofs

Every theorem is for any values of the constants that the ASSUMEs of the module allow.  A
hypothesis is written into its theorem: `OnePerSale` (clients write a sale once at a time), or
what the rows at the start are like (`SeedsTellPaid`, `SeedsOnce`, `SeedPacksAgree`,
`SeedsHaveOnePrimary`, `SeedsHaveOwnCodes`, `SeedsHoldOneSave`, `SeedsKeepApart`), which the `MC` modules
assume of their instances, so that TLC evaluates it.

`FoldTheorems` makes up for the induction theorems the provers cannot use.  A statement about
all finite sets is proved by a smallest counterexample: `SmallestSet` finds, in a family of
subsets, one below which there is no other.  From it come that a fold exists and is one
(`FoldExists`, `FoldUnique`), that `MapThenSumSet` is such a fold (`SumIs`), what sums do when an
element or a set is added, taken out, moved or changed (`SumAdd`, `SumUnion`, `SumMoved`, ...),
that a set counted by parts is counted (`CountByParts`), and the ranks of integers (`Ranks`), on which `Others` of `Catalogue` rests.

`SaleStock_proofs` proves for any overlap, by `IndInvHolds`: `TypesHold`,
`RestoredLinesStayGone`, `TransactionsAreAtomic`, `NoRowIsOrphaned`.  None of them is inductive;
`IndInv` adds

* `NewRowsAreOwn`: uncommitted rows carry their author and its sale, and exist only
  between insertion and commit.  So a commit adds rows of a request that is `ok`.
* `OldRowsAreCommitted`: rows a request found come from committed requests.  A
  request commits once, so no later commit brings back a row that was put back.
* `GivenRowsAreLeaving`: a row put back is, at each program point before the commit,
  either off the sale, picked, or deleted by the open transaction.  This is what
  makes `RestoredLinesAreGone` hold at the commit.
* `CursorsInBody`: loops stay inside their bodies, which types need.

`LinesNeverOversell` needs more, under any overlap: `HoldInv` says what each request holds
whoever else is at work, and `CheckedLinesInStock` that a line which was checked is in stock
until another line is taken from its counter, so that a counter below zero has two takers.

With `OnePerSale`, `SerialInvHolds`, `ReturnStatusIsTrue` and `StockIsAccounted` follow.
`ReadsStayTrue` says of each statement which of the rows a request read are still those of its
sale: what it put back is what it deletes, and what a return counted is what was sold and
returned.  `UnitsAccounted` is the balance in the middle of requests: stock and outstanding
lines differ from the units of the start by what requests in flight have put back and taken
(`Moved`), and the commit turns a request's part of that sum into rows.  It needs a sum over
requests of sums over lines, and speaks of histories in which no request failed on its way,
as the property does.

`Books_proofs` proves, of `CustomerLedger`, `LedgerTypeOK`, `PaymentsBooked`, `BooksKept` (with `SeedsTellPaid`) and the
action property `CreditsOnlyWithoutDebt`.  By induction over the open entries, an allocation pays
of each the lesser of what it owes and what is left, and in all no more than the amount
(so `PaymentsBooked`, whatever was read, since the database adds what is paid).  `Consistent`
says that two requests on one customer are in `met`, and that one which is alone has read what
the tables hold (`Noted`, `Fresh`): only then do the balance and statuses, written as computed,
agree with the entries.  Credit is what is left when every entry read has been paid.

`Office_proofs` proves, for any rows at the start that respect the schema, any requests of
all kinds at work together, faults and crashes:

* `OfficeTypeCorrect`, by `TableInv`.  That no request breaks a key, a foreign key or a unique index
  (`IndexesHold`) depends on what it holds when it writes, so `RequestFits` says, for every statement a
  request can be at, what it has read (`SeenFits`), what it asks for (`CallFits`) and which rows its open
  transaction has changed (`LockFits`).  A deletion goes along cascades and stops at what may not lose its
  reference; `WithoutSound` proves that what is left after `Gone` and `Loosen` is again a sound table.
  `Outcome` is what a step of one request may do to the tables (which columns it may write is
  the table `Writes`); the theorems below go on from it without opening the actions again.
* `OfficeReplacementsStandAlone` (with `SeedsHoldOneSave`), by `AssignInv` and `DraftInv`: a replacement under
  way knows of all that is in its place, in what it read or holds, but for what requests wrote that it met,
  and for assignments that an update moved onto the rate (`MovedOnto`).
  That two requests at work have met, and that what has happened stays, is `History`.
* `OfficeRowsChangeTogether`, by `StatusInv`, that when a change of status is about to commit, every user of
  the tenant has that status or was given another by a request that met the change, and `BusinessInv`, that a business which is new
  to a user was entered for the user's tenant by a request that is `ok`.
* `OfficeOnlyRacesMislead`, an action property, by `SupplierInv` and `ExclusionInv`: what a request read of a
  store or of a user is still so, or one that it met has changed it.
* `OfficeNumbersClash`, the half of the action property `FailuresAreExplained` that is about invoices, by
  `NumberInv`: of every invoice that has the number a request is about to use, either its author met
  the request, or it is of another store of the client, or the number has outgrown its padding.
  The greatest text is that of the greatest number while all fit (`TextFollows`, `TextLessTransitive`, `LastText`), and
  a number that follows one which has outgrown its padding has done so too.  That `Digits` is a function
  with the equation that defines it, for every number, is shown by a smallest counterexample (`LeastNat`, `DigitsIs`).
* `OfficeTenantsApart` (with `SeedsKeepApart`), by `ApartInv`: no row ever refers to a row of another tenant.  What
  a request refers to or writes with a reference (`Touches`) is of the tenant it writes for (`WritesFor`), and stays so
  while others go on: an id that is gone is not made again (`IsOf`).  That pages offer their user only what is
  the client's own is an assumption on requests, in `Receive`.
* `OfficeFailuresExplained` (with `SeedsKeepApart`): the other half of `FailuresAreExplained`, that a deletion nobody
  met fails only by a row the code does not delete, or deletes too late (`InTheWay`).  `DeletionInv`: what it read
  before its transaction is all there is, and none of the statements that ran finds anything (`Clean`); this holds
  since whoever could add a row meets it.  What could block a statement is then of the tenant, by `ApartInv`,
  and of a table whose columns are known.  `HoldsOn` lists what refers to the table by a column that neither cascades
  nor may be null; `PlanOrder` says which statements ran before, so that nothing of those tables is left
  (`NoneOfUsers`, `NoneOfStores`).  `StatementGoes` and `ClientGoes` put this together.

`Fulfilment_proofs` proves `TypesHold`, `ShippingIsOrdered`, `DeliveryIsBilled` under any
overlap, and `LifecycleImplemented`: with `OnePerSale`, `Spec => LC!Spec`.  For the former
`IndInv` follows orders and entries from the step that finds or writes them.  For
the refinement `SerialInv` adds that one request writes a sale at a time, so that a
validated transition is still valid and an entry found is still there at commit.
`RowsWrittenOnce` is for `OnePerSale`, drivers of the company and `SeedsOnce`, by `OnceInv`: a request that
is about to write an entry or an order found none for its sale, and a sale with an order has
a status from which no transition leads back to where an order is made (`Past`), or the change
that made it was cut off.  The hypothesis on drivers is needed: a third party's driver is not
recorded on the sale, which is assigned and ordered again.

`Catalogue_proofs` proves, for any products, bodies, files, requests and ways of failing:

* `CatalogueTypeOK`, by `TypeInv`, which types what a request holds and says at which statements it can be
  (`RequestTyped`), and `Effect`, what a step of a request may do to the tables, from which the other
  proofs go on without opening the actions again.
* `FilesAreTrue`, by `FilesInv`: between `Register` and the commit an upload is the only one of its file
  (`UploadsExclude`), and a file on record counts as added once more than products were all deleted.
* `PrimariesAreOne` (with `SeedsHaveOnePrimary`): the links a product has and those its request is about to
  make have one primary between them (`OnceBy`), and where a request makes one there is none (`RoomFor`).
* `CodesAreUnique` (with `SeedsHaveOwnCodes` too): `CodeInv` says of updates and uploads that what they checked and
  are about to write is still free, or a request that wrote it overlapped, was a creation or added a bare file.
* `PacksAreListed` (with `SeedPacksAgree`), by `PacksInv`: for a product whose requests never overlapped nor failed, what
  it lists and what it has agree, but between the statements that wipe, make and list them;
  there `PhaseFits` says what is missing.  It rests on `RowsAreFresh` and `PackOwners`: rows and packs that a
  request made are of its own products, so that no two requests make one, and on `Together`:
  requests in flight at once are in `raced`.

`Access_proofs` proves, for any employees, templates, stores, actions and requests:

* `TypesHold`, by `TypeInv`: next to types, the id of a row says whose it is and in which place
  (`RowsFit`), and what a request holds in memory fits what it asks for and the statement it
  is at (`Fits`).  Only with that is a row that is written back, or remade, one of the
  employee the request was received for.
* `RightsGoWhenAsked`: `RightsLostOnlyWhenAsked` as an action property.  A request writes a row back
  as it found it, so it may undo what others did since.  `RaceInv` says that what was found
  (`FindHolds`) is still there or another assignment or revocation of the same user and place
  was at work meanwhile; that two requests in flight are known to overlap; and that nobody
  makes a row under an id twice (`Spent`), since a row that is deleted and made anew would hide a
  change.  The step that takes a right then names either itself or the other.
* `OneRoleHolds`, by `LockInv`: an edit that changes the role holds the row of the user from its
  update to its commit (`Holds`), no two hold the same one, and the role to be replaced is among
  those seen and then among those deleted.  So the commit inserts one for exactly the one it
  takes away, while hires insert for employees that are new and assignments of templates
  insert roles that are not counted.  The mutant of `OneRole`, which does not write the row of
  the user first, breaks the first conjunct of `Holds`.
* `AnswersAgreeHolds`, from `RowsFit` alone: guard and list read the same rows, in queries that differ, and
  agree because a right or role of a user in a place can only have the id of that user and place.
* `SuccessIsCompleteHolds`, by `DoneInv` next to `TypeInv`, `RaceInv` and `LockInv`.  `Done` says for every
  kind of request what it has done when it is at a statement: an assignment, that those it is
  through with have the right and the store; a revocation, that the row it found is all there
  is; an edit, that the rows of a stage it is past are locked or gone (`Cleared`).  No other request undoes
  it without being one of those that met it on the same user or template
  (`StillDone`, `DoneByOne`), so at its answer `Done` is what success means.  `CallFits` keeps what a request is asked
  within what the handlers let in: a right with an end is given to one user, since the
  bulk assignment has no end.

`Accounts_proofs` proves, for any users, clients, templates and requests in flight:

* `TypesHold` and `ClientAndUserTogetherHolds`, by `RowsInv`.  A row refers to a request for what
  it was made with, so `RequestsFit` says which statement a kind of request can be at and
  what it asks for, and the other parts say of each row which request made it.  `Did` says what
  a request has written when it is at a statement; at its end it is the property.  Two facts
  carry the steps that undo: the user of a client is pending until its creation ends, so no
  invitation refers to one that is taken back; and nobody else belongs to a client that has not
  answered (`Stable`), so a row that keeps the client keeps its user as well.
* `OffersWorkOnceHolds` and `VerifiedStaysVerifiedHolds`, by `MeetInv` next to `RowsInv`.  Two requests
  in flight have met.  An offer and a request about to make another have met (`OffersMet`), since
  the request saw none when it came; a proof is void when its request is past using it (`Void`),
  so that a request which comes later cannot use it again; and a code is renewed over a
  verification only when that came in between (`RenewalsMet`).
* `SuccessIsCompleteHolds`, by `DoneInv` next to both: what a request has done when it is at a statement (`Done`) is
  still so, or another that works on the same user has met it.  `TablesGo` says who may undo it: only a
  request that works on a user takes it away or writes its code or password, and an
  invitation goes at the hands of who made it alone.

Of `Expenses`, `Books_proofs` proves, for any directories and sheets at the start, bodies and requests:

* `TypesHold`, by `Base`.  What a request will write refers to rows that others may delete
  before it does; it throws then, except where it holds them: who replaces rows keeps
  the sheet (`SheetsFit`), and what it read back is still in that sheet or gone
  (`EntriesFit`).  A request inserts entries once (`Wrote`), so none comes back under another sheet.
* `TreeIsTidyHolds`, by `Tree` and `MeetInv`.  A folder and a sheet in one directory have met, and
  so has a request about to make one with whatever is there (`MixInv`): it found
  nothing when it came, so what it meets came in between.  `TrashInv` says the same of who
  throws a directory away.  `PathIs` unfolds the way to a directory, which has two steps at most, so
  that pages and hierarchy can be compared.
* `ColumnsStandAloneHolds`, by `NamesInv`: the columns of a sheet come from one body; what a replacement
  will leave, since it is not in its snapshot, comes from another one that it met.
* `UpdateReplacesHolds`, by `AloneInv`: what a replacement picks is all there is, until it commits,
  unless another request comes in.
* `SheetsKeepApartHolds`, by `NamesInv`, `ApartInv` and `FinInv`.  Rows share an entry where a request reads
  back an entry that is not its own, or puts values where another has.  `TimesInv` gives every request
  that makes entries its place in `times`, so that `Later(r)` is what was inserted after r.  `OwnInv` and `GoneInv`
  say that the entries r inserted are all in the sheet when it looks for them, or nothing that is
  older than them; since the latest are taken, as many as r inserted, what it finds of others
  is younger (`ReadBackGuests`), and who made that, or put a value there, was at work with r (`GuestsInv`).
  The totals count values (`TotalIsCount`), by column, by entry and by sheet (`CountByParts` of
  `FoldTheorems`); a page and a file count the names on each entry (`ShownIsSum`), which are as many as its values
  unless two of a name are there, and those are of two rows (`RowInv`).

Assumptions are the named ASSUMEs of the modules: the seed rows belong to the seed and are in
order (directories of two levels, with folders or sheets), tables and bodies are finite, bodies are sequences of lines, maps
have their domains, ids of different kinds differ, the invoices have natural numbers.  TLC evaluates them in every
run.

**Only model-checked:** `RequestsEnd` (liveness under fairness is beyond the prover), `TaxesAddUp`, and
`SuccessIsComplete` of `Catalogue`.  The two violations are counterexamples, and theirs alone.

## 5. Not modelled, and why

* The upload of a sheet of sales.  History: no row of it is ever written
  (`createHistory` leaves out the client, and the error is swallowed).
* Prices, names, categories and formatting of products decide no step.  `SaleStock`
  says what a sale does to stock of products without variants; `Catalogue` has the
  sale of a variant (`sellVariant`) as a statement of its own.
* The connection pool: inside a transaction the base client needs a second
  connection; planned as a module of its own.
* Deliveries and payments in one model: `handleDeliveredStatus` writes what is left
  to pay into the column from which a later payment subtracts the payments again.
  `Fulfilment` models the write, `CustomerLedger` the subtraction; the composition is
  planned.
* `Accounts`: login and refresh write nothing; Google links, the repair of clients and
  users, and what a role permits.  `Expenses`: names, archiving, approval (no code
  writes it); `restore`, `getDirectoryPath`, `getByParent` and drafts of several sheets, which no
  route reaches.  `Access`: super admins, conditions of rights, rights over more than one
  resource, the password and a change of email of an employee; `checkUserStorePermission` and
  the variants `...WithClient`, which nothing calls.  `Office`: layouts of invoices, profiles of
  users, the health of connections, and the sign-ups that `Accounts` has (creation of a client, codes).
* The dashboard, metrics, health, formatting: no state.
* Drivers and validators: the former only reads, the latter is commented out and not
  loaded.

Disagreements seen with TLC while the models were written, for which no run is kept:
deleting a sale after a return restores its goods twice; an update deducts items
without `pluUpc` that get no line; a refused update has already put the old lines
back; two overlapping returns return more than was sold; restoring a line sold by
the box always throws; a payment linked to a sale is always rolled back; a payment
sets a COMPLETED sale back to DELIVERED; the balance report leaves partly paid
entries out; a second sale to one customer for one amount ships without an order of
its own; the order of a sale can never be approved; sales given to a third party's
driver can be assigned again; two overlapping deliveries bill a sale twice;
a customer cannot pay the entry of a delivered sale
(`customer-balance.service.ts:142`); creation of a product compares its code with no
other; one with two variants of one supplier fails halfway and leaves the product and
its packs, as does an unknown supplier; an update whose variant names a supplier that
is linked already throws after the packs were deleted; an update that lists suppliers
drops those its variants name; an update of a name alone wipes packs and variants; a
deleted variant leaves its packs, a deleted pack stays in the list of its variant; a
second upload of a file that overlaps the first marks the completed record failed; two
changes validated against one status take a sale along no transition of the table; two
assignments of suppliers to a product both make theirs primary; a sign-up whose mail
fails answers with an error and leaves an active user; a creation of a client that
fails after a template was made cannot be undone, since the template refers to the
user, and email and company stay taken by a pending account; an invitation whose mail
arrives late is deleted though accepted; a process that dies after an invited user is
made leaves it without a store and its email taken; rows added at the same time may
swap entries or fail and leave empty ones; a sheet can be created in a deleted
directory, and a deleted folder keeps sheets out of its parent for good; a request for
drafts of several sheets writes the first; the limit of three levels is never reached,
because directories of the second take none; two updates that both passed the stock
check drive stock below zero; a revocation writes one of several rows, so that an
employee, whose rights are a row per action and place, may keep the action; granting
an action for a time makes all actions of its row temporary, and granting one where
the row is denied or expired grants the others too; two overlapping assignments lose
one's actions; `PUT /employees/:id/permissions` assigns nothing, because its rows lack
their client and the errors are swallowed, and answers with success; a deleted template
can still be assigned, and its roles keep giving rights; an invitation without a
template may take a deleted default one and then gives no rights; replacing stores may
leave some out and answer with success; an action listed for a store disappears from the
global list, though it holds everywhere, and a role in one store is in no list that is
asked for without it; the list of employees passes the id of a row of UserStoreMap as a
store; a tenant with any product cannot be deleted, since its stores, which products refer
to, go first (`tenant.service.ts:151` says the order respects the foreign keys), nor can one
with a return or an order; two changes of a tenant's status may leave it and its users with
different ones, and employees can be hired, invited, edited and activated, and invitations accepted, under a
tenant that is not active; a sheet of products without SKUs adds codes that others have; a body of an
expense sheet may name a column twice, and one with drafts and submitted rows may swap them; an assignment
can be moved next to those a replacement has just made; a fixed tax on a line of nothing is missing in the
effective rate; the
rate of a bundle names its type by id, so that it is always of another type than the one
the bundle makes; the total
of what has no tax leaves the quantity out; after the padding of invoice numbers is
outgrown every invoice of the store is refused its number, as is the first of a store whose
client has another store with that number; two replacements of a rate's assignments, and
two saves of a draft, leave both; a supplier may join a store that was just closed; sheets
of a directory of the first level are not shown among its children, and a sheet belongs to
the first store of its user, whatever that of the directory.

## 6. Plan

The pool of connections; payments composed with `Fulfilment`.
