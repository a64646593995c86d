------------------------------- MODULE Expenses -------------------------------
(***************************************************************************)
(* Expense directories (ExpenseDirectoryService) and the sheets in them, with *)
(* columns, entries and values (ExpenseSheetService).                         *)
(*                                                                         *)
(* A directory or a sheet is read, checked and written in statements of       *)
(* their own.  The creation, the replacement and the final deletion of a       *)
(* sheet are transactions; adding rows is not: entries are inserted, the       *)
(* latest entries of the sheet are read back, and values are put into them.    *)
(*                                                                         *)
(* Names and descriptions, the type of a column and archiving are left out,    *)
(* and so is ExpenseDirectoryService.restore, which no route reaches.          *)
(***************************************************************************)
EXTENDS Naturals, FiniteSets, Sequences, SequencesExt

CONSTANTS
    Requests,       \* HTTP writes; each is received at most once
    Seed,           \* the creator of what is there at the start
    SeedDirs,       \* the directories at the start, by id
    SeedSheets,     \* the sheets at the start, by id
    SeedNames,      \* the columns of those sheets, in order
    Names,          \* names of columns
    Root,           \* no parentId
    Unset,          \* a part of a body that is not given
    NewSheets,      \* bodies of POST /expense-sheets
    Replacements,   \* bodies of PUT /expense-sheets/:id
    Additions       \* rows that are posted, as drafts or submitted

Ids == Requests \cup DOMAIN SeedDirs \cup DOMAIN SeedSheets

Directory == [parent : Ids \cup {Root}, level : 1..3, active : BOOLEAN]
Sheet == [dir : Ids, active : BOOLEAN]

\* Column rows are made by a request or there at the start, no telling their place
\* in the body: a body may list a name twice.  Entry <<r, i>> is the i-th that r
\* made, row <<r, i>> the i-th row that r was given.
Column == [sheet : Ids, name : Names, by : Requests \cup {Seed}, no : Nat]
EntryId == Requests \X (Nat \ {0})
Value == [entry : EntryId, column : Column, row : EntryId]

\* A row is the set of names it has a value for, and whether it is a draft.
Row == [cells : SUBSET Names, draft : BOOLEAN]
Body == [names : Seq(Names) \cup {Unset}, rows : Seq(Row) \cup {Unset}]

\* What is there at the start is in use and in order: directories of two levels,
\* as MayHold lets them be, with folders or sheets.  Rows that are added are all
\* drafts or all submitted: addRows refuses others.
ASSUME ExpensesAssumption ==
    /\ Seed \notin Requests
    /\ Root \notin Ids
    /\ Requests \cap (DOMAIN SeedDirs \cup DOMAIN SeedSheets) = {}
    /\ SeedNames \in Seq(Names)
    /\ IsFiniteSet(DOMAIN SeedSheets)
    /\ \A d \in DOMAIN SeedDirs :
         /\ SeedDirs[d] \in Directory
         /\ SeedDirs[d].active
         /\ \/ SeedDirs[d].parent = Root /\ SeedDirs[d].level = 1
            \/ /\ SeedDirs[d].parent \in DOMAIN SeedDirs
               /\ SeedDirs[SeedDirs[d].parent].level = 1
               /\ SeedDirs[d].level = 2
    /\ \A s \in DOMAIN SeedSheets :
         /\ SeedSheets[s] \in Sheet
         /\ SeedSheets[s].dir \in DOMAIN SeedDirs
         /\ SeedSheets[s].active => \A d \in DOMAIN SeedDirs : SeedDirs[d].parent # SeedSheets[s].dir
    /\ NewSheets \cup Replacements \subseteq Body
    /\ \A b \in NewSheets : b.names # Unset /\ b.rows # Unset
    /\ Additions \subseteq [rows : Seq(Row)]
    /\ \A b \in Additions : \A i, j \in DOMAIN b.rows : b.rows[i].draft = b.rows[j].draft

VARIABLES
    dirs,       \* the rows of ExpenseDirectory, by id
    sheets,     \* the rows of ExpenseSheet, by id
    columns,    \* the rows of ExpenseColumn
    entries,    \* the sheet of each row of ExpenseEntry
    values,     \* the rows of ExpenseEntryValue
    times,      \* createdAt: the requests that made entries, in order
    pc,         \* what each request awaits
    call,       \* what it asks for
    cols,       \* the columns it read, or has picked to delete
    found,      \* the entries it read back, or has deleted
    raced       \* history: the pairs of requests that were at work together

db == <<dirs, sheets, columns, entries, values, times>>
vars == <<db, pc, call, cols, found, raced>>

Ended == {"ok", "refused", "failed"}
InFlight(r) == pc[r] \notin Ended \cup {"idle"}

Put(f, x, y) == [z \in DOMAIN f \cup {x} |-> IF z = x THEN y ELSE f[z]]

Children(d) == {c \in DOMAIN dirs : dirs[c].parent = d}
ActiveChildren(d) == {c \in Children(d) : dirs[c].active}
ActiveSheets(d) == {s \in DOMAIN sheets : sheets[s].dir = d /\ sheets[s].active}
ColumnsOf(s) == {c \in columns : c.sheet = s}
EntriesOf(s) == {e \in DOMAIN entries : entries[e] = s}
Made(r, n) == {<<r, i>> : i \in 1..n}
ColumnsBy(r, s, names) ==
    {[sheet |-> s, name |-> names[i], by |-> r, no |-> i] : i \in DOMAIN names}

NoCall == [op |-> "none"]

Init ==
    /\ dirs = SeedDirs
    /\ sheets = SeedSheets
    /\ columns = UNION {ColumnsBy(Seed, s, SeedNames) : s \in DOMAIN SeedSheets}
    /\ entries = [e \in {} |-> NoCall]
    /\ values = {}
    /\ times = <<>>
    /\ pc = [r \in Requests |-> "idle"]
    /\ call = [r \in Requests |-> NoCall]
    /\ cols = [r \in Requests |-> {}]
    /\ found = [r \in Requests |-> <<>>]
    /\ raced = {}

Goto(r, to) == pc' = [pc EXCEPT ![r] = to]

Begin(r, c, to) ==
    /\ pc[r] = "idle"
    /\ call' = [call EXCEPT ![r] = c]
    /\ raced' = raced \cup {{q, r} : q \in {x \in Requests : InFlight(x)}}
    /\ Goto(r, to)
    /\ UNCHANGED <<db, cols, found>>

Refuse(r, c) ==
    /\ pc[r] = "idle"
    /\ call' = [call EXCEPT ![r] = c]
    /\ Goto(r, "refused")
    /\ UNCHANGED <<db, cols, found, raced>>

Throws(r) ==
    /\ Goto(r, "failed")
    /\ UNCHANGED <<db, call, cols, found, raced>>

----------------------------------------------------------------------------
(* Directories *)

\* Mutant: a directory with sheets may hold others.
MayHoldBoth(p) ==
    \/ p = Root
    \/ dirs[p].level = 1 /\ dirs[p].active

\* A parent is there and active, and holds no active sheets; only directories
\* of the first level take others.
MayHold(p) ==
    \/ p = Root
    \/ /\ dirs[p].active
       /\ dirs[p].level = 1
       /\ ActiveSheets(p) = {}

BeginCreateDir(r, p) ==
    LET c == [op |-> "createDir", dir |-> p] IN
    IF MayHold(p) THEN Begin(r, c, "mkdir") ELSE Refuse(r, c)

LevelUnder(p) == IF p = Root THEN 1 ELSE dirs[p].level + 1

CreateDir(r) ==
    LET p == call[r].dir IN
    /\ pc[r] = "mkdir"
    /\ dirs' = Put(dirs, r, [parent |-> p, level |-> LevelUnder(p), active |-> TRUE])
    /\ Goto(r, "ok")
    /\ UNCHANGED <<sheets, columns, entries, values, times, call, cols, found, raced>>

BeginDeleteDir(r, d) ==
    LET c == [op |-> "deleteDir", dir |-> d] IN
    IF dirs[d].active /\ ActiveChildren(d) = {} /\ ActiveSheets(d) = {}
    THEN Begin(r, c, "trash")
    ELSE Refuse(r, c)

DeleteDir(r) ==
    /\ pc[r] = "trash"
    /\ dirs' = [dirs EXCEPT ![call[r].dir].active = FALSE]
    /\ Goto(r, "ok")
    /\ UNCHANGED <<sheets, columns, entries, values, times, call, cols, found, raced>>

----------------------------------------------------------------------------
(* Sheets *)

\* Values for the rows of r that have an entry: row i goes into entry at[i], each
\* value into one of the columns C that has its name.
Cells(r, rows, at, C) ==
    UNION {{[entry |-> at[i], column |-> c, row |-> <<r, i>>] : c \in {x \in C : x.name \in rows[i].cells}} :
              i \in DOMAIN rows \cap DOMAIN at}

\* Unique (entryId, columnId).
Clash(new) == \E v, w \in new \cup values :
    v # w /\ v \in new /\ v.entry = w.entry /\ v.column = w.column

\* The columns that find(...) comes upon first: one for each name.
Finds(C) == {S \in SUBSET C : /\ \A c \in C : \E s \in S : s.name = c.name
                              /\ \A s, t \in S : s.name = t.name => s = t}

Covers(C, rows) == \A i \in DOMAIN rows : rows[i].cells \subseteq {c.name : c \in C}

\* Deleted directories take sheets, and deleted ones inside count as children.
BeginCreateSheet(r, d, b) ==
    LET c == [op |-> "createSheet", dir |-> d, body |-> b] IN
    IF dirs[d].level = 1 /\ Children(d) # {} THEN Refuse(r, c) ELSE Begin(r, c, "sheet")

\* One transaction on rows that nobody else can see; it reads its own entries back
\* in no order.
CreateSheet(r) ==
    LET b == call[r].body
        C == ColumnsBy(r, r, b.names)
        E == Made(r, Len(b.rows))
    IN
    /\ pc[r] = "sheet"
    /\ IF Covers(C, b.rows)
       THEN /\ sheets' = Put(sheets, r, [dir |-> call[r].dir, active |-> TRUE])
            /\ columns' = columns \cup C
            /\ entries' = [e \in DOMAIN entries \cup E |-> IF e \in E THEN r ELSE entries[e]]
            /\ \E S \in Finds(C), at \in {f \in [DOMAIN b.rows -> E] : IsInjective(f)} :
                 values' = values \cup Cells(r, b.rows, at, S)
            /\ times' = Append(times, r)
            /\ Goto(r, "ok")
            /\ UNCHANGED <<dirs, call, cols, found, raced>>
       ELSE Throws(r)

Known(s) == s \in DOMAIN sheets /\ sheets[s].active

\* What is read here is used to the end: the sheet with its columns.
BeginAddRows(r, s, b) ==
    LET c == [op |-> "addRows", sheet |-> s, body |-> b] IN
    IF Known(s)
    THEN /\ pc[r] = "idle"
         /\ call' = [call EXCEPT ![r] = c]
         /\ raced' = raced \cup {{q, r} : q \in {x \in Requests : InFlight(x)}}
         /\ \E S \in Finds(ColumnsOf(s)) : cols' = [cols EXCEPT ![r] = S]
         /\ Goto(r, "entries")
         /\ UNCHANGED <<db, found>>
    ELSE Refuse(r, c)

AddEntries(r) ==
    LET s == call[r].sheet
        E == Made(r, Len(call[r].body.rows))
    IN
    /\ pc[r] = "entries"
    /\ IF s \in DOMAIN sheets
       THEN /\ entries' = [e \in DOMAIN entries \cup E |-> IF e \in E THEN s ELSE entries[e]]
            /\ times' = Append(times, r)
            /\ Goto(r, "latest")
            /\ UNCHANGED <<dirs, sheets, columns, values, call, cols, found, raced>>
       ELSE Throws(r)

Time(e) == CHOOSE i \in DOMAIN times : times[i] = e[1]

\* Mutant: the oldest come first.
Oldest(s, n) ==
    LET E == EntriesOf(s)
        size == IF n < Cardinality(E) THEN n ELSE Cardinality(E)
    IN {f \in [1..size -> E] :
          /\ IsInjective(f)
          /\ \A e \in E \ ToSet(f), i \in 1..size : Time(f[i]) <= Time(e)}

\* The n latest entries of a sheet, those of one request in any order.
Latest(s, n) ==
    LET E == EntriesOf(s)
        size == IF n < Cardinality(E) THEN n ELSE Cardinality(E)
    IN {f \in [1..size -> E] :
          /\ IsInjective(f)
          /\ \A i, j \in 1..size : i < j => Time(f[i]) >= Time(f[j])
          /\ \A e \in E \ ToSet(f), i \in 1..size : Time(f[i]) >= Time(e)}

\* A row that found no entry is an error if it has a value to store.
ReadBack(r) ==
    LET rows == call[r].body.rows
        known == {c.name : c \in cols[r]}
    IN
    /\ pc[r] = "latest"
    /\ \E at \in Latest(call[r].sheet, Len(rows)) :
         IF \E i \in DOMAIN rows \ DOMAIN at : rows[i].cells \cap known # {}
         THEN Throws(r)
         ELSE /\ found' = [found EXCEPT ![r] = at]
              /\ Goto(r, "values")
              /\ UNCHANGED <<db, call, cols, raced>>

\* Transactions that have written a sheet and not committed.
Holders(s) == {q \in Requests : pc[q] \in {"replace", "fetch"} /\ call[q].sheet = s}

\* A value waits for who is deleting its entry or its column.
AddValues(r) ==
    LET new == Cells(r, call[r].body.rows, found[r], cols[r])
        at == {v.entry : v \in new}
        in == {v.column : v \in new}
    IN
    /\ pc[r] = "values"
    /\ \A q \in Holders(call[r].sheet) :
         /\ at \cap ToSet(found[q]) = {}
         /\ in \cap cols[q] = {}
    /\ IF at \subseteq DOMAIN entries /\ in \subseteq columns /\ ~Clash(new)
       THEN /\ values' = values \cup new
            /\ Goto(r, "ok")
            /\ UNCHANGED <<dirs, sheets, columns, entries, times, call, cols, found, raced>>
       ELSE Throws(r)

----------------------------------------------------------------------------
(* PUT /expense-sheets/:id : one transaction.  cols are the columns it deletes, *)
(* found the entries; both are gone for others when it commits.               *)

BeginUpdate(r, s, b) ==
    LET c == [op |-> "update", sheet |-> s, body |-> b] IN
    IF Known(s)
    THEN Begin(r, c, IF b.names = Unset THEN "lock" ELSE "pick")
    ELSE Refuse(r, c)

\* The snapshot of DELETE: columns that appear while it waits are not in it.
PickColumns(r) ==
    /\ pc[r] = "pick"
    /\ cols' = [cols EXCEPT ![r] = ColumnsOf(call[r].sheet)]
    /\ Goto(r, "lock")
    /\ UNCHANGED <<db, call, found, raced>>

NewColumns(r) ==
    LET b == call[r].body IN
    IF b.names = Unset THEN {} ELSE ColumnsBy(r, call[r].sheet, b.names)

\* What the transaction of r leaves: without the columns cols[r] and the entries
\* found[r], and with new entries and values.
Commit(r, E, new) ==
    LET s == call[r].sheet
        gone == ToSet(found[r])
        kept == DOMAIN entries \ gone
        C == (columns \ cols[r]) \cup NewColumns(r)
    IN
    /\ columns' = C
    /\ entries' = [e \in kept \cup E |-> IF e \in E THEN s ELSE entries[e]]
    /\ values' = {v \in values : v.column \in C /\ v.entry \in kept} \cup new
    /\ Goto(r, "ok")

\* Writers of a sheet wait for one another.
Lock(r) ==
    LET s == call[r].sheet IN
    /\ pc[r] = "lock"
    /\ Holders(s) = {}
    /\ IF s \notin DOMAIN sheets THEN Throws(r)
       ELSE IF call[r].body.rows = Unset
       THEN /\ Commit(r, {}, {})
            /\ UNCHANGED <<dirs, sheets, times, call, cols, found, raced>>
       ELSE /\ Goto(r, "replace")
            /\ UNCHANGED <<db, call, cols, found, raced>>

\* Mutant: entries that are there stay.
ReplaceNothing(r) ==
    /\ pc[r] = "replace"
    /\ times' = Append(times, r)
    /\ Goto(r, "fetch")
    /\ UNCHANGED <<dirs, sheets, columns, entries, values, call, cols, found, raced>>

Replace(r) ==
    /\ pc[r] = "replace"
    /\ found' = [found EXCEPT ![r] = SetToSeq(EntriesOf(call[r].sheet))]
    /\ times' = Append(times, r)
    /\ Goto(r, "fetch")
    /\ UNCHANGED <<dirs, sheets, columns, entries, values, call, cols, raced>>

\* The entries are read back in no order, with those that others put there since.
Fetch(r) ==
    LET s == call[r].sheet
        rows == call[r].body.rows
        own == Made(r, Len(rows))
        seen == (EntriesOf(s) \ ToSet(found[r])) \cup own
    IN
    /\ pc[r] = "fetch"
    /\ \E S \in Finds((ColumnsOf(s) \ cols[r]) \cup NewColumns(r)),
          at \in {f \in [1..Len(rows) -> seen] : IsInjective(f)} :
         LET new == Cells(r, rows, at, S) IN
         IF Covers(S, rows) /\ ~Clash(new)
         THEN /\ Commit(r, own, new)
              /\ UNCHANGED <<dirs, sheets, times, call, cols, found, raced>>
         ELSE Throws(r)

----------------------------------------------------------------------------
(* The trash of sheets, and the end of them *)

BeginDeleteSheet(r, s) ==
    LET c == [op |-> "deleteSheet", sheet |-> s] IN
    IF Known(s) THEN Begin(r, c, "discard") ELSE Refuse(r, c)

DeleteSheet(r) ==
    LET s == call[r].sheet IN
    /\ pc[r] = "discard"
    /\ Holders(s) = {}
    /\ IF s \in DOMAIN sheets
       THEN /\ sheets' = [sheets EXCEPT ![s].active = FALSE]
            /\ Goto(r, "ok")
            /\ UNCHANGED <<dirs, columns, entries, values, times, call, cols, found, raced>>
       ELSE Throws(r)

BeginHardDelete(r, s) ==
    LET c == [op |-> "hardDelete", sheet |-> s] IN
    IF s \in DOMAIN sheets THEN Begin(r, c, "remove") ELSE Refuse(r, c)

\* Mutant: entries stay behind.
HardDeleteSheet(r) ==
    LET s == call[r].sheet IN
    /\ pc[r] = "remove"
    /\ Holders(s) = {}
    /\ sheets' = [t \in DOMAIN sheets \ {s} |-> sheets[t]]
    /\ Goto(r, "ok")
    /\ UNCHANGED <<dirs, columns, entries, values, times, call, cols, found, raced>>

\* One transaction; what others add to the sheet meanwhile goes with it.
HardDelete(r) ==
    LET s == call[r].sheet
        kept == DOMAIN entries \ EntriesOf(s)
    IN
    /\ pc[r] = "remove"
    /\ Holders(s) = {}
    /\ IF s \in DOMAIN sheets
       THEN /\ sheets' = [t \in DOMAIN sheets \ {s} |-> sheets[t]]
            /\ columns' = columns \ ColumnsOf(s)
            /\ entries' = [e \in kept |-> entries[e]]
            /\ values' = {v \in values : v.entry \in kept}
            /\ Goto(r, "ok")
            /\ UNCHANGED <<dirs, times, call, cols, found, raced>>
       ELSE Throws(r)

----------------------------------------------------------------------------
(* Failures *)

\* No connection, a statement that fails, a transaction that expires or is chosen
\* to end a deadlock: nothing of the transaction stays.
Fail(r) == InFlight(r) /\ Throws(r)

\* The process dies with all that it was doing.
Crash ==
    /\ \E r \in Requests : InFlight(r)
    /\ pc' = [r \in Requests |-> IF InFlight(r) THEN "failed" ELSE pc[r]]
    /\ UNCHANGED <<db, call, cols, found, raced>>

Receive(r) ==
    /\ pc[r] = "idle"
    /\ \/ \E p \in {Root} \cup DOMAIN dirs : BeginCreateDir(r, p)
       \/ \E d \in DOMAIN dirs : BeginDeleteDir(r, d)
       \/ \E d \in DOMAIN dirs, b \in NewSheets : BeginCreateSheet(r, d, b)
       \/ \E s \in DOMAIN sheets :
            \/ \E b \in Replacements : BeginUpdate(r, s, b)
            \/ \E b \in Additions : BeginAddRows(r, s, b)
            \/ BeginDeleteSheet(r, s)
            \/ BeginHardDelete(r, s)

Step(r) ==
    \/ CreateDir(r) \/ DeleteDir(r) \/ CreateSheet(r)
    \/ AddEntries(r) \/ ReadBack(r) \/ AddValues(r)
    \/ PickColumns(r) \/ Lock(r) \/ Replace(r) \/ Fetch(r)
    \/ DeleteSheet(r) \/ HardDelete(r)

Next == (\E r \in Requests : Receive(r) \/ Step(r) \/ Fail(r)) \/ Crash

Spec == Init /\ [][Next]_vars

----------------------------------------------------------------------------
(* Pages, totals and files: what a state is shown as.  Every value is worth one *)
(* and every column is summed.                                                *)

\* The directories from a root down to one.
PathTo ==
    LET path[d \in DOMAIN dirs] ==
          IF dirs[d].parent = Root THEN <<d>> ELSE Append(path[dirs[d].parent], d)
    IN path

FirstLevel == {d \in DOMAIN dirs : dirs[d].active /\ dirs[d].level = 1}

\* The page of a directory: folders on the first level, sheets on the third, and
\* on the second folders if it ever had any.
FoldersOn(d) ==
    IF dirs[d].level = 1 \/ (dirs[d].level = 2 /\ Children(d) # {}) THEN ActiveChildren(d) ELSE {}
SheetsOn(d) ==
    IF dirs[d].level = 3 \/ (dirs[d].level = 2 /\ Children(d) = {}) THEN ActiveSheets(d) ELSE {}

\* The hierarchy of a store: directories in use, each hung on its parent if that
\* is in use too.
Hierarchy == {d \in DOMAIN dirs : \A a \in ToSet(PathTo[d]) : dirs[a].active}
SheetsShown == {s \in DOMAIN sheets : sheets[s].active /\ sheets[s].dir \in Hierarchy}

SheetsListed == {s \in DOMAIN sheets : sheets[s].active}

Draft(e) == call[e[1]].body.rows[e[2]].draft

\* The page of a sheet: its submitted or its draft entries, each with the names
\* of its values; of two values of a name one is shown.
PageOf(s, draft) == [e \in {x \in EntriesOf(s) : Draft(x) = draft} |->
    {v.column.name : v \in {x \in values : x.entry = e}}]

\* Totals of a sheet, by column.
SheetTotals(s) == [c \in ColumnsOf(s) |->
    Cardinality({v \in values : v.entry \in EntriesOf(s) /\ v.column = c})]

\* Totals of all sheets, by the name of the column.
StoreTotals ==
    LET named == {c \in columns : c.sheet \in SheetsListed}
        of(n) == {v \in values : /\ entries[v.entry] \in SheetsListed
                                 /\ v.column.name = n}
    IN [n \in {c.name : c \in named} |-> Cardinality(of(n))]

\* The file of a sheet: a row for each entry, drafts too, before it is laid out.
FileOf(s) == [e \in EntriesOf(s) |->
    {c.name : c \in {x \in ColumnsOf(s) : \E v \in values : v.entry = e /\ v.column.name = x.name}}]

GrandTotal(totals) == MapThenSumSet(LAMBDA i : totals[i], DOMAIN totals)
Filled(page) == MapThenSumSet(LAMBDA e : Cardinality(page[e]), DOMAIN page)

----------------------------------------------------------------------------
(* Properties *)

\* Rows have their shape and name rows that are there: what hangs on a sheet, a
\* column or an entry goes with it, a value joins an entry and a column of one
\* sheet, once, and a directory is one level below its parent.
TypeOK ==
    /\ \A d \in DOMAIN dirs :
         /\ dirs[d] \in Directory
         /\ dirs[d].parent # Root => dirs[d].parent \in DOMAIN dirs
         /\ dirs[d].level = IF dirs[d].parent = Root THEN 1 ELSE dirs[dirs[d].parent].level + 1
    /\ \A s \in DOMAIN sheets : sheets[s] \in Sheet /\ sheets[s].dir \in DOMAIN dirs
    /\ columns \subseteq Column
    /\ \A c \in columns : c.sheet \in DOMAIN sheets
    /\ \A e \in DOMAIN entries : e \in EntryId /\ entries[e] \in DOMAIN sheets
    /\ \A v \in values :
         /\ v \in Value
         /\ v.column \in columns
         /\ v.entry \in DOMAIN entries
         /\ v.column.sheet = entries[v.entry]
    /\ \A v, w \in values : v.entry = w.entry /\ v.column = w.column => v = w
    /\ \A q \in Requests : pc[q] \in Ended \cup
         {"idle", "mkdir", "trash", "sheet", "entries", "latest", "values",
          "pick", "lock", "replace", "fetch", "discard", "remove"}

Met(r, s) == {r, s} \in raced
On(d, op) == {r \in Requests : call[r].op = op /\ call[r].dir = d /\ pc[r] = "ok"}

\* A directory of the first level has folders or sheets in use, never both, unless
\* a folder and a sheet were made in it at the same time.
FoldersOrSheets == \A d \in DOMAIN dirs :
    dirs[d].level = 1 /\ ActiveChildren(d) # {} /\ ActiveSheets(d) # {} =>
        \E r \in On(d, "createDir"), q \in On(d, "createSheet") : Met(r, q)

\* A directory in the trash holds no folder in use, unless that was made while the
\* directory was thrown away, and no sheet in use but those made since.
TrashIsEmpty == \A d \in DOMAIN dirs :
    ~dirs[d].active =>
        /\ ActiveChildren(d) # {} =>
             \E r \in On(d, "createDir"), q \in On(d, "deleteDir") : Met(r, q)
        /\ ActiveSheets(d) \subseteq On(d, "createSheet")

\* Who goes down the pages from the first level comes upon the directories of the
\* hierarchy and no others, and meets no directory that has both.  All in use are
\* among them, but those made in one that was being thrown away.
PagesShowTheTree ==
    LET Under(D) == D \cup UNION {FoldersOn(d) : d \in D}
    IN
    /\ Under(Under(FirstLevel)) = Hierarchy
    /\ \A d \in DOMAIN dirs : dirs[d].level = 2 => Children(d) = {} \/ \A s \in DOMAIN sheets : sheets[s].dir # d
    /\ \A d \in DOMAIN dirs : dirs[d].active /\ d \notin Hierarchy =>
         \E q \in On(dirs[d].parent, "deleteDir") : Met(d, q)
    /\ \A s \in SheetsListed \ SheetsShown :
         \E d \in ToSet(PathTo[sheets[s].dir]) : On(d, "deleteDir") # {}

\* The tree stays tidy: folders and sheets do not mix, and the trash is empty, but
\* for what was made at the same time (create and delete of ExpenseDirectoryService),
\* and pages and hierarchy agree on what there is.
TreeIsTidy == FoldersOrSheets /\ TrashIsEmpty /\ PagesShowTheTree

\* Values of a row are in an entry of the request that gave the row, and an entry
\* holds one row, unless the requests were at work at the same time.
RowsKeepApart ==
    /\ \A v \in values : v.entry[1] = v.row[1] \/ Met(v.entry[1], v.row[1])
    /\ \A v, w \in values :
         v.entry = w.entry => v.row = w.row \/ Met(v.row[1], w.row[1])

\* The columns of a sheet come from one body, so that a name is there twice only if
\* the body has it twice, unless two replacements of its columns ran at the same time.
ColumnsStandAlone == \A c, k \in columns :
    c.sheet = k.sheet => c.by = k.by \/ Met(c.by, k.by)

\* The body of r has drafts and submitted rows, which may change places.
Mixed(r) ==
    LET rows == call[r].body.rows
    IN \E i, j \in DOMAIN rows : rows[i].draft # rows[j].draft

SharedBy(s) == {p \in values \X values :
    p[1] # p[2] /\ p[1].entry = p[2].entry /\ entries[p[1].entry] = s /\ p[1].row # p[2].row}

\* What the totals of a sheet count its pages show, and its file: they differ only
\* where rows that raced share an entry.  The store's totals are those of its
\* sheets, and a draft is shown as submitted, or the other way round, only if it
\* raced or the rows of its own body differ in that.
PagesAddUp ==
    /\ \A s \in SheetsListed :
         LET shown == Filled(PageOf(s, TRUE)) + Filled(PageOf(s, FALSE))
             total == GrandTotal(SheetTotals(s))
         IN
         /\ shown = Filled(FileOf(s))
         /\ shown <= total
         /\ shown < total => SharedBy(s) # {}
    /\ GrandTotal(StoreTotals) =
         MapThenSumSet(LAMBDA s : GrandTotal(SheetTotals(s)), SheetsListed)
    /\ \A v \in values :
         Draft(v.entry) # Draft(v.row) => Mixed(v.row[1]) \/ Met(v.entry[1], v.row[1])

\* A sheet keeps its rows and its columns apart, and its pages and totals agree,
\* unless requests on it race (addDraftEntries, updateWithData).
SheetsKeepApart == RowsKeepApart /\ ColumnsStandAlone /\ PagesAddUp

\* Who replaces columns or rows and meets nobody leaves exactly his own.
UpdateReplaces == [][\A r \in Requests :
    /\ pc[r] # "ok" /\ pc'[r] = "ok" /\ call[r].op = "update"
    /\ \A q \in Requests : ~Met(r, q)
    => LET s == call[r].sheet
           b == call[r].body
       IN
       /\ b.names # Unset => ColumnsOf(s)' = ColumnsBy(r, s, b.names)
       /\ b.rows # Unset =>
            /\ EntriesOf(s)' = Made(r, Len(b.rows))
            /\ \A i \in DOMAIN b.rows :
                 {v.column.name : v \in {x \in values' : x.row = <<r, i>>}} = b.rows[i].cells]_vars

===============================================================================
