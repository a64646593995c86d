--------------------------- MODULE SaleStock_proofs ---------------------------
(***************************************************************************)
(* Proofs about SaleStock, for every set of sales, requests and bodies.     *)
(*                                                                         *)
(* The first part needs no assumption on the clients.  The second, what a   *)
(* request holds and what the checked lines leave in stock, needs none      *)
(* either.  The last two assume OnePerSale: that what a request read of its *)
(* sale stays true, and that units add up.                                  *)
(***************************************************************************)
EXTENDS SaleStock, FoldTheorems, FiniteSetTheorems, TLAPS

USE SalesAssumption, SlotsAssumption, RowsAssumption, BodiesAssumption

LEMMA InitTypeOK == Init => TypeOK
<1>1. ASSUME Init PROVE call \in [Requests -> Calls]
  <2>1. NoCall \in Calls BY DEF NoCall, Calls
  <2> QED BY <1>1, <2>1 DEF Init
<1> QED BY <1>1 DEF Init, TypeOK, SaleStatus, Row

\* A counter stays an integer, whatever is put into it or taken from it.
LEMMA StockStaysInt ==
    ASSUME TypeOK, NEW b \in Bins, NEW q \in Int
    PROVE  /\ [stock EXCEPT ![b] = @ + q] \in [Bins -> Int]
           /\ [stock EXCEPT ![b] = @ - q] \in [Bins -> Int]
<1>1. stock \in [Bins -> Int] BY DEF TypeOK
<1> QED BY <1>1

\* A line of a body names a slot and a quantity, whichever kind of line it is.
LEMMA BodyLines ==
    ASSUME TypeOK, NEW r \in Requests, NEW k \in 1..Len(call[r].body)
    PROVE  LET line == call[r].body[k] IN
           line.slot \in Slots /\ line.qty \in Nat /\ BinOf[line.slot] \in Bins
<1>1. call[r].body \in Seq(Line) \cup Seq(ReturnLine) BY DEF TypeOK, Calls
<1>2. call[r].body[k] \in Line \cup ReturnLine BY <1>1
<1> QED BY <1>2 DEF Line, ReturnLine

LEMMA TakeLineTypeOK ==
    ASSUME TypeOK, CursorsInBody, NEW r \in Requests, TakeLine(r)
    PROVE  TypeOK'
<1> DEFINE line == call[r].body[done[r] + 1]
<1>1. call[r].body \in Seq(Line) /\ done[r] \in Nat /\ done[r] < Len(call[r].body)
  <2>1. pc[r] = "take" BY DEF TakeLine
  <2> QED BY <2>1 DEF TypeOK, CursorsInBody
<1>2. done[r] + 1 \in 1..Len(call[r].body) BY <1>1
<1>3. line.qty \in Int /\ BinOf[line.slot] \in Bins BY <1>2, BodyLines
<1>4. stock' = [stock EXCEPT ![BinOf[line.slot]] = @ - line.qty] BY DEF TakeLine
<1>5. stock' \in [Bins -> Int]
  <2> HIDE DEF line
  <2> QED BY <1>3, <1>4, StockStaysInt
<1>6. /\ done' = [done EXCEPT ![r] = @ + 1]
      /\ \E to \in {"take", "finish", "restock", "refund", "returned"} : Goto(r, to)
      /\ UNCHANGED <<sales, walkIn, status, items, returns, entries, tx, call,
                     old, given, checked, snap, dels, gone, new>>
  BY DEF TakeLine
<1>7. done' \in [Requests -> Nat] BY <1>6 DEF TypeOK
<1> QED BY <1>5, <1>6, <1>7 DEF TypeOK, Goto

LEMMA RestockLineTypeOK ==
    ASSUME TypeOK, CursorsInBody, NEW r \in Requests, RestockLine(r)
    PROVE  TypeOK'
<1> DEFINE line == call[r].body[done[r] + 1]
<1>1. call[r].body \in Seq(ReturnLine) /\ done[r] \in Nat /\ done[r] < Len(call[r].body)
  <2>1. pc[r] = "restock" BY DEF RestockLine
  <2> QED BY <2>1 DEF TypeOK, CursorsInBody
<1>2. done[r] + 1 \in 1..Len(call[r].body) BY <1>1
<1>3. line.qty \in Int /\ BinOf[line.slot] \in Bins BY <1>2, BodyLines
<1>4. \/ stock' = [stock EXCEPT ![BinOf[line.slot]] = @ + line.qty]
      \/ stock' = stock
  BY DEF RestockLine
<1>5. stock' \in [Bins -> Int]
  <2> HIDE DEF line
  <2>1. CASE stock' = [stock EXCEPT ![BinOf[line.slot]] = @ + line.qty]
    BY <1>3, <2>1, StockStaysInt
  <2>2. CASE stock' = stock BY <2>2 DEF TypeOK
  <2> QED BY <1>4, <2>1, <2>2
<1>6. /\ done' = [done EXCEPT ![r] = @ + 1]
      /\ \E to \in {"take", "finish", "restock", "refund", "returned"} : Goto(r, to)
      /\ UNCHANGED <<sales, walkIn, status, items, returns, entries, tx, call,
                     old, given, checked, snap, dels, gone, new>>
  BY DEF RestockLine
<1>7. done' \in [Requests -> Nat] BY <1>6 DEF TypeOK
<1> QED BY <1>5, <1>6, <1>7 DEF TypeOK, Goto

\* The rows a request makes of its body are rows of the table they go to.
LEMMA InsertedRows ==
    ASSUME TypeOK, CursorsInBody, NEW r \in Requests, InsertRows(r)
    PROVE  PricedRows(r) \subseteq Row
<1>1. call[r].body \in Seq(Line) /\ call[r].sale \in Sales
  BY DEF InsertRows, TypeOK, CursorsInBody, Calls
<1>2. \A k \in DOMAIN call[r].body : k \in Nat /\ call[r].body[k] \in Line BY <1>1
<1> QED BY <1>1, <1>2 DEF PricedRows, Row, Line

LEMMA InsertedReturns ==
    ASSUME TypeOK, CursorsInBody, NEW r \in Requests, InsertReturns(r)
    PROVE  ReturnRows(r) \subseteq Return
<1>1. call[r].body \in Seq(ReturnLine) /\ call[r].sale \in Sales
  BY DEF InsertReturns, TypeOK, CursorsInBody, Calls
<1>2. \A k \in DOMAIN call[r].body : k \in Nat /\ call[r].body[k] \in ReturnLine BY <1>1
<1> QED BY <1>1, <1>2 DEF ReturnRows, Return, ReturnLine

LEMMA StepTypeOK ==
    ASSUME TypeOK, CursorsInBody, NewRowsAreOwn, NEW r \in Requests, Step(r) \/ Expire(r)
    PROVE  TypeOK'
<1> USE DEF TypeOK, CursorsInBody, Goto, Abort, Committed, db, locals
<1>1. CASE ReadOld(r) BY <1>1 DEF ReadOld, RowsOf
<1>2. CASE RestoreLine(r)
  <2>1. PICK row \in old[r] \ given[r] :
          /\ stock' = [stock EXCEPT ![BinOf[row.slot]] = @ + row.qty]
          /\ given' = [given EXCEPT ![r] = @ \cup {row}]
    BY <1>2 DEF RestoreLine
  <2>2. row \in Row /\ row.qty \in Int /\ BinOf[row.slot] \in Bins BY DEF Row
  <2>3. stock' \in [Bins -> Int] BY <2>1, <2>2, StockStaysInt
  <2>4. given' \in [Requests -> SUBSET Row] BY <2>1, <2>2
  <2> QED BY <1>2, <2>3, <2>4 DEF RestoreLine
<1>3. CASE RestoreLineThrows(r) BY <1>3 DEF RestoreLineThrows
<1>4. CASE DeleteRows(r) BY <1>4 DEF DeleteRows, RowsOf
<1>5. CASE LockRows(r) BY <1>5 DEF LockRows, ReturnsOf, AfterDelete
<1>6. CASE CheckLine(r) BY <1>6 DEF CheckLine
<1>7. CASE CheckLineThrows(r) BY <1>7 DEF CheckLineThrows
<1>8. CASE InsertRows(r) BY <1>8, InsertedRows DEF InsertRows
<1>9. CASE InsertRowsThrows(r) BY <1>9 DEF InsertRowsThrows
<1>10. CASE TakeLine(r) BY <1>10, TakeLineTypeOK
<1>11. CASE FinishUpdate(r)
  <2>1. new[r] \subseteq Row BY <1>11 DEF FinishUpdate, NewRowsAreOwn
  <2>2. status' \in [Sales -> SaleStatus] BY <1>11 DEF FinishUpdate, Calls
  <2> QED BY <1>11, <2>1, <2>2 DEF FinishUpdate
<1>12. CASE DeleteEntries(r) BY <1>12 DEF DeleteEntries
<1>13. CASE FinishDelete(r) BY <1>13 DEF FinishDelete, RowsOf, ReturnsOf
<1>14. CASE FinishThrows(r) BY <1>14 DEF FinishThrows
<1>15. CASE InsertReturns(r) BY <1>15, InsertedReturns DEF InsertReturns
<1>16. CASE InsertReturnsThrows(r) BY <1>16 DEF InsertReturnsThrows
<1>17. CASE RestockLine(r) BY <1>17, RestockLineTypeOK
<1>18. CASE Refund(r) BY <1>18 DEF Refund, Calls
<1>19. CASE RefundThrows(r) BY <1>19 DEF RefundThrows
<1>20. CASE FinishReturn(r)
  <2>1. new[r] \subseteq Return BY <1>20 DEF FinishReturn, NewRowsAreOwn
  <2>2. status' \in [Sales -> SaleStatus] BY <1>20 DEF FinishReturn
  <2> QED BY <1>20, <2>1, <2>2 DEF FinishReturn
<1>21. CASE Expired(r) BY <1>21 DEF Expired
<1>22. CASE Expire(r) BY <1>22 DEF Expire
<1>23. CASE CreateRow(r) BY <1>23 DEF CreateRow
<1>24. CASE CreateRowThrows(r) BY <1>24 DEF CreateRowThrows
<1>25. CASE FinishCreate(r)
  <2>1. /\ call[r].sale \in Sales
        /\ call[r].status \in SaleStatus
    BY <1>25 DEF FinishCreate, Calls
  <2> QED BY <1>25, <2>1 DEF FinishCreate
<1> QED
  BY <1>1, <1>2, <1>3, <1>4, <1>5, <1>6, <1>7, <1>8, <1>9, <1>10, <1>11, <1>12,
     <1>13, <1>14, <1>15, <1>16, <1>17, <1>18, <1>19, <1>20, <1>21, <1>22,
     <1>23, <1>24, <1>25
     DEF Step

LEMMA ReceiveTypeOK ==
    ASSUME TypeOK, NEW r \in Requests, Receive(r)
    PROVE  TypeOK'
<1>1. CASE BeginDeleteAll(r)
  <2>1. NoCall \in Calls BY DEF NoCall, Calls
  <2>2. [NoCall EXCEPT !.op = "deleteAll"] \in Calls BY <2>1 DEF Calls
  <2> QED BY <1>1, <2>2 DEF BeginDeleteAll, TypeOK, Begin, Goto, db, locals
<1>2. ASSUME NEW s \in Sales, BeginDelete(r, s) PROVE TypeOK'
  <2>1. [op |-> "delete", sale |-> s, body |-> <<>>, status |-> NoChange] \in Calls
    BY DEF Calls
  <2> QED BY <1>2, <2>1 DEF BeginDelete, TypeOK, Begin, Goto, db, locals
<1>3. ASSUME NEW s \in Sales, NEW body \in UpdateBodies, NEW st \in Statuses,
             BeginUpdate(r, s, body, st)
      PROVE  TypeOK'
  <2>1. [op |-> "update", sale |-> s, body |-> body, status |-> st] \in Calls BY DEF Calls
  <2> QED BY <1>3, <2>1 DEF BeginUpdate, TypeOK, Begin, Goto, db, locals
<1>4. ASSUME NEW s \in Sales, NEW st \in Statuses, BeginStatusUpdate(r, s, st)
      PROVE  TypeOK'
  <2>1. [op |-> "update", sale |-> s, body |-> <<>>, status |-> st] \in Calls BY DEF Calls
  <2> QED BY <1>4, <2>1 DEF BeginStatusUpdate, TypeOK, Begin, Goto, db, locals
<1>5. ASSUME NEW s \in Sales, NEW body \in ReturnBodies, BeginReturn(r, s, body)
      PROVE  TypeOK'
  <2>1. StatusAfterReturn(s, body) \in SaleStatus BY DEF StatusAfterReturn, TypeOK, SaleStatus
  <2>2. [op |-> "return", sale |-> s, body |-> body,
         status |-> StatusAfterReturn(s, body)] \in Calls
    BY <2>1 DEF Calls
  <2> QED BY <1>5, <2>2 DEF BeginReturn, TypeOK, Begin, Goto, db, locals
<1>6. ASSUME NEW s \in Sales, NEW body \in CreateBodies,
             NEW st \in {"PENDING", "CONFIRMED"}, BeginCreate(r, s, body, st)
      PROVE  TypeOK'
  <2>1. [op |-> "create", sale |-> s, body |-> body, status |-> st] \in Calls
    BY DEF Calls, SaleStatus
  <2> QED BY <1>6, <2>1 DEF BeginCreate, TypeOK, Goto, db, locals
<1> QED BY <1>1, <1>2, <1>3, <1>4, <1>5, <1>6 DEF Receive

LEMMA CrashTypeOK ==
    ASSUME TypeOK, Crash
    PROVE  TypeOK'
  BY DEF TypeOK, Crash, InFlight, db

----------------------------------------------------------------------------
(* Each request's step preserves the rest of the inductive invariant. *)

LEMMA LockRowsIndInv ==
    ASSUME IndInv, TypeOK', NEW r \in Requests, LockRows(r)
    PROVE  IndInv'
<1> USE DEF IndInv, TypeOK, LockRows, Goto, db, locals, AfterDelete, RowsOf, ReturnsOf
<1>1. NewRowsAreOwn' BY DEF NewRowsAreOwn
<1>2. OldRowsAreCommitted' BY DEF OldRowsAreCommitted
<1>3. GivenRowsAreLeaving' BY DEF GivenRowsAreLeaving
<1>4. CursorsInBody' BY DEF CursorsInBody
<1>5. RestoredLinesAreGone' BY DEF RestoredLinesAreGone
<1>6. RowsOfCommittedRequests' BY DEF RowsOfCommittedRequests
<1>7. NoOrphanRows' BY DEF NoOrphanRows
<1> QED BY <1>1, <1>2, <1>3, <1>4, <1>5, <1>6, <1>7

LEMMA InsertRowsIndInv ==
    ASSUME IndInv, TypeOK', NEW r \in Requests, InsertRows(r)
    PROVE  IndInv'
<1> USE DEF IndInv, TypeOK, InsertRows, Goto, db, locals, PricedRows
<1>1. NewRowsAreOwn'
  <2>1. \A row \in PricedRows(r) : row.by = r /\ row.sale = call[r].sale BY DEF PricedRows
  <2>2. PricedRows(r) \subseteq Row BY InsertedRows
  <2> HIDE DEF PricedRows
  <2> QED BY <2>1, <2>2 DEF NewRowsAreOwn
<1>2. OldRowsAreCommitted' BY DEF OldRowsAreCommitted
<1>3. GivenRowsAreLeaving' BY DEF GivenRowsAreLeaving
<1>4. CursorsInBody' BY DEF CursorsInBody
<1>5. RestoredLinesAreGone' BY DEF RestoredLinesAreGone
<1>6. RowsOfCommittedRequests' BY DEF RowsOfCommittedRequests
<1>7. NoOrphanRows' BY DEF NoOrphanRows
<1> QED BY <1>1, <1>2, <1>3, <1>4, <1>5, <1>6, <1>7

LEMMA TakeLineIndInv ==
    ASSUME IndInv, TypeOK', NEW r \in Requests, TakeLine(r)
    PROVE  IndInv'
<1>1. /\ pc[r] = "take"
      /\ done[r] \in Nat
      /\ call[r].body \in Seq(Line)
      /\ done[r] < Len(call[r].body)
  BY DEF IndInv, TypeOK, CursorsInBody, TakeLine
<1>2. /\ done'[r] = done[r] + 1
      /\ \A q \in Requests \ {r} : done'[q] = done[q] /\ pc'[q] = pc[q]
      /\ UNCHANGED <<sales, items, returns, tx, call, old, given, checked,
                     snap, dels, new>>
  BY ZenonT(120) DEF TakeLine, Goto, IndInv, TypeOK
<1>3. /\ pc'[r] \in {"take", "finish"}
      /\ pc'[r] = "take" => done[r] + 1 < Len(call[r].body)
  <2> DEFINE n == Len(call[r].body)
  <2>1. n \in Nat BY <1>1
  <2>2. Goto(r, IF done[r] + 1 = Len(call[r].body) THEN "finish" ELSE "take") BY DEF TakeLine
  <2>3. pc'[r] = IF done[r] + 1 = n THEN "finish" ELSE "take" BY <2>2 DEF Goto, IndInv, TypeOK
  <2>4. done[r] < n /\ done[r] \in Nat BY <1>1
  <2> HIDE DEF n
  <2>5. pc'[r] \in {"take", "finish"} /\ (pc'[r] = "take" => done[r] + 1 < n)
    BY <2>1, <2>3, <2>4
  <2> QED BY <2>5 DEF n
<1>4. NewRowsAreOwn' BY <1>1, <1>2, <1>3 DEF IndInv, NewRowsAreOwn
<1>5. OldRowsAreCommitted'
  <2>1. \A q \in Requests : pc[q] = "ok" => pc'[q] = "ok" BY <1>1, <1>2
  <2>2. \A q \in Requests : \A row \in old[q] : row.by \in Requests \cup {Seed}
    BY DEF IndInv, TypeOK, Row
  <2> QED BY <1>1, <1>2, <1>3, <2>1, <2>2 DEF IndInv, OldRowsAreCommitted, Scope
<1>6. GivenRowsAreLeaving' BY <1>1, <1>2, <1>3 DEF IndInv, GivenRowsAreLeaving
<1>7. CursorsInBody'
  <2>1. call' = call /\ checked' = checked /\ CursorsInBody
        /\ \A q \in Requests \ {r} : done'[q] = done[q] /\ pc'[q] = pc[q]
    BY <1>2 DEF IndInv
  <2>2. /\ pc[r] = "take"
        /\ pc'[r] \in {"take", "finish"}
        /\ pc'[r] = "take" => done'[r] < Len(call[r].body)
    BY <1>1, <1>2, <1>3
  <2> QED BY <2>1, <2>2, ZenonT(120) DEF CursorsInBody
<1>8. RestoredLinesAreGone' BY <1>1, <1>2, <1>3 DEF IndInv, RestoredLinesAreGone
<1>9. RowsOfCommittedRequests'
  <2>1. \A row \in items \cup returns : row.by \in Requests \cup {Seed}
    BY DEF IndInv, TypeOK, Row, Return
  <2> QED BY <1>1, <1>2, <2>1 DEF IndInv, RowsOfCommittedRequests
<1>10. NoOrphanRows' BY <1>2 DEF IndInv, NoOrphanRows
<1> QED BY <1>4, <1>5, <1>6, <1>7, <1>8, <1>9, <1>10 DEF IndInv

\* What q has put back was committed before it read it, so that the rows r is
\* about to commit are not among it.
LEMMA CommitBringsNothingBack ==
    ASSUME IndInv, NEW r \in Requests, pc[r] # "ok", NEW q \in Requests
    PROVE  given[q] \cap new[r] = {}
<1>1. \A row \in new[r] : row.by = r BY DEF IndInv, NewRowsAreOwn
<1>2. \A row \in given[q] : row.by # Seed => pc[row.by] = "ok"
  BY DEF IndInv, OldRowsAreCommitted, GivenRowsAreLeaving
<1> QED BY <1>1, <1>2

LEMMA FinishUpdateIndInv ==
    ASSUME IndInv, TypeOK', NEW r \in Requests, FinishUpdate(r)
    PROVE  IndInv'
<1>1. /\ pc[r] = "finish" /\ tx[r] = "open" /\ pc'[r] = "ok"
      /\ sales[call[r].sale] = "present"
      /\ \A q \in Requests \ {r} :
           pc'[q] = pc[q] /\ tx'[q] = tx[q] /\ new'[q] = new[q] /\ dels'[q] = dels[q]
      /\ new'[r] = {}
      /\ items' = (items \ dels[r]) \cup new[r]
      /\ UNCHANGED <<sales, returns, call, old, given, checked, done, snap>>
  BY DEF FinishUpdate, Committed, Goto, IndInv, TypeOK
<1>2. \A q \in Requests : given[q] \cap new[r] = {} BY <1>1, CommitBringsNothingBack
<1>3. \A q \in Requests : pc[q] = "ok" => pc'[q] = "ok" BY <1>1
<1>4. NewRowsAreOwn' BY <1>1 DEF IndInv, NewRowsAreOwn
<1>5. OldRowsAreCommitted'
  <2>1. \A q \in Requests : \A row \in old[q] : row.by \in Requests \cup {Seed}
    BY DEF IndInv, TypeOK, Row
  <2> QED BY ZenonT(120), <1>1, <1>3, <2>1 DEF IndInv, OldRowsAreCommitted, Scope
<1>6. GivenRowsAreLeaving' BY <1>1, <1>2 DEF IndInv, GivenRowsAreLeaving
<1>7. CursorsInBody' BY ZenonT(120), <1>1 DEF IndInv, CursorsInBody
<1>8. RestoredLinesAreGone'
  <2>1. given[r] \cap items \subseteq dels[r] BY <1>1 DEF IndInv, GivenRowsAreLeaving
  <2> QED BY <1>1, <1>2, <2>1 DEF IndInv, RestoredLinesAreGone
<1>9. RowsOfCommittedRequests'
  <2>1. \A row \in items \cup returns : row.by \in Requests \cup {Seed}
    BY DEF IndInv, TypeOK, Row, Return
  <2>2. \A row \in new[r] : row.by = r BY DEF IndInv, NewRowsAreOwn
  <2> QED BY <1>1, <1>3, <2>1, <2>2 DEF IndInv, RowsOfCommittedRequests
<1>10. NoOrphanRows'
  <2>1. \A row \in new[r] : row.sale = call[r].sale BY DEF IndInv, NewRowsAreOwn
  <2> QED BY <1>1, <2>1 DEF IndInv, NoOrphanRows
<1> QED BY <1>4, <1>5, <1>6, <1>7, <1>8, <1>9, <1>10 DEF IndInv

LEMMA FinishDeleteIndInv ==
    ASSUME IndInv, TypeOK', NEW r \in Requests, FinishDelete(r)
    PROVE  IndInv'
<1> USE DEF IndInv, TypeOK, FinishDelete, Goto, db, locals, RowsOf, ReturnsOf, Committed
<1>1. NewRowsAreOwn' BY DEF NewRowsAreOwn
<1>2. OldRowsAreCommitted' BY DEF OldRowsAreCommitted
<1>3. GivenRowsAreLeaving' BY DEF GivenRowsAreLeaving
<1>4. CursorsInBody' BY DEF CursorsInBody
<1>5. RestoredLinesAreGone'
  <2>1. \A row \in given[r] : row.sale \in Scope(call[r])
    BY DEF GivenRowsAreLeaving, OldRowsAreCommitted
  <2>2. items' \subseteq items /\ \A row \in items' : row.sale \notin Scope(call[r]) OBVIOUS
  <2>3. given' = given /\ \A q \in Requests \ {r} : pc'[q] = pc[q] OBVIOUS
  <2> QED BY <2>1, <2>2, <2>3 DEF RestoredLinesAreGone
<1>6. RowsOfCommittedRequests' BY DEF RowsOfCommittedRequests
<1>7. NoOrphanRows'
  <2>1. \A row \in items' \cup returns' :
          row \in items \cup returns /\ row.sale \notin Scope(call[r])
    OBVIOUS
  <2>2. \A row \in items \cup returns : row.sale \in Sales BY DEF Row, Return
  <2>3. \A s \in Sales \ Scope(call[r]) : sales'[s] = sales[s] OBVIOUS
  <2> QED BY <2>1, <2>2, <2>3 DEF NoOrphanRows
<1> QED BY <1>1, <1>2, <1>3, <1>4, <1>5, <1>6, <1>7

LEMMA RestoreLineIndInv ==
    ASSUME IndInv, TypeOK', NEW r \in Requests, RestoreLine(r)
    PROVE  IndInv'
<1>1. PICK row \in old[r] \ given[r] : given' = [given EXCEPT ![r] = @ \cup {row}]
  BY DEF RestoreLine
<1>2. /\ pc[r] = "restore"
      /\ pc'[r] \in {"restore", "delete"}
      /\ \A q \in Requests \ {r} : pc'[q] = pc[q] /\ given'[q] = given[q]
      /\ given'[r] \subseteq old[r]
      /\ UNCHANGED <<sales, items, returns, tx, call, old, checked, done, snap,
                     dels, new>>
  BY <1>1 DEF RestoreLine, Goto, IndInv, TypeOK, GivenRowsAreLeaving
<1>3. call[r].op \in {"update", "delete", "deleteAll"} BY <1>2 DEF IndInv, CursorsInBody
<1>4. NewRowsAreOwn' BY <1>2 DEF IndInv, NewRowsAreOwn
<1>5. OldRowsAreCommitted'
  <2>1. \A q \in Requests : pc[q] = "ok" => pc'[q] = "ok" BY <1>2
  <2>2. \A q \in Requests : \A rw \in old[q] : rw.by \in Requests \cup {Seed}
    BY DEF IndInv, TypeOK, Row
  <2> QED BY <1>2, <2>1, <2>2 DEF IndInv, OldRowsAreCommitted, Scope
<1>6. GivenRowsAreLeaving' BY <1>2, <1>3 DEF IndInv, GivenRowsAreLeaving
<1>7. CursorsInBody' BY ZenonT(120), <1>2, <1>3 DEF IndInv, CursorsInBody
<1>8. RestoredLinesAreGone' BY <1>2 DEF IndInv, RestoredLinesAreGone
<1>9. RowsOfCommittedRequests'
  <2>1. \A rw \in items \cup returns : rw.by \in Requests \cup {Seed}
    BY DEF IndInv, TypeOK, Row, Return
  <2> QED BY <1>2, <2>1 DEF IndInv, RowsOfCommittedRequests
<1>10. NoOrphanRows' BY <1>2 DEF IndInv, NoOrphanRows
<1> QED BY <1>4, <1>5, <1>6, <1>7, <1>8, <1>9, <1>10 DEF IndInv

LEMMA FinishCreateIndInv ==
    ASSUME IndInv, TypeOK', NEW r \in Requests, FinishCreate(r)
    PROVE  IndInv'
<1> USE DEF IndInv, TypeOK, FinishCreate, Committed, Goto
<1>1. NewRowsAreOwn' BY DEF NewRowsAreOwn
<1>2. OldRowsAreCommitted' BY DEF OldRowsAreCommitted
<1>3. GivenRowsAreLeaving' BY DEF GivenRowsAreLeaving
<1>4. CursorsInBody' BY DEF CursorsInBody
<1>5. RestoredLinesAreGone' BY DEF RestoredLinesAreGone, GivenRowsAreLeaving
<1>6. RowsOfCommittedRequests' BY DEF RowsOfCommittedRequests
<1>7. NoOrphanRows' BY DEF NoOrphanRows
<1> QED BY <1>1, <1>2, <1>3, <1>4, <1>5, <1>6, <1>7

LEMMA InsertReturnsIndInv ==
    ASSUME IndInv, TypeOK', NEW r \in Requests, InsertReturns(r)
    PROVE  IndInv'
<1> USE DEF IndInv, TypeOK, InsertReturns, Goto, db, locals, ReturnRows
<1>1. NewRowsAreOwn'
  <2>1. \A ret \in ReturnRows(r) : ret.by = r /\ ret.sale = call[r].sale BY DEF ReturnRows
  <2>2. ReturnRows(r) \subseteq Return BY InsertedReturns
  <2>3. call[r].body = <<>> => ReturnRows(r) = {} BY DEF ReturnRows
  <2> HIDE DEF ReturnRows
  <2> QED BY <2>1, <2>2, <2>3 DEF NewRowsAreOwn
<1>2. OldRowsAreCommitted' BY DEF OldRowsAreCommitted
<1>3. GivenRowsAreLeaving' BY DEF GivenRowsAreLeaving
<1>4. CursorsInBody' BY DEF CursorsInBody
<1>5. RestoredLinesAreGone' BY DEF RestoredLinesAreGone
<1>6. RowsOfCommittedRequests' BY DEF RowsOfCommittedRequests
<1>7. NoOrphanRows' BY DEF NoOrphanRows
<1> QED BY <1>1, <1>2, <1>3, <1>4, <1>5, <1>6, <1>7

LEMMA RestockLineIndInv ==
    ASSUME IndInv, TypeOK', NEW r \in Requests, RestockLine(r)
    PROVE  IndInv'
<1>1. /\ pc[r] = "restock"
      /\ done[r] \in Nat
      /\ call[r].body \in Seq(ReturnLine)
      /\ done[r] < Len(call[r].body)
  BY DEF IndInv, TypeOK, CursorsInBody, RestockLine
<1>2. /\ done'[r] = done[r] + 1
      /\ \A q \in Requests \ {r} : done'[q] = done[q] /\ pc'[q] = pc[q]
      /\ UNCHANGED <<sales, items, returns, tx, call, old, given, checked,
                     snap, dels, new>>
  BY ZenonT(120) DEF RestockLine, Goto, IndInv, TypeOK
<1>3. /\ pc'[r] \in {"restock", "refund", "returned"}
      /\ pc'[r] = "restock" => done[r] + 1 < Len(call[r].body)
  <2> DEFINE n == Len(call[r].body)
  <2>1. n \in Nat BY <1>1
  <2> QED BY <1>1, <2>1 DEF RestockLine, Goto, IndInv, TypeOK
<1>4. NewRowsAreOwn' BY <1>1, <1>2, <1>3 DEF IndInv, NewRowsAreOwn
<1>5. OldRowsAreCommitted'
  <2>1. \A q \in Requests : pc[q] = "ok" => pc'[q] = "ok" BY <1>1, <1>2
  <2>2. \A q \in Requests : \A row \in old[q] : row.by \in Requests \cup {Seed}
    BY DEF IndInv, TypeOK, Row
  <2> QED BY <1>1, <1>2, <1>3, <2>1, <2>2 DEF IndInv, OldRowsAreCommitted, Scope
<1>6. GivenRowsAreLeaving' BY <1>1, <1>2, <1>3 DEF IndInv, GivenRowsAreLeaving
<1>7. CursorsInBody'
  <2>1. call' = call /\ checked' = checked /\ CursorsInBody
        /\ \A q \in Requests \ {r} : done'[q] = done[q] /\ pc'[q] = pc[q]
    BY <1>2 DEF IndInv
  <2>2. /\ pc[r] = "restock"
        /\ pc'[r] \in {"restock", "refund", "returned"}
        /\ pc'[r] = "restock" => done'[r] < Len(call[r].body)
    BY <1>1, <1>2, <1>3
  <2> QED BY <2>1, <2>2 DEF CursorsInBody
<1>8. RestoredLinesAreGone' BY <1>1, <1>2, <1>3 DEF IndInv, RestoredLinesAreGone
<1>9. RowsOfCommittedRequests'
  <2>1. \A row \in items \cup returns : row.by \in Requests \cup {Seed}
    BY DEF IndInv, TypeOK, Row, Return
  <2> QED BY <1>1, <1>2, <2>1 DEF IndInv, RowsOfCommittedRequests
<1>10. NoOrphanRows' BY <1>2 DEF IndInv, NoOrphanRows
<1> QED BY <1>4, <1>5, <1>6, <1>7, <1>8, <1>9, <1>10 DEF IndInv

LEMMA ExpiredIndInv ==
    ASSUME IndInv, TypeOK', NEW r \in Requests, Expired(r)
    PROVE  IndInv'
<1> USE DEF IndInv, TypeOK, Expired, Goto, db, locals, Abort, AtTxStatement
<1>1. NewRowsAreOwn' BY DEF NewRowsAreOwn
<1>2. OldRowsAreCommitted' BY DEF OldRowsAreCommitted
<1>3. GivenRowsAreLeaving' BY DEF GivenRowsAreLeaving
<1>4. CursorsInBody' BY DEF CursorsInBody
<1>5. RestoredLinesAreGone' BY DEF RestoredLinesAreGone
<1>6. RowsOfCommittedRequests' BY DEF RowsOfCommittedRequests
<1>7. NoOrphanRows' BY DEF NoOrphanRows
<1> QED BY <1>1, <1>2, <1>3, <1>4, <1>5, <1>6, <1>7

LEMMA StepIndInv ==
    ASSUME IndInv, TypeOK', NEW r \in Requests, Step(r) \/ Expire(r)
    PROVE  IndInv'
<1> USE DEF IndInv, TypeOK, Goto, Abort, Committed, db, locals,
            NewRowsAreOwn, OldRowsAreCommitted, GivenRowsAreLeaving, CursorsInBody,
            RestoredLinesAreGone, RowsOfCommittedRequests, NoOrphanRows
<1>1. CASE ReadOld(r) BY <1>1 DEF ReadOld, RowsOf
<1>2. CASE RestoreLine(r) BY <1>2, RestoreLineIndInv
<1>3. CASE RestoreLineThrows(r) BY <1>3 DEF RestoreLineThrows
<1>4. CASE DeleteRows(r) BY <1>4 DEF DeleteRows, RowsOf
<1>5. CASE LockRows(r) BY <1>5, LockRowsIndInv
<1>6. CASE CheckLine(r) BY <1>6 DEF CheckLine
<1>7. CASE CheckLineThrows(r) BY <1>7 DEF CheckLineThrows
<1>8. CASE InsertRows(r) BY <1>8, InsertRowsIndInv
<1>9. CASE InsertRowsThrows(r) BY <1>9 DEF InsertRowsThrows
<1>10. CASE TakeLine(r) BY <1>10, TakeLineIndInv
<1>11. CASE FinishUpdate(r) BY <1>11, FinishUpdateIndInv
<1>12. CASE DeleteEntries(r) BY <1>12 DEF DeleteEntries
<1>13. CASE FinishDelete(r) BY <1>13, FinishDeleteIndInv
<1>14. CASE FinishThrows(r) BY <1>14 DEF FinishThrows
<1>15. CASE InsertReturns(r) BY <1>15, InsertReturnsIndInv
<1>16. CASE InsertReturnsThrows(r) BY <1>16 DEF InsertReturnsThrows
<1>17. CASE RestockLine(r) BY <1>17, RestockLineIndInv
<1>18. CASE Refund(r) BY <1>18 DEF Refund
<1>19. CASE RefundThrows(r) BY <1>19 DEF RefundThrows
<1>20. CASE FinishReturn(r) BY <1>20 DEF FinishReturn
<1>21. CASE Expired(r) BY <1>21, ExpiredIndInv
<1>22. CASE Expire(r) BY <1>22 DEF Expire
<1>23. CASE CreateRow(r) BY <1>23 DEF CreateRow
<1>24. CASE CreateRowThrows(r) BY <1>24 DEF CreateRowThrows
<1>25. CASE FinishCreate(r) BY <1>25, FinishCreateIndInv
<1> QED
  BY <1>1, <1>2, <1>3, <1>4, <1>5, <1>6, <1>7, <1>8, <1>9, <1>10, <1>11, <1>12, <1>13, <1>14, <1>15, <1>16, <1>17, <1>18, <1>19, <1>20, <1>21, <1>22,
     <1>23, <1>24, <1>25
     DEF Step

LEMMA CrashIndInv ==
    ASSUME IndInv, TypeOK', Crash
    PROVE  IndInv'
<1> USE DEF IndInv, TypeOK, Crash, InFlight, db
<1>1. NewRowsAreOwn' BY DEF NewRowsAreOwn
<1>2. OldRowsAreCommitted'
  <2>1. \A q \in Requests : \A row \in old[q] : row.by \in Requests \cup {Seed} BY DEF Row
  <2> QED BY <2>1 DEF OldRowsAreCommitted
<1>3. GivenRowsAreLeaving' BY DEF GivenRowsAreLeaving
<1>4. CursorsInBody' BY DEF CursorsInBody
<1>5. RestoredLinesAreGone' BY DEF RestoredLinesAreGone
<1>6. RowsOfCommittedRequests'
  <2>1. \A row \in items \cup returns : row.by \in Requests \cup {Seed} BY DEF Row, Return
  <2> QED BY <2>1 DEF RowsOfCommittedRequests
<1>7. NoOrphanRows' BY DEF NoOrphanRows
<1> QED BY <1>1, <1>2, <1>3, <1>4, <1>5, <1>6, <1>7

\* A request that is received changes nothing but itself, and no sale that
\* exists.
ReceivedBy(r) ==
    /\ pc[r] = "idle"
    /\ \/ /\ pc'[r] \in {"read", "finish"}
          /\ call'[r].op \in {"update", "delete", "deleteAll"}
       \/ /\ pc'[r] = "returns"
          /\ call'[r].op = "return"
          /\ call'[r].body \in Seq(ReturnLine)
          /\ call'[r].status \in SaleStatus
       \/ /\ pc'[r] \in {"check", "insert"}
          /\ call'[r].op = "create"
          /\ call'[r].status \in SaleStatus
          /\ pc'[r] = "check" => 0 < Len(call'[r].body)
    /\ call'[r].op \in {"create", "update", "delete", "deleteAll"} => call'[r].body \in Seq(Line)
    /\ \A q \in Requests \ {r} :
         pc'[q] = pc[q] /\ call'[q] = call[q] /\ tx'[q] = tx[q]
    /\ \A s \in Sales : sales[s] = "present" => sales'[s] = "present"
    /\ UNCHANGED <<items, returns, locals>>

LEMMA ReceiveFacts ==
    ASSUME TypeOK, NEW r \in Requests, Receive(r)
    PROVE  ReceivedBy(r)
<1> USE DEF ReceivedBy, Begin, Goto, db, TypeOK
<1>1. CASE BeginDeleteAll(r) BY <1>1 DEF BeginDeleteAll, NoCall
<1>2. ASSUME NEW s \in Sales, BeginDelete(r, s) PROVE ReceivedBy(r) BY <1>2 DEF BeginDelete
<1>3. ASSUME NEW s \in Sales, NEW body \in UpdateBodies, NEW st \in Statuses,
             BeginUpdate(r, s, body, st)
      PROVE  ReceivedBy(r)
  BY <1>3 DEF BeginUpdate
<1>4. ASSUME NEW s \in Sales, NEW st \in Statuses, BeginStatusUpdate(r, s, st)
      PROVE  ReceivedBy(r)
  BY <1>4 DEF BeginStatusUpdate
<1>5. ASSUME NEW s \in Sales, NEW body \in ReturnBodies, BeginReturn(r, s, body)
      PROVE  ReceivedBy(r)
  <2>1. StatusAfterReturn(s, body) \in SaleStatus BY DEF StatusAfterReturn, SaleStatus
  <2> QED BY <1>5, <2>1 DEF BeginReturn
<1>6. ASSUME NEW s \in Sales, NEW body \in CreateBodies,
             NEW st \in {"PENDING", "CONFIRMED"}, BeginCreate(r, s, body, st)
      PROVE  ReceivedBy(r)
  BY <1>6 DEF BeginCreate, SaleStatus
<1> QED BY <1>1, <1>2, <1>3, <1>4, <1>5, <1>6 DEF Receive

LEMMA ReceiveIndInv ==
    ASSUME IndInv, TypeOK', NEW r \in Requests, Receive(r)
    PROVE  IndInv'
<1>1. ReceivedBy(r) BY ReceiveFacts DEF IndInv
<1> USE DEF ReceivedBy
<1>0. new[r] = {} /\ given[r] = {} /\ old[r] = {}
  BY <1>1 DEF IndInv, NewRowsAreOwn, GivenRowsAreLeaving, OldRowsAreCommitted
<1>2. NewRowsAreOwn' BY SMTT(60), <1>1, <1>0 DEF IndInv, NewRowsAreOwn, locals
<1>3. OldRowsAreCommitted'
  <2>1. \A q \in Requests : \A row \in old[q] : row.by \in Requests \cup {Seed}
    BY DEF IndInv, TypeOK, Row
  <2>2. \A q \in Requests : pc[q] = "ok" => pc'[q] = "ok" BY <1>1
  <2> QED BY ZenonT(120), <1>0, <1>1, <2>1, <2>2 DEF IndInv, OldRowsAreCommitted, Scope, locals
<1>4. GivenRowsAreLeaving' BY <1>1, <1>0 DEF IndInv, GivenRowsAreLeaving, locals
<1>5. CursorsInBody' BY <1>1 DEF IndInv, CursorsInBody, locals
<1>6. RestoredLinesAreGone'
  BY ZenonT(120), <1>1 DEF IndInv, RestoredLinesAreGone, GivenRowsAreLeaving, OldRowsAreCommitted, locals
<1>7. RowsOfCommittedRequests'
  <2>1. \A row \in items \cup returns : row.by \in Requests \cup {Seed}
    BY DEF IndInv, TypeOK, Row, Return
  <2> QED BY <1>1, <2>1 DEF IndInv, RowsOfCommittedRequests
<1>8. NoOrphanRows'
  <2>1. \A row \in items \cup returns : row.sale \in Sales BY DEF IndInv, TypeOK, Row, Return
  <2> QED BY <1>1, <2>1 DEF IndInv, NoOrphanRows
<1> QED BY <1>2, <1>3, <1>4, <1>5, <1>6, <1>7, <1>8 DEF IndInv

LEMMA InitIndInv == Init => IndInv
<1> SUFFICES ASSUME Init PROVE IndInv OBVIOUS
<1> USE DEF Init
<1>1. NewRowsAreOwn /\ OldRowsAreCommitted /\ GivenRowsAreLeaving
  BY DEF NewRowsAreOwn, OldRowsAreCommitted, GivenRowsAreLeaving
<1>2. CursorsInBody BY DEF CursorsInBody, NoCall
<1>3. RestoredLinesAreGone /\ RowsOfCommittedRequests
  BY DEF RestoredLinesAreGone, RowsOfCommittedRequests
<1>4. NoOrphanRows BY DEF NoOrphanRows, Row
<1> QED BY <1>1, <1>2, <1>3, <1>4, InitTypeOK DEF IndInv

LEMMA NextIndInv == IndInv /\ [Next]_vars => IndInv'
<1> SUFFICES ASSUME IndInv, [Next]_vars PROVE IndInv' OBVIOUS
<1>1. ASSUME NEW r \in Requests, Receive(r) PROVE IndInv'
  BY <1>1, ReceiveTypeOK, ReceiveIndInv DEF IndInv
<1>2. ASSUME NEW r \in Requests, Step(r) \/ Expire(r) PROVE IndInv'
  BY <1>2, StepTypeOK, StepIndInv DEF IndInv
<1>3. CASE Crash BY <1>3, CrashTypeOK, CrashIndInv DEF IndInv
<1>4. CASE UNCHANGED vars
  BY <1>4 DEF vars, db, locals, IndInv, TypeOK, NewRowsAreOwn, OldRowsAreCommitted,
              GivenRowsAreLeaving, CursorsInBody, RestoredLinesAreGone,
              RowsOfCommittedRequests, NoOrphanRows
<1> QED BY <1>1, <1>2, <1>3, <1>4 DEF Next

----------------------------------------------------------------------------
(* What holds however writes overlap *)

\* The invariant on which the theorems of this part rest: what a request found and
\* gave back is committed and leaving, its cursors stand in its body.
THEOREM IndInvHolds == Spec => []IndInv
  BY InitIndInv, NextIndInv, PTL DEF Spec

\* Every variable keeps its type: stock counters stay integers, a sale goes from
\* unused to present to deleted, and the rows of each table are rows of it.
THEOREM TypesHold == Spec => []TypeOK
  BY IndInvHolds, PTL DEF IndInv

\* An update or deletion that succeeded (sales.service.ts updateSale,
\* deleteSale, deleteAllSales) has removed every line it put back into stock,
\* whatever other requests, expired transactions and crashes came between.
THEOREM RestoredLinesStayGone == Spec => []RestoredLinesAreGone
  BY IndInvHolds, PTL DEF IndInv

\* The lines and returns in the tables come from committed transactions only.
THEOREM TransactionsAreAtomic == Spec => []RowsOfCommittedRequests
  BY IndInvHolds, PTL DEF IndInv

\* No line and no return outlives its sale, however a deletion races with
\* updates and returns of it.
THEOREM NoRowIsOrphaned == Spec => []NoOrphanRows
  BY IndInvHolds, PTL DEF IndInv

----------------------------------------------------------------------------
(* What each request holds *)

\* A request moves nothing of another; only a creation that commits uses an unused sale.
MovesOnly(q) ==
    /\ \A r \in Requests \ {q} :
         /\ pc'[r] = pc[r] /\ tx'[r] = tx[r] /\ call'[r] = call[r]
         /\ old'[r] = old[r] /\ given'[r] = given[r]
         /\ checked'[r] = checked[r] /\ done'[r] = done[r]
         /\ snap'[r] = snap[r] /\ dels'[r] = dels[r]
         /\ gone'[r] = gone[r] /\ new'[r] = new[r]
    /\ \A s \in Sales : sales[s] # "unused" => sales'[s] # "unused"
    /\ \A s \in Sales :
         (sales[s] = "unused" /\ sales'[s] # "unused") =>
            call[q].op = "create" /\ s = call[q].sale /\ pc'[q] = "ok"

LEMMA StepMovesOnly ==
    ASSUME IndInv, NEW q \in Requests, HoldsItsOwn(q), Step(q) \/ Expire(q)
    PROVE  MovesOnly(q) /\ call' = call /\ InFlight(q)
<1> USE DEF IndInv, TypeOK, MovesOnly, Goto, Abort, Committed, db, locals, InFlight, CursorsInBody
<1>1. CASE ReadOld(q) BY <1>1 DEF ReadOld
<1>2. CASE RestoreLine(q) BY <1>2 DEF RestoreLine
<1>3. CASE RestoreLineThrows(q) BY <1>3 DEF RestoreLineThrows
<1>4. CASE DeleteRows(q) BY <1>4 DEF DeleteRows
<1>5. CASE LockRows(q) BY <1>5 DEF LockRows
<1>6. CASE CheckLine(q) BY <1>6 DEF CheckLine
<1>7. CASE CheckLineThrows(q) BY <1>7 DEF CheckLineThrows
<1>8. CASE InsertRows(q) BY <1>8 DEF InsertRows
<1>9. CASE InsertRowsThrows(q) BY <1>9 DEF InsertRowsThrows
<1>10. CASE TakeLine(q) BY <1>10 DEF TakeLine
<1>11. CASE FinishUpdate(q) BY <1>11 DEF FinishUpdate
<1>12. CASE DeleteEntries(q) BY <1>12 DEF DeleteEntries
<1>13. CASE FinishDelete(q) BY <1>13 DEF FinishDelete
<1>14. CASE FinishThrows(q) BY <1>14 DEF FinishThrows
<1>15. CASE InsertReturns(q) BY <1>15 DEF InsertReturns
<1>16. CASE InsertReturnsThrows(q) BY <1>16 DEF InsertReturnsThrows
<1>17. CASE RestockLine(q) BY <1>17 DEF RestockLine
<1>18. CASE Refund(q) BY <1>18 DEF Refund
<1>19. CASE RefundThrows(q) BY <1>19 DEF RefundThrows
<1>20. CASE FinishReturn(q) BY <1>20 DEF FinishReturn
<1>21. CASE Expired(q) BY <1>21 DEF Expired, AtTxStatement
<1>22. CASE CreateRow(q) BY <1>22 DEF CreateRow
<1>23. CASE CreateRowThrows(q) BY <1>23 DEF CreateRowThrows
<1>24. CASE FinishCreate(q) BY <1>24 DEF FinishCreate
<1>25. CASE Expire(q) BY <1>25 DEF Expire, HoldsItsOwn
<1> QED
  BY <1>1, <1>2, <1>3, <1>4, <1>5, <1>6, <1>7, <1>8, <1>9, <1>10, <1>11, <1>12,
     <1>13, <1>14, <1>15, <1>16, <1>17, <1>18, <1>19, <1>20, <1>21, <1>22, <1>23,
     <1>24, <1>25
     DEF Step

\* What a request asks for does not change, and with it what it is to write.
LEMMA SameCall ==
    ASSUME NEW r \in Requests, call'[r] = call[r]
    PROVE  PricedRows(r)' = PricedRows(r) /\ ReturnRows(r)' = ReturnRows(r)
  BY DEF PricedRows, ReturnRows

LEMMA RestockLineGoes ==
    ASSUME IndInv, NEW r \in Requests, RestockLine(r)
    PROVE  /\ pc'[r] \in {"restock", "refund", "returned"}
           /\ pc'[r] # "restock" => done[r] + 1 = Len(call[r].body)
<1> DEFINE n == Len(call[r].body)
<1>0. call[r].body \in Seq(ReturnLine) BY DEF IndInv, CursorsInBody, RestockLine
<1>1. pc[r] = "restock" /\ n \in Nat /\ done[r] \in Nat /\ done[r] < n
  <2>1. pc[r] = "restock" BY DEF RestockLine
  <2> QED BY <1>0, <2>1 DEF IndInv, TypeOK, CursorsInBody
<1>2. \E to \in {"refund", "returned"} :
        pc' = [pc EXCEPT ![r] = IF done[r] + 1 < n THEN "restock" ELSE to]
  BY DEF RestockLine, Goto
<1>3. PICK to \in {"refund", "returned"} :
        pc'[r] = IF done[r] + 1 < n THEN "restock" ELSE to
  BY <1>2 DEF IndInv, TypeOK
<1> HIDE DEF n
<1>4. pc'[r] \in {"restock", "refund", "returned"}
      /\ (pc'[r] # "restock" => done[r] + 1 = n)
  BY <1>1, <1>3
<1> QED BY <1>4 DEF n

LEMMA StepHolds ==
    ASSUME IndInv, HoldInv, NEW q \in Requests, Step(q) \/ Expire(q)
    PROVE  HoldsItsOwn(q)'
<1>0. /\ MovesOnly(q) /\ call' = call /\ InFlight(q)
      /\ PricedRows(q)' = PricedRows(q) /\ ReturnRows(q)' = ReturnRows(q)
      /\ HoldsItsOwn(q)
  BY StepMovesOnly, SameCall DEF HoldInv
<1> USE <1>0 DEF IndInv, TypeOK, Goto, Abort, Committed, db, locals, InFlight,
        CursorsInBody, HoldsItsOwn, MovesOnly
<1>1. CASE ReadOld(q)
  <2>1. given[q] = {} BY <1>1 DEF ReadOld, OldRowsAreCommitted, GivenRowsAreLeaving
  <2>2. IsFiniteSet(RowsOf(Scope(call[q]))) BY FS_Subset DEF RowsOf, HoldInv
  <2> QED BY <1>1, <2>1, <2>2 DEF ReadOld
<1>2. CASE RestoreLine(q) BY <1>2 DEF RestoreLine
<1>3. CASE RestoreLineThrows(q) BY <1>3 DEF RestoreLineThrows
<1>4. CASE DeleteRows(q) BY <1>4 DEF DeleteRows, RowsOf
<1>5. CASE LockRows(q)
  <2>1. call[q].body = <<>> => PricedRows(q) = {} /\ Len(call[q].body) = 0 BY DEF PricedRows
  <2>2. new[q] = {} BY <1>5 DEF LockRows, NewRowsAreOwn
  <2>3. pc[q] = "lock" /\ call[q].op \in {"update", "delete", "deleteAll"} /\ done[q] = 0
        /\ pc'[q] = AfterDelete(call[q])
    BY <1>5 DEF LockRows
  <2> QED BY <1>5, <2>1, <2>2, <2>3 DEF LockRows, ReturnsOf, AfterDelete
<1>6. CASE CheckLine(q) BY <1>6 DEF CheckLine
<1>7. CASE CheckLineThrows(q) BY <1>7 DEF CheckLineThrows
<1>8. CASE InsertRows(q) BY <1>8 DEF InsertRows
<1>9. CASE InsertRowsThrows(q) BY <1>9 DEF InsertRowsThrows
<1>10. CASE TakeLine(q) BY ZenonT(120), <1>10 DEF TakeLine
<1>11. CASE FinishUpdate(q) BY <1>11 DEF FinishUpdate
<1>12. CASE DeleteEntries(q) BY <1>12 DEF DeleteEntries
<1>13. CASE FinishDelete(q)
  <2>1. pc'[q] = "ok" /\ tx'[q] = "none" /\ snap'[q] = snap[q] /\ dels'[q] = {}
        /\ gone'[q] = gone[q] /\ old'[q] = old[q]
    BY <1>13 DEF FinishDelete
  <2>2. call[q].op \in {"delete", "deleteAll"} /\ call[q].sale \in Sales
    BY <1>13 DEF FinishDelete, Calls
  <2>3. call[q].op = "delete" => sales'[call[q].sale] # "unused" BY <2>2
  <2> QED BY <2>1, <2>2, <2>3
<1>14. CASE FinishThrows(q) BY <1>14 DEF FinishThrows
<1>15. CASE InsertReturns(q) BY <1>15 DEF InsertReturns
<1>16. CASE InsertReturnsThrows(q) BY <1>16 DEF InsertReturnsThrows
<1>17. CASE RestockLine(q)
  <2>1. call[q].body \in Seq(ReturnLine) /\ done[q] < Len(call[q].body) /\ done[q] \in Nat
        /\ call[q].op = "return" /\ done'[q] = done[q] + 1
    BY ZenonT(120), <1>17 DEF RestockLine
  <2>2. Len(call[q].body) \in Nat BY <2>1
  <2>3. pc'[q] \in {"restock", "refund", "returned"}
        /\ (pc'[q] # "restock" => done[q] + 1 = Len(call[q].body))
    BY <1>17, RestockLineGoes
  <2>4. pc[q] = "restock" /\ new'[q] = new[q] /\ tx'[q] = tx[q] /\ snap'[q] = snap[q]
        /\ dels'[q] = dels[q] /\ gone'[q] = gone[q] /\ old'[q] = old[q] /\ sales' = sales
    BY <1>17 DEF RestockLine
  <2> QED BY <2>1, <2>3, <2>4
<1>18. CASE Refund(q) BY <1>18 DEF Refund
<1>19. CASE RefundThrows(q) BY <1>19 DEF RefundThrows
<1>20. CASE FinishReturn(q) BY <1>20 DEF FinishReturn
<1>21. CASE Expired(q) BY <1>21 DEF Expired
<1>22. CASE CreateRow(q) BY <1>22 DEF CreateRow
<1>23. CASE CreateRowThrows(q) BY <1>23 DEF CreateRowThrows
<1>24. CASE FinishCreate(q) BY <1>24 DEF FinishCreate
<1>25. CASE Expire(q) BY <1>25 DEF Expire
<1> QED
  BY <1>1, <1>2, <1>3, <1>4, <1>5, <1>6, <1>7, <1>8, <1>9, <1>10, <1>11, <1>12, <1>13, <1>14, <1>15, <1>16, <1>17, <1>18, <1>19, <1>20, <1>21, <1>22, <1>23, <1>24, <1>25
     DEF Step

LEMMA ReceiveHolds ==
    ASSUME IndInv, HoldInv, NEW q \in Requests, Receive(q)
    PROVE  HoldsItsOwn(q)' /\ MovesOnly(q) /\ UNCHANGED <<items, returns, stock, sales>>
<1>0. /\ pc[q] = "idle" /\ tx[q] = "none" /\ old[q] = {} /\ given[q] = {} /\ new[q] = {}
      /\ done[q] = 0 /\ checked[q] = 0 /\ snap[q] = {} /\ dels[q] = {} /\ gone[q] = {}
  <2>1. pc[q] = "idle" BY DEF Receive
  <2>2. HoldsItsOwn(q) BY DEF HoldInv
  <2>3. tx[q] = "none" /\ snap[q] = {} /\ dels[q] = {} /\ gone[q] = {}
    <3>1. tx[q] = "none" BY <2>1, <2>2 DEF HoldsItsOwn, InFlight
    <3>2. snap[q] \cup dels[q] \cup gone[q] = {} BY <2>1, <2>2 DEF HoldsItsOwn
    <3> QED BY <3>1, <3>2
  <2>4. old[q] = {} /\ given[q] = {}
    BY <2>1 DEF IndInv, OldRowsAreCommitted, GivenRowsAreLeaving
  <2>5. new[q] = {} /\ done[q] = 0 /\ checked[q] = 0
    BY <2>1 DEF IndInv, NewRowsAreOwn, CursorsInBody
  <2> QED BY <2>1, <2>3, <2>4, <2>5
<1>00. \A c : c.body = <<>> => Len(c.body) = 0 OBVIOUS
<1>01. call'[q].body = <<>> => PricedRows(q)' = {} BY DEF PricedRows
<1> USE <1>0, <1>00, <1>01 DEF MovesOnly, Begin, Goto, db, locals, IndInv, TypeOK, HoldsItsOwn, InFlight
<1> HIDE DEF PricedRows, ReturnRows
<1> DEFINE G == HoldsItsOwn(q)' /\ MovesOnly(q) /\ UNCHANGED <<items, returns, stock, sales>>
<1>1. CASE BeginDeleteAll(q) BY ZenonT(120), <1>1, FS_EmptySet DEF BeginDeleteAll, NoCall
<1>2. ASSUME NEW s \in Sales, BeginDelete(q, s) PROVE G BY <1>2, FS_EmptySet DEF BeginDelete
<1>3. ASSUME NEW s \in Sales, NEW body \in UpdateBodies, NEW st \in Statuses,
             BeginUpdate(q, s, body, st)
      PROVE  G
  BY <1>3, FS_EmptySet DEF BeginUpdate
<1>4. ASSUME NEW s \in Sales, NEW st \in Statuses, BeginStatusUpdate(q, s, st)
      PROVE  G
  BY ZenonT(120), <1>4, FS_EmptySet DEF BeginStatusUpdate
<1>5. ASSUME NEW s \in Sales, NEW body \in ReturnBodies, BeginReturn(q, s, body)
      PROVE  G
  BY ZenonT(120), <1>5, FS_EmptySet DEF BeginReturn
<1>6. ASSUME NEW s \in Sales, NEW body \in CreateBodies,
             NEW st \in {"PENDING", "CONFIRMED"}, BeginCreate(q, s, body, st)
      PROVE  G
  BY ZenonT(120), <1>6, FS_EmptySet DEF BeginCreate
<1> QED BY <1>1, <1>2, <1>3, <1>4, <1>5, <1>6, SMTT(60) DEF Receive

LEMMA BodyRowsFinite ==
    ASSUME TypeOK, NEW r \in Requests
    PROVE  IsFiniteSet(PricedRows(r)) /\ IsFiniteSet(ReturnRows(r))
<1>1. call[r].body \in Seq(Line) \cup Seq(ReturnLine) BY DEF TypeOK, Calls
<1>2. IsFiniteSet(DOMAIN call[r].body) BY <1>1, FS_Interval
<1> DEFINE p == [k \in DOMAIN call[r].body |->
                   [sale |-> call[r].sale, slot |-> call[r].body[k].slot,
                    qty |-> call[r].body[k].qty, by |-> r, n |-> k]]
           t == [k \in DOMAIN call[r].body |->
                   [sale |-> call[r].sale, slot |-> call[r].body[k].slot,
                    qty |-> call[r].body[k].qty, back |-> call[r].body[k].back,
                    by |-> r, n |-> k]]
<1>3. PricedRows(r) \subseteq ImageOf(p, DOMAIN call[r].body) BY DEF PricedRows, ImageOf
<1>4. ReturnRows(r) \subseteq ImageOf(t, DOMAIN call[r].body) BY DEF ReturnRows, ImageOf
<1> HIDE DEF p, t
<1> QED BY <1>2, <1>3, <1>4, ImageFinite, FS_Subset

\* The steps that write lines, returns or stock.
Writes(q) ==
    \/ RestoreLine(q) \/ TakeLine(q) \/ RestockLine(q)
    \/ FinishUpdate(q) \/ FinishDelete(q) \/ FinishReturn(q)

LEMMA StepWrites ==
    ASSUME NEW q \in Requests, Step(q) \/ Expire(q)
    PROVE  Writes(q) \/ UNCHANGED <<stock, items, returns, given, done>>
<1> SUFFICES ASSUME ~ Writes(q) PROVE UNCHANGED <<stock, items, returns, given, done>> OBVIOUS
<1>1. CASE ReadOld(q) BY <1>1 DEF ReadOld, db, locals, Abort
<1>2. CASE RestoreLineThrows(q) BY <1>2 DEF RestoreLineThrows, db, locals, Abort
<1>3. CASE DeleteRows(q) BY <1>3 DEF DeleteRows, db, locals, Abort
<1>4. CASE LockRows(q) BY <1>4 DEF LockRows, db, locals, Abort
<1>5. CASE CheckLine(q) BY <1>5 DEF CheckLine, db, locals, Abort
<1>6. CASE CheckLineThrows(q) BY <1>6 DEF CheckLineThrows, db, locals, Abort
<1>7. CASE InsertRows(q) BY <1>7 DEF InsertRows, db, locals, Abort
<1>8. CASE InsertRowsThrows(q) BY <1>8 DEF InsertRowsThrows, db, locals, Abort
<1>9. CASE DeleteEntries(q) BY <1>9 DEF DeleteEntries, db, locals, Abort
<1>10. CASE FinishThrows(q) BY <1>10 DEF FinishThrows, db, locals, Abort
<1>11. CASE InsertReturns(q) BY <1>11 DEF InsertReturns, db, locals, Abort
<1>12. CASE InsertReturnsThrows(q) BY <1>12 DEF InsertReturnsThrows, db, locals, Abort
<1>13. CASE Refund(q) BY <1>13 DEF Refund, db, locals, Abort
<1>14. CASE RefundThrows(q) BY <1>14 DEF RefundThrows, db, locals, Abort
<1>15. CASE Expired(q) BY <1>15 DEF Expired, db, locals, Abort
<1>16. CASE CreateRow(q) BY <1>16 DEF CreateRow, db, locals, Abort
<1>17. CASE CreateRowThrows(q) BY <1>17 DEF CreateRowThrows, db, locals, Abort
<1>18. CASE Expire(q) BY <1>18 DEF Expire, db, locals, Abort
<1>19. CASE FinishCreate(q) BY <1>19 DEF FinishCreate, Committed
<1> QED
  BY <1>1, <1>2, <1>3, <1>4, <1>5, <1>6, <1>7, <1>8, <1>9, <1>10, <1>11, <1>12, <1>13, <1>14, <1>15, <1>16, <1>17, <1>18, <1>19
     DEF Step, Writes

LEMMA StepFinite ==
    ASSUME IndInv, HoldInv, NEW q \in Requests, Step(q) \/ Expire(q)
    PROVE  IsFiniteSet(items') /\ IsFiniteSet(returns')
<1>1. IsFiniteSet(items) /\ IsFiniteSet(returns) /\ HoldsItsOwn(q) BY DEF HoldInv
<1>2. CASE FinishUpdate(q)
  <2>1. new[q] = PricedRows(q) /\ items' \subseteq items \cup new[q] /\ returns' = returns
    BY <1>1, <1>2 DEF FinishUpdate, Committed, HoldsItsOwn
  <2> QED BY <1>1, <2>1, BodyRowsFinite, FS_Union, FS_Subset DEF IndInv
<1>3. CASE FinishDelete(q)
  <2>1. items' \subseteq items /\ returns' \subseteq returns BY <1>3 DEF FinishDelete
  <2> QED BY <1>1, <2>1, FS_Subset
<1>4. CASE FinishReturn(q)
  <2>1. new[q] = ReturnRows(q) /\ returns' = returns \cup new[q] /\ items' = items
    BY <1>1, <1>4 DEF FinishReturn, Committed, HoldsItsOwn
  <2> QED BY <1>1, <2>1, BodyRowsFinite, FS_Union DEF IndInv
<1>5. CASE RestoreLine(q) \/ TakeLine(q) \/ RestockLine(q) \/ UNCHANGED <<stock, items, returns>>
  BY <1>1, <1>5 DEF RestoreLine, TakeLine, RestockLine
<1> QED BY <1>2, <1>3, <1>4, <1>5, StepWrites DEF Writes

\* A request that another does not move holds what it held.
LEMMA OtherHolds ==
    ASSUME HoldInv, TypeOK, NEW q \in Requests, MovesOnly(q), NEW r \in Requests \ {q}
    PROVE  HoldsItsOwn(r)'
<1>1. HoldsItsOwn(r) BY DEF HoldInv
<1>2. PricedRows(r)' = PricedRows(r) /\ ReturnRows(r)' = ReturnRows(r)
  BY SameCall DEF MovesOnly
<1>3. call[r].op = "create" /\ InFlight(r) => sales'[call[r].sale] = "unused"
  BY <1>1 DEF HoldsItsOwn, MovesOnly, HoldInv, TypeOK, Calls
<1>4. call[r].op \in {"update", "delete", "return"} => sales'[call[r].sale] # "unused"
  BY <1>1 DEF HoldsItsOwn, MovesOnly, TypeOK, Calls
<1> HIDE DEF HoldInv
<1>5. /\ pc'[r] = pc[r] /\ tx'[r] = tx[r] /\ call'[r] = call[r]
      /\ old'[r] = old[r] /\ given'[r] = given[r]
      /\ checked'[r] = checked[r] /\ done'[r] = done[r]
      /\ snap'[r] = snap[r] /\ dels'[r] = dels[r]
      /\ gone'[r] = gone[r] /\ new'[r] = new[r]
  BY DEF MovesOnly
<1> QED BY <1>1, <1>2, <1>3, <1>4, <1>5 DEF HoldsItsOwn, InFlight

LEMMA CrashHolds ==
    ASSUME IndInv, HoldInv, Crash
    PROVE  HoldInv'
<1>1. ASSUME NEW r \in Requests PROVE HoldsItsOwn(r)'
  <2>1. HoldsItsOwn(r) BY DEF HoldInv
  <2>2. PricedRows(r)' = PricedRows(r) /\ ReturnRows(r)' = ReturnRows(r) BY SameCall DEF Crash
  <2> QED BY <2>1, <2>2 DEF HoldsItsOwn, Crash, InFlight, db, IndInv, TypeOK
<1>2. Received' = Received BY DEF Received, Crash, InFlight
<1> QED BY <1>1, <1>2 DEF HoldInv, Crash, db

LEMMA HoldInvInit == Init => HoldInv
<1> SUFFICES ASSUME Init PROVE HoldInv OBVIOUS
<1>1. IsFiniteSet(items) /\ IsFiniteSet(returns) /\ IsFiniteSet(Received)
  BY FS_EmptySet DEF Init, Received
<1>2. ASSUME NEW r \in Requests PROVE HoldsItsOwn(r)
  BY FS_EmptySet DEF Init, HoldsItsOwn, InFlight, NoCall
<1>3. \A r \in Requests : call[r].op = "none" BY DEF Init, NoCall
<1> QED BY <1>1, <1>2, <1>3 DEF HoldInv

\* What r has received stays received.
LEMMA ReceivedGrows ==
    ASSUME TypeOK, NEW q \in Requests, MovesOnly(q)
    PROVE  Received' \subseteq Received \cup {q}
  BY DEF Received, MovesOnly

LEMMA HoldInvNext == IndInv /\ IndInv' /\ HoldInv /\ [Next]_vars => HoldInv'
<1> SUFFICES ASSUME IndInv, IndInv', HoldInv, [Next]_vars PROVE HoldInv' OBVIOUS
<1>1. ASSUME NEW q \in Requests, Receive(q) PROVE HoldInv'
  <2>1. HoldsItsOwn(q)' /\ MovesOnly(q) /\ UNCHANGED <<items, returns>> BY <1>1, ReceiveHolds
  <2>2. \A r \in Requests : HoldsItsOwn(r)' BY <2>1, OtherHolds DEF IndInv
  <2>3. IsFiniteSet(Received')
    BY <2>1, ReceivedGrows, FS_AddElement, FS_Subset, ZenonT(120) DEF IndInv, HoldInv
  <2>4. \A r \in Requests \ {q} : call'[r] = call[r] BY <2>1 DEF MovesOnly
  <2>5. call'[q].op = "create" =>
          \A r \in Requests : call[r].op = "create" => call[r].sale # call'[q].sale
    <3> USE DEF Begin, IndInv, TypeOK
    <3> DEFINE G == call'[q].op = "create" =>
          \A r \in Requests : call[r].op = "create" => call[r].sale # call'[q].sale
    <3>1. CASE BeginDeleteAll(q) BY <3>1 DEF BeginDeleteAll, NoCall
    <3>2. ASSUME NEW s \in Sales, BeginDelete(q, s) PROVE G BY <3>2 DEF BeginDelete
    <3>3. ASSUME NEW s \in Sales, NEW body \in UpdateBodies, NEW st \in Statuses,
                 BeginUpdate(q, s, body, st)
          PROVE  G
      BY <3>3 DEF BeginUpdate
    <3>4. ASSUME NEW s \in Sales, NEW st \in Statuses, BeginStatusUpdate(q, s, st)
          PROVE  G
      BY <3>4 DEF BeginStatusUpdate
    <3>5. ASSUME NEW s \in Sales, NEW body \in ReturnBodies, BeginReturn(q, s, body)
          PROVE  G
      BY <3>5 DEF BeginReturn
    <3>6. ASSUME NEW s \in Sales, NEW body \in CreateBodies,
                 NEW st \in {"PENDING", "CONFIRMED"}, BeginCreate(q, s, body, st)
          PROVE  G
      BY <3>6 DEF BeginCreate
    <3> QED BY <1>1, <3>1, <3>2, <3>3, <3>4, <3>5, <3>6 DEF Receive
  <2>6. ASSUME NEW r \in Requests, NEW t \in Requests, r # t, call'[r].op = "create",
               call'[t].op = "create"
        PROVE  call'[r].sale # call'[t].sale
    <3>1. CASE r = q BY <2>4, <2>5, <2>6, <3>1
    <3>2. CASE t = q BY <2>4, <2>5, <2>6, <3>2
    <3>3. CASE r # q /\ t # q BY <2>4, <2>6, <3>3 DEF HoldInv
    <3> QED BY <3>1, <3>2, <3>3
  <2>7. IsFiniteSet(items') /\ IsFiniteSet(returns') BY <2>1 DEF HoldInv
  <2> QED BY <2>2, <2>3, <2>6, <2>7 DEF HoldInv
<1>2. ASSUME NEW q \in Requests, Step(q) \/ Expire(q) PROVE HoldInv'
  <2>1. HoldsItsOwn(q)' /\ MovesOnly(q) /\ call' = call
    BY <1>2, StepHolds, StepMovesOnly DEF HoldInv
  <2>2. \A r \in Requests : HoldsItsOwn(r)' BY <2>1, OtherHolds DEF IndInv
  <2>3. IsFiniteSet(Received')
    BY <2>1, ReceivedGrows, FS_AddElement, FS_Subset, ZenonT(120) DEF IndInv, HoldInv
  <2> QED BY <1>2, <2>1, <2>2, <2>3, StepFinite DEF HoldInv
<1>3. CASE Crash BY <1>3, CrashHolds
<1>4. CASE UNCHANGED vars
  <2>1. ASSUME NEW r \in Requests PROVE HoldsItsOwn(r)' <=> HoldsItsOwn(r)
    BY <1>4, SameCall DEF vars, db, locals, HoldsItsOwn, InFlight
  <2>2. Received' = Received BY <1>4 DEF Received, vars
  <2> QED BY <1>4, <2>1, <2>2 DEF vars, db, HoldInv
<1> QED BY <1>1, <1>2, <1>3, <1>4 DEF Next

LEMMA TakenIs ==
    ASSUME NEW b \in Bins
    PROVE  \A x : x \in Taken(b) <=>
             \E r \in Requests : \E k \in 1..done[r] :
               /\ call[r].op \in {"create", "update"}
               /\ BinOf[call[r].body[k].slot] = b
               /\ x = <<r, k>>
  BY DEF Taken

LEMMA TakenKept ==
    ASSUME NEW b \in Bins,
           \A r \in Requests :
             \/ done'[r] = done[r] /\ call'[r] = call[r]
             \/ call[r].op \notin {"create", "update"} /\ call'[r] = call[r]
             \/ 1..done[r] = {} /\ 1..done'[r] = {}
    PROVE  Taken(b)' = Taken(b)
<1>1. \A x : x \in Taken(b)' <=>
           \E r \in Requests : \E k \in 1..done'[r] :
             /\ call'[r].op \in {"create", "update"}
             /\ BinOf[call'[r].body[k].slot] = b
             /\ x = <<r, k>>
  BY DEF Taken
<1>2. \A x : x \in Taken(b) <=>
           \E r \in Requests : \E k \in 1..done[r] :
             /\ call[r].op \in {"create", "update"}
             /\ BinOf[call[r].body[k].slot] = b
             /\ x = <<r, k>>
  BY TakenIs
<1>3. ASSUME NEW r \in Requests, NEW k
      PROVE  (k \in 1..done'[r] /\ call'[r].op \in {"create", "update"}
                /\ BinOf[call'[r].body[k].slot] = b)
             <=> (k \in 1..done[r] /\ call[r].op \in {"create", "update"}
                /\ BinOf[call[r].body[k].slot] = b)
  OBVIOUS
<1> HIDE DEF Taken
<1>4. ASSUME NEW x PROVE x \in Taken(b)' <=> x \in Taken(b)
  <2>1. ASSUME x \in Taken(b)' PROVE x \in Taken(b)
    <3>1. PICK r, k :
            /\ r \in Requests /\ k \in 1..done'[r]
            /\ call'[r].op \in {"create", "update"}
            /\ BinOf[call'[r].body[k].slot] = b
            /\ x = <<r, k>>
      BY <1>1, <2>1
    <3>2. k \in 1..done[r] /\ call[r].op \in {"create", "update"}
            /\ BinOf[call[r].body[k].slot] = b
      BY <1>3, <3>1
    <3> QED BY <1>2, <3>1, <3>2
  <2>2. ASSUME x \in Taken(b) PROVE x \in Taken(b)'
    <3>1. PICK r, k :
            /\ r \in Requests /\ k \in 1..done[r]
            /\ call[r].op \in {"create", "update"}
            /\ BinOf[call[r].body[k].slot] = b
            /\ x = <<r, k>>
      BY <1>2, <2>2
    <3>2. k \in 1..done'[r] /\ call'[r].op \in {"create", "update"}
            /\ BinOf[call'[r].body[k].slot] = b
      BY <1>3, <3>1
    <3> QED BY <1>1, <3>1, <3>2
  <2> QED BY <2>1, <2>2
<1> QED BY <1>4

\* A checked line is a line of the body.
LEMMA CheckedIsLine ==
    ASSUME IndInv, HoldInv, NEW r \in Requests, pc[r] \in {"check", "insert", "take"},
           NEW k \in 1..checked[r]
    PROVE  /\ call[r].body[k].qty \in Nat
           /\ BinOf[call[r].body[k].slot] \in Bins
<1>1. call[r].body \in Seq(Line) /\ checked[r] \in Nat /\ HoldsItsOwn(r)
  BY DEF IndInv, CursorsInBody, TypeOK, HoldInv
<1>2. Len(call[r].body) \in Nat BY <1>1
<1>3. checked[r] <= Len(call[r].body) BY <1>1, <1>2 DEF IndInv, CursorsInBody, HoldsItsOwn
<1>4. k \in 1..Len(call[r].body) BY <1>1, <1>2, <1>3
<1> QED BY <1>4, BodyLines DEF IndInv

\* What keeps the lines of r checked: the stock of the counter has not gone down.
LEMMA StillInStock ==
    ASSUME IndInv, HoldInv, TypeOK', NEW b \in Bins, NEW r \in Requests,
           CheckedInStock(r, b), stock'[b] >= stock[b],
           pc'[r] \in {"check", "insert", "take"} =>
             \/ checked'[r] = 0
             \/ /\ pc[r] \in {"check", "insert", "take"}
                /\ checked'[r] = checked[r] /\ call'[r] = call[r]
    PROVE  CheckedInStock(r, b)'
<1> SUFFICES ASSUME pc'[r] \in {"check", "insert", "take"}, NEW k \in 1..checked'[r],
                    BinOf[call'[r].body[k].slot] = b
             PROVE  call'[r].body[k].qty <= stock'[b]
  BY DEF CheckedInStock
<1>1. checked'[r] # 0 OBVIOUS
<1>2. /\ pc[r] \in {"check", "insert", "take"}
      /\ checked'[r] = checked[r] /\ call'[r] = call[r]
  BY <1>1
<1>3. call[r].body[k].qty <= stock[b] BY <1>2 DEF CheckedInStock
<1>4. call[r].body[k].qty \in Nat BY <1>2, CheckedIsLine
<1>5. stock[b] \in Int /\ stock'[b] \in Int BY DEF IndInv, TypeOK
<1> QED BY <1>2, <1>3, <1>4, <1>5

LEMMA StepChecks ==
    ASSUME IndInv, HoldInv, NEW q \in Requests, Step(q) \/ Expire(q),
           pc'[q] \in {"check", "insert", "take"}
    PROVE  \/ checked'[q] = 0
           \/ pc[q] \in {"check", "insert", "take"} /\ checked'[q] = checked[q]
           \/ CheckLine(q)
<1> USE DEF IndInv, TypeOK, Goto, Abort, Committed, db, locals, CursorsInBody
<1> SUFFICES ASSUME ~ CheckLine(q)
             PROVE  \/ checked'[q] = 0
                    \/ pc[q] \in {"check", "insert", "take"} /\ checked'[q] = checked[q]
  OBVIOUS
<1>1. CASE ReadOld(q) BY <1>1 DEF ReadOld
<1>2. CASE RestoreLine(q) BY <1>2 DEF RestoreLine
<1>3. CASE RestoreLineThrows(q) BY <1>3 DEF RestoreLineThrows
<1>4. CASE DeleteRows(q) BY <1>4 DEF DeleteRows
<1>5. CASE LockRows(q) BY <1>5 DEF LockRows
<1>6. CASE CheckLineThrows(q) BY <1>6 DEF CheckLineThrows
<1>7. CASE InsertRows(q) BY <1>7 DEF InsertRows
<1>8. CASE InsertRowsThrows(q) BY <1>8 DEF InsertRowsThrows
<1>9. CASE TakeLine(q) BY <1>9 DEF TakeLine
<1>10. CASE FinishUpdate(q) BY <1>10 DEF FinishUpdate
<1>11. CASE DeleteEntries(q) BY <1>11 DEF DeleteEntries
<1>12. CASE FinishDelete(q) BY <1>12 DEF FinishDelete
<1>13. CASE FinishThrows(q) BY <1>13 DEF FinishThrows
<1>14. CASE InsertReturns(q) BY <1>14 DEF InsertReturns
<1>15. CASE InsertReturnsThrows(q) BY <1>15 DEF InsertReturnsThrows
<1>16. CASE RestockLine(q) BY <1>16 DEF RestockLine
<1>17. CASE Refund(q) BY <1>17 DEF Refund
<1>18. CASE RefundThrows(q) BY <1>18 DEF RefundThrows
<1>19. CASE FinishReturn(q) BY <1>19 DEF FinishReturn
<1>20. CASE Expired(q) BY <1>20 DEF Expired
<1>21. CASE CreateRow(q) BY <1>21 DEF CreateRow
<1>22. CASE CreateRowThrows(q) BY <1>22 DEF CreateRowThrows
<1>23. CASE FinishCreate(q) BY <1>23 DEF FinishCreate
<1>24. CASE Expire(q) BY <1>24 DEF Expire
<1> QED
  BY <1>1, <1>2, <1>3, <1>4, <1>5, <1>6, <1>7, <1>8, <1>9, <1>10, <1>11, <1>12, <1>13, <1>14, <1>15, <1>16, <1>17, <1>18, <1>19, <1>20, <1>21, <1>22, <1>23, <1>24
     DEF Step

LEMMA StepStock ==
    ASSUME IndInv, NEW q \in Requests, Step(q) \/ Expire(q), ~ TakeLine(q), NEW b \in Bins
    PROVE  stock'[b] >= stock[b]
<1>1. stock \in [Bins -> Int] BY DEF IndInv, TypeOK
<1>2. CASE RestoreLine(q)
  <2>1. PICK row \in old[q] \ given[q] : stock' = [stock EXCEPT ![BinOf[row.slot]] = @ + row.qty]
    BY <1>2 DEF RestoreLine
  <2>2. row.qty \in Nat BY DEF IndInv, TypeOK, Row
  <2> QED BY <1>1, <2>1, <2>2
<1>3. CASE RestockLine(q)
  <2>1. pc[q] = "restock" /\ done[q] \in Nat BY <1>3 DEF RestockLine, IndInv, TypeOK
  <2>2. call[q].body \in Seq(ReturnLine) /\ done[q] < Len(call[q].body)
    BY <2>1 DEF IndInv, CursorsInBody
  <2>3. done[q] + 1 \in 1..Len(call[q].body) BY <2>1, <2>2
  <2>4. /\ call[q].body[done[q] + 1].qty \in Nat
        /\ BinOf[call[q].body[done[q] + 1].slot] \in Bins
    BY <2>3, BodyLines DEF IndInv
  <2>5. PICK n \in Nat, c \in Bins : stock' = stock \/ stock' = [stock EXCEPT ![c] = @ + n]
    <3>1. stock' = stock \/ stock' = [stock EXCEPT ![BinOf[call[q].body[done[q] + 1].slot]]
                                       = @ + call[q].body[done[q] + 1].qty]
      BY <1>3 DEF RestockLine
    <3> QED BY <2>4, <3>1
  <2>6. stock[b] \in Int BY <1>1
  <2>7. stock'[b] = stock[b] \/ stock'[b] = stock[b] + n BY <1>1, <2>5
  <2> QED BY <2>5, <2>6, <2>7
<1>4. CASE FinishUpdate(q) \/ FinishDelete(q) \/ FinishReturn(q)
           \/ UNCHANGED <<stock, items, returns, given, done>>
  BY <1>1, <1>4 DEF FinishUpdate, FinishDelete, FinishReturn
<1> QED BY <1>2, <1>3, <1>4, StepWrites DEF Writes

\* Only TakeLine takes a line.
LEMMA StepTaken ==
    ASSUME IndInv, HoldInv, NEW q \in Requests, Step(q) \/ Expire(q), ~ TakeLine(q), NEW b \in Bins
    PROVE  Taken(b)' = Taken(b)
<1>1. call' = call BY StepMovesOnly DEF HoldInv
<1>2. CASE RestockLine(q)
  <2>1. call[q].op = "return" BY <1>2 DEF RestockLine, IndInv, CursorsInBody
  <2>2. \A r \in Requests \ {q} : done'[r] = done[r] BY <1>2 DEF RestockLine, IndInv, TypeOK
  <2> QED BY <1>1, <2>1, <2>2, TakenKept
<1>3. CASE done' = done BY <1>1, <1>3, TakenKept
<1>4. ~ RestockLine(q) => done' = done
  BY StepWrites DEF Writes, RestoreLine, FinishUpdate, FinishDelete, FinishReturn, Committed
<1> QED BY <1>2, <1>3, <1>4

LEMMA CheckLineKeeps ==
    ASSUME IndInv, HoldInv, TypeOK', NEW q \in Requests, CheckLine(q), NEW b \in Bins,
           CheckedInStock(q, b)
    PROVE  CheckedInStock(q, b)'
<1> DEFINE n == checked[q] + 1
<1>1. /\ call' = call /\ stock' = stock /\ pc[q] = "check"
      /\ checked' = [checked EXCEPT ![q] = n] /\ LineAvailable(call[q].body[n])
  BY DEF CheckLine, db
<1>2. checked[q] \in Nat /\ checked'[q] = n BY <1>1 DEF IndInv, TypeOK
<1>3. \A k \in 1..checked'[q] : k \in 1..checked[q] \/ k = n BY <1>2
<1>4. BinOf[call[q].body[n].slot] = b => call[q].body[n].qty <= stock[b]
  BY <1>1 DEF LineAvailable
<1>5. \A k \in 1..checked[q] :
        BinOf[call[q].body[k].slot] = b => call[q].body[k].qty <= stock[b]
  BY <1>1 DEF CheckedInStock
<1> HIDE DEF n
<1> QED BY <1>1, <1>3, <1>4, <1>5 DEF CheckedInStock

\* A line that is taken: what is taken from a counter that nobody took from is in it.
LEMMA TakeLineKeeps ==
    ASSUME IndInv, HoldInv, TypeOK', HoldInv', CheckedLinesInStock, NEW q \in Requests, TakeLine(q)
    PROVE  CheckedLinesInStock'
<1> DEFINE n == done[q] + 1
           line == call[q].body[n]
           bin == BinOf[line.slot]
<1>1. /\ pc[q] = "take" /\ call' = call
      /\ stock' = [stock EXCEPT ![bin] = @ - line.qty]
      /\ done' = [done EXCEPT ![q] = n]
      /\ checked' = checked
      /\ \A r \in Requests \ {q} : pc'[r] = pc[r]
      /\ call[q].op \in {"create", "update"}
      /\ HoldsItsOwn(q) /\ call[q].body \in Seq(Line)
  BY DEF TakeLine, Goto, IndInv, TypeOK, CursorsInBody, HoldInv
<1>2. done[q] \in Nat /\ done[q] < Len(call[q].body) /\ checked[q] = Len(call[q].body)
      /\ Len(call[q].body) \in Nat
  <2>0. call[q].body \in Seq(Line) BY <1>1
  <2>1. Len(call[q].body) \in Nat BY <2>0
  <2>2. done[q] \in Nat /\ done[q] < Len(call[q].body)
    BY <1>1 DEF IndInv, CursorsInBody, TypeOK
  <2>3. checked[q] = Len(call[q].body) BY <1>1 DEF HoldsItsOwn
  <2> QED BY <2>1, <2>2, <2>3
<1>3. n \in 1..checked[q] /\ done'[q] = n /\ n \in Nat
  <2>1. n \in Nat /\ n \in 1..checked[q] BY <1>2
  <2>2. done'[q] = n BY <1>1 DEF IndInv, TypeOK
  <2> QED BY <2>1, <2>2
<1>4. line.qty \in Nat /\ bin \in Bins BY <1>1, <1>3, CheckedIsLine
<1>5. \A r \in Requests \ {q} : done'[r] = done[r] BY <1>1 DEF IndInv, TypeOK
<1>6. stock'[bin] = stock[bin] - line.qty /\ stock[bin] \in Int
      /\ \A b \in Bins \ {bin} : stock'[b] = stock[b]
  BY <1>1, <1>4 DEF IndInv, TypeOK
<1>7. 1..n = (1..done[q]) \cup {n} /\ n \notin 1..done[q]
  <2>1. \A d \in Nat : 1..(d + 1) = (1..d) \cup {d + 1} /\ d + 1 \notin 1..d OBVIOUS
  <2> QED BY <1>2, <2>1
<1>8. bin = BinOf[call[q].body[n].slot] OBVIOUS
<1>14. PICK c \in Bins, m \in Nat, w \in Nat : c = bin /\ m = n /\ w = line.qty BY <1>3, <1>4
<1> HIDE DEF n, line, bin
<1>23. m \in 1..checked[q] /\ done'[q] = m BY <1>3, <1>14
<1>24. c \in Bins /\ w \in Nat OBVIOUS
<1>26. stock'[c] = stock[c] - w /\ stock[c] \in Int
       /\ \A b \in Bins \ {c} : stock'[b] = stock[b]
  BY <1>6, <1>14
<1>27. 1..m = (1..done[q]) \cup {m} /\ m \notin 1..done[q] BY <1>7, <1>14
<1>28. c = BinOf[call[q].body[m].slot] /\ w = call[q].body[m].qty BY <1>8, <1>14 DEF line
<1>9. Taken(c)' = Taken(c) \cup {<<q, m>>} /\ <<q, m>> \notin Taken(c)
  <2>1. \A x : x \in Taken(c)' <=>
           \E r \in Requests : \E k \in 1..done'[r] :
             /\ call[r].op \in {"create", "update"}
             /\ BinOf[call[r].body[k].slot] = c
             /\ x = <<r, k>>
    <3>1. \A x : x \in Taken(c)' <=>
           \E r \in Requests : \E k \in 1..done'[r] :
             /\ call'[r].op \in {"create", "update"}
             /\ BinOf[call'[r].body[k].slot] = c
             /\ x = <<r, k>>
      BY DEF Taken
    <3> QED BY <1>1, <3>1
  <2>2. \A x : x \in Taken(c) <=>
           \E r \in Requests : \E k \in 1..done[r] :
             /\ call[r].op \in {"create", "update"}
             /\ BinOf[call[r].body[k].slot] = c
             /\ x = <<r, k>>
    BY <1>24, TakenIs
  <2>3. <<q, m>> \notin Taken(c) BY <1>27, <2>2
  <2>4. <<q, m>> \in Taken(c)' BY <1>1, <1>23, <1>27, <1>28, <2>1
  <2>5. ASSUME NEW x \in Taken(c) PROVE x \in Taken(c)'
    <3>1. PICK r, k :
             /\ r \in Requests /\ k \in 1..done[r]
             /\ call[r].op \in {"create", "update"}
             /\ BinOf[call[r].body[k].slot] = c
             /\ x = <<r, k>>
      BY <2>2
    <3>2. k \in 1..done'[r]
      <4>1. CASE r = q BY <1>23, <1>27, <3>1, <4>1
      <4>2. CASE r # q BY <1>5, <3>1, <4>2
      <4> QED BY <4>1, <4>2
    <3> QED BY <2>1, <3>1, <3>2
  <2>6. ASSUME NEW x \in Taken(c)', x # <<q, m>> PROVE x \in Taken(c)
    <3>1. PICK r, k :
             /\ r \in Requests /\ k \in 1..done'[r]
             /\ call[r].op \in {"create", "update"}
             /\ BinOf[call[r].body[k].slot] = c
             /\ x = <<r, k>>
      BY <2>1, <2>6
    <3>2. k \in 1..done[r] BY <1>23, <1>5, <1>27, <3>1, <2>6
    <3> QED BY <2>2, <3>1, <3>2
  <2> QED BY <2>3, <2>4, <2>5, <2>6
<1>10. ASSUME NEW b \in Bins, b # c PROVE Taken(b)' = Taken(b)
  <2>1. \A x : x \in Taken(b)' <=>
           \E r \in Requests : \E k \in 1..done'[r] :
             /\ call[r].op \in {"create", "update"}
             /\ BinOf[call[r].body[k].slot] = b
             /\ x = <<r, k>>
    BY <1>1 DEF Taken
  <2>2. \A x : x \in Taken(b) <=>
           \E r \in Requests : \E k \in 1..done[r] :
             /\ call[r].op \in {"create", "update"}
             /\ BinOf[call[r].body[k].slot] = b
             /\ x = <<r, k>>
    BY TakenIs
  <2>3. ASSUME NEW x \in Taken(b) PROVE x \in Taken(b)'
    <3>1. PICK r, k :
             /\ r \in Requests /\ k \in 1..done[r]
             /\ call[r].op \in {"create", "update"}
             /\ BinOf[call[r].body[k].slot] = b
             /\ x = <<r, k>>
      BY <2>2
    <3>2. k \in 1..done'[r]
      <4>1. CASE r = q BY <1>23, <1>27, <3>1, <4>1
      <4>2. CASE r # q BY <1>5, <3>1, <4>2
      <4> QED BY <4>1, <4>2
    <3> QED BY <2>1, <3>1, <3>2
  <2>4. ASSUME NEW x \in Taken(b)' PROVE x \in Taken(b)
    <3>1. PICK r, k :
             /\ r \in Requests /\ k \in 1..done'[r]
             /\ call[r].op \in {"create", "update"}
             /\ BinOf[call[r].body[k].slot] = b
             /\ x = <<r, k>>
      BY <2>1, <2>4
    <3>2. k \in 1..done[r] BY <1>23, <1>5, <1>27, <1>28, <1>10, <3>1
    <3> QED BY <2>2, <3>1, <3>2
  <2> QED BY <2>3, <2>4
<1>11. ASSUME NEW b \in Bins, b # c
       PROVE  /\ IsFiniteSet(Taken(b)')
              /\ stock'[b] < 0 => \E x, y \in Taken(b)' : x # y
              /\ Taken(b)' = {} => \A r \in Requests : CheckedInStock(r, b)'
  <2>1. ASSUME NEW r \in Requests, CheckedInStock(r, b) PROVE CheckedInStock(r, b)'
    <3>1. stock'[b] >= stock[b] /\ stock'[b] = stock[b] BY <1>26, <1>11 DEF IndInv, TypeOK
    <3>2. pc'[r] \in {"check", "insert", "take"} => pc[r] \in {"check", "insert", "take"}
      BY <1>1
    <3> QED BY <1>1, <2>1, <3>1, <3>2, StillInStock
  <2>2. stock'[b] = stock[b] BY <1>26, <1>11
  <2> QED BY <1>10, <1>11, <2>1, <2>2 DEF CheckedLinesInStock
<1>12. /\ IsFiniteSet(Taken(c)')
       /\ stock'[c] < 0 => \E x, y \in Taken(c)' : x # y
       /\ Taken(c)' # {}
  <2>1. IsFiniteSet(Taken(c)')
    <3>1. IsFiniteSet(Taken(c)) BY <1>24 DEF CheckedLinesInStock
    <3>2. IsFiniteSet(Taken(c) \cup {<<q, m>>}) BY <3>1, FS_AddElement
    <3> QED BY <1>9, <3>2
  <2>2. CASE Taken(c) = {}
    <3>1. CheckedInStock(q, c) /\ ~ (stock[c] < 0) BY <1>24, <2>2 DEF CheckedLinesInStock
    <3>2. w <= stock[c] BY <1>1, <1>23, <1>28, <3>1 DEF CheckedInStock
    <3>3. ~ (stock'[c] < 0) BY <1>24, <1>26, <3>2
    <3> QED BY <1>9, <2>1, <3>3
  <2>3. CASE Taken(c) # {} BY <1>9, <2>1, <2>3
  <2> QED BY <2>2, <2>3
<1>13. ASSUME NEW b \in Bins
       PROVE  /\ IsFiniteSet(Taken(b)')
              /\ stock'[b] < 0 => \E x, y \in Taken(b)' : x # y
              /\ Taken(b)' = {} => \A r \in Requests : CheckedInStock(r, b)'
  <2>1. CASE b # c BY <1>11, <2>1
  <2>2. CASE b = c BY <1>12, <2>2
  <2> QED BY <2>1, <2>2
<1> QED BY <1>13 DEF CheckedLinesInStock

LEMMA StepKeepsChecked ==
    ASSUME IndInv, HoldInv, TypeOK', HoldInv', CheckedLinesInStock,
           NEW q \in Requests, Step(q) \/ Expire(q)
    PROVE  CheckedLinesInStock'
<1>1. CASE TakeLine(q) BY <1>1, TakeLineKeeps
<1>2. CASE ~ TakeLine(q)
  <2> SUFFICES ASSUME NEW b \in Bins
               PROVE  /\ IsFiniteSet(Taken(b)')
                      /\ stock'[b] < 0 => \E x, y \in Taken(b)' : x # y
                      /\ Taken(b)' = {} => \A r \in Requests : CheckedInStock(r, b)'
    BY DEF CheckedLinesInStock
  <2>1. Taken(b)' = Taken(b) /\ stock'[b] >= stock[b] BY <1>2, StepTaken, StepStock
  <2>2. stock[b] \in Int /\ stock'[b] \in Int BY DEF IndInv, TypeOK
  <2>3. MovesOnly(q) /\ call' = call BY StepMovesOnly DEF HoldInv
  <2>4. ASSUME NEW r \in Requests, CheckedInStock(r, b) PROVE CheckedInStock(r, b)'
    <3>1. CASE r # q BY <2>1, <2>3, <2>4, <3>1, StillInStock DEF MovesOnly
    <3>2. CASE r = q /\ CheckLine(q) BY <2>4, <3>2, CheckLineKeeps
    <3>3. CASE r = q /\ ~ CheckLine(q) BY <2>1, <2>3, <2>4, <3>3, StillInStock, StepChecks
    <3> QED BY <3>1, <3>2, <3>3
  <2>5. ~ (stock[b] < 0) => ~ (stock'[b] < 0) BY <2>1, <2>2
  <2> QED BY <2>1, <2>4, <2>5 DEF CheckedLinesInStock
<1> QED BY <1>1, <1>2

LEMMA ReceiveKeepsChecked ==
    ASSUME IndInv, IndInv', HoldInv, HoldInv', CheckedLinesInStock, NEW q \in Requests, Receive(q)
    PROVE  CheckedLinesInStock'
<1>1. MovesOnly(q) /\ UNCHANGED <<items, returns, stock, sales>> BY ReceiveHolds
<1>2. ReceivedBy(q) BY ReceiveFacts DEF IndInv
<1>3. checked'[q] = 0 /\ done'[q] = 0 /\ done[q] = 0
  BY <1>2 DEF ReceivedBy, locals, IndInv, CursorsInBody
<1> SUFFICES ASSUME NEW b \in Bins
             PROVE  /\ IsFiniteSet(Taken(b)')
                    /\ stock'[b] < 0 => \E x, y \in Taken(b)' : x # y
                    /\ Taken(b)' = {} => \A r \in Requests : CheckedInStock(r, b)'
  BY DEF CheckedLinesInStock
<1>4. Taken(b)' = Taken(b) BY <1>1, <1>3, TakenKept DEF MovesOnly
<1>5. ASSUME NEW r \in Requests, CheckedInStock(r, b) PROVE CheckedInStock(r, b)'
  <2>1. stock'[b] >= stock[b] BY <1>1 DEF IndInv, TypeOK
  <2>2. pc'[r] \in {"check", "insert", "take"} =>
           \/ checked'[r] = 0
           \/ /\ pc[r] \in {"check", "insert", "take"}
              /\ checked'[r] = checked[r] /\ call'[r] = call[r]
    BY <1>1, <1>3 DEF MovesOnly
  <2> QED BY <1>5, <2>1, <2>2, StillInStock DEF IndInv
<1> QED BY <1>1, <1>4, <1>5, SMTT(60) DEF CheckedLinesInStock

LEMMA CheckedNext ==
    IndInv /\ IndInv' /\ HoldInv /\ HoldInv' /\ CheckedLinesInStock /\ [Next]_vars
      => CheckedLinesInStock'
<1> SUFFICES ASSUME IndInv, IndInv', HoldInv, HoldInv', CheckedLinesInStock, [Next]_vars
             PROVE  CheckedLinesInStock'
  OBVIOUS
<1>1. ASSUME NEW q \in Requests, Receive(q) PROVE CheckedLinesInStock'
  BY <1>1, ReceiveKeepsChecked
<1>2. ASSUME NEW q \in Requests, Step(q) \/ Expire(q) PROVE CheckedLinesInStock'
  BY <1>2, StepKeepsChecked DEF IndInv
<1>3. CASE Crash \/ UNCHANGED vars
  <2>1. stock' = stock /\ call' = call /\ done' = done /\ checked' = checked
        /\ \A r \in Requests : pc'[r] # pc[r] => pc'[r] = "failed"
    BY <1>3 DEF Crash, db, vars, locals, IndInv, TypeOK
  <2> SUFFICES ASSUME NEW b \in Bins
               PROVE  /\ IsFiniteSet(Taken(b)')
                      /\ stock'[b] < 0 => \E x, y \in Taken(b)' : x # y
                      /\ Taken(b)' = {} => \A r \in Requests : CheckedInStock(r, b)'
    BY DEF CheckedLinesInStock
  <2>2. Taken(b)' = Taken(b) BY <2>1, TakenKept
  <2>3. ASSUME NEW r \in Requests, CheckedInStock(r, b) PROVE CheckedInStock(r, b)'
    BY <2>1, <2>3 DEF CheckedInStock
  <2> QED BY <2>1, <2>2, <2>3 DEF CheckedLinesInStock
<1> QED BY <1>1, <1>2, <1>3 DEF Next

LEMMA CheckedInit == Init => CheckedLinesInStock
<1> SUFFICES ASSUME Init, NEW b \in Bins
             PROVE  /\ Taken(b) = {}
                    /\ ~ (stock[b] < 0)
                    /\ \A r \in Requests : CheckedInStock(r, b)
  BY FS_EmptySet DEF CheckedLinesInStock
<1>1. Taken(b) = {} BY DEF Init, Taken, NoCall
<1>2. stock[b] \in Nat BY DEF Init
<1>3. \A r \in Requests : pc[r] = "idle" BY DEF Init
<1> QED BY <1>1, <1>2, <1>3 DEF CheckedInStock

LEMMA PairHasTwo ==
    ASSUME NEW x, NEW y, x # y
    PROVE  Cardinality({x, y}) = 2
<1>1. IsFiniteSet({x}) /\ y \notin {x} BY FS_Singleton
<1>2. Cardinality({x}) = 1 BY FS_Singleton
<1>3. Cardinality({x} \cup {y}) = Cardinality({x}) + 1
  <2>1. \A S : IsFiniteSet(S) /\ y \notin S => Cardinality(S \cup {y}) = Cardinality(S) + 1
    BY FS_AddElement
  <2> QED BY <1>1, <2>1
<1>4. PICK S : S = {x} \cup {y} OBVIOUS
<1>5. S = {x, y} BY <1>4
<1>6. Cardinality(S) = 1 + 1
  <2>1. Cardinality(S) = Cardinality({x}) + 1 BY <1>3, <1>4
  <2> QED BY <1>2, <2>1
<1>7. Cardinality(S) = 2 BY <1>6
<1> QED BY <1>5, <1>7

LEMMA CheckedGivesOne == CheckedLinesInStock => OneLineNeverOversells
<1> SUFFICES ASSUME CheckedLinesInStock, NEW b \in Bins, stock[b] < 0
             PROVE  Cardinality(Taken(b)) > 1
  BY DEF OneLineNeverOversells
<1>1. PICK x \in Taken(b), y \in Taken(b) : x # y BY DEF CheckedLinesInStock
<1>2. IsFiniteSet(Taken(b)) /\ {x, y} \in SUBSET Taken(b) BY DEF CheckedLinesInStock
<1>3. Cardinality({x, y}) = 2 BY <1>1, PairHasTwo
<1>4. Cardinality({x, y}) <= Cardinality(Taken(b)) /\ Cardinality(Taken(b)) \in Nat
  BY <1>2, FS_Subset, FS_CardinalityType
<1> QED BY <1>3, <1>4

\* However requests overlap, expire or die, a single line never takes more than its
\* counter holds: validateSaleItems checks it, and only another line that was checked
\* against the same units can get in between (sale-inventory.service.ts).
THEOREM LinesNeverOversell == Spec => []OneLineNeverOversells
<1> DEFINE Inv == IndInv /\ HoldInv /\ CheckedLinesInStock
<1>1. Init => Inv BY InitIndInv, HoldInvInit, CheckedInit
<1>2. Inv /\ [Next]_vars => Inv' BY NextIndInv, HoldInvNext, CheckedNext
<1>3. Inv => OneLineNeverOversells BY CheckedGivesOne
<1> QED BY <1>1, <1>2, <1>3, PTL DEF Spec

----------------------------------------------------------------------------
(* Quantities are sums. *)

LEMMA QuantityIsSum ==
    ASSUME NEW S, IsFiniteSet(S), NEW f, \A x \in S : f[x] = x.qty /\ x.qty \in Int
    PROVE  Quantity(S) = Sum(f, S)
<1> DEFINE P(g) == g = [s \in SUBSET S |-> IF s = {} THEN 0
                         ELSE (CHOOSE x \in s : TRUE).qty + g[s \ {CHOOSE x \in s : TRUE}]]
<1>0. Ints(f, S) BY DEF Ints
<1>1. Quantity(S) = (CHOOSE g : P(g))[S] BY DEF Quantity, MapThenSumSet, MapThenFoldSet
<1>2. \A g : P(g) <=> Adds(g, f, S)
  <2> SUFFICES ASSUME NEW g PROVE P(g) <=> Adds(g, f, S) OBVIOUS
  <2>1. ASSUME NEW s \in SUBSET S, s # {}
        PROVE  (CHOOSE x \in s : TRUE).qty + g[s \ {CHOOSE x \in s : TRUE}] = f[Picked(s)] + g[s \ {Picked(s)}]
    <3>1. Picked(s) = (CHOOSE x \in s : TRUE) /\ Picked(s) \in S BY <2>1 DEF Picked
    <3> QED BY <3>1
  <2>2. \A s \in SUBSET S :
          (IF s = {} THEN 0 ELSE (CHOOSE x \in s : TRUE).qty + g[s \ {CHOOSE x \in s : TRUE}])
            = (IF s = {} THEN 0 ELSE f[Picked(s)] + g[s \ {Picked(s)}])
    BY <2>1
  <2>3. [s \in SUBSET S |-> IF s = {} THEN 0 ELSE (CHOOSE x \in s : TRUE).qty + g[s \ {CHOOSE x \in s : TRUE}]]
          = [s \in SUBSET S |-> IF s = {} THEN 0 ELSE f[Picked(s)] + g[s \ {Picked(s)}]]
    BY <2>2
  <2> QED BY <2>3 DEF Adds
<1>3. \E g : Adds(g, f, S) BY <1>0, AddsExists
<1> DEFINE gg == CHOOSE g : P(g)
<1>4. P(gg)
  <2> HIDE DEF P
  <2> QED BY <1>2, <1>3
<1> HIDE DEF P, gg
<1>5. Adds(gg, f, S) /\ S \in SUBSET S BY <1>2, <1>4
<1>6. Sum(f, S) = gg[S] BY <1>0, <1>5, SumIs
<1> QED BY <1>1, <1>6 DEF gg

LEMMA LinesQuantityIsSum ==
    ASSUME NEW body, NEW S, IsFiniteSet(S), NEW f,
           \A x \in S : f[x] = body[x].qty /\ body[x].qty \in Int
    PROVE  LinesQuantity(body, S) = Sum(f, S)
<1> DEFINE P(g) == g = [s \in SUBSET S |-> IF s = {} THEN 0
                         ELSE body[CHOOSE x \in s : TRUE].qty + g[s \ {CHOOSE x \in s : TRUE}]]
<1>0. Ints(f, S) BY DEF Ints
<1>1. LinesQuantity(body, S) = (CHOOSE g : P(g))[S]
  BY DEF LinesQuantity, MapThenSumSet, MapThenFoldSet
<1>2. \A g : P(g) <=> Adds(g, f, S)
  <2> SUFFICES ASSUME NEW g PROVE P(g) <=> Adds(g, f, S) OBVIOUS
  <2>1. ASSUME NEW s \in SUBSET S, s # {}
        PROVE  body[CHOOSE x \in s : TRUE].qty + g[s \ {CHOOSE x \in s : TRUE}] = f[Picked(s)] + g[s \ {Picked(s)}]
    <3>1. Picked(s) = (CHOOSE x \in s : TRUE) /\ Picked(s) \in S BY <2>1 DEF Picked
    <3> QED BY <3>1
  <2>2. \A s \in SUBSET S :
          (IF s = {} THEN 0 ELSE body[CHOOSE x \in s : TRUE].qty + g[s \ {CHOOSE x \in s : TRUE}])
            = (IF s = {} THEN 0 ELSE f[Picked(s)] + g[s \ {Picked(s)}])
    BY <2>1
  <2>3. [s \in SUBSET S |-> IF s = {} THEN 0 ELSE body[CHOOSE x \in s : TRUE].qty + g[s \ {CHOOSE x \in s : TRUE}]]
          = [s \in SUBSET S |-> IF s = {} THEN 0 ELSE f[Picked(s)] + g[s \ {Picked(s)}]]
    BY <2>2
  <2> QED BY <2>3 DEF Adds
<1>3. \E g : Adds(g, f, S) BY <1>0, AddsExists
<1> DEFINE gg == CHOOSE g : P(g)
<1>4. P(gg)
  <2> HIDE DEF P
  <2> QED BY <1>2, <1>3
<1> HIDE DEF P, gg
<1>5. Adds(gg, f, S) /\ S \in SUBSET S BY <1>2, <1>4
<1>6. Sum(f, S) = gg[S] BY <1>0, <1>5, SumIs
<1> QED BY <1>1, <1>6 DEF gg

\* The quantity of a row, as a function.
QtyOf(S) == [x \in S |-> x.qty]

LEMMA QuantityInt ==
    ASSUME NEW S, IsFiniteSet(S), \A x \in S : x.qty \in Nat
    PROVE  Quantity(S) \in Nat /\ Quantity(S) = Sum(QtyOf(S), S) /\ Ints(QtyOf(S), S)
<1>1. \A x \in S : QtyOf(S)[x] = x.qty /\ x.qty \in Nat BY DEF QtyOf
<1>2. Quantity(S) = Sum(QtyOf(S), S) BY <1>1, QuantityIsSum
<1>3. Sum(QtyOf(S), S) \in Nat BY <1>1, SumAtLeast
<1> QED BY <1>1, <1>2, <1>3 DEF Ints

LEMMA QuantityEmpty == Quantity({}) = 0
  BY QuantityIsSum, SumEmpty, FS_EmptySet

LEMMA QuantityUnion ==
    ASSUME NEW S, IsFiniteSet(S), NEW R, IsFiniteSet(R), S \cap R = {},
           \A x \in S \cup R : x.qty \in Nat
    PROVE  Quantity(S \cup R) = Quantity(S) + Quantity(R)
<1> DEFINE f == [x \in S \cup R |-> x.qty]
<1>1. IsFiniteSet(S \cup R) BY FS_Union
<1>2. \A x \in S \cup R : f[x] = x.qty /\ x.qty \in Int OBVIOUS
<1> HIDE DEF f
<1>3. Ints(f, S) /\ Ints(f, R) BY <1>2 DEF Ints
<1>4. Quantity(S) = Sum(f, S) /\ Quantity(R) = Sum(f, R) BY <1>2, QuantityIsSum
<1>5. Quantity(S \cup R) = Sum(f, S \cup R) BY <1>1, <1>2, QuantityIsSum
<1> QED BY <1>3, <1>4, <1>5, SumUnion

LEMMA QuantityAdd ==
    ASSUME NEW S, IsFiniteSet(S), NEW y, y \notin S, y.qty \in Nat,
           \A x \in S : x.qty \in Nat
    PROVE  Quantity(S \cup {y}) = Quantity(S) + y.qty
<1>1. IsFiniteSet({y}) /\ S \cap {y} = {} /\ \A x \in S \cup {y} : x.qty \in Nat
  BY FS_Singleton
<1>2. Quantity({y}) = y.qty
  <2> DEFINE f == [x \in {y} |-> x.qty]
  <2>1. \A x \in {y} : f[x] = x.qty /\ x.qty \in Int OBVIOUS
  <2> HIDE DEF f
  <2> QED BY <1>1, <2>1, QuantityIsSum, SumSingle
<1> QED BY <1>1, <1>2, QuantityUnion

\* The lines of a body, whose quantities are numbers.
HasQty(body, K) == IsFiniteSet(K) /\ \A k \in K : body[k].qty \in Nat

LineQty(body, K) == [k \in K |-> body[k].qty]

LEMMA LinesQuantityInt ==
    ASSUME NEW body, NEW K, HasQty(body, K)
    PROVE  /\ LinesQuantity(body, K) \in Nat
           /\ \A k \in K : body[k].qty <= LinesQuantity(body, K)
<1>1. \A x \in K : LineQty(body, K)[x] = body[x].qty /\ body[x].qty \in Nat
  BY DEF LineQty, HasQty
<1>2. LinesQuantity(body, K) = Sum(LineQty(body, K), K) BY <1>1, LinesQuantityIsSum DEF HasQty
<1>3. /\ Sum(LineQty(body, K), K) \in Nat
      /\ \A x \in K : LineQty(body, K)[x] <= Sum(LineQty(body, K), K)
  BY <1>1, SumAtLeast DEF HasQty
<1> QED BY <1>1, <1>2, <1>3

LEMMA LinesQuantityEmpty ==
    ASSUME NEW body
    PROVE  LinesQuantity(body, {}) = 0
  BY LinesQuantityIsSum, SumEmpty, FS_EmptySet

LEMMA LinesQuantityAdd ==
    ASSUME NEW body, NEW K, HasQty(body, K), NEW k, k \notin K, body[k].qty \in Nat
    PROVE  LinesQuantity(body, K \cup {k}) = LinesQuantity(body, K) + body[k].qty
<1> DEFINE f == [x \in K \cup {k} |-> body[x].qty]
<1>1. IsFiniteSet(K \cup {k}) /\ IsFiniteSet(K) BY FS_AddElement DEF HasQty
<1>2. \A x \in K \cup {k} : f[x] = body[x].qty /\ body[x].qty \in Int BY DEF HasQty
<1> HIDE DEF f
<1>3. LinesQuantity(body, K \cup {k}) = Sum(f, K \cup {k}) BY <1>1, <1>2, LinesQuantityIsSum
<1>4. LinesQuantity(body, K) = Sum(f, K) BY <1>1, <1>2, LinesQuantityIsSum
<1>5. Ints(f, K \cup {k}) /\ Ints(f, K) BY <1>2 DEF Ints
<1>6. Sum(f, K \cup {k}) = f[k] + Sum(f, K) BY <1>1, <1>5, SumAdd
<1>7. Sum(f, K) \in Int BY <1>1, <1>5, SumInt
<1> QED BY <1>2, <1>3, <1>4, <1>6, <1>7

\* Rows made of lines, one of each, weigh what the lines weigh.
LEMMA RowsOfLines ==
    ASSUME NEW body, NEW K, HasQty(body, K), NEW b,
           \A k \in K : b[k].qty = body[k].qty,
           \A j, k \in K : b[j] = b[k] => j = k
    PROVE  IsFiniteSet(ImageOf(b, K)) /\ Quantity(ImageOf(b, K)) = LinesQuantity(body, K)
<1> DEFINE f == [k \in K |-> body[k].qty]
           g == [x \in ImageOf(b, K) |-> x.qty]
<1>1. IsFiniteSet(ImageOf(b, K)) BY ImageFinite DEF HasQty
<1>2. \A k \in K : f[k] = body[k].qty /\ body[k].qty \in Int BY DEF HasQty
<1>3. \A x \in ImageOf(b, K) : g[x] = x.qty /\ x.qty \in Int BY <1>2 DEF ImageOf
<1>4. \A k \in K : b[k] \in ImageOf(b, K) BY DEF ImageOf
<1> HIDE DEF f, g
<1>5. Ints(f, K) /\ \A k \in K : g[b[k]] = f[k] BY <1>2, <1>3, <1>4 DEF Ints
<1>6. Sum(g, ImageOf(b, K)) = Sum(f, K) BY ZenonT(120), <1>5, SumMoved DEF HasQty
<1>7. LinesQuantity(body, K) = Sum(f, K) BY <1>2, LinesQuantityIsSum DEF HasQty
<1>8. Quantity(ImageOf(b, K)) = Sum(g, ImageOf(b, K)) BY <1>1, <1>3, QuantityIsSum
<1> QED BY <1>1, <1>6, <1>7, <1>8

----------------------------------------------------------------------------
(* One write of a sale at a time *)

\* A commit changes rows of the sales its call writes, and of no other.
LEMMA CommitTouchesOwn ==
    ASSUME IndInv, HoldInv, NEW q \in Requests, Step(q) \/ Expire(q),
           NEW row, row.sale \notin Scope(call[q])
    PROVE  (row \in items' <=> row \in items) /\ (row \in returns' <=> row \in returns)
<1>0. HoldsItsOwn(q) BY DEF HoldInv
<1>1. CASE FinishUpdate(q)
  <2>1. \A x \in dels[q] : x.sale \in Scope(call[q]) BY <1>0 DEF HoldsItsOwn
  <2>2. \A x \in new[q] : x.sale \in Scope(call[q])
    BY <1>1 DEF IndInv, NewRowsAreOwn, FinishUpdate, Scope
  <2>3. items' = (items \ dels[q]) \cup new[q] /\ returns' = returns BY <1>1 DEF FinishUpdate
  <2> QED BY <2>1, <2>2, <2>3
<1>2. CASE FinishDelete(q)
  <2>1. items' = items \ RowsOf(Scope(call[q])) /\ returns' = returns \ ReturnsOf(Scope(call[q]))
    BY <1>2 DEF FinishDelete
  <2> QED BY <2>1 DEF RowsOf, ReturnsOf
<1>3. CASE FinishReturn(q)
  <2>1. \A x \in new[q] : x.sale \in Scope(call[q])
    BY <1>3 DEF IndInv, NewRowsAreOwn, FinishReturn, CursorsInBody, Scope
  <2>2. items' = items /\ returns' = returns \cup new[q] BY <1>3 DEF FinishReturn
  <2> QED BY <2>1, <2>2
<1>4. CASE RestoreLine(q) \/ TakeLine(q) \/ RestockLine(q)
           \/ UNCHANGED <<stock, items, returns, given, done>>
  BY <1>4 DEF RestoreLine, TakeLine, RestockLine
<1> QED BY <1>1, <1>2, <1>3, <1>4, StepWrites DEF Writes

\* The creation of a sale writes no line and no return.
LEMMA CreateTouchesNothing ==
    ASSUME IndInv, HoldInv, NEW q \in Requests, Step(q) \/ Expire(q), call[q].op = "create"
    PROVE  items' = items /\ returns' = returns
<1>1. ~ FinishUpdate(q) /\ ~ FinishDelete(q) /\ ~ FinishReturn(q)
  BY DEF FinishUpdate, FinishDelete, FinishReturn, IndInv, CursorsInBody
<1> QED BY <1>1, StepWrites DEF Writes, RestoreLine, TakeLine, RestockLine

\* ... so that what others are writing stays as it is.
LEMMA OthersRowsStay ==
    ASSUME IndInv, HoldInv, NEW q \in Requests, Step(q) \/ Expire(q), NEW T,
           call[q].op # "create" => Scope(call[q]) \cap T = {}
    PROVE  RowsOf(T)' = RowsOf(T) /\ ReturnsOf(T)' = ReturnsOf(T)
<1>1. CASE call[q].op = "create" BY <1>1, CreateTouchesNothing DEF RowsOf, ReturnsOf
<1>2. CASE call[q].op # "create"
  <2>1. \A row : row.sale \in T =>
          (row \in items' <=> row \in items) /\ (row \in returns' <=> row \in returns)
    BY <1>2, CommitTouchesOwn
  <2> QED BY <2>1 DEF RowsOf, ReturnsOf
<1> QED BY <1>1, <1>2

LEMMA IdleReads ==
    ASSUME IndInv, NEW r \in Requests, ~ WritesOld(r)
    PROVE  ReadsStayTrue(r)
  BY DEF IndInv, CursorsInBody, WritesOld, InFlight, ReadsStayTrue

LEMMA OtherReads ==
    ASSUME IndInv, IndInv', HoldInv, HoldInv', SerialInv, NEW q \in Requests, Step(q) \/ Expire(q),
           NEW r \in Requests \ {q}
    PROVE  ReadsStayTrue(r)'
<1>1. MovesOnly(q) /\ call' = call /\ InFlight(q) BY StepMovesOnly DEF HoldInv
<1>2. CASE ~ WritesOld(r)
  <2>1. ~ WritesOld(r)' BY <1>1, <1>2 DEF WritesOld, MovesOnly, InFlight
  <2> QED BY <2>1 DEF IndInv, CursorsInBody, WritesOld, InFlight, ReadsStayTrue
<1>3. CASE WritesOld(r)
  <2>1. call[q].op # "create" => Scope(call[q]) \cap Scope(call[r]) = {}
    BY <1>1, <1>3 DEF SerialInv, WritesOld
  <2>2. RowsOf(Scope(call[r]))' = RowsOf(Scope(call[r]))
        /\ ReturnsOf(Scope(call[r]))' = ReturnsOf(Scope(call[r]))
    <3>1. \A T : T = Scope(call[r]) => RowsOf(T)' = RowsOf(T) /\ ReturnsOf(T)' = ReturnsOf(T)
      BY <2>1, OthersRowsStay
    <3>2. Scope(call[r])' = Scope(call[r]) BY <1>1 DEF Scope
    <3> QED BY <3>1, <3>2 DEF RowsOf, ReturnsOf
  <2>3. ReadsStayTrue(r) BY DEF SerialInv
  <2>4. /\ pc'[r] = pc[r] /\ tx'[r] = tx[r] /\ call'[r] = call[r]
        /\ old'[r] = old[r] /\ given'[r] = given[r]
        /\ snap'[r] = snap[r] /\ dels'[r] = dels[r]
    BY <1>1 DEF MovesOnly
  <2>5. dels[r] \subseteq items => dels[r] \subseteq items'
    <3>1. \A x \in dels[r] : x.sale \in Scope(call[r]) BY DEF HoldInv, HoldsItsOwn
    <3>2. ASSUME NEW x \in dels[r], x \in items PROVE x \in items'
      <4>1. x \in RowsOf(Scope(call[r])) BY <3>1, <3>2 DEF RowsOf
      <4>2. x \in RowsOf(Scope(call[r]))' BY <2>2, <4>1
      <4> QED BY <4>2 DEF RowsOf
    <3> QED BY <3>2
  <2>6. call[r].op = "return" => Scope(call[r]) = {call[r].sale} BY DEF Scope
  <2>7. Scope(call'[r]) = Scope(call[r]) BY <2>4
  <2>8. call[r].op = "return" => /\ RowsOf({call[r].sale})' = RowsOf({call[r].sale})
                                 /\ ReturnsOf({call[r].sale})' = ReturnsOf({call[r].sale})
    BY <2>2, <2>4, <2>6 DEF RowsOf, ReturnsOf
  <2> DEFINE c == call[r]
             rows == RowsOf(Scope(c))
  <2>9. /\ c.op \in {"update", "delete", "deleteAll"}
           /\ pc'[r] \in {"restore", "delete", "lock", "check", "insert", "take",
                          "entries", "finish"}
           /\ (pc'[r] = "finish" => c.op # "update")
             => old'[r] = rows
        /\ pc'[r] = "lock" => snap'[r] = rows
        /\ c.op # "create" /\ tx'[r] = "open"
           /\ pc'[r] \in {"check", "insert", "take", "entries", "finish"}
             => dels'[r] = given'[r] /\ dels'[r] \subseteq items'
    BY <2>3, <2>4, <2>5 DEF ReadsStayTrue
  <2>10. c.op = "return" /\ InFlight(r)' /\ c.body # <<>>
         => ((c.status = "REFUNDED") <=>
               (BodyQuantity(c.body) + Quantity(ReturnsOf({c.sale})) >=
                  Quantity(RowsOf({c.sale}))))
    BY <2>3, <2>4 DEF ReadsStayTrue, InFlight
  <2>11. rows' = rows /\ c' = c BY <2>2, <2>4
  <2>12. c.op = "return" => /\ Quantity(RowsOf({c.sale}))' = Quantity(RowsOf({c.sale}))
                            /\ Quantity(ReturnsOf({c.sale}))' = Quantity(ReturnsOf({c.sale}))
    BY <2>8, <2>4
  <2>13. BodyQuantity(c.body)' = BodyQuantity(c.body) BY <2>4
  <2> QED BY <2>9, <2>10, <2>11, <2>12, <2>13 DEF ReadsStayTrue
<1> QED BY <1>2, <1>3

\* What ReadsStayTrue says of the statements after the read, for rows that stay.
ReadsGoOn(q, rows) ==
    LET c == call[q] IN
    /\ c.op \in {"update", "delete", "deleteAll"}
         /\ pc'[q] \in {"restore", "delete", "lock", "check", "insert", "take",
                        "entries", "finish"}
         /\ (pc'[q] = "finish" => c.op # "update")
           => old'[q] = rows
    /\ pc'[q] = "lock" => snap'[q] = rows
    /\ c.op # "create" /\ tx'[q] = "open"
         /\ pc'[q] \in {"check", "insert", "take", "entries", "finish"}
           => dels'[q] = given'[q] /\ dels'[q] \subseteq items

LEMMA StepReadsGoOn ==
    ASSUME IndInv, HoldInv, SerialInv, NEW q \in Requests, Step(q) \/ Expire(q)
    PROVE  ReadsGoOn(q, RowsOf(Scope(call[q])))
<1> DEFINE rows == RowsOf(Scope(call[q]))
<1>0. /\ HoldsItsOwn(q) /\ rows \subseteq items
      /\ call[q].op \in {"update", "delete", "deleteAll"}
           /\ pc[q] \in {"restore", "delete", "lock", "check", "insert", "take",
                          "entries", "finish"}
           /\ (pc[q] = "finish" => call[q].op # "update")
             => old[q] = rows
      /\ pc[q] = "lock" => snap[q] = rows
      /\ call[q].op # "create" /\ tx[q] = "open"
           /\ pc[q] \in {"check", "insert", "take", "entries", "finish"}
             => dels[q] = given[q] /\ dels[q] \subseteq items
  BY DEF HoldInv, SerialInv, ReadsStayTrue, RowsOf
<1>01. rows = RowsOf(Scope(call[q])) OBVIOUS
<1> HIDE DEF rows
<1> USE <1>0, <1>01 DEF IndInv, TypeOK, Goto, Abort, Committed, db, locals, CursorsInBody,
         ReadsGoOn
<1>1. CASE ReadOld(q) BY <1>1 DEF ReadOld
<1>2. CASE RestoreLine(q) BY <1>2 DEF RestoreLine
<1>3. CASE RestoreLineThrows(q) BY <1>3 DEF RestoreLineThrows
<1>4. CASE DeleteRows(q) BY <1>4 DEF DeleteRows
<1>5. CASE LockRows(q) BY <1>5 DEF LockRows, AfterDelete, HoldsItsOwn
<1>6. CASE CheckLine(q) BY <1>6 DEF CheckLine
<1>7. CASE CheckLineThrows(q) BY <1>7 DEF CheckLineThrows
<1>8. CASE InsertRows(q) BY <1>8 DEF InsertRows
<1>9. CASE InsertRowsThrows(q) BY <1>9 DEF InsertRowsThrows
<1>10. CASE TakeLine(q) BY <1>10 DEF TakeLine
<1>11. CASE FinishUpdate(q) BY <1>11 DEF FinishUpdate
<1>12. CASE DeleteEntries(q) BY <1>12 DEF DeleteEntries
<1>13. CASE FinishDelete(q) BY <1>13 DEF FinishDelete
<1>14. CASE FinishThrows(q) BY <1>14 DEF FinishThrows
<1>15. CASE InsertReturns(q) BY <1>15 DEF InsertReturns
<1>16. CASE InsertReturnsThrows(q) BY <1>16 DEF InsertReturnsThrows
<1>17. CASE RestockLine(q) BY <1>17 DEF RestockLine
<1>18. CASE Refund(q) BY <1>18 DEF Refund
<1>19. CASE RefundThrows(q) BY <1>19 DEF RefundThrows
<1>20. CASE FinishReturn(q) BY <1>20 DEF FinishReturn
<1>21. CASE Expired(q) BY <1>21 DEF Expired
<1>22. CASE CreateRow(q) BY <1>22 DEF CreateRow
<1>23. CASE CreateRowThrows(q) BY <1>23 DEF CreateRowThrows
<1>24. CASE FinishCreate(q) BY <1>24 DEF FinishCreate
<1>25. CASE Expire(q) BY <1>25 DEF Expire
<1> QED
  BY <1>1, <1>2, <1>3, <1>4, <1>5, <1>6, <1>7, <1>8, <1>9, <1>10, <1>11, <1>12, <1>13, <1>14, <1>15, <1>16, <1>17, <1>18, <1>19, <1>20, <1>21, <1>22, <1>23, <1>24, <1>25
     DEF Step

LEMMA StepReads ==
    ASSUME IndInv, IndInv', HoldInv, SerialInv, NEW q \in Requests, Step(q) \/ Expire(q)
    PROVE  ReadsStayTrue(q)'
<1>1. MovesOnly(q) /\ call' = call /\ InFlight(q) BY StepMovesOnly DEF HoldInv
<1>2. CASE ~ WritesOld(q)'
  BY <1>2 DEF IndInv, CursorsInBody, WritesOld, InFlight, ReadsStayTrue
<1>3. CASE WritesOld(q)'
  <2>1. pc'[q] # "ok" BY <1>3 DEF WritesOld, InFlight
  <2>2. items' = items /\ returns' = returns
    BY ZenonT(120), <2>1, StepWrites DEF Writes, RestoreLine, TakeLine, RestockLine, FinishUpdate,
       FinishDelete, FinishReturn, Committed, Goto, IndInv, TypeOK
  <2> DEFINE c == call[q]
             rows == RowsOf(Scope(c))
  <2>3. c' = c /\ rows' = rows BY <1>1, <2>2 DEF RowsOf
  <2>4. ReadsGoOn(q, rows) BY StepReadsGoOn
  <2>5. InFlight(q) /\ c.op = "return" /\ c.body # <<>>
         => ((c.status = "REFUNDED") <=>
               (BodyQuantity(c.body) + Quantity(ReturnsOf({c.sale})) >=
                  Quantity(RowsOf({c.sale}))))
    BY DEF SerialInv, ReadsStayTrue
  <2>6. /\ RowsOf({c.sale})' = RowsOf({c.sale})
        /\ ReturnsOf({c.sale})' = ReturnsOf({c.sale})
    BY <2>2, <2>3 DEF RowsOf, ReturnsOf
  <2>7. /\ Quantity(RowsOf({c.sale}))' = Quantity(RowsOf({c.sale}))
        /\ Quantity(ReturnsOf({c.sale}))' = Quantity(ReturnsOf({c.sale}))
        /\ BodyQuantity(c.body)' = BodyQuantity(c.body)
    BY <2>3, <2>6
  <2>8. InFlight(q) BY <1>1
  <2> QED BY <2>2, <2>3, <2>4, <2>5, <2>7, <2>8 DEF ReadsStayTrue, ReadsGoOn
<1> QED BY <1>2, <1>3

\* The quantities of rows and of returns are numbers.
LEMMA RowsHaveQty ==
    ASSUME TypeOK, HoldInv, NEW T
    PROVE  /\ IsFiniteSet(RowsOf(T)) /\ IsFiniteSet(ReturnsOf(T))
           /\ \A x \in RowsOf(T) \cup ReturnsOf(T) : x.qty \in Nat
           /\ Quantity(RowsOf(T)) \in Nat /\ Quantity(ReturnsOf(T)) \in Nat
<1>1. IsFiniteSet(RowsOf(T)) /\ IsFiniteSet(ReturnsOf(T))
  BY FS_Subset DEF HoldInv, RowsOf, ReturnsOf
<1>2. \A x \in RowsOf(T) \cup ReturnsOf(T) : x.qty \in Nat
  BY DEF RowsOf, ReturnsOf, TypeOK, Row, Return
<1> QED BY <1>1, <1>2, QuantityInt

LEMMA BodyHasQty ==
    ASSUME NEW body \in Seq(Line) \cup Seq(ReturnLine), NEW K \in SUBSET DOMAIN body
    PROVE  HasQty(body, K)
<1>1. IsFiniteSet(DOMAIN body) BY FS_Interval
<1>2. \A k \in DOMAIN body : body[k] \in Line \cup ReturnLine OBVIOUS
<1>3. \A k \in DOMAIN body : body[k].qty \in Nat BY <1>2 DEF Line, ReturnLine
<1> QED BY <1>1, <1>3, FS_Subset DEF HasQty

\* A return of something is of one unit at least.
LEMMA ReturnsSomething ==
    ASSUME NEW body \in Seq(ReturnLine), body # <<>>
    PROVE  BodyQuantity(body) \in Nat /\ BodyQuantity(body) > 0
<1>1. 1 \in DOMAIN body /\ body[1] \in ReturnLine
  <2>1. Len(body) \in Nat /\ DOMAIN body = 1..Len(body) /\ Len(body) # 0 OBVIOUS
  <2>2. 1 \in DOMAIN body BY <2>1
  <2> QED BY <2>2
<1>2. body[1].qty \in Nat /\ body[1].qty > 0 BY <1>1 DEF ReturnLine
<1>3. HasQty(body, DOMAIN body) BY BodyHasQty
<1>4. LinesQuantity(body, DOMAIN body) \in Nat /\ body[1].qty <= LinesQuantity(body, DOMAIN body)
  BY <1>1, <1>3, LinesQuantityInt
<1> QED BY <1>2, <1>4 DEF BodyQuantity

\* The status a return is to leave is REFUNDED when all that was sold is back.
LEMMA StatusOfReturn ==
    ASSUME TypeOK, HoldInv, NEW s \in Sales, NEW body \in ReturnBodies, body # <<>>
    PROVE  (StatusAfterReturn(s, body) = "REFUNDED") <=>
             (BodyQuantity(body) + Quantity(ReturnsOf({s})) >= Quantity(RowsOf({s})))
<1>1. BodyQuantity(body) \in Nat /\ BodyQuantity(body) > 0 BY ReturnsSomething
<1>2. Quantity(RowsOf({s})) \in Nat /\ Quantity(ReturnsOf({s})) \in Nat BY RowsHaveQty
<1>3. BodyQuantity(body) + Quantity(ReturnsOf({s})) > 0 BY <1>1, <1>2
<1> QED BY <1>3 DEF StatusAfterReturn

LEMMA ReceiveKinds ==
    ASSUME TypeOK, NEW q \in Requests, Receive(q)
    PROVE  \/ pc'[q] = "read" /\ call'[q].op \in {"update", "delete", "deleteAll"}
           \/ pc'[q] = "finish" /\ call'[q].op = "update"
           \/ call'[q].op = "create"
           \/ \E s \in Sales, body \in ReturnBodies : BeginReturn(q, s, body)
<1> DEFINE G == \/ pc'[q] = "read" /\ call'[q].op \in {"update", "delete", "deleteAll"}
                \/ pc'[q] = "finish" /\ call'[q].op = "update"
                \/ call'[q].op = "create"
                \/ \E s \in Sales, body \in ReturnBodies : BeginReturn(q, s, body)
<1> USE DEF Begin, Goto, TypeOK
<1>1. CASE BeginDeleteAll(q) BY <1>1 DEF BeginDeleteAll, NoCall
<1>2. ASSUME NEW s \in Sales, BeginDelete(q, s) PROVE G BY <1>2 DEF BeginDelete
<1>3. ASSUME NEW s \in Sales, NEW body \in UpdateBodies, NEW st \in Statuses,
             BeginUpdate(q, s, body, st)
      PROVE  G
  BY <1>3 DEF BeginUpdate
<1>4. ASSUME NEW s \in Sales, NEW st \in Statuses, BeginStatusUpdate(q, s, st)
      PROVE  G
  BY <1>4 DEF BeginStatusUpdate
<1>5. ASSUME NEW s \in Sales, NEW body \in CreateBodies,
             NEW st \in {"PENDING", "CONFIRMED"}, BeginCreate(q, s, body, st)
      PROVE  G
  BY <1>5 DEF BeginCreate
<1> QED BY <1>1, <1>2, <1>3, <1>4, <1>5 DEF Receive

LEMMA ReceiveReads ==
    ASSUME IndInv, IndInv', HoldInv, HoldInv', NEW q \in Requests, Receive(q)
    PROVE  ReadsStayTrue(q)'
<1>1. UNCHANGED <<items, returns, stock, sales>> BY ReceiveHolds
<1>2. ReceivedBy(q) BY ReceiveFacts DEF IndInv
<1>3. CASE pc'[q] = "read" /\ call'[q].op \in {"update", "delete", "deleteAll"}
  BY <1>3 DEF ReadsStayTrue
<1>4. CASE pc'[q] = "finish" /\ call'[q].op = "update"
  <2>1. HoldsItsOwn(q) /\ pc[q] = "idle" BY <1>2 DEF HoldInv, ReceivedBy
  <2>2. dels[q] = {} /\ given[q] = {}
    BY <2>1 DEF HoldsItsOwn, IndInv, OldRowsAreCommitted, GivenRowsAreLeaving
  <2>3. dels'[q] = {} /\ given'[q] = {} BY <1>2, <2>2 DEF ReceivedBy, locals
  <2> QED BY <1>4, <2>3 DEF ReadsStayTrue
<1>5. CASE call'[q].op = "create"
  <2>1. ~ WritesOld(q)' BY <1>5 DEF WritesOld
  <2> QED BY <2>1 DEF IndInv, CursorsInBody, WritesOld, InFlight, ReadsStayTrue
<1>6. ASSUME NEW s \in Sales, NEW body \in ReturnBodies, BeginReturn(q, s, body)
      PROVE  ReadsStayTrue(q)'
  <2>1. /\ pc'[q] = "returns" /\ call'[q].op = "return" /\ call'[q].sale = s
        /\ call'[q].body = body /\ call'[q].status = StatusAfterReturn(s, body)
    BY <1>6 DEF BeginReturn, Begin, Goto, IndInv, TypeOK
  <2>2. RowsOf({s})' = RowsOf({s}) /\ ReturnsOf({s})' = ReturnsOf({s})
    BY <1>1 DEF RowsOf, ReturnsOf
  <2>3. Quantity(RowsOf({s}))' = Quantity(RowsOf({s}))
        /\ Quantity(ReturnsOf({s}))' = Quantity(ReturnsOf({s}))
    BY <2>2
  <2>4. body # <<>> => ((StatusAfterReturn(s, body) = "REFUNDED") <=>
           (BodyQuantity(body) + Quantity(ReturnsOf({s})) >= Quantity(RowsOf({s}))))
    BY StatusOfReturn DEF IndInv
  <2>5. body # <<>> => ((StatusAfterReturn(s, body) = "REFUNDED") <=>
           (BodyQuantity(body) + Quantity(ReturnsOf({s}))' >= Quantity(RowsOf({s}))'))
    BY <2>3, <2>4
  <2>6. ReturnsOf({s})' = {ret \in returns' : ret.sale \in {call'[q].sale}}
        /\ RowsOf({s})' = {row \in items' : row.sale \in {call'[q].sale}}
    BY <2>1 DEF RowsOf, ReturnsOf
  <2> DEFINE st == StatusAfterReturn(s, body)
  <2>7. call'[q].body # <<>> => ((call'[q].status = "REFUNDED") <=>
           (BodyQuantity(call'[q].body)
              + Quantity({ret \in returns' : ret.sale \in {call'[q].sale}}) >=
              Quantity({row \in items' : row.sale \in {call'[q].sale}})))
    BY <2>1, <2>5, <2>6
  <2> QED BY <2>1, <2>7 DEF ReadsStayTrue, RowsOf, ReturnsOf
<1> QED BY <1>3, <1>4, <1>5, <1>6, ReceiveKinds DEF IndInv

LEMMA IdleReadsNext ==
    ASSUME IndInv', NEW r \in Requests, ~ WritesOld(r)'
    PROVE  ReadsStayTrue(r)'
  BY DEF IndInv, CursorsInBody, WritesOld, InFlight, ReadsStayTrue

\* Who is not moved, and whose rows stay, has read what is still true.
LEMMA SameReads ==
    ASSUME NEW r \in Requests, ReadsStayTrue(r), items' = items, returns' = returns,
           pc'[r] = pc[r], tx'[r] = tx[r], call'[r] = call[r], old'[r] = old[r],
           given'[r] = given[r], snap'[r] = snap[r], dels'[r] = dels[r]
    PROVE  ReadsStayTrue(r)'
<1> DEFINE c == call[r]
           rows == RowsOf(Scope(c))
<1>1. c' = c /\ rows' = rows BY DEF RowsOf
<1>2. RowsOf({c.sale})' = RowsOf({c.sale}) /\ ReturnsOf({c.sale})' = ReturnsOf({c.sale})
  BY <1>1 DEF RowsOf, ReturnsOf
<1>3. /\ Quantity(RowsOf({c.sale}))' = Quantity(RowsOf({c.sale}))
      /\ Quantity(ReturnsOf({c.sale}))' = Quantity(ReturnsOf({c.sale}))
      /\ BodyQuantity(c.body)' = BodyQuantity(c.body)
  BY <1>1, <1>2
<1> QED BY <1>1, <1>3 DEF ReadsStayTrue, InFlight

LEMMA ReceiveApart ==
    ASSUME OnePerSale, TypeOK, NEW q \in Requests, Receive(q), call'[q].op # "create",
           NEW r \in Requests, InFlight(r)
    PROVE  Scope(call[r]) \cap Scope(call'[q]) = {}
<1> DEFINE G == Scope(call[r]) \cap Scope(call'[q]) = {}
<1>0. ASSUME NEW c, Begin(q, c) PROVE G
  <2>1. call'[q] = c /\ Scope(call[r]) \cap Scope(c) = {} BY <1>0 DEF Begin, TypeOK
  <2> QED BY <2>1
<1> HIDE DEF G
<1>1. CASE BeginDeleteAll(q)
  <2>1. Begin(q, [NoCall EXCEPT !.op = "deleteAll"]) BY <1>1 DEF BeginDeleteAll
  <2>2. PICK c : Begin(q, c) BY <2>1
  <2> HIDE DEF Begin
  <2> QED BY <2>2, <1>0 DEF G
<1>2. ASSUME NEW s \in Sales, BeginDelete(q, s) PROVE G BY <1>0, <1>2 DEF BeginDelete
<1>3. ASSUME NEW s \in Sales, NEW body \in UpdateBodies, NEW st \in Statuses,
             BeginUpdate(q, s, body, st)
      PROVE  G
  BY <1>0, <1>3 DEF BeginUpdate
<1>4. ASSUME NEW s \in Sales, NEW st \in Statuses, BeginStatusUpdate(q, s, st)
      PROVE  G
  BY <1>0, <1>4 DEF BeginStatusUpdate
<1>5. ASSUME NEW s \in Sales, NEW body \in ReturnBodies, BeginReturn(q, s, body)
      PROVE  G
  BY <1>0, <1>5 DEF BeginReturn
<1>6. ASSUME NEW s \in Sales, NEW body \in CreateBodies,
             NEW st \in {"PENDING", "CONFIRMED"}, BeginCreate(q, s, body, st)
      PROVE  G
  BY <1>6 DEF BeginCreate, TypeOK
<1> QED BY <1>1, <1>2, <1>3, <1>4, <1>5, <1>6 DEF Receive, G

LEMMA SerialNext ==
    ASSUME OnePerSale, IndInv, IndInv', HoldInv, HoldInv', SerialInv, [Next]_vars
    PROVE  SerialInv'
<1>1. ASSUME NEW q \in Requests, Receive(q) PROVE SerialInv'
  <2>1. MovesOnly(q) /\ UNCHANGED <<items, returns, stock, sales>> BY <1>1, ReceiveHolds
  <2>2. ASSUME NEW r \in Requests PROVE ReadsStayTrue(r)'
    <3>1. CASE r = q BY <1>1, <3>1, ReceiveReads
    <3>2. CASE r # q BY <2>1, <3>2, SameReads DEF SerialInv, MovesOnly
    <3> QED BY <3>1, <3>2
  <2>3. ASSUME NEW p \in Requests, NEW r \in Requests, p # r, WritesOld(p)', WritesOld(r)'
        PROVE  Scope(call'[p]) \cap Scope(call'[r]) = {}
    <3>1. CASE p = q
      <4>1. call'[r] = call[r] /\ InFlight(r) /\ call'[q].op # "create"
        BY <2>1, <2>3, <3>1 DEF MovesOnly, WritesOld, InFlight
      <4>2. Scope(call[r]) \cap Scope(call'[q]) = {} BY <1>1, <4>1, ReceiveApart DEF IndInv
      <4> QED BY <3>1, <4>1, <4>2
    <3>2. CASE r = q
      <4>1. call'[p] = call[p] /\ InFlight(p) /\ call'[q].op # "create"
        BY <2>1, <2>3, <3>2 DEF MovesOnly, WritesOld, InFlight
      <4>2. Scope(call[p]) \cap Scope(call'[q]) = {} BY <1>1, <4>1, ReceiveApart DEF IndInv
      <4> QED BY <3>2, <4>1, <4>2
    <3>3. CASE p # q /\ r # q
      BY <2>1, <2>3, <3>3, ZenonT(120) DEF MovesOnly, WritesOld, InFlight, SerialInv
    <3> QED BY <3>1, <3>2, <3>3
  <2> QED BY <2>2, <2>3 DEF SerialInv
<1>2. ASSUME NEW q \in Requests, Step(q) \/ Expire(q) PROVE SerialInv'
  <2>1. MovesOnly(q) /\ call' = call /\ InFlight(q) BY <1>2, StepMovesOnly DEF HoldInv
  <2>2. ASSUME NEW r \in Requests PROVE ReadsStayTrue(r)'
    <3>1. CASE r = q BY <1>2, <3>1, StepReads
    <3>2. CASE r # q BY <1>2, <3>2, OtherReads
    <3> QED BY <3>1, <3>2
  <2>3. \A r \in Requests : WritesOld(r)' => WritesOld(r)
    BY <2>1 DEF WritesOld, InFlight, MovesOnly
  <2> QED BY <2>1, <2>2, <2>3 DEF SerialInv
<1>3. CASE Crash
  <2>1. \A r \in Requests : ~ WritesOld(r)' BY <1>3 DEF Crash, WritesOld, InFlight
  <2> QED BY <2>1, IdleReadsNext DEF SerialInv
<1>4. CASE UNCHANGED vars
  <2>1. \A r \in Requests : ReadsStayTrue(r)'
    BY <1>4, SameReads DEF SerialInv, vars, db, locals
  <2>2. \A r \in Requests : WritesOld(r)' <=> WritesOld(r)
    BY <1>4 DEF WritesOld, InFlight, vars
  <2> QED BY <1>4, <2>1, <2>2 DEF SerialInv, vars
<1> QED BY <1>1, <1>2, <1>3, <1>4 DEF Next

LEMMA SerialInit == Init => SerialInv
<1> SUFFICES ASSUME Init PROVE SerialInv OBVIOUS
<1>1. \A r \in Requests : ~ WritesOld(r) BY DEF Init, WritesOld, InFlight
<1> QED BY <1>1, IdleReads, InitIndInv DEF SerialInv

LEMMA ReturnStatusStep ==
    ASSUME IndInv, HoldInv, SerialInv, NEW r \in Requests, FinishReturn(r),
           call[r].body # <<>>
    PROVE  LET s == call[r].sale
               back == Quantity({ret \in returns' : ret.sale = s})
               sold == Quantity({row \in items' : row.sale = s})
           IN  (status'[s] = "REFUNDED") <=> (back >= sold)
<1> DEFINE s == call[r].sale
           c == call[r]
<1>1. /\ pc[r] = "returned" /\ tx[r] = "open" /\ returns' = returns \cup new[r]
      /\ items' = items /\ status' = [status EXCEPT ![s] = c.status]
  BY DEF FinishReturn, Committed
<1>2. c.op = "return" /\ c.body \in Seq(ReturnLine) /\ s \in Sales
  BY <1>1 DEF IndInv, CursorsInBody, TypeOK, Calls
<1>3. new[r] = ReturnRows(r) BY <1>1 DEF HoldInv, HoldsItsOwn
<1>4. status'[s] = c.status BY <1>1, <1>2 DEF IndInv, TypeOK
<1>5. (c.status = "REFUNDED") <=>
        (BodyQuantity(c.body) + Quantity(ReturnsOf({s})) >= Quantity(RowsOf({s})))
  BY <1>1, <1>2 DEF SerialInv, ReadsStayTrue, InFlight
<1>6. {ret \in returns' : ret.sale = s} = ReturnsOf({s}) \cup ReturnRows(r)
  BY <1>1, <1>3 DEF ReturnsOf, ReturnRows
<1>7. {row \in items' : row.sale = s} = RowsOf({s}) BY <1>1 DEF RowsOf
<1>8. ReturnsOf({s}) \cap ReturnRows(r) = {}
  <2>1. \A ret \in ReturnRows(r) : ret.by = r BY DEF ReturnRows
  <2>2. \A ret \in returns : ret.by # r BY <1>1 DEF IndInv, RowsOfCommittedRequests
  <2> QED BY <2>1, <2>2 DEF ReturnsOf
<1>9. IsFiniteSet(ReturnRows(r)) /\ Quantity(ReturnRows(r)) = BodyQuantity(c.body)
      /\ \A x \in ReturnRows(r) : x.qty \in Nat
  <2> DEFINE K == DOMAIN c.body
             b == [k \in K |-> [sale |-> c.sale, slot |-> c.body[k].slot,
                                qty |-> c.body[k].qty, back |-> c.body[k].back,
                                by |-> r, n |-> k]]
  <2>1. ReturnRows(r) = ImageOf(b, K) BY DEF ReturnRows, ImageOf
  <2>2. HasQty(c.body, K) BY <1>2, BodyHasQty
  <2>3. /\ \A k \in K : b[k].qty = c.body[k].qty
        /\ \A j, k \in K : b[j] = b[k] => j = k
    OBVIOUS
  <2>4. \A x \in ReturnRows(r) : x.qty \in Nat BY <2>2 DEF ReturnRows, HasQty
  <2> HIDE DEF b, K
  <2>5. IsFiniteSet(ImageOf(b, K)) /\ Quantity(ImageOf(b, K)) = LinesQuantity(c.body, K)
    BY <2>2, <2>3, RowsOfLines
  <2> QED BY <2>1, <2>4, <2>5 DEF BodyQuantity, K
<1>10. /\ IsFiniteSet(ReturnsOf({s}))
       /\ \A x \in ReturnsOf({s}) : x.qty \in Nat
       /\ Quantity(ReturnsOf({s})) \in Nat /\ Quantity(RowsOf({s})) \in Nat
  BY RowsHaveQty DEF IndInv
<1>11. Quantity(ReturnsOf({s}) \cup ReturnRows(r)) = Quantity(ReturnsOf({s})) + BodyQuantity(c.body)
  BY <1>8, <1>9, <1>10, QuantityUnion
<1>12. BodyQuantity(c.body) \in Nat BY <1>2, ReturnsSomething
<1>13. Quantity({ret \in returns' : ret.sale = s}) =
         Quantity(ReturnsOf({s})) + BodyQuantity(c.body)
  BY <1>6, <1>11
<1>14. Quantity({row \in items' : row.sale = s}) = Quantity(RowsOf({s})) BY <1>7
<1>15. (status'[s] = "REFUNDED") <=>
         (Quantity({ret \in returns' : ret.sale = s}) >= Quantity({row \in items' : row.sale = s}))
  BY <1>4, <1>5, <1>10, <1>12, <1>13, <1>14
<1> QED BY <1>15

\* With one write of a sale in flight at a time, the lines, the deleted rows and the
\* returns that a handler read (sales.service.ts updateSale, deleteSale; sale-return
\* service createReturn) are those of the sale until it commits.
THEOREM SerialInvHolds ==
    ASSUME OnePerSale
    PROVE  Spec => [](IndInv /\ HoldInv /\ SerialInv)
<1>1. Init => IndInv /\ HoldInv /\ SerialInv BY InitIndInv, HoldInvInit, SerialInit
<1>2. IndInv /\ HoldInv /\ SerialInv /\ [Next]_vars => (IndInv /\ HoldInv /\ SerialInv)'
  BY NextIndInv, HoldInvNext, SerialNext
<1> QED BY <1>1, <1>2, PTL DEF Spec

\* With one write of a sale in flight at a time, updateSaleReturnStatus leaves REFUNDED
\* exactly when as much came back as was sold, returns of this commit counted.
THEOREM ReturnStatusIsTrue ==
    ASSUME OnePerSale
    PROVE  Spec => ReturnStatusTellsTruth
<1> DEFINE A == \A r \in Requests :
       (FinishReturn(r) /\ call[r].body # <<>>) =>
         LET s == call[r].sale
             back == Quantity({ret \in returns' : ret.sale = s})
             sold == Quantity({row \in items' : row.sale = s})
         IN  (status'[s] = "REFUNDED") <=> (back >= sold)
<1>1. IndInv /\ HoldInv /\ SerialInv /\ [Next]_vars => [A]_vars BY ReturnStatusStep
<1> QED BY <1>1, SerialInvHolds, PTL DEF Spec, ReturnStatusTellsTruth

----------------------------------------------------------------------------
(* Units add up *)

LEMMA MovedSumIs ==
    ASSUME NEW S, IsFiniteSet(S), NEW b, NEW f, \A r \in S : f[r] = Moved(r, b) /\ Moved(r, b) \in Int
    PROVE  MapThenSumSet(LAMBDA r : Moved(r, b), S) = Sum(f, S)
<1> DEFINE P(g) == g = [s \in SUBSET S |-> IF s = {} THEN 0
                         ELSE Moved(CHOOSE x \in s : TRUE, b) + g[s \ {CHOOSE x \in s : TRUE}]]
<1>0. Ints(f, S) BY DEF Ints
<1>1. MapThenSumSet(LAMBDA r : Moved(r, b), S) = (CHOOSE g : P(g))[S]
  BY DEF MapThenSumSet, MapThenFoldSet
<1>2. \A g : P(g) <=> Adds(g, f, S)
  <2> SUFFICES ASSUME NEW g PROVE P(g) <=> Adds(g, f, S) OBVIOUS
  <2>1. ASSUME NEW s \in SUBSET S, s # {}
        PROVE  Moved(CHOOSE x \in s : TRUE, b) + g[s \ {CHOOSE x \in s : TRUE}] = f[Picked(s)] + g[s \ {Picked(s)}]
    <3>1. Picked(s) = (CHOOSE x \in s : TRUE) /\ Picked(s) \in S BY <2>1 DEF Picked
    <3> QED BY <3>1
  <2>2. \A s \in SUBSET S :
          (IF s = {} THEN 0 ELSE Moved(CHOOSE x \in s : TRUE, b) + g[s \ {CHOOSE x \in s : TRUE}])
            = (IF s = {} THEN 0 ELSE f[Picked(s)] + g[s \ {Picked(s)}])
    BY <2>1
  <2>3. [s \in SUBSET S |-> IF s = {} THEN 0 ELSE Moved(CHOOSE x \in s : TRUE, b) + g[s \ {CHOOSE x \in s : TRUE}]]
          = [s \in SUBSET S |-> IF s = {} THEN 0 ELSE f[Picked(s)] + g[s \ {Picked(s)}]]
    BY <2>2
  <2> QED BY <2>3 DEF Adds
<1>3. \E g : Adds(g, f, S) BY <1>0, AddsExists
<1> DEFINE gg == CHOOSE g : P(g)
<1>4. P(gg)
  <2> HIDE DEF P
  <2> QED BY <1>2, <1>3
<1> HIDE DEF P, gg
<1>5. Adds(gg, f, S) /\ S \in SUBSET S BY <1>2, <1>4
<1>6. Sum(f, S) = gg[S] BY <1>0, <1>5, SumIs
<1> QED BY <1>1, <1>6 DEF gg

\* The loops stay in the body.
LEMMA DoneInBody ==
    ASSUME IndInv, HoldInv, NEW r \in Requests, InFlight(r)
    PROVE  /\ call[r].body \in Seq(Line) \cup Seq(ReturnLine)
           /\ done[r] \in Nat /\ done[r] <= Len(call[r].body)
           /\ 1..done[r] \subseteq DOMAIN call[r].body
<1>1. call[r].body \in Seq(Line) \cup Seq(ReturnLine) /\ done[r] \in Nat
  BY DEF IndInv, TypeOK, Calls
<1>2. Len(call[r].body) \in Nat /\ DOMAIN call[r].body = 1..Len(call[r].body) BY <1>1
<1>3. HoldsItsOwn(r) BY DEF HoldInv
<1>4. done[r] <= Len(call[r].body)
  <2>1. CASE pc[r] \in {"read", "restore", "delete", "lock", "returns", "check", "insert", "entries"}
    <3>1. done[r] = 0 BY <1>3, <2>1 DEF IndInv, CursorsInBody, HoldsItsOwn
    <3> QED BY <1>2, <3>1
  <2>2. CASE pc[r] \in {"take", "restock"} BY <1>1, <1>2, <2>2 DEF IndInv, CursorsInBody
  <2>3. CASE pc[r] \in {"finish", "refund", "returned"}
    BY <1>1, <1>2, <1>3, <2>3 DEF HoldsItsOwn
  <2> QED BY <2>1, <2>2, <2>3 DEF InFlight, IndInv, TypeOK
<1> QED BY <1>1, <1>2, <1>4

LEMMA GivenHasQty ==
    ASSUME IndInv, HoldInv, NEW r \in Requests, NEW S \in SUBSET given[r]
    PROVE  IsFiniteSet(S) /\ (\A x \in S : x.qty \in Nat) /\ Quantity(S) \in Nat
<1>1. IsFiniteSet(old[r]) /\ given[r] \subseteq old[r]
  BY DEF HoldInv, HoldsItsOwn, IndInv, GivenRowsAreLeaving
<1>2. IsFiniteSet(S) BY <1>1, FS_Subset
<1>3. \A x \in S : x.qty \in Nat BY DEF IndInv, TypeOK, Row
<1> QED BY <1>2, <1>3, QuantityInt

LEMMA MovedLinesHaveQty ==
    ASSUME IndInv, HoldInv, NEW r \in Requests, InFlight(r), NEW b
    PROVE  /\ HasQty(call[r].body, MovedLines(r, b))
           /\ LinesQuantity(call[r].body, MovedLines(r, b)) \in Nat
<1>1. MovedLines(r, b) \in SUBSET DOMAIN call[r].body BY DoneInBody DEF MovedLines
<1>2. HasQty(call[r].body, MovedLines(r, b)) BY <1>1, DoneInBody, BodyHasQty
<1> QED BY <1>2, LinesQuantityInt

LEMMA MovedInt ==
    ASSUME IndInv, HoldInv, NEW r \in Requests, NEW b
    PROVE  Moved(r, b) \in Int
<1>1. Quantity({row \in given[r] : BinOf[row.slot] = b}) \in Nat BY GivenHasQty
<1>2. InFlight(r) => LinesQuantity(call[r].body, MovedLines(r, b)) \in Nat
  BY MovedLinesHaveQty
<1> QED BY <1>1, <1>2 DEF Moved

MovedOf(b) == [r \in Received |-> Moved(r, b)]

MovedIsSum == \A b \in Bins : /\ UnitsMoved(b) = Sum(MovedOf(b), Received)
                              /\ Ints(MovedOf(b), Received) /\ IsFiniteSet(Received)

LEMMA MovedSums == IndInv /\ HoldInv => MovedIsSum
<1> SUFFICES ASSUME IndInv, HoldInv, NEW b \in Bins
             PROVE  /\ UnitsMoved(b) = Sum(MovedOf(b), Received)
                    /\ Ints(MovedOf(b), Received) /\ IsFiniteSet(Received)
  BY DEF MovedIsSum
<1>1. IsFiniteSet(Received) BY DEF HoldInv
<1>2. \A r \in Received : MovedOf(b)[r] = Moved(r, b) /\ Moved(r, b) \in Int
  BY MovedInt DEF MovedOf, Received
<1>3. UnitsMoved(b) = Sum(MovedOf(b), Received) BY <1>1, <1>2, MovedSumIs DEF UnitsMoved
<1> QED BY <1>1, <1>2, <1>3 DEF Ints

LEMMA MovedSumsNext == IndInv' /\ HoldInv' => MovedIsSum'
  BY MovedSums, PTL

\* The units on sales and not returned are a number.
LEMMA OutstandingInt ==
    ASSUME TypeOK, HoldInv, NEW b
    PROVE  Outstanding(b) \in Int
<1>1. IsFiniteSet({row \in items : BinOf[row.slot] = b})
      /\ IsFiniteSet({ret \in returns : ret.back /\ BinOf[ret.slot] = b})
  BY FS_Subset DEF HoldInv
<1>2. (\A x \in items : x.qty \in Nat) /\ (\A x \in returns : x.qty \in Nat)
  BY DEF TypeOK, Row, Return
<1>3. Quantity({row \in items : BinOf[row.slot] = b}) \in Nat
      /\ Quantity({ret \in returns : ret.back /\ BinOf[ret.slot] = b}) \in Nat
  BY <1>1, <1>2, QuantityInt
<1> QED BY <1>3 DEF Outstanding

LEMMA UnitsOfInt ==
    ASSUME NEW b \in Bins
    PROVE  UnitsOf(b) \in Int
<1>1. IsFiniteSet({row \in SeedRows : BinOf[row.slot] = b}) BY FS_Subset
<1>2. \A x \in SeedRows : x.qty \in Nat BY DEF Row
<1>3. Quantity({row \in SeedRows : BinOf[row.slot] = b}) \in Nat BY <1>1, <1>2, QuantityInt
<1> QED BY <1>3 DEF UnitsOf

ItemsAt(b) == {row \in items : BinOf[row.slot] = b}
BackAt(b) == {ret \in returns : ret.back /\ BinOf[ret.slot] = b}
GivenAt(r, b) == {row \in given[r] : BinOf[row.slot] = b}

LEMMA QuantitySplit ==
    ASSUME NEW S, IsFiniteSet(S), NEW R \in SUBSET S, \A x \in S : x.qty \in Nat
    PROVE  Quantity(S) = Quantity(S \ R) + Quantity(R)
<1>1. IsFiniteSet(S \ R) /\ IsFiniteSet(R) /\ (S \ R) \cap R = {} /\ (S \ R) \cup R = S
  BY FS_Subset
<1>2. Quantity((S \ R) \cup R) = Quantity(S \ R) + Quantity(R) BY <1>1, QuantityUnion
<1> QED BY <1>1, <1>2

LEMMA RowsAtHaveQty ==
    ASSUME IndInv, HoldInv, NEW b
    PROVE  /\ IsFiniteSet(ItemsAt(b)) /\ IsFiniteSet(BackAt(b))
           /\ \A x \in ItemsAt(b) \cup BackAt(b) : x.qty \in Nat
           /\ Quantity(ItemsAt(b)) \in Nat /\ Quantity(BackAt(b)) \in Nat
           /\ Outstanding(b) = Quantity(ItemsAt(b)) - Quantity(BackAt(b))
<1>1. IsFiniteSet(ItemsAt(b)) /\ IsFiniteSet(BackAt(b))
  BY FS_Subset DEF HoldInv, ItemsAt, BackAt
<1>2. \A x \in ItemsAt(b) \cup BackAt(b) : x.qty \in Nat
  BY DEF ItemsAt, BackAt, IndInv, TypeOK, Row, Return
<1>3. Outstanding(b) = Quantity(ItemsAt(b)) - Quantity(BackAt(b))
  BY DEF Outstanding, ItemsAt, BackAt
<1> QED BY <1>1, <1>2, <1>3, QuantityInt

\* A request that has put back and taken nothing has moved nothing.
LEMMA NothingMoved ==
    ASSUME NEW r \in Requests, given[r] = {}, done[r] = 0, NEW b
    PROVE  Moved(r, b) = 0
<1>1. {row \in given[r] : BinOf[row.slot] = b} = {} /\ MovedLines(r, b) = {} BY DEF MovedLines
<1> QED BY <1>1, QuantityEmpty, LinesQuantityEmpty DEF Moved

\* A request succeeds when it commits.
LEMMA StepEnds ==
    ASSUME IndInv, HoldInv, NEW q \in Requests, Step(q) \/ Expire(q)
    PROVE  /\ pc'[q] # "idle"
           /\ pc'[q] = "ok" =>
                FinishUpdate(q) \/ FinishCreate(q) \/ FinishDelete(q) \/ FinishReturn(q)
<1>0. InFlight(q) BY StepMovesOnly DEF HoldInv
<1> USE <1>0 DEF IndInv, TypeOK, Goto, Abort, InFlight
<1>1. CASE ReadOld(q) BY <1>1 DEF ReadOld
<1>2. CASE RestoreLine(q) BY <1>2 DEF RestoreLine
<1>3. CASE RestoreLineThrows(q) BY <1>3 DEF RestoreLineThrows
<1>4. CASE DeleteRows(q) BY <1>4 DEF DeleteRows
<1>5. CASE LockRows(q) BY <1>5 DEF LockRows, AfterDelete
<1>6. CASE CheckLine(q) BY <1>6 DEF CheckLine
<1>7. CASE CheckLineThrows(q) BY <1>7 DEF CheckLineThrows
<1>8. CASE InsertRows(q) BY <1>8 DEF InsertRows
<1>9. CASE InsertRowsThrows(q) BY <1>9 DEF InsertRowsThrows
<1>10. CASE TakeLine(q) BY <1>10 DEF TakeLine
<1>11. CASE FinishUpdate(q) \/ FinishCreate(q) \/ FinishDelete(q) \/ FinishReturn(q)
  BY <1>11 DEF FinishUpdate, FinishCreate, FinishDelete, FinishReturn, Committed
<1>12. CASE DeleteEntries(q) BY <1>12 DEF DeleteEntries
<1>14. CASE FinishThrows(q) BY <1>14 DEF FinishThrows
<1>15. CASE InsertReturns(q) BY <1>15 DEF InsertReturns
<1>16. CASE InsertReturnsThrows(q) BY <1>16 DEF InsertReturnsThrows
<1>17. CASE RestockLine(q) BY <1>17, RestockLineGoes
<1>18. CASE Refund(q) BY <1>18 DEF Refund
<1>19. CASE RefundThrows(q) BY <1>19 DEF RefundThrows
<1>21. CASE Expired(q) BY <1>21 DEF Expired
<1>22. CASE CreateRow(q) BY <1>22 DEF CreateRow
<1>23. CASE CreateRowThrows(q) BY <1>23 DEF CreateRowThrows
<1>25. CASE Expire(q) BY <1>25 DEF Expire
<1> QED
  BY <1>1, <1>2, <1>3, <1>4, <1>5, <1>6, <1>7, <1>8, <1>9, <1>10, <1>11, <1>12,
     <1>14, <1>15, <1>16, <1>17, <1>18, <1>19, <1>21, <1>22, <1>23, <1>25
     DEF Step

\* A step that writes neither stock nor rows moves nothing, when its end is clean.
LEMMA QuietBalance ==
    ASSUME IndInv, IndInv', HoldInv, NEW q \in Requests, Step(q) \/ Expire(q), ~ Writes(q),
           Fine(q)', NEW b
    PROVE  Moved(q, b)' = Moved(q, b) /\ stock' = stock /\ Outstanding(b)' = Outstanding(b)
<1>1. UNCHANGED <<stock, items, returns, given, done>> BY StepWrites
<1>2. MovesOnly(q) /\ call' = call /\ InFlight(q) BY StepMovesOnly DEF HoldInv
<1>3. Outstanding(b)' = Outstanding(b) BY <1>1 DEF Outstanding
<1>4. CASE InFlight(q)'
  <2>1. MovedLines(q, b)' = MovedLines(q, b) BY <1>1, <1>2 DEF MovedLines
  <2> QED BY <1>1, <1>2, <1>3, <1>4, <2>1 DEF Moved
<1>5. CASE ~ InFlight(q)'
  <2>1. Moved(q, b)' = 0 /\ Clean(q)' BY <1>5 DEF Moved, Fine
  <2>2. given[q] = {} /\ done[q] = 0
    <3>1. CASE pc'[q] = "failed" BY <1>1, <2>1, <3>1 DEF Clean
    <3>2. CASE pc'[q] = "ok"
      <4>1. FinishCreate(q) BY <3>2, StepEnds DEF Writes
      <4>2. /\ call[q].op = "create" /\ pc[q] = "finish" /\ PricedRows(q) = {}
            /\ done[q] = Len(call[q].body)
        BY <4>1 DEF FinishCreate, HoldInv, HoldsItsOwn
      <4>3. \A k \in DOMAIN call[q].body : call[q].body[k].plu
        BY <1>2, <2>1, <3>2, <4>2 DEF Clean
      <4>4. DOMAIN call[q].body = {}
        <5>1. ASSUME NEW k \in DOMAIN call[q].body PROVE PricedRows(q) # {}
          <6> DEFINE row == [sale |-> call[q].sale, slot |-> call[q].body[k].slot,
                             qty |-> call[q].body[k].qty, by |-> q, n |-> k]
          <6>1. k \in {j \in DOMAIN call[q].body : call[q].body[j].plu} BY <4>3, <5>1
          <6>2. row \in PricedRows(q) BY <6>1 DEF PricedRows
          <6> QED BY <6>2
        <5> QED BY <4>2, <5>1
      <4>5. call[q].body \in Seq(Line) BY <4>2 DEF IndInv, CursorsInBody
      <4>6. Len(call[q].body) = 0
        <5>1. Len(call[q].body) \in Nat /\ DOMAIN call[q].body = 1..Len(call[q].body) BY <4>5
        <5>2. \A n \in Nat : 1..n = {} => n = 0 OBVIOUS
        <5> QED BY <4>4, <5>1, <5>2
      <4> QED BY <4>2, <4>6 DEF IndInv, GivenRowsAreLeaving
    <3>3. pc'[q] \in {"failed", "ok"} BY <1>5, StepEnds DEF InFlight
    <3> QED BY <3>1, <3>2, <3>3
  <2> QED BY <1>1, <1>3, <2>1, <2>2, NothingMoved
<1> QED BY <1>4, <1>5

\* A line put back is moved until the commit deletes its row.
LEMMA RestoreBalance ==
    ASSUME IndInv, HoldInv, NEW q \in Requests, RestoreLine(q), NEW b \in Bins
    PROVE  stock'[b] - Moved(q, b)' = stock[b] - Moved(q, b) /\ Outstanding(b)' = Outstanding(b)
<1>1. MovesOnly(q) /\ call' = call /\ InFlight(q) BY StepMovesOnly DEF HoldInv, Step
<1>2. InFlight(q)' /\ call[q].op # "return" /\ done' = done
      /\ items' = items /\ returns' = returns
  BY DEF RestoreLine, Goto, InFlight, IndInv, TypeOK, CursorsInBody
<1>3. Outstanding(b)' = Outstanding(b) BY <1>2 DEF Outstanding
<1>4. PICK row \in old[q] \ given[q] :
        /\ stock' = [stock EXCEPT ![BinOf[row.slot]] = @ + row.qty]
        /\ given' = [given EXCEPT ![q] = @ \cup {row}]
  BY DEF RestoreLine
<1>5. row \in Row /\ BinOf[row.slot] \in Bins /\ row.qty \in Nat
  BY <1>4 DEF IndInv, TypeOK, Row
<1>6. MovedLines(q, b)' = MovedLines(q, b) BY <1>1, <1>2 DEF MovedLines
<1> DEFINE taken == LinesQuantity(call[q].body, MovedLines(q, b))
<1>7. taken' = taken /\ taken \in Nat BY <1>1, <1>6, MovedLinesHaveQty
<1>8. GivenAt(q, b) \in SUBSET given[q] BY DEF GivenAt
<1>9. IsFiniteSet(GivenAt(q, b)) /\ (\A x \in GivenAt(q, b) : x.qty \in Nat)
      /\ Quantity(GivenAt(q, b)) \in Nat
  BY <1>8, GivenHasQty
<1>10. Moved(q, b) = Quantity(GivenAt(q, b)) - taken
       /\ Moved(q, b)' = Quantity(GivenAt(q, b)') - taken
  <2>1. Moved(q, b)' = Quantity(GivenAt(q, b)') - taken' BY <1>1, <1>2 DEF Moved, GivenAt
  <2> QED BY <1>1, <1>2, <1>7, <2>1 DEF Moved, GivenAt
<1>11. given'[q] = given[q] \cup {row} BY <1>4 DEF IndInv, TypeOK
<1> HIDE DEF taken
<1>12. CASE BinOf[row.slot] = b
  <2>1. GivenAt(q, b)' = GivenAt(q, b) \cup {row} /\ row \notin GivenAt(q, b)
    BY <1>4, <1>11, <1>12 DEF GivenAt
  <2>2. Quantity(GivenAt(q, b) \cup {row}) = Quantity(GivenAt(q, b)) + row.qty
    BY <1>5, <1>9, <2>1, QuantityAdd
  <2>3. stock'[b] = stock[b] + row.qty /\ stock[b] \in Int
    BY <1>4, <1>5, <1>12 DEF IndInv, TypeOK
  <2> QED BY <1>3, <1>5, <1>7, <1>9, <1>10, <2>1, <2>2, <2>3
<1>13. CASE BinOf[row.slot] # b
  <2>1. GivenAt(q, b)' = GivenAt(q, b) BY <1>4, <1>11, <1>13 DEF GivenAt
  <2>2. stock'[b] = stock[b] BY <1>4, <1>5, <1>13 DEF IndInv, TypeOK
  <2> QED BY <1>3, <1>10, <2>1, <2>2
<1> QED BY <1>12, <1>13

\* The lines that the next iteration moves.
LEMMA MovedGrows ==
    ASSUME IndInv, HoldInv, NEW q \in Requests, InFlight(q), call' = call,
           done[q] + 1 \in DOMAIN call[q].body, done'[q] = done[q] + 1, NEW b
    PROVE  LET n == done[q] + 1
               line == call[q].body[n]
               counts == BinOf[line.slot] = b /\ (call[q].op = "return" => line.back)
           IN  /\ line.qty \in Nat
               /\ counts => LinesQuantity(call[q].body, MovedLines(q, b)')
                              = LinesQuantity(call[q].body, MovedLines(q, b)) + line.qty
               /\ ~ counts => MovedLines(q, b)' = MovedLines(q, b)
<1> DEFINE n == done[q] + 1
           line == call[q].body[n]
           counts == BinOf[line.slot] = b /\ (call[q].op = "return" => line.back)
<1>1. done[q] \in Nat /\ call[q].body \in Seq(Line) \cup Seq(ReturnLine) BY DoneInBody
<1>2. 1..done'[q] = 1..done[q] \cup {n} /\ n \notin 1..done[q] BY <1>1
<1>3. n \notin MovedLines(q, b) BY <1>2 DEF MovedLines
<1>4. HasQty(call[q].body, {n})
  <2>1. {n} \in SUBSET DOMAIN call[q].body OBVIOUS
  <2> HIDE DEF n
  <2> QED BY <1>1, <2>1, BodyHasQty
<1>5. line.qty \in Nat BY <1>4 DEF HasQty
<1>6. HasQty(call[q].body, MovedLines(q, b)) BY MovedLinesHaveQty
<1>7. counts => MovedLines(q, b)' = MovedLines(q, b) \cup {n} BY <1>2 DEF MovedLines
<1>8. ~ counts => MovedLines(q, b)' = MovedLines(q, b) BY <1>2 DEF MovedLines
<1>9. LinesQuantity(call[q].body, MovedLines(q, b) \cup {n})
        = LinesQuantity(call[q].body, MovedLines(q, b)) + line.qty
  <2> HIDE DEF n
  <2> QED BY <1>3, <1>5, <1>6, LinesQuantityAdd
<1> QED BY <1>5, <1>7, <1>8, <1>9

LEMMA TakeBalance ==
    ASSUME IndInv, HoldInv, NEW q \in Requests, TakeLine(q), NEW b \in Bins
    PROVE  stock'[b] - Moved(q, b)' = stock[b] - Moved(q, b) /\ Outstanding(b)' = Outstanding(b)
<1> DEFINE n == done[q] + 1
           line == call[q].body[n]
<1>1. MovesOnly(q) /\ call' = call /\ InFlight(q) BY StepMovesOnly DEF HoldInv, Step
<1>2. InFlight(q)' /\ call[q].op # "return" /\ given' = given
      /\ items' = items /\ returns' = returns
  BY DEF TakeLine, Goto, InFlight, IndInv, TypeOK, CursorsInBody
<1>3. Outstanding(b)' = Outstanding(b) BY <1>2 DEF Outstanding
<1>4. stock' = [stock EXCEPT ![BinOf[line.slot]] = @ - line.qty] /\ done'[q] = n
  BY DEF TakeLine, IndInv, TypeOK
<1>5. n \in DOMAIN call[q].body /\ line \in Line
  <2>1. done[q] \in Nat /\ done[q] < Len(call[q].body) /\ call[q].op \in {"create", "update"}
    BY DEF TakeLine, IndInv, TypeOK, CursorsInBody
  <2>2. call[q].body \in Seq(Line) BY <2>1 DEF IndInv, CursorsInBody
  <2>3. Len(call[q].body) \in Nat /\ DOMAIN call[q].body = 1..Len(call[q].body) BY <2>2
  <2>4. n \in DOMAIN call[q].body BY <2>1, <2>3
  <2> HIDE DEF n
  <2> QED BY <2>2, <2>4
<1>6. BinOf[line.slot] \in Bins /\ line.qty \in Nat BY <1>5 DEF Line
<1> DEFINE taken == LinesQuantity(call[q].body, MovedLines(q, b))
           next == LinesQuantity(call[q].body, MovedLines(q, b)')
<1>7. taken \in Nat BY <1>1, MovedLinesHaveQty
<1>8. /\ BinOf[line.slot] = b => next = taken + line.qty
      /\ BinOf[line.slot] # b => next = taken
  BY <1>1, <1>2, <1>4, <1>5, MovedGrows
<1>9. Quantity(GivenAt(q, b)) \in Nat BY GivenHasQty DEF GivenAt
<1>10. Moved(q, b) = Quantity(GivenAt(q, b)) - taken /\ Moved(q, b)' = Quantity(GivenAt(q, b)) - next
  <2>1. Moved(q, b)' = Quantity(GivenAt(q, b)) - LinesQuantity(call'[q].body, MovedLines(q, b)')
    BY <1>1, <1>2 DEF Moved, GivenAt
  <2> QED BY <1>1, <1>2, <2>1 DEF Moved, GivenAt
<1>11. /\ BinOf[line.slot] = b => stock'[b] = stock[b] - line.qty
       /\ BinOf[line.slot] # b => stock'[b] = stock[b]
       /\ stock[b] \in Int
  BY <1>4, <1>6 DEF IndInv, TypeOK
<1> HIDE DEF n, line, taken, next
<1> QED BY <1>3, <1>6, <1>7, <1>8, <1>9, <1>10, <1>11

LEMMA RestockBalance ==
    ASSUME IndInv, HoldInv, NEW q \in Requests, RestockLine(q), NEW b \in Bins
    PROVE  stock'[b] - Moved(q, b)' = stock[b] - Moved(q, b) /\ Outstanding(b)' = Outstanding(b)
<1> DEFINE n == done[q] + 1
           line == call[q].body[n]
<1>1. MovesOnly(q) /\ call' = call /\ InFlight(q) BY StepMovesOnly DEF HoldInv, Step
<1>2. InFlight(q)' /\ call[q].op = "return" /\ given' = given
      /\ items' = items /\ returns' = returns
  <2>1. call[q].op = "return" /\ given' = given /\ items' = items /\ returns' = returns
    BY DEF RestockLine, IndInv, CursorsInBody
  <2> QED BY <2>1, RestockLineGoes DEF InFlight
<1>3. Outstanding(b)' = Outstanding(b) BY <1>2 DEF Outstanding
<1>4. stock' = (IF line.back THEN [stock EXCEPT ![BinOf[line.slot]] = @ + line.qty] ELSE stock)
      /\ done'[q] = n
  BY DEF RestockLine, IndInv, TypeOK
<1>5. n \in DOMAIN call[q].body /\ line \in ReturnLine
  <2>1. done[q] \in Nat /\ done[q] < Len(call[q].body) /\ pc[q] = "restock"
    BY DEF RestockLine, IndInv, TypeOK, CursorsInBody
  <2>2. call[q].body \in Seq(ReturnLine) BY <2>1 DEF IndInv, CursorsInBody
  <2>3. Len(call[q].body) \in Nat /\ DOMAIN call[q].body = 1..Len(call[q].body) BY <2>2
  <2>4. n \in DOMAIN call[q].body BY <2>1, <2>3
  <2> HIDE DEF n
  <2> QED BY <2>2, <2>4
<1>6. BinOf[line.slot] \in Bins /\ line.qty \in Nat BY <1>5 DEF ReturnLine
<1> DEFINE put == LinesQuantity(call[q].body, MovedLines(q, b))
           next == LinesQuantity(call[q].body, MovedLines(q, b)')
           counts == BinOf[line.slot] = b /\ line.back
<1>7. put \in Nat BY <1>1, MovedLinesHaveQty
<1>8. (counts => next = put + line.qty) /\ (~ counts => next = put)
  BY <1>1, <1>2, <1>4, <1>5, MovedGrows
<1>9. Moved(q, b) = put /\ Moved(q, b)' = next
  <2>1. Moved(q, b)' = LinesQuantity(call'[q].body, MovedLines(q, b)') BY <1>1, <1>2 DEF Moved
  <2> QED BY <1>1, <1>2, <2>1 DEF Moved
<1>10. /\ counts => stock'[b] = stock[b] + line.qty
       /\ ~ counts => stock'[b] = stock[b]
       /\ stock[b] \in Int
  BY <1>4, <1>6 DEF IndInv, TypeOK
<1> HIDE DEF n, line, put, next, counts
<1> QED BY <1>3, <1>6, <1>7, <1>8, <1>9, <1>10

PricedAt(r, b) == {row \in PricedRows(r) : BinOf[row.slot] = b}
ReturnedAt(r, b) == {ret \in ReturnRows(r) : ret.back /\ BinOf[ret.slot] = b}

\* When every line was applied, the rows of the lines at a counter tell the units moved.
LEMMA PricedQuantity ==
    ASSUME IndInv, HoldInv, NEW r \in Requests, InFlight(r), done[r] = Len(call[r].body),
           call[r].op = "update", \A k \in DOMAIN call[r].body : call[r].body[k].plu, NEW b
    PROVE  /\ Quantity(PricedAt(r, b)) = LinesQuantity(call[r].body, MovedLines(r, b))
           /\ IsFiniteSet(PricedAt(r, b)) /\ \A x \in PricedAt(r, b) : x.qty \in Nat
<1> DEFINE c == call[r]
           K == MovedLines(r, b)
           line(k) == [sale |-> c.sale, slot |-> c.body[k].slot,
                       qty |-> c.body[k].qty, by |-> r, n |-> k]
           p == [k \in K |-> line(k)]
<1>1. c.body \in Seq(Line) BY DEF IndInv, CursorsInBody
<1>2. DOMAIN c.body = 1..done[r] BY <1>1
<1>3. K = {k \in DOMAIN c.body : BinOf[c.body[k].slot] = b} BY <1>2 DEF MovedLines
<1>4. PricedAt(r, b) = ImageOf(p, K)
  <2>1. \A row : row \in PricedAt(r, b) <=>
          \E k \in DOMAIN c.body : /\ BinOf[c.body[k].slot] = b /\ row = line(k)
    BY DEF PricedAt, PricedRows
  <2>2. \A row : row \in ImageOf(p, K) <=>
          \E k \in K : row = line(k)
    BY DEF ImageOf
  <2> HIDE DEF line, K, p
  <2> QED BY <1>3, <2>1, <2>2
<1>5. HasQty(c.body, K) BY MovedLinesHaveQty
<1>6. /\ \A k \in K : p[k].qty = c.body[k].qty
      /\ \A j, k \in K : p[j] = p[k] => j = k
  OBVIOUS
<1>7. \A x \in PricedAt(r, b) : x.qty \in Nat BY <1>3, <1>5 DEF PricedAt, PricedRows, HasQty
<1> HIDE DEF line, p, K
<1>8. IsFiniteSet(ImageOf(p, K)) /\ Quantity(ImageOf(p, K)) = LinesQuantity(c.body, K)
  BY <1>5, <1>6, RowsOfLines
<1> QED BY <1>4, <1>7, <1>8 DEF K

LEMMA ReturnedQuantity ==
    ASSUME IndInv, HoldInv, NEW r \in Requests, InFlight(r), done[r] = Len(call[r].body),
           call[r].op = "return", call[r].body \in Seq(ReturnLine), NEW b
    PROVE  /\ Quantity(ReturnedAt(r, b)) = LinesQuantity(call[r].body, MovedLines(r, b))
           /\ IsFiniteSet(ReturnedAt(r, b)) /\ \A x \in ReturnedAt(r, b) : x.qty \in Nat
<1> DEFINE c == call[r]
           K == MovedLines(r, b)
           line(k) == [sale |-> c.sale, slot |-> c.body[k].slot, qty |-> c.body[k].qty,
                       back |-> c.body[k].back, by |-> r, n |-> k]
           p == [k \in K |-> line(k)]
<1>1. DOMAIN c.body = 1..done[r] OBVIOUS
<1>2. K = {k \in DOMAIN c.body : c.body[k].back /\ BinOf[c.body[k].slot] = b}
  BY <1>1 DEF MovedLines
<1>3. ReturnedAt(r, b) = ImageOf(p, K)
  <2>1. \A row : row \in ReturnedAt(r, b) <=>
          \E k \in DOMAIN c.body : /\ c.body[k].back /\ BinOf[c.body[k].slot] = b /\ row = line(k)
    BY DEF ReturnedAt, ReturnRows
  <2>2. \A row : row \in ImageOf(p, K) <=>
          \E k \in K : row = line(k)
    BY DEF ImageOf
  <2> HIDE DEF line, K, p
  <2> QED BY <1>2, <2>1, <2>2
<1>4. HasQty(c.body, K) BY MovedLinesHaveQty
<1>5. /\ \A k \in K : p[k].qty = c.body[k].qty
      /\ \A j, k \in K : p[j] = p[k] => j = k
  OBVIOUS
<1>6. \A x \in ReturnedAt(r, b) : x.qty \in Nat
  BY <1>2, <1>4 DEF ReturnedAt, ReturnRows, HasQty
<1> HIDE DEF line, p, K
<1>7. IsFiniteSet(ImageOf(p, K)) /\ Quantity(ImageOf(p, K)) = LinesQuantity(c.body, K)
  BY <1>4, <1>5, RowsOfLines
<1> QED BY <1>3, <1>6, <1>7 DEF K

\* The rows of a counter before and after the lines given are deleted.
LEMMA GivenLeave ==
    ASSUME IndInv, HoldInv, NEW q \in Requests, given[q] \subseteq items, NEW b
    PROVE  /\ Quantity(ItemsAt(b)) = Quantity(ItemsAt(b) \ GivenAt(q, b)) + Quantity(GivenAt(q, b))
           /\ Quantity(ItemsAt(b) \ GivenAt(q, b)) \in Nat
           /\ Quantity(GivenAt(q, b)) \in Nat
           /\ IsFiniteSet(ItemsAt(b) \ GivenAt(q, b))
           /\ \A x \in ItemsAt(b) \ GivenAt(q, b) : x.qty \in Nat
<1>1. GivenAt(q, b) \in SUBSET ItemsAt(b) /\ GivenAt(q, b) \in SUBSET given[q]
  BY DEF GivenAt, ItemsAt
<1>2. IsFiniteSet(ItemsAt(b)) /\ \A x \in ItemsAt(b) : x.qty \in Nat BY RowsAtHaveQty
<1>3. IsFiniteSet(ItemsAt(b) \ GivenAt(q, b)) BY <1>2, FS_Subset
<1>4. Quantity(GivenAt(q, b)) \in Nat BY <1>1, GivenHasQty
<1>5. Quantity(ItemsAt(b) \ GivenAt(q, b)) \in Nat BY <1>2, <1>3, QuantityInt
<1> QED BY <1>1, <1>2, <1>3, <1>4, <1>5, QuantitySplit

\* The commit of an update puts the rows of its lines in the place of those it gave back.
LEMMA UpdateBalance ==
    ASSUME IndInv, IndInv', HoldInv, HoldInv', SerialInv, NEW q \in Requests, FinishUpdate(q),
           Clean(q)', NEW b \in Bins
    PROVE  /\ stock' = stock /\ Moved(q, b)' = 0 /\ Moved(q, b) \in Int
           /\ Outstanding(b)' = Outstanding(b) - Moved(q, b)
<1>1. /\ pc[q] = "finish" /\ call[q].op = "update" /\ tx[q] = "open" /\ pc'[q] = "ok"
      /\ items' = (items \ dels[q]) \cup new[q] /\ returns' = returns /\ stock' = stock
      /\ call' = call
  BY DEF FinishUpdate, Committed, Goto, IndInv, TypeOK
<1>2. dels[q] = given[q] /\ given[q] \subseteq items /\ new[q] = PricedRows(q)
      /\ done[q] = Len(call[q].body) /\ InFlight(q)
  BY <1>1 DEF SerialInv, ReadsStayTrue, HoldInv, HoldsItsOwn, InFlight
<1>3. \A k \in DOMAIN call[q].body : call[q].body[k].plu BY <1>1 DEF Clean
<1>4. Moved(q, b)' = 0 BY <1>1 DEF Moved, InFlight
<1>5. Moved(q, b) = Quantity(GivenAt(q, b)) - LinesQuantity(call[q].body, MovedLines(q, b))
  BY <1>1, <1>2 DEF Moved, GivenAt
<1>6. /\ Quantity(PricedAt(q, b)) = LinesQuantity(call[q].body, MovedLines(q, b))
      /\ IsFiniteSet(PricedAt(q, b)) /\ \A x \in PricedAt(q, b) : x.qty \in Nat
  BY <1>1, <1>2, <1>3, PricedQuantity
<1>7. ItemsAt(b)' = (ItemsAt(b) \ GivenAt(q, b)) \cup PricedAt(q, b)
  BY <1>1, <1>2 DEF ItemsAt, GivenAt, PricedAt
<1>8. (ItemsAt(b) \ GivenAt(q, b)) \cap PricedAt(q, b) = {}
  <2>1. \A row \in items : row.by # q BY <1>1 DEF IndInv, RowsOfCommittedRequests
  <2>2. \A row \in PricedRows(q) : row.by = q BY DEF PricedRows
  <2> QED BY <2>1, <2>2 DEF ItemsAt, PricedAt
<1>9. BackAt(b)' = BackAt(b) BY <1>1 DEF BackAt
<1>10. /\ Quantity(ItemsAt(b)) = Quantity(ItemsAt(b) \ GivenAt(q, b)) + Quantity(GivenAt(q, b))
       /\ Quantity(ItemsAt(b) \ GivenAt(q, b)) \in Nat
       /\ Quantity(GivenAt(q, b)) \in Nat
       /\ IsFiniteSet(ItemsAt(b) \ GivenAt(q, b))
       /\ \A x \in ItemsAt(b) \ GivenAt(q, b) : x.qty \in Nat
  BY <1>2, GivenLeave
<1>11. Quantity((ItemsAt(b) \ GivenAt(q, b)) \cup PricedAt(q, b))
         = Quantity(ItemsAt(b) \ GivenAt(q, b)) + Quantity(PricedAt(q, b))
  BY <1>6, <1>8, <1>10, QuantityUnion
<1>12. Quantity(PricedAt(q, b)) \in Nat BY <1>6, QuantityInt
<1>13. Outstanding(b) = Quantity(ItemsAt(b)) - Quantity(BackAt(b)) /\ Quantity(BackAt(b)) \in Nat
       /\ Outstanding(b)' = Quantity(ItemsAt(b)') - Quantity(BackAt(b)')
  <2>1. Outstanding(b)' = Quantity(ItemsAt(b)') - Quantity(BackAt(b)')
    BY DEF Outstanding, ItemsAt, BackAt
  <2> QED BY <2>1, RowsAtHaveQty
<1>14. Outstanding(b)' = Quantity(ItemsAt(b) \ GivenAt(q, b)) + Quantity(PricedAt(q, b))
                           - Quantity(BackAt(b))
  <2>1. Quantity(ItemsAt(b)') = Quantity((ItemsAt(b) \ GivenAt(q, b)) \cup PricedAt(q, b))
        /\ Quantity(BackAt(b)') = Quantity(BackAt(b))
    BY <1>7, <1>9
  <2> QED BY <1>10, <1>11, <1>12, <1>13, <2>1
<1> QED BY <1>1, <1>4, <1>5, <1>6, <1>10, <1>12, <1>13, <1>14

\* ... that of a deletion removes the rows it gave back, with returns of scrap at most.
LEMMA DeleteBalance ==
    ASSUME IndInv, IndInv', HoldInv, HoldInv', SerialInv, NEW q \in Requests, FinishDelete(q),
           Clean(q)', NEW b \in Bins
    PROVE  /\ stock' = stock /\ Moved(q, b)' = 0 /\ Moved(q, b) \in Int
           /\ Outstanding(b)' = Outstanding(b) - Moved(q, b)
<1> DEFINE T == Scope(call[q])
<1>1. /\ pc[q] = "finish" /\ call[q].op \in {"delete", "deleteAll"} /\ pc'[q] = "ok"
      /\ items' = items \ RowsOf(T) /\ returns' = returns \ ReturnsOf(T) /\ stock' = stock
      /\ call' = call /\ gone' = gone /\ ReturnsOf(T) \subseteq gone[q]
  BY DEF FinishDelete, Committed, Goto, IndInv, TypeOK
<1>2. given[q] = RowsOf(T) /\ call[q].body = <<>> /\ done[q] = Len(call[q].body) /\ InFlight(q)
  <2>1. old[q] = RowsOf(T) BY <1>1 DEF SerialInv, ReadsStayTrue
  <2>2. given[q] = old[q] /\ call[q].body = <<>> /\ done[q] = Len(call[q].body)
    BY <1>1 DEF HoldInv, HoldsItsOwn
  <2> QED BY <1>1, <2>1, <2>2 DEF InFlight
<1>3. done[q] = 0 BY <1>2
<1>4. Moved(q, b)' = 0 BY <1>1 DEF Moved, InFlight
<1>5. Moved(q, b) = Quantity(GivenAt(q, b))
  <2>1. MovedLines(q, b) = {} BY <1>3 DEF MovedLines
  <2>2. Moved(q, b) = Quantity(GivenAt(q, b)) - LinesQuantity(call[q].body, {})
    BY <1>1, <1>2, <2>1 DEF Moved, GivenAt
  <2>3. Quantity(GivenAt(q, b)) \in Nat BY GivenHasQty DEF GivenAt
  <2> QED BY <2>2, <2>3, LinesQuantityEmpty
<1>6. ItemsAt(b)' = ItemsAt(b) \ GivenAt(q, b) BY <1>1, <1>2 DEF ItemsAt, GivenAt
<1>7. BackAt(b)' = BackAt(b)
  <2>1. \A ret \in ReturnsOf(T) : ~ ret.back BY <1>1 DEF Clean
  <2> QED BY <1>1, <2>1 DEF BackAt
<1>8. /\ Quantity(ItemsAt(b)) = Quantity(ItemsAt(b) \ GivenAt(q, b)) + Quantity(GivenAt(q, b))
      /\ Quantity(ItemsAt(b) \ GivenAt(q, b)) \in Nat
      /\ Quantity(GivenAt(q, b)) \in Nat
  <2>1. given[q] \subseteq items BY <1>2 DEF RowsOf
  <2> QED BY <2>1, GivenLeave
<1>9. Outstanding(b) = Quantity(ItemsAt(b)) - Quantity(BackAt(b)) /\ Quantity(BackAt(b)) \in Nat
      /\ Outstanding(b)' = Quantity(ItemsAt(b)') - Quantity(BackAt(b)')
  <2>1. Outstanding(b)' = Quantity(ItemsAt(b)') - Quantity(BackAt(b)')
    BY DEF Outstanding, ItemsAt, BackAt
  <2> QED BY <2>1, RowsAtHaveQty
<1>10. Outstanding(b)' = Quantity(ItemsAt(b) \ GivenAt(q, b)) - Quantity(BackAt(b))
  BY <1>6, <1>7, <1>9
<1> QED BY <1>1, <1>4, <1>5, <1>8, <1>9, <1>10

\* ... and that of a return writes what it put back.
LEMMA ReturnBalance ==
    ASSUME IndInv, IndInv', HoldInv, HoldInv', NEW q \in Requests, FinishReturn(q), NEW b \in Bins
    PROVE  /\ stock' = stock /\ Moved(q, b)' = 0 /\ Moved(q, b) \in Int
           /\ Outstanding(b)' = Outstanding(b) - Moved(q, b)
<1>1. /\ pc[q] = "returned" /\ tx[q] = "open" /\ pc'[q] = "ok"
      /\ items' = items /\ returns' = returns \cup new[q] /\ stock' = stock
  BY DEF FinishReturn, Committed, Goto, IndInv, TypeOK
<1>2. call[q].op = "return" /\ call[q].body \in Seq(ReturnLine) /\ new[q] = ReturnRows(q)
      /\ done[q] = Len(call[q].body) /\ InFlight(q)
  BY <1>1 DEF HoldInv, HoldsItsOwn, InFlight, IndInv, CursorsInBody
<1>3. Moved(q, b)' = 0 BY <1>1 DEF Moved, InFlight
<1>4. Moved(q, b) = LinesQuantity(call[q].body, MovedLines(q, b)) BY <1>2 DEF Moved
<1>5. /\ Quantity(ReturnedAt(q, b)) = LinesQuantity(call[q].body, MovedLines(q, b))
      /\ IsFiniteSet(ReturnedAt(q, b)) /\ \A x \in ReturnedAt(q, b) : x.qty \in Nat
  BY <1>2, ReturnedQuantity
<1>6. ItemsAt(b)' = ItemsAt(b) /\ BackAt(b)' = BackAt(b) \cup ReturnedAt(q, b)
  BY <1>1, <1>2 DEF ItemsAt, BackAt, ReturnedAt
<1>7. BackAt(b) \cap ReturnedAt(q, b) = {}
  <2>1. \A ret \in returns : ret.by # q BY <1>1 DEF IndInv, RowsOfCommittedRequests
  <2>2. \A ret \in ReturnRows(q) : ret.by = q BY DEF ReturnRows
  <2> QED BY <2>1, <2>2 DEF BackAt, ReturnedAt
<1>8. /\ IsFiniteSet(BackAt(b)) /\ \A x \in BackAt(b) : x.qty \in Nat
      /\ Quantity(ItemsAt(b)) \in Nat /\ Quantity(BackAt(b)) \in Nat
      /\ Outstanding(b) = Quantity(ItemsAt(b)) - Quantity(BackAt(b))
  BY RowsAtHaveQty
<1>9. Quantity(BackAt(b) \cup ReturnedAt(q, b)) = Quantity(BackAt(b)) + Quantity(ReturnedAt(q, b))
  BY <1>5, <1>7, <1>8, QuantityUnion
<1>10. Quantity(ReturnedAt(q, b)) \in Nat BY <1>5, QuantityInt
<1>11. Outstanding(b)' = Quantity(ItemsAt(b)') - Quantity(BackAt(b)')
  BY DEF Outstanding, ItemsAt, BackAt
<1>12. Outstanding(b)' = Quantity(ItemsAt(b)) - (Quantity(BackAt(b)) + Quantity(ReturnedAt(q, b)))
  BY <1>6, <1>9, <1>11
<1> QED BY <1>1, <1>3, <1>4, <1>5, <1>8, <1>10, <1>12

\* A step of a request moves units between stock, rows and what it has under way.
LEMMA StepBalance ==
    ASSUME IndInv, IndInv', HoldInv, HoldInv', SerialInv, NEW q \in Requests,
           Step(q) \/ Expire(q), Fine(q)', NEW b \in Bins
    PROVE  stock'[b] + Outstanding(b)' - Moved(q, b)' = stock[b] + Outstanding(b) - Moved(q, b)
<1>0. /\ stock[b] \in Int /\ stock'[b] \in Int /\ Outstanding(b) \in Int
      /\ Moved(q, b) \in Int /\ Moved(q, b)' \in Int
  <2>1. Outstanding(b) \in Int /\ Moved(q, b) \in Int BY OutstandingInt, MovedInt DEF IndInv
  <2>2. stock[b] \in Int /\ stock'[b] \in Int BY DEF IndInv, TypeOK
  <2>4. MovedIsSum' BY MovedSumsNext
  <2>5. Moved(q, b)' \in Int
    <3>1. q \in Received' BY StepEnds DEF Received
    <3>2. MovedOf(b)'[q] \in Int BY <2>4, <3>1 DEF MovedIsSum, Ints
    <3> QED BY <3>1, <3>2 DEF MovedOf
  <2> QED BY <2>1, <2>2, <2>5
<1>1. ~ Clean(q)' => InFlight(q)' BY DEF Fine
<1>2. CASE RestoreLine(q)
  <2>1. stock'[b] - Moved(q, b)' = stock[b] - Moved(q, b) /\ Outstanding(b)' = Outstanding(b)
    BY <1>2, RestoreBalance
  <2>2. PICK s, t, o, m, n \in Int :
          /\ s = stock[b] /\ t = stock'[b] /\ o = Outstanding(b)
          /\ m = Moved(q, b) /\ n = Moved(q, b)'
    BY <1>0
  <2>3. t - n = s - m BY <2>1, <2>2
  <2>4. t + o - n = s + o - m BY <2>3
  <2> QED BY <2>1, <2>2, <2>4
<1>3. CASE TakeLine(q)
  <2>1. stock'[b] - Moved(q, b)' = stock[b] - Moved(q, b) /\ Outstanding(b)' = Outstanding(b)
    BY <1>3, TakeBalance
  <2>2. PICK s, t, o, m, n \in Int :
          /\ s = stock[b] /\ t = stock'[b] /\ o = Outstanding(b)
          /\ m = Moved(q, b) /\ n = Moved(q, b)'
    BY <1>0
  <2>3. t - n = s - m BY <2>1, <2>2
  <2>4. t + o - n = s + o - m BY <2>3
  <2> QED BY <2>1, <2>2, <2>4
<1>4. CASE RestockLine(q)
  <2>1. stock'[b] - Moved(q, b)' = stock[b] - Moved(q, b) /\ Outstanding(b)' = Outstanding(b)
    BY <1>4, RestockBalance
  <2>2. PICK s, t, o, m, n \in Int :
          /\ s = stock[b] /\ t = stock'[b] /\ o = Outstanding(b)
          /\ m = Moved(q, b) /\ n = Moved(q, b)'
    BY <1>0
  <2>3. t - n = s - m BY <2>1, <2>2
  <2>4. t + o - n = s + o - m BY <2>3
  <2> QED BY <2>1, <2>2, <2>4
<1>5. CASE FinishUpdate(q)
  <2>1. pc'[q] = "ok" BY <1>5 DEF FinishUpdate, Committed, Goto, IndInv, TypeOK
  <2> QED BY <1>0, <1>1, <1>5, <2>1, UpdateBalance DEF InFlight
<1>6. CASE FinishDelete(q)
  <2>1. pc'[q] = "ok" BY <1>6 DEF FinishDelete, Committed, Goto, IndInv, TypeOK
  <2> QED BY <1>0, <1>1, <1>6, <2>1, DeleteBalance DEF InFlight
<1>7. CASE FinishReturn(q) BY <1>0, <1>7, ReturnBalance
<1>8. CASE ~ Writes(q) BY <1>0, <1>8, QuietBalance
<1> QED BY <1>2, <1>3, <1>4, <1>5, <1>6, <1>7, <1>8 DEF Writes

\* A request that had ended well before has ended well now.
LEMMA FineBack ==
    ASSUME IndInv, NEW q \in Requests, MovesOnly(q), InFlight(q) \/ Clean(q),
           \A r \in Requests : Fine(r)'
    PROVE  \A r \in Requests : Fine(r)
  BY ZenonT(120) DEF MovesOnly, Fine, InFlight, Clean

OutstandingIsInt == \A b \in Bins : Outstanding(b) \in Int

LEMMA OutstandingNext == IndInv' /\ HoldInv' => OutstandingIsInt'
<1>1. IndInv /\ HoldInv => OutstandingIsInt BY OutstandingInt DEF IndInv, OutstandingIsInt
<1> QED BY <1>1, PTL

\* The moved units of all requests change as those of the one that steps.
LEMMA OneMoves ==
    ASSUME MovedIsSum, MovedIsSum', NEW q \in Requests, MovesOnly(q), q \in Received', NEW b \in Bins,
           Moved(q, b) \in Int, Moved(q, b)' \in Int
    PROVE  /\ UnitsMoved(b)' - Moved(q, b)' = UnitsMoved(b) - Moved(q, b)
           /\ UnitsMoved(b) \in Int /\ UnitsMoved(b)' \in Int
<1> DEFINE R == Received \ {q}
<1>1. PICK f : f = MovedOf(b) OBVIOUS
<1>2. PICK g : g = MovedOf(b)' OBVIOUS
<1>3. /\ UnitsMoved(b) = Sum(f, Received) /\ Ints(f, Received) /\ IsFiniteSet(Received)
  BY <1>1 DEF MovedIsSum
<1>4. /\ UnitsMoved(b)' = Sum(g, Received') /\ Ints(g, Received') /\ IsFiniteSet(Received')
  <2>1. UnitsMoved(b)' = Sum(MovedOf(b), Received)' /\ Ints(MovedOf(b)', Received')
        /\ IsFiniteSet(Received')
    BY DEF MovedIsSum
  <2>2. Sum(MovedOf(b), Received)' = Sum(MovedOf(b)', Received') OBVIOUS
  <2> QED BY <1>2, <2>1, <2>2
<1>5. \A r \in R : f[r] = g[r]
  <2>1. ASSUME NEW r \in R PROVE Moved(r, b)' = Moved(r, b)
    <3>1. /\ pc'[r] = pc[r] /\ call'[r] = call[r] /\ given'[r] = given[r] /\ done'[r] = done[r]
      BY DEF MovesOnly, Received
    <3>2. MovedLines(r, b)' = MovedLines(r, b) BY <3>1 DEF MovedLines
    <3> QED BY <3>1, <3>2 DEF Moved, InFlight
  <2>2. R \subseteq Received /\ R \subseteq Received' BY DEF Received, MovesOnly
  <2> QED BY <1>1, <1>2, <2>1, <2>2 DEF MovedOf
<1>6. Received' \ {q} = R /\ g[q] = Moved(q, b)' BY <1>2 DEF Received, MovesOnly, MovedOf
<1>7. UnitsMoved(b)' = Moved(q, b)' + Sum(g, R)
  <2>1. Sum(g, Received') = g[q] + Sum(g, Received' \ {q}) BY <1>4, SumRemove
  <2> HIDE DEF R
  <2> QED BY <1>4, <1>6, <2>1
<1>8. IsFiniteSet(R) /\ Ints(f, R) BY <1>3, FS_Subset DEF Ints
<1>9. Sum(f, R) = Sum(g, R) /\ Sum(f, R) \in Int
  <2> HIDE DEF R
  <2> QED BY <1>5, <1>8, SumSame, SumInt
<1>10. UnitsMoved(b) = Moved(q, b) + Sum(f, R)
  <2>1. CASE q \in Received
    <3>1. f[q] = Moved(q, b) BY <1>1, <2>1 DEF MovedOf
    <3>2. Sum(f, Received) = f[q] + Sum(f, R) BY <1>3, <2>1, SumRemove
    <3> QED BY <1>3, <3>1, <3>2
  <2>2. CASE q \notin Received
    <3>1. R = Received BY <2>2
    <3>2. Moved(q, b) = 0 BY <2>2 DEF Received, Moved, InFlight
    <3> HIDE DEF R
    <3> QED BY <1>3, <1>9, <3>1, <3>2
  <2> QED BY <2>1, <2>2
<1> HIDE DEF R
<1> QED BY <1>7, <1>9, <1>10

MovesNothing ==
    \A r \in Requests, b \in Bins : given[r] = {} /\ done[r] = 0 => Moved(r, b) = 0

LEMMA Nothing == MovesNothing
  BY NothingMoved DEF MovesNothing

LEMMA NothingNext == MovesNothing'
  BY Nothing, PTL

LEMMA ReceiveMovesNothing ==
    ASSUME IndInv, NEW q \in Requests, Receive(q), NEW b \in Bins
    PROVE  Moved(q, b)' = 0 /\ Moved(q, b) = 0 /\ q \in Received'
<1>1. pc[q] = "idle" /\ given[q] = {} /\ done[q] = 0
  <2>1. pc[q] = "idle" BY DEF Receive
  <2> QED BY <2>1 DEF IndInv, OldRowsAreCommitted, GivenRowsAreLeaving, CursorsInBody
<1>2. given' = given /\ done' = done /\ pc'[q] # "idle"
  <2> USE DEF Goto, locals, IndInv, TypeOK
  <2> DEFINE G == given' = given /\ done' = done /\ pc'[q] # "idle"
  <2>1. CASE BeginDeleteAll(q) BY <2>1 DEF BeginDeleteAll
  <2>2. ASSUME NEW s \in Sales, BeginDelete(q, s) PROVE G BY <2>2 DEF BeginDelete
  <2>3. ASSUME NEW s \in Sales, NEW body \in UpdateBodies, NEW st \in Statuses,
               BeginUpdate(q, s, body, st)
        PROVE  G
    BY <2>3 DEF BeginUpdate
  <2>4. ASSUME NEW s \in Sales, NEW st \in Statuses, BeginStatusUpdate(q, s, st)
        PROVE  G
    BY <2>4 DEF BeginStatusUpdate
  <2>5. ASSUME NEW s \in Sales, NEW body \in ReturnBodies, BeginReturn(q, s, body)
        PROVE  G
    BY <2>5 DEF BeginReturn
  <2>6. ASSUME NEW s \in Sales, NEW body \in CreateBodies,
               NEW st \in {"PENDING", "CONFIRMED"}, BeginCreate(q, s, body, st)
        PROVE  G
    BY <2>6 DEF BeginCreate
  <2> QED BY <2>1, <2>2, <2>3, <2>4, <2>5, <2>6 DEF Receive
<1>3. Moved(q, b)' = 0 BY <1>1, <1>2, NothingNext DEF MovesNothing
<1>4. Moved(q, b) = 0 BY <1>1, Nothing DEF MovesNothing
<1> QED BY <1>2, <1>3, <1>4 DEF Received

\* No request has units under way: their sum is nothing.
LEMMA NoneMoved ==
    ASSUME MovedIsSum, NEW b \in Bins, \A r \in Requests : Moved(r, b) = 0
    PROVE  UnitsMoved(b) = 0
<1>1. \A r \in Received : MovedOf(b)[r] = 0 BY DEF MovedOf, Received
<1>2. IsFiniteSet(Received) /\ UnitsMoved(b) = Sum(MovedOf(b), Received) BY DEF MovedIsSum
<1> QED BY <1>1, <1>2, SumZero

NothingUnderWay ==
    \A b \in Bins : (\A r \in Requests : Moved(r, b) = 0) => UnitsMoved(b) = 0

LEMMA NoneMovedNext == IndInv' /\ HoldInv' => NothingUnderWay'
<1>1. IndInv /\ HoldInv => NothingUnderWay BY MovedSums, NoneMoved DEF NothingUnderWay
<1> QED BY <1>1, PTL

Balanced(b) == stock[b] + Outstanding(b) = UnitsOf(b) + UnitsMoved(b)

LEMMA UnitsStep ==
    ASSUME IndInv, IndInv', HoldInv, HoldInv', SerialInv, UnitsAccounted, NEW q \in Requests,
           Step(q) \/ Expire(q), \A r \in Requests : Fine(r)', NEW b \in Bins
    PROVE  Balanced(b)'
<1>1. MovesOnly(q) /\ InFlight(q) BY StepMovesOnly DEF HoldInv
<1>2. Balanced(b) BY <1>1, FineBack DEF UnitsAccounted, Balanced
<1>3. q \in Received' BY StepEnds DEF Received
<1>4. MovedIsSum /\ MovedIsSum' BY MovedSums, MovedSumsNext
<1>5. /\ stock[b] \in Int /\ stock'[b] \in Int /\ Outstanding(b) \in Int
      /\ Moved(q, b) \in Int /\ Moved(q, b)' \in Int /\ UnitsOf(b) \in Int
  <2>1. Outstanding(b) \in Int /\ Moved(q, b) \in Int /\ UnitsOf(b) \in Int
    BY OutstandingInt, MovedInt, UnitsOfInt DEF IndInv
  <2>2. stock[b] \in Int /\ stock'[b] \in Int BY DEF IndInv, TypeOK
  <2>3. MovedOf(b)'[q] \in Int BY <1>3, <1>4 DEF MovedIsSum, Ints
  <2>4. Moved(q, b)' \in Int BY <1>3, <2>3 DEF MovedOf
  <2> QED BY <2>1, <2>2, <2>4
<1>6. /\ UnitsMoved(b)' - Moved(q, b)' = UnitsMoved(b) - Moved(q, b)
      /\ UnitsMoved(b) \in Int /\ UnitsMoved(b)' \in Int
  BY <1>1, <1>3, <1>4, <1>5, OneMoves
<1>7. stock'[b] + Outstanding(b)' - Moved(q, b)' = stock[b] + Outstanding(b) - Moved(q, b)
  BY StepBalance
<1>8. Outstanding(b)' \in Int BY OutstandingNext DEF OutstandingIsInt
<1>9. stock'[b] + Outstanding(b)' = UnitsOf(b) + UnitsMoved(b)'
  <2>1. stock[b] + Outstanding(b) = UnitsOf(b) + UnitsMoved(b) BY <1>2 DEF Balanced
  <2>2. PICK s, t, o, p, m, n \in Int :
          /\ s = stock[b] /\ t = stock'[b] /\ o = Outstanding(b) /\ p = Outstanding(b)'
          /\ m = Moved(q, b) /\ n = Moved(q, b)'
    BY <1>5, <1>8
  <2>3. PICK u, a, c \in Int : u = UnitsOf(b) /\ a = UnitsMoved(b) /\ c = UnitsMoved(b)'
    BY <1>5, <1>6
  <2>4. s + o = u + a /\ c - n = a - m /\ t + p - n = s + o - m
    BY <1>6, <1>7, <2>1, <2>2, <2>3
  <2>5. t + p = u + c BY <2>4
  <2> QED BY <2>2, <2>3, <2>5
<1> QED BY <1>9 DEF Balanced, UnitsOf

LEMMA UnitsNext ==
    ASSUME IndInv, IndInv', HoldInv, HoldInv', SerialInv, UnitsAccounted, [Next]_vars
    PROVE  UnitsAccounted'
<1> SUFFICES ASSUME \A r \in Requests : Fine(r)', NEW b \in Bins PROVE Balanced(b)'
  BY DEF UnitsAccounted, Balanced
<1>0. MovedIsSum /\ MovedIsSum' BY MovedSums, MovedSumsNext
<1>1. ASSUME NEW q \in Requests, Receive(q) PROVE Balanced(b)'
  <2>1. MovesOnly(q) /\ UNCHANGED <<items, returns, stock, sales>> BY <1>1, ReceiveHolds
  <2>2. Moved(q, b)' = 0 /\ Moved(q, b) = 0 /\ q \in Received' BY <1>1, ReceiveMovesNothing
  <2>3. Clean(q) BY <1>1 DEF Receive, Clean
  <2>4. Balanced(b) BY <2>1, <2>3, FineBack DEF UnitsAccounted, Balanced
  <2>5. UnitsMoved(b)' = UnitsMoved(b) BY <1>0, <2>1, <2>2, OneMoves
  <2>6. Outstanding(b)' = Outstanding(b) /\ stock' = stock BY <2>1 DEF Outstanding
  <2> QED BY <2>4, <2>5, <2>6 DEF Balanced, UnitsOf
<1>2. ASSUME NEW q \in Requests, Step(q) \/ Expire(q) PROVE Balanced(b)' BY <1>2, UnitsStep
<1>3. CASE Crash
  <2>1. ASSUME NEW r \in Requests PROVE Moved(r, b) = 0 /\ Moved(r, b)' = 0 /\ Fine(r)
    <3>1. ~ InFlight(r)' /\ Clean(r)' BY <1>3 DEF Crash, InFlight, Fine
    <3>2. CASE InFlight(r)
      <4>1. pc'[r] = "failed" /\ given' = given /\ done' = done BY <1>3, <3>2 DEF Crash
      <4>2. given[r] = {} /\ done[r] = 0 BY <3>1, <4>1 DEF Clean
      <4> QED BY <3>1, <3>2, <4>2, Nothing DEF MovesNothing, Moved, Fine
    <3>3. CASE ~ InFlight(r)
      <4>1. pc'[r] = pc[r] /\ given' = given /\ done' = done /\ call' = call /\ gone'[r] = gone[r]
        BY <1>3, <3>3 DEF Crash
      <4> QED BY <3>1, <3>3, <4>1 DEF Moved, Fine, Clean
    <3> QED BY <3>2, <3>3
  <2>2. Balanced(b) BY <2>1 DEF UnitsAccounted, Balanced
  <2>3. UnitsMoved(b) = 0 BY <1>0, <2>1, NoneMoved
  <2>4. UnitsMoved(b)' = 0 BY <2>1, NoneMovedNext DEF NothingUnderWay
  <2>5. Outstanding(b)' = Outstanding(b) /\ stock' = stock BY <1>3 DEF Outstanding, Crash, db
  <2> QED BY <2>2, <2>3, <2>4, <2>5 DEF Balanced, UnitsOf
<1>4. CASE UNCHANGED vars
  <2>1. /\ pc' = pc /\ call' = call /\ given' = given /\ done' = done /\ gone' = gone
        /\ stock' = stock /\ items' = items /\ returns' = returns
    BY <1>4 DEF vars, db, locals
  <2>2. ASSUME NEW r \in Requests PROVE Fine(r) /\ Moved(r, b)' = Moved(r, b)
    <3>1. MovedLines(r, b)' = MovedLines(r, b) BY <2>1 DEF MovedLines
    <3>2. Fine(r)' OBVIOUS
    <3> QED BY <2>1, <3>1, <3>2 DEF Moved, Fine, Clean, InFlight
  <2>3. Balanced(b) BY <2>2 DEF UnitsAccounted, Balanced
  <2>4. Received' = Received BY <2>1 DEF Received
  <2>5. MovedOf(b)' = MovedOf(b) BY <2>2, <2>4 DEF MovedOf, Received
  <2>6. UnitsMoved(b)' = UnitsMoved(b)
    <3>1. UnitsMoved(b)' = Sum(MovedOf(b)', Received') BY <1>0 DEF MovedIsSum
    <3> QED BY <1>0, <2>4, <2>5, <3>1 DEF MovedIsSum
  <2>7. Outstanding(b)' = Outstanding(b) BY <2>1 DEF Outstanding
  <2> QED BY <2>1, <2>3, <2>6, <2>7 DEF Balanced, UnitsOf
<1> QED BY <1>1, <1>2, <1>3, <1>4 DEF Next

LEMMA UnitsInit == Init => UnitsAccounted
<1> SUFFICES ASSUME Init, NEW b \in Bins PROVE Balanced(b) BY DEF UnitsAccounted, Balanced
<1>1. MovedIsSum BY InitIndInv, HoldInvInit, MovedSums
<1>2. \A r \in Requests : Moved(r, b) = 0 BY DEF Init, Moved, InFlight
<1>3. UnitsMoved(b) = 0 BY <1>1, <1>2, NoneMoved
<1>4. {ret \in returns : ret.back /\ BinOf[ret.slot] = b} = {} BY DEF Init
<1>5. Outstanding(b) = Quantity({row \in SeedRows : BinOf[row.slot] = b}) - Quantity({})
  BY <1>4 DEF Init, Outstanding
<1>6. Quantity({row \in SeedRows : BinOf[row.slot] = b}) \in Nat
  <2>1. IsFiniteSet({row \in SeedRows : BinOf[row.slot] = b}) BY FS_Subset
  <2>2. \A x \in SeedRows : x.qty \in Nat BY DEF Row
  <2> QED BY <2>1, <2>2, QuantityInt
<1>7. InitStock[b] \in Nat /\ stock[b] = InitStock[b] BY DEF Init
<1> QED BY <1>3, <1>5, <1>6, <1>7, QuantityEmpty DEF Balanced, UnitsOf

\* When every request that was received has ended cleanly, none has units under way.
LEMMA AccountedAddsUp ==
    ASSUME IndInv, HoldInv, UnitsAccounted
    PROVE  UnitsAddUp
<1> SUFFICES ASSUME \A r \in Requests : Clean(r), NEW b \in Bins
             PROVE  stock[b] + Outstanding(b) = UnitsOf(b)
  BY DEF UnitsAddUp
<1>1. \A r \in Requests : Fine(r) /\ Moved(r, b) = 0 BY DEF Clean, Fine, Moved, InFlight
<1>2. UnitsMoved(b) = 0 BY <1>1, MovedSums, NoneMoved
<1>3. stock[b] + Outstanding(b) = UnitsOf(b) + UnitsMoved(b) BY <1>1 DEF UnitsAccounted
<1>4. UnitsOf(b) \in Int BY UnitsOfInt
<1> QED BY <1>2, <1>3, <1>4

\* With one write of a sale in flight at a time, the autocommitted stock updates of
\* SaleInventoryService and the rows of the transactions amount to one change of stock
\* per request that ended cleanly, whatever other sales are being written; and stock
\* goes below zero only through two lines checked against the same units.
THEOREM StockIsAccounted ==
    ASSUME OnePerSale
    PROVE  Spec => []StockAccounted
<1> DEFINE Inv == IndInv /\ HoldInv /\ SerialInv /\ CheckedLinesInStock /\ UnitsAccounted
<1>1. Init => Inv BY InitIndInv, HoldInvInit, SerialInit, CheckedInit, UnitsInit
<1>2. Inv /\ [Next]_vars => Inv'
  BY NextIndInv, HoldInvNext, SerialNext, CheckedNext, UnitsNext
<1>3. Inv => StockAccounted BY CheckedGivesOne, AccountedAddsUp DEF StockAccounted
<1> QED BY <1>1, <1>2, <1>3, PTL DEF Spec
===============================================================================
