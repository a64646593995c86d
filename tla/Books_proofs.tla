----------------------------- MODULE Books_proofs -----------------------------
(***************************************************************************)
(* Theorems about the books of a business: CustomerLedger, what customers   *)
(* owe, and Expenses, its sheets of expenses.  The two share no state; each *)
(* has its part here.                                                       *)
(*                                                                         *)
(* The ledger, for any customers, sales, requests, amounts and entries at   *)
(* the start.  Consistent is the inductive invariant.  That every payment   *)
(* is booked follows step by step from what a payment does with its amount  *)
(* (Spent): an induction over the rows it has read.  That the balance       *)
(* agrees with the entries needs more of Consistent: a request alone on its *)
(* customer has read what the tables hold (Fresh), and requests that are    *)
(* not alone are noted (Noted).                                             *)
(*                                                                         *)
(* Expenses, for any requests, directories, sheets and bodies.              *)
(***************************************************************************)
EXTENDS CustomerLedger, Expenses, FoldTheorems, FiniteSetTheorems,
        SequenceTheorems, TLAPS

----------------------------------------------------------------------------
(* What a payment does with its amount *)

Pay == [entry : Entry, amount : Int]
Acc == [left : Int, pays : SUBSET Pay]

\* Rows that payments go through one by one: finitely many, told apart by id.
Dues(S) ==
    /\ S \subseteq Entry
    /\ IsFiniteSet(S)
    /\ \A e, f \in S : e.id = f.id => e = f

LEMMA RowsBelow ==
  ASSUME NEW S, Dues(S), NEW T \in SUBSET S
  PROVE  Dues(T)
BY FS_Subset DEF Dues

\* Of finitely many rows one is the newest.
LEMMA NewestIsOne ==
  ASSUME NEW S, Dues(S), S # {}
  PROVE  Newest(S) \in S /\ \A f \in S : f.id <= Newest(S).id
<1> DEFINE After(e) == {f \in S : e.id < f.id}
           F == {After(e) : e \in S}
<1>1. F \in SUBSET SUBSET S /\ F # {}
  <2>1. \A e \in S : After(e) \in SUBSET S /\ After(e) \in F OBVIOUS
  <2>2. \A T \in F : T \in SUBSET S OBVIOUS
  <2> HIDE DEF F
  <2> QED BY <2>1, <2>2
<1>2. IsFiniteSet(S) BY DEF Dues
<1>3. PICK T \in F : \A U \in F : ~ (U \subseteq T /\ U # T)
  <2> HIDE DEF F
  <2> QED BY <1>1, <1>2, SmallestSet
<1>4. PICK e \in S : T = After(e) BY <1>3
<1>5. \A f \in S : f.id \in Nat BY DEF Dues, Entry
<1>6. ASSUME NEW f \in S, ~ (f.id <= e.id)
      PROVE  FALSE
  <2>1. f \in After(e) /\ f \notin After(f) BY <1>5, <1>6
  <2>2. After(f) \subseteq After(e) BY <1>5, <1>6
  <2>3. After(f) # After(e) /\ After(f) \in F BY <2>1
  <2> HIDE DEF After, F
  <2> QED BY <1>3, <1>4, <2>2, <2>3
<1>7. \E x \in S : \A f \in S : f.id <= x.id BY <1>6
<1> QED BY <1>7 DEF Newest

\* g is what a payment of a has come to after the oldest rows of S.
PaysInTurn(g, a, S) ==
    /\ Allocated(a, S) = g[S]
    /\ g[{}] = [left |-> a, pays |-> {}]
    /\ \A T \in SUBSET S :
         T # {} => g[T] = PayOne(g[T \ {Newest(T)}], Newest(T))

\* A payment takes from the rows what it is left with, in their order.
LEMMA AllocatedInTurn ==
  ASSUME NEW S, Dues(S), NEW a \in Nat
  PROVE  \E g \in [SUBSET S -> Acc] : PaysInTurn(g, a, S)
<1> DEFINE base == [left |-> a, pays |-> {}]
           step == [e \in S |-> [acc \in Acc |-> PayOne(acc, e)]]
           pick == [T \in SUBSET S |-> Newest(T)]
           P(g) == g = [T \in SUBSET S |-> IF T = {} THEN base
                          ELSE PayOne(g[T \ {Newest(T)}], Newest(T))]
<1>1. base \in Acc BY DEF Acc
<1>2. step \in [S -> [Acc -> Acc]]
  <2>1. ASSUME NEW e \in S, NEW acc \in Acc
        PROVE  PayOne(acc, e) \in Acc
    <3>1. e \in Entry /\ Owed(e) \in Int BY DEF Dues, Entry, Owed
    <3>2. acc.left \in Int /\ acc.pays \in SUBSET Pay BY DEF Acc
    <3>3. ASSUME NEW x \in Int
          PROVE  [left |-> acc.left - x,
                  pays |-> acc.pays \cup {[entry |-> e, amount |-> x]}] \in Acc
      BY <3>1, <3>2 DEF Acc, Pay
    <3> QED BY <3>1, <3>2, <3>3 DEF PayOne
  <2> QED BY <2>1
<1>3. Picks(pick, S) BY RowsBelow, NewestIsOne DEF Picks
<1>4. IsFiniteSet(S) BY DEF Dues
<1> HIDE DEF base, step, pick
<1>5. PICK h \in [SUBSET S -> Acc] : IsFold(h, base, step, pick, S)
  BY <1>1, <1>2, <1>3, <1>4, FoldExists
<1>6. \A T \in SUBSET S :
        h[T] = IF T = {} THEN base ELSE PayOne(h[T \ {Newest(T)}], Newest(T))
  <2>1. ASSUME NEW T \in SUBSET S, T # {}
        PROVE  step[pick[T]][h[T \ {pick[T]}]] = PayOne(h[T \ {Newest(T)}], Newest(T))
    <3>1. pick[T] = Newest(T) /\ Newest(T) \in S BY <1>3, <2>1 DEF Picks, pick
    <3>2. h[T \ {Newest(T)}] \in Acc OBVIOUS
    <3> QED BY <3>1, <3>2 DEF step
  <2> QED BY <1>5, <2>1 DEF IsFold
<1>7. P(h) BY <1>6
<1> DEFINE g == CHOOSE k : P(k)
<1>8. P(g)
  <2> HIDE DEF P
  <2> QED BY <1>7
<1>9. Allocated(a, S) = g[S] BY DEF Allocated, MapThenFoldSet, base
<1> HIDE DEF g
<1>10. \A T \in SUBSET S :
        g[T] = IF T = {} THEN base ELSE PayOne(g[T \ {Newest(T)}], Newest(T))
  BY <1>8
<1>11. \A T \in SUBSET S : g[T] = h[T]
  <2> DEFINE F == {T \in SUBSET S : g[T] # h[T]}
  <2>1. SUFFICES ASSUME F # {} PROVE FALSE OBVIOUS
  <2> HIDE DEF F
  <2>2. F \in SUBSET SUBSET S BY DEF F
  <2>3. PICK T \in F : \A U \in F : ~ (U \subseteq T /\ U # T) BY <1>4, <2>1, <2>2, SmallestSet
  <2>4. T \in SUBSET S /\ g[T] # h[T] BY DEF F
  <2>5. T # {} BY <1>6, <1>10, <2>4
  <2>6. Newest(T) \in T BY <2>4, <2>5, RowsBelow, NewestIsOne
  <2>7. g[T \ {Newest(T)}] = h[T \ {Newest(T)}] BY <2>3, <2>4, <2>6 DEF F
  <2> QED BY <1>6, <1>10, <2>4, <2>5, <2>7
<1>12. Allocated(a, S) = h[S] BY <1>9, <1>11
<1>13. h[{}] = [left |-> a, pays |-> {}] BY <1>6 DEF base
<1> QED BY <1>6, <1>12, <1>13 DEF PaysInTurn

AmountOf == [p \in Pay |-> p.amount]

\* What a payment of a has come to after the rows S: every unit is on one of them
\* or left, none takes more than it is owed, and something is left only when all
\* took what they are owed.
Spent(a, S, acc) ==
    /\ acc \in Acc
    /\ acc.left \in Nat
    /\ IsFiniteSet(acc.pays)
    /\ \A p \in acc.pays :
        /\ p.entry \in S
        /\ p.amount = Owed(p.entry) \/ (0 < p.amount /\ p.amount < Owed(p.entry))
    /\ \A p, q \in acc.pays : p.entry = q.entry => p = q
    /\ Sum(AmountOf, acc.pays) + acc.left = a
    /\ acc.left > 0 => \A e \in S : \E p \in acc.pays : p.entry = e /\ p.amount = Owed(e)

\* One row more.
LEMMA PayOneSpends ==
  ASSUME NEW S, Dues(S), NEW e \in Entry, e \notin S, NEW a \in Nat, NEW acc, Spent(a, S, acc)
  PROVE  Spent(a, S \cup {e}, PayOne(acc, e))
<1>1. /\ acc.left \in Nat
      /\ acc.pays \in SUBSET Pay
      /\ IsFiniteSet(acc.pays)
      /\ Owed(e) \in Int
  BY DEF Spent, Acc, Entry, Owed
<1>2. CASE acc.left <= 0
  <2>1. PayOne(acc, e) = acc BY <1>2 DEF PayOne
  <2>2. ~ (acc.left > 0) BY <1>1, <1>2
  <2> QED BY <2>1, <2>2 DEF Spent
<1>3. CASE ~ (acc.left <= 0)
  <2> DEFINE x == IF acc.left < Owed(e) THEN acc.left ELSE Owed(e)
             p0 == [entry |-> e, amount |-> x]
             new == [left |-> acc.left - x, pays |-> acc.pays \cup {p0}]
  <2>1. PayOne(acc, e) = new BY <1>3 DEF PayOne
  <2>2. /\ x \in Int
        /\ x <= acc.left
        /\ x = Owed(e) \/ (0 < x /\ x < Owed(e))
        /\ acc.left - x > 0 => x = Owed(e)
        /\ acc.left > 0
    BY <1>1, <1>3
  <2>3. p0 \in Pay /\ p0.entry = e /\ p0.amount = x BY <2>2 DEF Pay
  <2> HIDE DEF x
  <2>4. p0 \notin acc.pays BY <2>3 DEF Spent
  <2> HIDE DEF p0
  <2>5. new.left \in Nat /\ new \in Acc BY <1>1, <2>2, <2>3 DEF Acc
  <2>6. IsFiniteSet(new.pays) BY <1>1, FS_AddElement
  <2>7. \A p \in new.pays :
          /\ p.entry \in S \cup {e}
          /\ p.amount = Owed(p.entry) \/ (0 < p.amount /\ p.amount < Owed(p.entry))
    BY <2>2, <2>3 DEF Spent
  <2>8. \A p, q \in new.pays : p.entry = q.entry => p = q BY <2>3 DEF Spent
  <2>9. Sum(AmountOf, new.pays) + new.left = a
    <3>1. Ints(AmountOf, acc.pays \cup {p0}) BY <1>1, <2>3 DEF Ints, AmountOf, Pay
    <3>2. Sum(AmountOf, acc.pays \cup {p0}) = AmountOf[p0] + Sum(AmountOf, acc.pays)
      BY <1>1, <2>4, <3>1, SumAdd
    <3>3. AmountOf[p0] = x BY <2>3 DEF AmountOf
    <3>4. Sum(AmountOf, acc.pays) \in Int /\ Sum(AmountOf, acc.pays) + acc.left = a
      BY <1>1, <3>1, SumInt DEF Ints, Spent
    <3> QED BY <1>1, <2>2, <3>2, <3>3, <3>4
  <2>10. ASSUME new.left > 0, NEW f \in S \cup {e}
         PROVE  \E p \in new.pays : p.entry = f /\ p.amount = Owed(f)
    <3>1. CASE f = e BY <2>2, <2>3, <2>10, <3>1
    <3>2. CASE f \in S BY <2>2, <3>2 DEF Spent
    <3> QED BY <3>1, <3>2
  <2> QED BY <2>1, <2>5, <2>6, <2>7, <2>8, <2>9, <2>10 DEF Spent
<1> QED BY <1>2, <1>3

\* What a payment does with its amount, over any rows.
LEMMA AllocatedSpends ==
  ASSUME NEW S, Dues(S), NEW a \in Nat
  PROVE  Spent(a, S, Allocated(a, S))
<1>0. PICK g \in [SUBSET S -> Acc] : PaysInTurn(g, a, S) BY AllocatedInTurn
<1>1. /\ Allocated(a, S) = g[S]
      /\ g[{}] = [left |-> a, pays |-> {}]
      /\ \A T \in SUBSET S :
           T # {} => g[T] = PayOne(g[T \ {Newest(T)}], Newest(T))
  BY <1>0 DEF PaysInTurn
<1> DEFINE F == {T \in SUBSET S : ~ Spent(a, T, g[T])}
<1>2. ASSUME F # {} PROVE FALSE
  <2> HIDE DEF F
  <2>1. F \in SUBSET SUBSET S /\ IsFiniteSet(S) BY DEF F, Dues
  <2>2. PICK T \in F : \A U \in F : ~ (U \subseteq T /\ U # T) BY <1>2, <2>1, SmallestSet
  <2>3. T \in SUBSET S /\ ~ Spent(a, T, g[T]) BY DEF F
  <2>4. T # {}
    <3>1. Spent(a, {}, [left |-> a, pays |-> {}])
      <4>1. Sum(AmountOf, {}) = 0 BY SumEmpty
      <4>2. 0 + a = a OBVIOUS
      <4>3. IsFiniteSet({}) BY FS_EmptySet
      <4>4. [left |-> a, pays |-> {}] \in Acc BY DEF Acc
      <4> QED BY <4>1, <4>2, <4>3, <4>4 DEF Spent
    <3> QED BY <1>1, <2>3, <3>1
  <2> DEFINE e == Newest(T)
             U == T \ {e}
  <2>5. e \in T /\ e \in Entry BY <2>3, <2>4, RowsBelow, NewestIsOne DEF Dues
  <2>6. U \in SUBSET S /\ Spent(a, U, g[U]) BY <2>2, <2>3, <2>5 DEF F
  <2>7. Dues(U) /\ e \notin U /\ U \cup {e} = T BY <2>5, <2>6, RowsBelow
  <2>8. g[T] = PayOne(g[U], e) BY <1>1, <2>3, <2>4
  <2> HIDE DEF e, U
  <2>9. Spent(a, U \cup {e}, PayOne(g[U], e)) BY <2>5, <2>6, <2>7, PayOneSpends
  <2> QED BY <2>3, <2>7, <2>8, <2>9
<1>3. S \in SUBSET S OBVIOUS
<1> QED BY <1>1, <1>2, <1>3

----------------------------------------------------------------------------
(* What the rows and the requests are like *)

\* An id names one row, no row has one yet to be given, and the row of a sale is
\* its customer's.
Tables ==
    /\ IsFiniteSet(entered)
    /\ \A e, f \in entered : e.id = f.id => e = f
    /\ \A e \in entered : e.id < nextId /\ (e.sale \in Sales => e.cust = CustomerOf[e.sale])

\* A request asks for what it does.
Sent(r) ==
    /\ awaits[r] = "idle" => ask[r] = NothingAsked /\ got[r] = {}
    /\ awaits[r] \in {"entries", "pay"} => ask[r].op = "payment"
    /\ awaits[r] = "initial" => ask[r].op = "initial"
    /\ awaits[r] = "refund" =>
         /\ ask[r].op = "refund"
         /\ ask[r].sale \in Sales
         /\ ask[r].cust = CustomerOf[ask[r].sale]
    /\ awaits[r] \in {"wipe", "erase"} => ask[r].op = "delete"

\* What a request has read are rows of its customer, whatever became of them.
Read(r) ==
    /\ IsFiniteSet(got[r])
    /\ \A e, f \in got[r] : e.id = f.id => e = f
    /\ \A e \in got[r] : e.id < nextId /\ e.cust = ask[r].cust
    /\ \A e \in got[r], f \in entered : f.id = e.id => f.cust = e.cust

RequestsMatch ==
    /\ \A r \in Writers : Sent(r) /\ Read(r)
    /\ IsFiniteSet({r \in Writers : awaits[r] # "idle"})

\* Two requests on a customer at a time are noted, and one that is alone has read
\* what the tables hold.
Noted ==
    \A r, q \in Writers :
      (Underway(r) /\ Underway(q) /\ r # q /\ ask[r].cust = ask[q].cust)
        => ask[r].cust \in met

Fresh ==
    \A r \in Writers :
      LET c == ask[r].cust IN
      (Underway(r) /\ c \notin met) =>
        /\ had[r] = [balance |-> balance[c], credits |-> credits[c]]
        /\ awaits[r] = "pay" => got[r] = OpenEntries(entered, c)

Consistent == LedgerTyped /\ Tables /\ RequestsMatch /\ Noted /\ Fresh

\* A payment adds to what is paid on a row, and sets its status; nothing else.
LEMMA BookedRow ==
  ASSUME NEW e \in Entry, NEW pays \in SUBSET Pay
  PROVE  /\ Booked(e, pays) \in Entry
         /\ Booked(e, pays).id = e.id
         /\ Booked(e, pays).cust = e.cust
         /\ Booked(e, pays).sale = e.sale
         /\ Booked(e, pays).owe = e.owe
<1>1. CASE \E p \in pays : p.entry.id = e.id
  <2> DEFINE p == CHOOSE q \in pays : q.entry.id = e.id
  <2>1. p \in pays BY <1>1
  <2>2. Booked(e, pays) = [e EXCEPT !.paid = @ + p.amount,
                             !.st = IF p.entry.paid + p.amount >= p.entry.owe
                                    THEN "PAID" ELSE "PARTIAL"]
    BY <1>1 DEF Booked
  <2>3. p.amount \in Int BY <2>1 DEF Pay
  <2> HIDE DEF p
  <2>4. PICK x \in Int, t \in PaymentStatus :
           Booked(e, pays) = [e EXCEPT !.paid = @ + x, !.st = t]
    <3>1. "PAID" \in PaymentStatus /\ "PARTIAL" \in PaymentStatus BY DEF PaymentStatus
    <3>2. CASE p.entry.paid + p.amount >= p.entry.owe BY <2>2, <2>3, <3>1, <3>2
    <3>3. CASE ~ (p.entry.paid + p.amount >= p.entry.owe) BY <2>2, <2>3, <3>1, <3>3
    <3> QED BY <3>2, <3>3
  <2>5. e.paid + x \in Int BY DEF Entry
  <2> QED BY <2>4, <2>5 DEF Entry
<1>2. CASE ~ \E p \in pays : p.entry.id = e.id BY <1>2 DEF Booked
<1> QED BY <1>1, <1>2

\* The rows a request has read can be paid one by one.
LEMMA AllocationSpends ==
  ASSUME LedgerTyped, RequestsMatch, NEW r \in Writers
  PROVE  /\ Spent(ask[r].amount, got[r], Allocation(r))
         /\ Allocation(r).pays \in SUBSET Pay
         /\ Allocation(r).left \in Nat
<1>1. ask[r].amount \in Nat BY DEF LedgerTyped, Calls
<1>2. Dues(got[r]) BY DEF RequestsMatch, Read, Dues, LedgerTyped
<1>3. Spent(ask[r].amount, got[r], Allocation(r)) BY <1>1, <1>2, AllocatedSpends DEF Allocation
<1> QED BY <1>3 DEF Spent, Acc

LEMMA NoCallTyped == NothingAsked \in Calls /\ NothingAsked.op = "none"
<1>1. (CHOOSE c \in Customers : TRUE) \in Customers BY LedgerAssumption
<1> QED BY <1>1 DEF NothingAsked, Calls

LEMMA TypeInit == LedgerInit => LedgerTyped
BY LedgerAssumption, NoCallTyped, FS_CardinalityType, FS_EmptySet DEF LedgerInit, LedgerTyped

\* The rows that requests write.
LEMMA NewEntryRow ==
  ASSUME LedgerTyped, NEW c \in Customers, NEW s \in Sales \cup {NoSale}, NEW t \in EntryType,
         NEW owe \in Int, NEW paid \in Int, NEW st \in PaymentStatus
  PROVE  /\ NewEntry(c, s, t, owe, paid, st) \in Entry
         /\ NewEntry(c, s, t, owe, paid, st).id = nextId
         /\ NewEntry(c, s, t, owe, paid, st).cust = c
         /\ NewEntry(c, s, t, owe, paid, st).sale = s
         /\ NewEntry(c, s, t, owe, paid, st).owe = owe
         /\ NewEntry(c, s, t, owe, paid, st).paid = paid
         /\ NewEntry(c, s, t, owe, paid, st).st = st
BY DEF NewEntry, Entry, LedgerTyped

LEMMA BeginTyped ==
  ASSUME LedgerTyped, NEW r \in Writers, NEW c \in Calls, Find(r, c)
  PROVE  /\ ask' \in [Writers -> Calls]
         /\ had' \in [Writers -> [balance : Int, credits : Int]]
         /\ met' \subseteq Customers
<1>1. c.cust \in Customers BY DEF Calls
<1>2. balance[c.cust] \in Int /\ credits[c.cust] \in Int BY <1>1 DEF LedgerTyped
<1> QED BY <1>1, <1>2 DEF Find, LedgerTyped

LEMMA TypeNext ==
  ASSUME Consistent, [LedgerNext]_ledgerVars
  PROVE  LedgerTyped'
<1>1. CASE UNCHANGED ledgerVars BY <1>1 DEF Consistent, LedgerTyped, ledgerVars, ledger
<1>2. ASSUME NEW r \in Writers, Accept(r)
      PROVE  LedgerTyped'
  <2>1. ASSUME NEW c \in Customers, NEW a \in PayAmounts, NEW linked \in Linked,
               BeginPayment(r, c, a, linked)
        PROVE  LedgerTyped'
    <3>1. [op |-> "payment", cust |-> c, sale |-> NoSale, amount |-> a, linked |-> linked]
            \in Calls
      BY LedgerAssumption DEF Calls
    <3> QED BY <2>1, <3>1, BeginTyped DEF BeginPayment, Await, ledger, Consistent, LedgerTyped
  <2>2. ASSUME NEW c \in Customers, NEW a \in DebtAmounts, BeginInitial(r, c, a)
        PROVE  LedgerTyped'
    <3>1. [op |-> "initial", cust |-> c, sale |-> NoSale, amount |-> a, linked |-> FALSE]
            \in Calls
      BY LedgerAssumption DEF Calls
    <3> QED BY <2>2, <3>1, BeginTyped DEF BeginInitial, Await, ledger, Consistent, LedgerTyped
  <2>3. ASSUME NEW c \in Customers, BeginDelete(r, c)
        PROVE  LedgerTyped'
    <3>1. [NothingAsked EXCEPT !.op = "delete", !.cust = c] \in Calls BY NoCallTyped DEF Calls
    <3> QED BY <2>3, <3>1, BeginTyped DEF BeginDelete, Await, ledger, Consistent, LedgerTyped
  <2>4. ASSUME NEW s \in Sales, NEW a \in PayAmounts, BeginRefund(r, s, a)
        PROVE  LedgerTyped'
    <3>1. [op |-> "refund", cust |-> CustomerOf[s], sale |-> s, amount |-> a,
           linked |-> FALSE] \in Calls
      BY LedgerAssumption DEF Calls
    <3>2. got' \in [Writers -> SUBSET Entry] BY <2>4 DEF BeginRefund, Consistent, LedgerTyped
    <3> QED BY <2>4, <3>1, <3>2, BeginTyped DEF BeginRefund, Await, ledger, Consistent, LedgerTyped
  <2> QED BY <1>2, <2>1, <2>2, <2>3, <2>4 DEF Accept
<1>3. ASSUME NEW r \in Writers, LedgerStep(r)
      PROVE  LedgerTyped'
  <2>1. CASE ReadEntries(r)
    BY <2>1 DEF ReadEntries, Await, ledger, Consistent, LedgerTyped, EnteredOf
  <2>2. CASE CommitPayment(r)
    <3>1. Allocation(r).pays \in SUBSET Pay /\ Allocation(r).left \in Nat
      BY AllocationSpends DEF Consistent
    <3>2. ask[r].cust \in Customers /\ ask[r].amount \in Nat
      BY DEF Consistent, LedgerTyped, Calls
    <3>3. {Booked(e, Allocation(r).pays) : e \in entered} \subseteq Entry
      BY <3>1, BookedRow DEF Consistent, LedgerTyped
    <3>4. CreditEntries(ask[r].cust, Allocation(r).left) \subseteq Entry
      BY <3>1, <3>2, LedgerAssumption, NewEntryRow
         DEF CreditEntries, Consistent, EntryType, PaymentStatus
    <3>5. had[r].balance \in Int /\ had[r].credits \in Int BY DEF Consistent, LedgerTyped
    <3> QED
      BY <2>2, <3>1, <3>2, <3>3, <3>4, <3>5
         DEF CommitPayment, Await, Consistent, LedgerTyped, SaleStatus
  <2>3. CASE PaymentThrows(r)
    BY <2>3 DEF PaymentThrows, Throw, Await, ledger, Consistent, LedgerTyped
  <2>4. CASE CommitInitial(r)
    <3>1. ask[r].cust \in Customers /\ ask[r].amount \in Nat
      BY DEF Consistent, LedgerTyped, Calls
    <3>2. NewEntry(ask[r].cust, NoSale, "ADJUSTMENT", ask[r].amount, 0,
                   IF ask[r].amount > 0 THEN "UNPAID" ELSE "PAID") \in Entry
      BY <3>1, LedgerAssumption, NewEntryRow DEF Consistent, EntryType, PaymentStatus
    <3>3. had[r].balance \in Int BY DEF Consistent, LedgerTyped
    <3> QED BY <2>4, <3>1, <3>2, <3>3 DEF CommitInitial, Await, Consistent, LedgerTyped
  <2>5. CASE InitialThrows(r)
    BY <2>5 DEF InitialThrows, Throw, Await, ledger, Consistent, LedgerTyped
  <2>6. CASE WriteRefund(r)
    <3>1. ask[r] \in Calls /\ ask[r].amount \in Int BY DEF Consistent, LedgerTyped, Calls
    <3>2. NewEntry(ask[r].cust, ask[r].sale, "REFUND", ask[r].amount, 0, "REFUNDED")
            \in Entry
      BY <3>1, LedgerAssumption, NewEntryRow DEF Consistent, EntryType, PaymentStatus, Calls
    <3>3. ASSUME NEW e \in Entry
          PROVE  [e EXCEPT !.type = "REFUND", !.owe = ask[r].amount, !.paid = 0,
                           !.st = "REFUNDED"] \in Entry
      <4>1. "REFUND" \in EntryType /\ "REFUNDED" \in PaymentStatus /\ 0 \in Int
        BY DEF EntryType, PaymentStatus
      <4> QED BY <3>1, <4>1 DEF Entry
    <3>4. entered' \subseteq Entry /\ nextId' \in Nat
      <4> DEFINE ids == {e.id : e \in got[r]}
      <4>1. CASE ids = {} BY <2>6, <3>2, <4>1 DEF WriteRefund, Consistent, LedgerTyped
      <4>2. CASE ids # {}
        <5>1. entered' = {IF e.id \in ids
                          THEN [e EXCEPT !.type = "REFUND", !.owe = ask[r].amount,
                                         !.paid = 0, !.st = "REFUNDED"]
                          ELSE e : e \in entered}
          BY <2>6, <4>2 DEF WriteRefund
        <5>2. nextId' = nextId BY <2>6, <4>2 DEF WriteRefund
        <5> HIDE DEF ids
        <5> QED BY <3>3, <5>1, <5>2 DEF Consistent, LedgerTyped
      <4> QED BY <4>1, <4>2
    <3> QED BY <2>6, <3>4 DEF WriteRefund, Await, Consistent, LedgerTyped
  <2>7. CASE WipeEntries(r) BY <2>7 DEF WipeEntries, Await, Consistent, LedgerTyped
  <2>8. CASE DeleteCustomer(r) BY <2>8 DEF DeleteCustomer, Await, Consistent, LedgerTyped
  <2>9. CASE DeleteThrows(r) BY <2>9 DEF DeleteThrows, Throw, Await, ledger, Consistent, LedgerTyped
  <2> QED BY <1>3, <2>1, <2>2, <2>3, <2>4, <2>5, <2>6, <2>7, <2>8, <2>9 DEF LedgerStep
<1>4. ASSUME NEW r \in Writers, Cut(r)
      PROVE  LedgerTyped'
  BY <1>4 DEF Cut, Await, ledger, Consistent, LedgerTyped
<1> QED BY <1>1, <1>2, <1>3, <1>4 DEF LedgerNext

----------------------------------------------------------------------------
(* The rows *)

LEMMA TablesInit == LedgerInit => Tables
<1> SUFFICES ASSUME LedgerInit PROVE Tables OBVIOUS
<1>1. Cardinality(SeedEntries) \in Nat BY LedgerAssumption, FS_CardinalityType
<1>2. \A e \in SeedEntries : e.id \in Nat /\ e.id < 1 + Cardinality(SeedEntries)
  BY <1>1, LedgerAssumption DEF Entry
<1> QED BY <1>2, LedgerAssumption DEF LedgerInit, Tables

\* The rows were there before, with the same customer, or are new.
Evolves ==
    /\ nextId <= nextId'
    /\ \A f \in entered' :
         (\E e \in entered : e.id = f.id /\ e.cust = f.cust) \/ f.id = nextId

\* What f writes of a row leaves its id, its customer and its sale alone.
KeepsRows(f) ==
    \A e \in entered : f[e].id = e.id /\ f[e].cust = e.cust /\ f[e].sale = e.sale

\* At most one row, which is new.
NewRows(N) ==
    /\ IsFiniteSet(N)
    /\ \A m, n \in N : m = n
    /\ \A n \in N : n.id = nextId /\ (n.sale \in Sales => n.cust = CustomerOf[n.sale])

LEMMA NoNewRow == NewRows({})
BY FS_EmptySet DEF NewRows

LEMMA OneNewRow ==
  ASSUME NEW n, n.id = nextId, n.sale \in Sales => n.cust = CustomerOf[n.sale]
  PROVE  NewRows({n})
BY FS_Singleton DEF NewRows

\* Rows rewritten one by one, and perhaps a new one.
LEMMA RowsRewritten ==
  ASSUME LedgerTyped, Tables, NEW f, KeepsRows(f), NEW N, NewRows(N),
         entered' = ImageOf(f, entered) \cup N,
         nextId' = nextId + 1 \/ (nextId' = nextId /\ N = {})
  PROVE  Tables' /\ Evolves
<1> DEFINE I == ImageOf(f, entered)
<1>1. nextId \in Nat /\ \A e \in entered : e.id \in Nat /\ e.id < nextId
  BY DEF LedgerTyped, Tables, Entry
<1>2. IsFiniteSet(I) BY ImageFinite DEF Tables
<1>3. IsFiniteSet(N) BY DEF NewRows
<1>4. IsFiniteSet(entered') BY <1>2, <1>3, FS_Union
<1>5. \A x \in entered' :
        \/ x \in N /\ x.id = nextId
        \/ \E e \in entered : x = f[e] /\ x.id = e.id /\ x.cust = e.cust /\ x.sale = e.sale
  BY DEF KeepsRows, NewRows, ImageOf
<1>6. \A x, y \in entered' : x.id = y.id => x = y BY <1>1, <1>5 DEF Tables, NewRows
<1>7. \A x \in entered' : x.id < nextId' /\ (x.sale \in Sales => x.cust = CustomerOf[x.sale])
  BY <1>1, <1>5 DEF Tables, NewRows
<1>8. Evolves BY <1>1, <1>5 DEF Evolves
<1> QED BY <1>4, <1>6, <1>7, <1>8 DEF Tables

LEMMA DuesKept ==
  ASSUME LedgerTyped, Tables, entered' \subseteq entered, nextId' = nextId
  PROVE  Tables' /\ Evolves
<1>1. IsFiniteSet(entered') BY FS_Subset DEF Tables
<1>2. nextId \in Nat BY DEF LedgerTyped
<1> QED BY <1>1, <1>2 DEF Tables, Evolves

\* The row that a refund found.
Refunded(r) ==
    [e \in entered |->
       IF e.id \in {s.id : s \in got[r]}
       THEN [e EXCEPT !.type = "REFUND", !.owe = ask[r].amount, !.paid = 0,
                      !.st = "REFUNDED"]
       ELSE e]

LEMMA TablesNext ==
  ASSUME Consistent, [LedgerNext]_ledgerVars
  PROVE  Tables' /\ Evolves
<1> USE DEF Consistent
<1>1. CASE UNCHANGED <<entered, nextId>> BY <1>1, DuesKept
<1>2. ASSUME NEW r \in Writers, CommitPayment(r)
      PROVE  Tables' /\ Evolves
  <2> DEFINE pays == Allocation(r).pays
             left == Allocation(r).left
             f == [e \in entered |-> Booked(e, pays)]
             N == CreditEntries(ask[r].cust, left)
  <2>1. pays \in SUBSET Pay /\ left \in Nat BY AllocationSpends
  <2>2. KeepsRows(f) BY <2>1, BookedRow DEF LedgerTyped, KeepsRows
  <2>3. entered' = ImageOf(f, entered) \cup N /\ nextId' = nextId + 1
    BY <1>2 DEF CommitPayment, ImageOf
  <2>4. NewRows(N) BY LedgerAssumption, NoNewRow, OneNewRow DEF CreditEntries, NewEntry
  <2> HIDE DEF f, N
  <2> QED BY <2>2, <2>3, <2>4, RowsRewritten
<1>3. ASSUME NEW r \in Writers, CommitInitial(r)
      PROVE  Tables' /\ Evolves
  <2> DEFINE f == [e \in entered |-> e]
             n == NewEntry(ask[r].cust, NoSale, "ADJUSTMENT", ask[r].amount, 0,
                           IF ask[r].amount > 0 THEN "UNPAID" ELSE "PAID")
  <2>1. entered' = ImageOf(f, entered) \cup {n} /\ nextId' = nextId + 1
    BY <1>3 DEF CommitInitial, ImageOf
  <2>2. KeepsRows(f) BY DEF KeepsRows
  <2>3. NewRows({n}) BY LedgerAssumption, OneNewRow DEF NewEntry
  <2> HIDE DEF f, n
  <2> QED BY <2>1, <2>2, <2>3, RowsRewritten
<1>4. ASSUME NEW r \in Writers, WriteRefund(r)
      PROVE  Tables' /\ Evolves
  <2> DEFINE ids == {e.id : e \in got[r]}
             n == NewEntry(ask[r].cust, ask[r].sale, "REFUND", ask[r].amount, 0,
                           "REFUNDED")
  <2>1. CASE ids = {}
    <3> DEFINE f == [e \in entered |-> e]
    <3>1. entered' = ImageOf(f, entered) \cup {n} /\ nextId' = nextId + 1
      BY <1>4, <2>1 DEF WriteRefund, ImageOf
    <3>2. KeepsRows(f) BY DEF KeepsRows
    <3>3. NewRows({n}) BY <1>4, OneNewRow DEF NewEntry, WriteRefund, RequestsMatch, Sent
    <3> HIDE DEF f, n
    <3> QED BY <3>1, <3>2, <3>3, RowsRewritten
  <2>2. CASE ids # {}
    <3> DEFINE f == Refunded(r)
    <3>1. entered' = ImageOf(f, entered) \cup {} /\ nextId' = nextId
      BY <1>4, <2>2 DEF WriteRefund, Refunded, ImageOf
    <3>2. KeepsRows(f) BY DEF LedgerTyped, Entry, Refunded, KeepsRows
    <3>3. NewRows({}) BY NoNewRow
    <3> HIDE DEF f
    <3> QED BY <3>1, <3>2, <3>3, RowsRewritten
  <2> QED BY <2>1, <2>2
<1>5. ASSUME NEW r \in Writers, WipeEntries(r)
      PROVE  Tables' /\ Evolves
  BY <1>5, DuesKept DEF WipeEntries
<1>6. ASSUME NEW r \in Writers, DeleteCustomer(r)
      PROVE  Tables' /\ Evolves
  BY <1>1, <1>6 DEF DeleteCustomer
<1>7. ASSUME NEW r \in Writers, Accept(r) \/ Cut(r) \/ ReadEntries(r) \/ PaymentThrows(r)
                                   \/ InitialThrows(r) \/ DeleteThrows(r)
      PROVE  Tables' /\ Evolves
  <2>1. UNCHANGED ledger
    BY <1>7 DEF Accept, BeginPayment, BeginInitial, BeginDelete, BeginRefund, Cut,
                ReadEntries, PaymentThrows, InitialThrows, DeleteThrows, Throw
  <2> QED BY <1>1, <2>1 DEF ledger
<1>8. CASE UNCHANGED ledgerVars BY <1>1, <1>8 DEF ledgerVars, ledger
<1> QED BY <1>2, <1>3, <1>4, <1>5, <1>6, <1>7, <1>8 DEF LedgerNext, LedgerStep

----------------------------------------------------------------------------
(* The requests *)

\* A step of r is none of another request.
LEMMA OnlyOneMoves ==
  ASSUME LedgerTyped, NEW r \in Writers, Accept(r) \/ LedgerStep(r) \/ Cut(r)
  PROVE  /\ \A q \in Writers \ {r} :
              awaits'[q] = awaits[q] /\ ask'[q] = ask[q] /\ had'[q] = had[q] /\ got'[q] = got[q]
         /\ awaits'[r] # "idle"
<1>1. ASSUME Accept(r)
      PROVE  /\ \A q \in Writers \ {r} :
                   awaits'[q] = awaits[q] /\ ask'[q] = ask[q] /\ had'[q] = had[q] /\ got'[q] = got[q]
             /\ awaits'[r] # "idle"
  BY <1>1, ZenonT(120) DEF Accept, BeginPayment, BeginInitial, BeginDelete, BeginRefund, Find, Await, LedgerTyped
<1>2. ASSUME LedgerStep(r) \/ Cut(r)
      PROVE  /\ \A q \in Writers \ {r} :
                   awaits'[q] = awaits[q] /\ ask'[q] = ask[q] /\ had'[q] = had[q] /\ got'[q] = got[q]
             /\ awaits'[r] # "idle"
  BY <1>2, ZenonT(120) DEF LedgerStep, ReadEntries, CommitPayment, PaymentThrows, CommitInitial, InitialThrows,
              WriteRefund, WipeEntries, DeleteCustomer, DeleteThrows, Cut, Throw, Await, LedgerTyped
<1> QED BY <1>1, <1>2

\* After it is received, a request goes on asking for the same, and rows are read
\* by ReadEntries alone.
LEMMA StepsAsk ==
  ASSUME LedgerTyped, NEW r \in Writers, LedgerStep(r) \/ Cut(r)
  PROVE  /\ ask' = ask /\ had' = had /\ met' = met
         /\ ReadEntries(r) \/ got' = got
         /\ \/ awaits'[r] \in {"ok", "refused", "cut"}
            \/ awaits[r] = "entries" /\ awaits'[r] = "pay"
            \/ awaits[r] = "wipe" /\ awaits'[r] = "erase"
BY DEF LedgerStep, ReadEntries, CommitPayment, PaymentThrows, CommitInitial, InitialThrows,
       WriteRefund, WipeEntries, DeleteCustomer, DeleteThrows, Cut, Throw, Await, LedgerTyped

\* A request that is received asks for what it will do, and if it is a refund it
\* has found at most one row.
LEMMA BeginsAsk ==
  ASSUME LedgerTyped, Tables, RequestsMatch, NEW r \in Writers, Accept(r)
  PROVE  /\ awaits[r] = "idle"
         /\ Sent(r)'
         /\ got'[r] = {} \/ \E e \in entered : got'[r] = {e} /\ e.cust = ask'[r].cust
         /\ awaits'[r] \in {"entries", "initial", "refund", "wipe"}
         /\ \E c \in Calls : Find(r, c) /\ ask'[r] = c
         /\ UNCHANGED ledger
<1>1. awaits[r] = "idle" /\ got[r] = {} BY DEF Accept, RequestsMatch, Sent
<1>2. ASSUME NEW c \in Customers, NEW a \in PayAmounts, NEW linked \in Linked,
             BeginPayment(r, c, a, linked)
      PROVE  /\ awaits'[r] = "entries" /\ got'[r] = {} /\ ask'[r].op = "payment"
             /\ \E cc \in Calls : Find(r, cc) /\ ask'[r] = cc
             /\ UNCHANGED ledger
  <2>1. [op |-> "payment", cust |-> c, sale |-> NoSale, amount |-> a, linked |-> linked]
          \in Calls
    BY LedgerAssumption DEF Calls
  <2> QED BY <1>1, <1>2, <2>1 DEF BeginPayment, Find, Await, LedgerTyped
<1>3. ASSUME NEW c \in Customers, NEW a \in DebtAmounts, BeginInitial(r, c, a)
      PROVE  /\ awaits'[r] = "initial" /\ got'[r] = {} /\ ask'[r].op = "initial"
             /\ \E cc \in Calls : Find(r, cc) /\ ask'[r] = cc
             /\ UNCHANGED ledger
  <2>1. [op |-> "initial", cust |-> c, sale |-> NoSale, amount |-> a, linked |-> FALSE]
          \in Calls
    BY LedgerAssumption DEF Calls
  <2> QED BY <1>1, <1>3, <2>1 DEF BeginInitial, Find, Await, LedgerTyped
<1>4. ASSUME NEW c \in Customers, BeginDelete(r, c)
      PROVE  /\ awaits'[r] = "wipe" /\ got'[r] = {} /\ ask'[r].op = "delete"
             /\ \E cc \in Calls : Find(r, cc) /\ ask'[r] = cc
             /\ UNCHANGED ledger
  <2> DEFINE cc == [NothingAsked EXCEPT !.op = "delete", !.cust = c]
  <2>1. cc \in Calls /\ cc.op = "delete" BY NoCallTyped DEF Calls
  <2> HIDE DEF cc
  <2>2. Find(r, cc) /\ awaits' = [awaits EXCEPT ![r] = "wipe"] /\ UNCHANGED <<ledger, got>>
    BY <1>4 DEF BeginDelete, Await, cc
  <2> QED BY <1>1, <2>1, <2>2 DEF Find, LedgerTyped
<1>5. ASSUME NEW s \in Sales, NEW a \in PayAmounts, BeginRefund(r, s, a)
      PROVE  /\ awaits'[r] = "refund"
             /\ ask'[r].op = "refund" /\ ask'[r].sale = s
             /\ ask'[r].cust = CustomerOf[s]
             /\ got'[r] = {} \/ \E e \in entered : got'[r] = {e} /\ e.cust = ask'[r].cust
             /\ \E cc \in Calls : Find(r, cc) /\ ask'[r] = cc
             /\ UNCHANGED ledger
  <2> DEFINE cc == [op |-> "refund", cust |-> CustomerOf[s], sale |-> s, amount |-> a,
                    linked |-> FALSE]
  <2>1. cc \in Calls /\ cc.op = "refund" /\ cc.sale = s /\ cc.cust = CustomerOf[s]
    BY LedgerAssumption DEF Calls
  <2> HIDE DEF cc
  <2>2. Find(r, cc) /\ awaits' = [awaits EXCEPT ![r] = "refund"] /\ UNCHANGED ledger
    BY <1>5 DEF BeginRefund, Await, cc
  <2>3. ask'[r] = cc BY <2>2 DEF Find, LedgerTyped
  <2>4. got'[r] = {} \/ \E e \in entered : got'[r] = {e} /\ e.sale = s
    BY <1>1, <1>5 DEF BeginRefund, LedgerTyped
  <2> QED BY <1>1, <2>1, <2>2, <2>3, <2>4 DEF Tables, LedgerTyped
<1> QED BY <1>1, <1>2, <1>3, <1>4, <1>5 DEF Accept, Sent

\* What was read stays what it is while the rows evolve.
LEMMA ReadStays ==
  ASSUME LedgerTyped, NEW r \in Writers, Read(r), Evolves, nextId' \in Nat,
         got'[r] = got[r], ask'[r] = ask[r]
  PROVE  Read(r)'
<1>1. nextId \in Nat /\ \A e \in got[r] : e.id \in Nat BY DEF LedgerTyped, Entry
<1> QED BY <1>1 DEF Read, Evolves

LEMMA MatchInit == LedgerInit => RequestsMatch
<1> SUFFICES ASSUME LedgerInit PROVE RequestsMatch OBVIOUS
<1>1. {r \in Writers : awaits[r] # "idle"} = {} BY DEF LedgerInit
<1> QED BY <1>1, FS_EmptySet DEF LedgerInit, RequestsMatch, Sent, Read

LEMMA MatchNext ==
  ASSUME Consistent, [LedgerNext]_ledgerVars
  PROVE  RequestsMatch'
<1> USE DEF Consistent
<1>1. Evolves /\ LedgerTyped' /\ nextId' \in Nat BY TablesNext, TypeNext DEF LedgerTyped
<1>2. CASE UNCHANGED ledgerVars
  <2>1. \A r \in Writers : Sent(r)' BY <1>2 DEF RequestsMatch, Sent, ledgerVars
  <2>2. \A r \in Writers : Read(r)' BY <1>1, <1>2, ReadStays DEF RequestsMatch, ledgerVars
  <2> QED BY <1>2, <2>1, <2>2 DEF RequestsMatch, ledgerVars
<1>3. ASSUME NEW r \in Writers, Accept(r) \/ LedgerStep(r) \/ Cut(r)
      PROVE  RequestsMatch'
  <2>1. /\ \A q \in Writers \ {r} :
              awaits'[q] = awaits[q] /\ ask'[q] = ask[q] /\ had'[q] = had[q] /\ got'[q] = got[q]
        /\ awaits'[r] # "idle"
    BY <1>3, OnlyOneMoves
  <2>2. \A q \in Writers \ {r} : Sent(q)' BY <2>1 DEF RequestsMatch, Sent
  <2>3. \A q \in Writers \ {r} : Read(q)' BY <1>1, <2>1, ReadStays DEF RequestsMatch
  <2>4. Sent(r)'
    <3>1. CASE Accept(r) BY <3>1, BeginsAsk
    <3>2. CASE LedgerStep(r) \/ Cut(r) BY <3>2, StepsAsk DEF RequestsMatch, Sent
    <3> QED BY <1>3, <3>1, <3>2
  <2>5. Read(r)'
    <3>1. CASE Accept(r)
      <4>1. CASE got'[r] = {} BY <4>1, FS_EmptySet DEF Read
      <4>2. ASSUME NEW e \in entered, got'[r] = {e}, e.cust = ask'[r].cust
            PROVE  Read(r)'
        <5>1. UNCHANGED ledger BY <3>1, BeginsAsk
        <5>2. entered' = entered /\ nextId' = nextId BY <5>1 DEF ledger
        <5>3. IsFiniteSet(got'[r]) BY <4>2, FS_Singleton
        <5>4. e.id < nextId /\ \A f \in entered : f.id = e.id => f = e BY DEF Tables
        <5> QED BY <4>2, <5>2, <5>3, <5>4 DEF Read
      <4> QED BY <3>1, <4>1, <4>2, BeginsAsk
    <3>2. CASE ReadEntries(r)
      <4>1. got'[r] \subseteq {e \in entered : e.cust = ask[r].cust}
        BY <3>2 DEF ReadEntries, EnteredOf, LedgerTyped
      <4>2. UNCHANGED <<entered, nextId, ask>> BY <3>2 DEF ReadEntries, ledger
      <4>3. IsFiniteSet(got'[r]) BY <4>1, FS_Subset DEF Tables
      <4> QED BY <4>1, <4>2, <4>3 DEF Read, Tables
    <3>3. CASE (LedgerStep(r) \/ Cut(r)) /\ ~ ReadEntries(r)
      BY <1>1, <3>3, StepsAsk, ReadStays DEF RequestsMatch
    <3> QED BY <1>3, <3>1, <3>2, <3>3
  <2>6. IsFiniteSet({q \in Writers : awaits'[q] # "idle"})
    <3> DEFINE X == {q \in Writers : awaits[q] # "idle"}
    <3>1. {q \in Writers : awaits'[q] # "idle"} = X \cup {r} BY <2>1
    <3>2. IsFiniteSet(X) BY DEF RequestsMatch
    <3> HIDE DEF X
    <3> QED BY <3>1, <3>2, FS_AddElement
  <2> QED BY <2>2, <2>3, <2>4, <2>5, <2>6 DEF RequestsMatch
<1> QED BY <1>2, <1>3 DEF LedgerNext

\* Writers that are received at a time on one customer are noted.
LEMMA AloneNext ==
  ASSUME Consistent, [LedgerNext]_ledgerVars
  PROVE  Noted'
<1> USE DEF Consistent
<1>1. CASE UNCHANGED ledgerVars BY <1>1 DEF Noted, Underway, ledgerVars
<1>2. ASSUME NEW r \in Writers, Accept(r) \/ LedgerStep(r) \/ Cut(r)
      PROVE  Noted'
  <2>1. /\ \A q \in Writers \ {r} : awaits'[q] = awaits[q] /\ ask'[q] = ask[q]
        /\ awaits'[r] # "idle"
    BY <1>2, OnlyOneMoves
  <2>2. CASE Accept(r)
    <3>1. PICK c \in Calls : Find(r, c) /\ ask'[r] = c BY <2>2, BeginsAsk
    <3>2. \A q \in Writers : Underway(q) /\ ask[q].cust = c.cust => c.cust \in met'
      BY <3>1 DEF Find
    <3>3. met \subseteq met' BY <3>1 DEF Find
    <3> QED BY <2>1, <3>1, <3>2, <3>3 DEF Noted, Underway
  <2>3. CASE LedgerStep(r) \/ Cut(r)
    <3>1. ask' = ask /\ met' = met /\ Underway(r)
      BY <2>3, StepsAsk DEF LedgerStep, ReadEntries, CommitPayment, PaymentThrows, CommitInitial,
          InitialThrows, WriteRefund, WipeEntries, DeleteCustomer, DeleteThrows, Cut, Underway
    <3> QED BY <2>1, <3>1 DEF Noted, Underway
  <2> QED BY <1>2, <2>2, <2>3
<1> QED BY <1>1, <1>2 DEF LedgerNext

\* What a step of r writes of a customer other than its own: nothing.
LEMMA OthersKept ==
  ASSUME Consistent, NEW r \in Writers, Accept(r) \/ LedgerStep(r) \/ Cut(r),
         NEW c \in Customers, c # ask[r].cust \/ Accept(r)
  PROVE  /\ balance'[c] = balance[c]
         /\ credits'[c] = credits[c]
         /\ \A e \in Entry : e.cust = c => (e \in entered' <=> e \in entered)
<1> USE DEF Consistent
<1>1. CASE UNCHANGED ledger BY <1>1 DEF ledger
<1>2. CASE c # ask[r].cust /\ CommitPayment(r)
  <2> DEFINE pays == Allocation(r).pays
             left == Allocation(r).left
  <2>1. pays \in SUBSET Pay /\ \A p \in pays : p.entry \in got[r] BY AllocationSpends DEF Spent
  <2>2. ASSUME NEW e \in entered, e.cust = c
        PROVE  Booked(e, pays) = e
    <3>1. ~ \E p \in pays : p.entry.id = e.id BY <1>2, <2>1, <2>2 DEF RequestsMatch, Read
    <3> QED BY <3>1 DEF Booked
  <2>3. \A e \in entered : Booked(e, pays).cust = e.cust BY <2>1, BookedRow DEF LedgerTyped
  <2>4. \A e \in CreditEntries(ask[r].cust, left) : e.cust = ask[r].cust
    BY DEF CreditEntries, NewEntry
  <2>5. entered' = {Booked(e, pays) : e \in entered} \cup CreditEntries(ask[r].cust, left)
    BY <1>2 DEF CommitPayment
  <2>6. balance'[c] = balance[c] /\ credits'[c] = credits[c]
    BY <1>2 DEF CommitPayment, LedgerTyped
  <2> QED BY <1>2, <2>2, <2>3, <2>4, <2>5, <2>6
<1>3. CASE c # ask[r].cust /\ CommitInitial(r) BY <1>3 DEF CommitInitial, NewEntry, LedgerTyped
<1>4. CASE c # ask[r].cust /\ WriteRefund(r)
  <2> DEFINE ids == {e.id : e \in got[r]}
  <2>1. balance' = balance /\ credits' = credits BY <1>4 DEF WriteRefund
  <2>2. CASE ids = {} BY <1>4, <2>1, <2>2 DEF WriteRefund, NewEntry
  <2>3. CASE ids # {}
    <3>1. entered' = ImageOf(Refunded(r), entered)
      BY <1>4, <2>3 DEF WriteRefund, Refunded, ImageOf
    <3>2. \A e \in entered : e.cust = c => Refunded(r)[e] = e
      BY <1>4 DEF RequestsMatch, Read, Refunded
    <3>3. \A e \in entered : Refunded(r)[e].cust = e.cust BY DEF Refunded, LedgerTyped, Entry
    <3> QED BY <2>1, <3>1, <3>2, <3>3 DEF ImageOf
  <2> QED BY <2>2, <2>3
<1>5. CASE c # ask[r].cust /\ WipeEntries(r) BY <1>5 DEF WipeEntries, EnteredOf
<1>6. CASE DeleteCustomer(r) BY <1>6 DEF DeleteCustomer
<1> QED
  BY <1>1, <1>2, <1>3, <1>4, <1>5, <1>6, BeginsAsk
     DEF LedgerStep, ReadEntries, PaymentThrows, InitialThrows, DeleteThrows, Throw, Cut

LEMMA FreshNext ==
  ASSUME Consistent, [LedgerNext]_ledgerVars
  PROVE  Fresh'
<1> USE DEF Consistent
<1>1. CASE UNCHANGED ledgerVars BY <1>1 DEF Fresh, Underway, OpenEntries, ledgerVars, ledger
<1>2. ASSUME NEW r \in Writers, Accept(r) \/ LedgerStep(r) \/ Cut(r), NEW q \in Writers,
             Underway(q)', ask'[q].cust \notin met'
      PROVE  LET c == ask'[q].cust IN
             /\ had'[q] = [balance |-> balance'[c], credits |-> credits'[c]]
             /\ awaits'[q] = "pay" => got'[q] = OpenEntries(entered', c)
  <2> DEFINE c == ask'[q].cust
  <2>1. /\ \A p \in Writers \ {r} :
             awaits'[p] = awaits[p] /\ ask'[p] = ask[p] /\ had'[p] = had[p] /\ got'[p] = got[p]
        /\ awaits'[r] # "idle"
    BY <1>2, OnlyOneMoves
  <2>2. c \in Customers BY <1>2, TypeNext DEF LedgerTyped, Calls
  <2>3. CASE q # r
    <3>1. Underway(q) /\ ask[q].cust = c BY <1>2, <2>1, <2>3 DEF Underway
    <3>2. c \notin met BY <1>2, StepsAsk, BeginsAsk DEF Find
    <3>3. c # ask[r].cust \/ Accept(r)
      <4>1. CASE LedgerStep(r) \/ Cut(r)
        <5>1. Underway(r)
          BY <4>1 DEF LedgerStep, ReadEntries, CommitPayment, PaymentThrows, CommitInitial,
             InitialThrows, WriteRefund, WipeEntries, DeleteCustomer, DeleteThrows, Cut, Underway
        <5> QED BY <2>3, <3>1, <3>2, <5>1 DEF Noted
      <4> QED BY <1>2, <4>1
    <3>4. /\ balance'[c] = balance[c] /\ credits'[c] = credits[c]
          /\ \A e \in Entry : e.cust = c => (e \in entered' <=> e \in entered)
      BY <1>2, <2>2, <3>3, OthersKept
    <3>5. OpenEntries(entered', c) = OpenEntries(entered, c)
      BY <3>4, TypeNext DEF OpenEntries, LedgerTyped
    <3> QED BY <2>1, <2>3, <3>1, <3>2, <3>4, <3>5 DEF Fresh
  <2>4. CASE q = r /\ Accept(r)
    <3>1. PICK cc \in Calls : Find(r, cc) /\ ask'[r] = cc BY <2>4, BeginsAsk
    <3>2. UNCHANGED ledger /\ awaits'[r] # "pay" BY <2>4, BeginsAsk
    <3> QED BY <2>4, <3>1, <3>2 DEF Find, LedgerTyped, ledger
  <2>5. CASE q = r /\ (LedgerStep(r) \/ Cut(r))
    <3>1. /\ ask' = ask /\ had' = had /\ met' = met
          /\ \/ awaits[r] = "entries" /\ awaits'[r] = "pay"
             \/ awaits[r] = "wipe" /\ awaits'[r] = "erase"
      BY <1>2, <2>5, StepsAsk DEF Underway
    <3>2. CASE ReadEntries(r)
      BY <1>2, <2>5, <3>1, <3>2
         DEF ReadEntries, Fresh, Underway, OpenEntries, EnteredOf, LedgerTyped, ledger
    <3>3. CASE WipeEntries(r)
      BY <1>2, <2>5, <3>1, <3>3 DEF WipeEntries, Fresh, Underway, LedgerTyped
    <3>4. ReadEntries(r) \/ WipeEntries(r)
      BY <2>5, <3>1 DEF LedgerStep, ReadEntries, CommitPayment, PaymentThrows, CommitInitial,
         InitialThrows, WriteRefund, WipeEntries, DeleteCustomer, DeleteThrows, Cut, Throw,
         Await, LedgerTyped
    <3> QED BY <3>2, <3>3, <3>4
  <2> QED BY <1>2, <2>3, <2>4, <2>5
<1> QED BY <1>1, <1>2 DEF LedgerNext, Fresh

LEMMA ConsistentInit == LedgerInit => Consistent
<1>1. LedgerInit => Noted /\ Fresh BY DEF LedgerInit, Noted, Fresh, Underway
<1> QED BY <1>1, TypeInit, TablesInit, MatchInit DEF Consistent

LEMMA ConsistentNext == Consistent /\ [LedgerNext]_ledgerVars => Consistent'
BY TypeNext, TablesNext, MatchNext, AloneNext, FreshNext DEF Consistent

----------------------------------------------------------------------------
(* What the rows add up to *)

PaidOf == [e \in Entry |-> e.paid]
OwedOf == [e \in Entry |-> Owed(e)]
DebtOf == [e \in Entry |-> IF Open(e) THEN Owed(e) ELSE 0]

LEMMA RowInts ==
  ASSUME NEW S \in SUBSET Entry
  PROVE  Ints(PaidOf, S) /\ Ints(OwedOf, S) /\ Ints(DebtOf, S)
BY DEF Ints, PaidOf, OwedOf, DebtOf, Owed, Entry

LEMMA TotalPaidIsSum ==
  ASSUME NEW S \in SUBSET Entry, IsFiniteSet(S)
  PROVE  TotalPaidOn(S) = Sum(PaidOf, S)
<1> DEFINE P(g) == g = [s \in SUBSET S |-> IF s = {} THEN 0
                         ELSE (CHOOSE x \in s : TRUE).paid + g[s \ {CHOOSE x \in s : TRUE}]]
<1>1. TotalPaidOn(S) = (CHOOSE g : P(g))[S] BY DEF TotalPaidOn, MapThenSumSet, MapThenFoldSet
<1>2. \A g : P(g) <=> Adds(g, PaidOf, S)
  <2> SUFFICES ASSUME NEW g PROVE P(g) <=> Adds(g, PaidOf, S) OBVIOUS
  <2>1. ASSUME NEW s \in SUBSET S, s # {}
        PROVE  (CHOOSE x \in s : TRUE).paid + g[s \ {CHOOSE x \in s : TRUE}] = PaidOf[Picked(s)] + g[s \ {Picked(s)}]
    <3>1. Picked(s) = (CHOOSE x \in s : TRUE) /\ Picked(s) \in Entry BY <2>1 DEF Picked
    <3>2. PaidOf[Picked(s)] = Picked(s).paid BY <3>1 DEF PaidOf
    <3> QED BY <3>1, <3>2
  <2> QED BY <2>1 DEF Adds
<1>3. \E g : Adds(g, PaidOf, S) BY RowInts, AddsExists
<1> DEFINE gg == CHOOSE g : P(g)
<1>4. P(gg)
  <2> HIDE DEF P
  <2> QED BY <1>2, <1>3
<1> HIDE DEF P, gg
<1>5. Adds(gg, PaidOf, S) /\ S \in SUBSET S BY <1>2, <1>4
<1>6. Sum(PaidOf, S) = gg[S] BY <1>5, RowInts, SumIs
<1> QED BY <1>1, <1>6 DEF gg

LEMMA TotalOwedIsSum ==
  ASSUME NEW S \in SUBSET Entry, IsFiniteSet(S)
  PROVE  TotalOwedOn(S) = Sum(OwedOf, S)
<1> DEFINE P(g) == g = [s \in SUBSET S |-> IF s = {} THEN 0
                         ELSE Owed(CHOOSE x \in s : TRUE) + g[s \ {CHOOSE x \in s : TRUE}]]
<1>1. TotalOwedOn(S) = (CHOOSE g : P(g))[S] BY DEF TotalOwedOn, MapThenSumSet, MapThenFoldSet
<1>2. \A g : P(g) <=> Adds(g, OwedOf, S)
  <2> SUFFICES ASSUME NEW g PROVE P(g) <=> Adds(g, OwedOf, S) OBVIOUS
  <2>1. ASSUME NEW s \in SUBSET S, s # {}
        PROVE  Owed(CHOOSE x \in s : TRUE) + g[s \ {CHOOSE x \in s : TRUE}] = OwedOf[Picked(s)] + g[s \ {Picked(s)}]
    <3>1. Picked(s) = (CHOOSE x \in s : TRUE) /\ Picked(s) \in Entry BY <2>1 DEF Picked
    <3>2. OwedOf[Picked(s)] = Owed(Picked(s)) BY <3>1 DEF OwedOf
    <3> QED BY <3>1, <3>2
  <2> QED BY <2>1 DEF Adds
<1>3. \E g : Adds(g, OwedOf, S) BY RowInts, AddsExists
<1> DEFINE gg == CHOOSE g : P(g)
<1>4. P(gg)
  <2> HIDE DEF P
  <2> QED BY <1>2, <1>3
<1> HIDE DEF P, gg
<1>5. Adds(gg, OwedOf, S) /\ S \in SUBSET S BY <1>2, <1>4
<1>6. Sum(OwedOf, S) = gg[S] BY <1>5, RowInts, SumIs
<1> QED BY <1>1, <1>6 DEF gg

\* The debt on open rows is what all rows add to it.
LEMMA DebtIsSum ==
  ASSUME NEW S \in SUBSET Entry, IsFiniteSet(S), NEW c
  PROVE  TotalOwedOn(OpenEntries(S, c)) = Sum(DebtOf, {e \in S : e.cust = c})
<1> DEFINE O == OpenEntries(S, c)
           C == {e \in S : e.cust = c} \ O
<1>1. /\ O \in SUBSET Entry /\ C \in SUBSET Entry
      /\ O \cap C = {} /\ O \cup C = {e \in S : e.cust = c}
      /\ \A e \in O : DebtOf[e] = OwedOf[e]
      /\ \A e \in C : DebtOf[e] = 0
  BY DEF OpenEntries, DebtOf, OwedOf
<1>2. IsFiniteSet(O) /\ IsFiniteSet(C) BY FS_Subset DEF OpenEntries
<1>3. TotalOwedOn(O) = Sum(OwedOf, O) BY <1>1, <1>2, TotalOwedIsSum
<1> HIDE DEF O, C
<1>4. Sum(OwedOf, O) = Sum(DebtOf, O) BY <1>1, <1>2, RowInts, SumSame
<1>5. Sum(DebtOf, C) = 0 BY <1>1, <1>2, SumZero
<1>6. Sum(DebtOf, O \cup C) = Sum(DebtOf, O) + Sum(DebtOf, C) BY <1>1, <1>2, RowInts, SumUnion
<1>7. Sum(DebtOf, O) \in Int BY <1>1, <1>2, RowInts, SumInt
<1>8. \A n \in Int : n + 0 = n OBVIOUS
<1> QED BY <1>1, <1>3, <1>4, <1>5, <1>6, <1>7, <1>8 DEF O

\* What is received of a customer is the sum of what its payments ask for.
PaidFor(c) == {r \in Writers : awaits[r] = "ok" /\ ask[r].op = "payment" /\ ask[r].cust = c}
AskedOf == [r \in Writers |-> ask[r].amount]

LEMMA ReceivedIsSum ==
  ASSUME LedgerTyped, RequestsMatch, NEW c
  PROVE  /\ Received(c) = Sum(AskedOf, PaidFor(c))
         /\ IsFiniteSet(PaidFor(c))
         /\ Ints(AskedOf, Writers)
<1> DEFINE S == PaidFor(c)
           P(g) == g = [s \in SUBSET S |-> IF s = {} THEN 0
                         ELSE ask[CHOOSE x \in s : TRUE].amount + g[s \ {CHOOSE x \in s : TRUE}]]
<1>1. Received(c) = (CHOOSE g : P(g))[S] BY DEF Received, PaidFor, MapThenSumSet, MapThenFoldSet
<1>2. Ints(AskedOf, Writers) /\ S \in SUBSET Writers
  BY DEF Ints, AskedOf, LedgerTyped, Calls, PaidFor
<1>3. IsFiniteSet(S)
  <2>1. S \subseteq {r \in Writers : awaits[r] # "idle"} BY DEF PaidFor
  <2> QED BY <2>1, FS_Subset DEF RequestsMatch
<1> HIDE DEF S
<1>4. \A g : P(g) <=> Adds(g, AskedOf, S)
  <2> SUFFICES ASSUME NEW g PROVE P(g) <=> Adds(g, AskedOf, S) OBVIOUS
  <2>1. ASSUME NEW s \in SUBSET S, s # {}
        PROVE  ask[CHOOSE x \in s : TRUE].amount + g[s \ {CHOOSE x \in s : TRUE}]
                 = AskedOf[Picked(s)] + g[s \ {Picked(s)}]
    <3>1. Picked(s) = (CHOOSE x \in s : TRUE) /\ Picked(s) \in Writers BY <1>2, <2>1 DEF Picked
    <3>2. AskedOf[Picked(s)] = ask[Picked(s)].amount BY <3>1 DEF AskedOf
    <3> QED BY <3>1, <3>2
  <2> QED BY <2>1 DEF Adds
<1>5. Ints(AskedOf, S) BY <1>2 DEF Ints
<1>6. \E g : Adds(g, AskedOf, S) BY <1>3, <1>5, AddsExists
<1> DEFINE gg == CHOOSE g : P(g)
<1>7. P(gg)
  <2> HIDE DEF P
  <2> QED BY <1>4, <1>6
<1> HIDE DEF P, gg
<1>8. Adds(gg, AskedOf, S) /\ S \in SUBSET S BY <1>4, <1>7
<1>9. Sum(AskedOf, S) = gg[S] BY <1>3, <1>5, <1>8, SumIs
<1> QED BY <1>1, <1>2, <1>3, <1>9 DEF gg, S

\* What the payment r adds to a row.
AddedOf(r) ==
    [e \in Entry |->
       IF \E p \in Allocation(r).pays : p.entry.id = e.id
       THEN (CHOOSE p \in Allocation(r).pays : p.entry.id = e.id).amount
       ELSE 0]

\* Each row has at most one payment of r, and it adds its amount.
LEMMA AddedToRow ==
  ASSUME Consistent, NEW r \in Writers
  PROVE  /\ Ints(AddedOf(r), Entry)
         /\ \A p, q \in Allocation(r).pays : p.entry.id = q.entry.id => p = q
         /\ \A e \in Entry, p \in Allocation(r).pays :
              p.entry.id = e.id => AddedOf(r)[e] = p.amount
         /\ \A e \in Entry :
              (~ \E p \in Allocation(r).pays : p.entry.id = e.id) => AddedOf(r)[e] = 0
         /\ \A e \in Entry :
              Booked(e, Allocation(r).pays).paid = e.paid + AddedOf(r)[e]
<1> DEFINE pays == Allocation(r).pays
<1>1. /\ pays \in SUBSET Pay
      /\ \A p \in pays : p.entry \in got[r]
      /\ \A p, q \in pays : p.entry = q.entry => p = q
  BY AllocationSpends DEF Spent, Consistent
<1>2. \A p, q \in pays : p.entry.id = q.entry.id => p = q
  BY <1>1 DEF Consistent, RequestsMatch, Read
<1> HIDE DEF pays
<1>3. ASSUME NEW e \in Entry, NEW p \in pays, p.entry.id = e.id
      PROVE  /\ (CHOOSE q \in pays : q.entry.id = e.id) = p
             /\ p.amount \in Int
  BY <1>1, <1>2, <1>3 DEF Pay
<1>4. ASSUME NEW e \in Entry, NEW p \in pays, p.entry.id = e.id
      PROVE  AddedOf(r)[e] = p.amount /\ Booked(e, pays).paid = e.paid + p.amount
  <2>1. AddedOf(r)[e] = p.amount BY <1>3, <1>4 DEF AddedOf, pays
  <2>2. Booked(e, pays) = [e EXCEPT !.paid = @ + p.amount,
                             !.st = IF p.entry.paid + p.amount >= p.entry.owe
                                    THEN "PAID" ELSE "PARTIAL"]
    BY <1>3, <1>4 DEF Booked
  <2> QED BY <2>1, <2>2 DEF Entry
<1>5. ASSUME NEW e \in Entry, ~ \E p \in pays : p.entry.id = e.id
      PROVE  AddedOf(r)[e] = 0 /\ Booked(e, pays).paid = e.paid + 0
  <2>1. Booked(e, pays) = e BY <1>5 DEF Booked
  <2>2. e.paid \in Int BY DEF Entry
  <2> QED BY <1>5, <2>1, <2>2 DEF AddedOf, pays
<1>6. \A e \in Entry : AddedOf(r)[e] \in Int BY <1>3, <1>4, <1>5
<1> QED BY <1>2, <1>4, <1>5, <1>6 DEF Ints, pays

\* What r adds to the rows of its customer is what it takes from its amount.
LEMMA AddedToAll ==
  ASSUME Consistent, NEW r \in Writers, Bookable(r)
  PROVE  Sum(AddedOf(r), EnteredOf(ask[r].cust)) = Sum(AmountOf, Allocation(r).pays)
<1> DEFINE E == EnteredOf(ask[r].cust)
           pays == Allocation(r).pays
           row == [p \in pays |-> CHOOSE e \in entered : e.id = p.entry.id]
           H == ImageOf(row, pays)
           M == E \ H
<1>1. /\ pays \in SUBSET Pay /\ IsFiniteSet(pays)
      /\ \A p \in pays : p.entry \in got[r]
  BY AllocationSpends DEF Spent, Consistent
<1>2. \A p \in pays : \E e \in entered : e.id = p.entry.id BY DEF Bookable
<1>3. \A p \in pays : row[p] \in E /\ row[p] \in Entry /\ row[p].id = p.entry.id
  <2> SUFFICES ASSUME NEW p \in pays
               PROVE  row[p] \in E /\ row[p] \in Entry /\ row[p].id = p.entry.id
    OBVIOUS
  <2>1. row[p] \in entered /\ row[p].id = p.entry.id BY <1>2
  <2> HIDE DEF row
  <2> QED BY <1>1, <2>1 DEF Consistent, LedgerTyped, RequestsMatch, Read, EnteredOf
<1> HIDE DEF row
<1>4. \A p, q \in pays : row[p] = row[q] => p = q BY <1>3, AddedToRow
<1>5. \A p \in pays : AddedOf(r)[row[p]] = AmountOf[p]
  <2> SUFFICES ASSUME NEW p \in pays PROVE AddedOf(r)[row[p]] = AmountOf[p] OBVIOUS
  <2>1. AddedOf(r)[row[p]] = p.amount BY <1>3, AddedToRow
  <2> QED BY <1>1, <2>1 DEF AmountOf
<1>6. Ints(AmountOf, pays) BY <1>1 DEF Ints, AmountOf, Pay
<1> HIDE DEF pays
<1>7. Sum(AddedOf(r), H) = Sum(AmountOf, pays) BY <1>1, <1>4, <1>5, <1>6, SumMoved
<1>8. E \in SUBSET Entry /\ IsFiniteSet(E)
  BY FS_Subset DEF EnteredOf, Consistent, LedgerTyped, Tables
<1>9. H \in SUBSET E BY <1>3 DEF ImageOf
<1>10. IsFiniteSet(H) /\ IsFiniteSet(M) /\ H \cap M = {} /\ H \cup M = E
  BY <1>8, <1>9, FS_Subset
<1>11. ASSUME NEW e \in M PROVE AddedOf(r)[e] = 0
  <2>1. ASSUME NEW p \in pays, p.entry.id = e.id PROVE FALSE
    <3>1. row[p] \in entered /\ e \in entered /\ row[p].id = e.id BY <1>3, <2>1 DEF EnteredOf
    <3>2. row[p] = e BY <3>1 DEF Consistent, Tables
    <3> QED BY <3>2 DEF ImageOf
  <2>2. e \in Entry BY <1>8
  <2> QED BY <2>1, <2>2, AddedToRow DEF pays
<1>12. Ints(AddedOf(r), H) /\ Ints(AddedOf(r), M) BY <1>8, <1>9, AddedToRow DEF Ints
<1> HIDE DEF H, M, E
<1>13. Sum(AddedOf(r), H \cup M) = Sum(AddedOf(r), H) + Sum(AddedOf(r), M)
  BY <1>10, <1>12, SumUnion
<1>14. Sum(AddedOf(r), M) = 0 BY <1>10, <1>11, SumZero
<1>15. Sum(AddedOf(r), H) \in Int BY <1>10, <1>12, SumInt
<1>16. \A n \in Int : n + 0 = n OBVIOUS
<1>17. Sum(AddedOf(r), E) = Sum(AmountOf, pays) BY <1>7, <1>10, <1>13, <1>14, <1>15, <1>16
<1> QED BY <1>17 DEF E, pays

\* The rows of its customer after a payment: each as it was booked, and what is left.
LEMMA PaidRows ==
  ASSUME Consistent, NEW r \in Writers, CommitPayment(r), NEW c, c = ask[r].cust,
         NEW v, Ints(v, Entry)
  PROVE  LET N == CreditEntries(c, Allocation(r).left)
         IN  /\ N \in SUBSET Entry /\ IsFiniteSet(N)
             /\ Sum(v, EnteredOf(c)') =
                  Sum([e \in Entry |-> v[Booked(e, Allocation(r).pays)]], EnteredOf(c))
                    + Sum(v, N)
<1> DEFINE pays == Allocation(r).pays
           E == EnteredOf(c)
           N == CreditEntries(c, Allocation(r).left)
           b == [e \in Entry |-> Booked(e, pays)]
           w == [e \in Entry |-> v[Booked(e, pays)]]
           I == ImageOf(b, E)
<1>1. pays \in SUBSET Pay /\ Allocation(r).left \in Nat BY AllocationSpends DEF Consistent
<1>2. c \in Customers BY DEF Consistent, LedgerTyped, Calls
<1>3. /\ N \in SUBSET Entry
      /\ \A n \in N : n.id = nextId /\ n.cust = c
      /\ IsFiniteSet(N)
  <2>1. CASE N = {} BY <2>1, FS_EmptySet
  <2>2. CASE N # {}
    <3> DEFINE n == NewEntry(c, NoSale, "PAYMENT", 0, Allocation(r).left, "PAID")
    <3>1. N = {n} BY <2>2 DEF CreditEntries
    <3>2. n \in Entry /\ n.id = nextId /\ n.cust = c
      <4>1. "PAYMENT" \in EntryType /\ "PAID" \in PaymentStatus BY DEF EntryType, PaymentStatus
      <4>2. Allocation(r).left \in Int /\ 0 \in Int /\ NoSale \in Sales \cup {NoSale} /\ LedgerTyped
        BY <1>1 DEF Consistent
      <4>3. ASSUME NEW d \in Customers, NEW left \in Int, NEW x,
                   x = NewEntry(d, NoSale, "PAYMENT", 0, left, "PAID")
            PROVE  x \in Entry /\ x.id = nextId /\ x.cust = d
        BY <4>1, <4>2, <4>3 DEF NewEntry, Entry, LedgerTyped
      <4> QED BY <1>2, <4>2, <4>3
    <3> HIDE DEF n, N
    <3> QED BY <3>1, <3>2, FS_Singleton
  <2> QED BY <2>1, <2>2
<1>4. E \in SUBSET Entry /\ IsFiniteSet(E)
  BY FS_Subset DEF EnteredOf, Consistent, LedgerTyped, Tables
<1>5. \A e \in Entry : b[e] \in Entry /\ b[e].id = e.id /\ b[e].cust = e.cust BY <1>1, BookedRow
<1>6. EnteredOf(c)' = I \cup N
  <2>1. ask' = ask BY DEF CommitPayment
  <2>2. entered' = {b[e] : e \in entered} \cup N
    <3>1. entered' = {Booked(e, pays) : e \in entered} \cup N BY DEF CommitPayment
    <3>2. \A e \in entered : b[e] = Booked(e, pays) BY DEF Consistent, LedgerTyped
    <3> HIDE DEF b, pays, N
    <3> QED BY <3>1, <3>2
  <2>3. EnteredOf(c)' = {x \in entered' : x.cust = c} BY DEF EnteredOf
  <2> HIDE DEF b, N
  <2> QED BY <1>3, <1>5, <2>2, <2>3 DEF EnteredOf, ImageOf, Consistent, LedgerTyped
<1>7. \A x, y \in E : b[x] = b[y] => x = y BY <1>4, <1>5 DEF Consistent, Tables, EnteredOf
<1>8. \A e \in E : v[b[e]] = w[e] BY <1>4
<1>9. Ints(w, E) BY <1>1, <1>4, BookedRow DEF Ints
<1> HIDE DEF b, w
<1>10. Sum(v, I) = Sum(w, E) BY <1>4, <1>7, <1>8, <1>9, SumMoved
<1>11. IsFiniteSet(I) BY <1>4, ImageFinite
<1>12. I \cap N = {}
  <2>1. \A e \in E : e.id < nextId /\ e.id \in Nat
    BY <1>4 DEF Consistent, Tables, EnteredOf, Entry
  <2>2. \A x \in I : x.id # nextId BY <1>4, <1>5, <2>1 DEF ImageOf, Consistent, LedgerTyped
  <2> QED BY <1>3, <2>2
<1>13. Ints(v, I) /\ Ints(v, N) BY <1>3, <1>4, <1>5 DEF Ints, ImageOf
<1> HIDE DEF I, N
<1>14. Sum(v, I \cup N) = Sum(v, I) + Sum(v, N) BY <1>3, <1>11, <1>12, <1>13, SumUnion
<1> QED BY <1>3, <1>6, <1>10, <1>14 DEF w, N

----------------------------------------------------------------------------
(* Payments are booked *)

ReceivedIs(c) ==
    /\ Received(c) = Sum(AskedOf, PaidFor(c))
    /\ IsFiniteSet(PaidFor(c))
    /\ Ints(AskedOf, Writers)

AllReceived == \A c \in Customers : ReceivedIs(c)

LEMMA ReceivedEverywhere == Consistent => AllReceived
BY ReceivedIsSum DEF Consistent, ReceivedIs, AllReceived

LEMMA ReceivedNext == Consistent' => AllReceived'
BY ReceivedEverywhere, PTL

\* No customer becomes untouched.
LEMMA UntouchedBefore ==
  ASSUME Consistent, [LedgerNext]_ledgerVars, NEW c \in Customers, Untouched(c)'
  PROVE  Untouched(c)
<1>1. CASE UNCHANGED ledgerVars BY <1>1 DEF Untouched, ledgerVars
<1>2. ASSUME NEW r \in Writers, Accept(r)
      PROVE  Untouched(c)
  <2>1. \A q \in Writers \ {r} : ask'[q] = ask[q] BY <1>2, OnlyOneMoves DEF Consistent
  <2>2. ask[r].op = "none" BY <1>2, NoCallTyped DEF Consistent, RequestsMatch, Sent, Accept
  <2> QED BY <2>1, <2>2 DEF Untouched
<1>3. ASSUME NEW r \in Writers, LedgerStep(r) \/ Cut(r)
      PROVE  Untouched(c)
  BY <1>3, StepsAsk DEF Consistent, Untouched
<1> QED BY <1>1, <1>2, <1>3 DEF LedgerNext

\* On the rows of an untouched customer, a step of a request on it is a payment or
\* an initial balance that commits, or it writes nothing.
LEMMA UntouchedSteps ==
  ASSUME Consistent, NEW r \in Writers, LedgerStep(r) \/ Cut(r), Untouched(ask[r].cust)
  PROVE  \/ CommitPayment(r)
         \/ CommitInitial(r)
         \/ UNCHANGED ledger /\ awaits[r] # "ok" /\ awaits'[r] # "ok"
<1>1. ask[r].op \notin {"refund", "delete"} BY DEF Untouched
<1>2. awaits[r] \notin {"refund", "wipe", "erase"} BY <1>1 DEF Consistent, RequestsMatch, Sent
<1> QED
  BY <1>2 DEF LedgerStep, ReadEntries, PaymentThrows, InitialThrows, WriteRefund, WipeEntries,
              DeleteCustomer, DeleteThrows, Throw, Cut, Underway, Await, Consistent, LedgerTyped

\* A payment puts all of its amount on the rows of its customer.
LEMMA PaymentAddsUp ==
  ASSUME Consistent, NEW r \in Writers, CommitPayment(r), NEW c, c = ask[r].cust
  PROVE  /\ Sum(PaidOf, EnteredOf(c)) \in Int
         /\ Sum(PaidOf, EnteredOf(c)') = Sum(PaidOf, EnteredOf(c)) + ask[r].amount
<1> DEFINE A == Allocation(r)
           E == EnteredOf(c)
           N == CreditEntries(c, A.left)
           w == [e \in Entry |-> PaidOf[Booked(e, A.pays)]]
<1>1. Spent(ask[r].amount, got[r], A) /\ A.pays \in SUBSET Pay /\ A.left \in Nat
  BY AllocationSpends DEF Consistent
<1>2. E \in SUBSET Entry /\ IsFiniteSet(E)
  BY FS_Subset DEF EnteredOf, Consistent, LedgerTyped, Tables
<1>3. /\ N \in SUBSET Entry /\ IsFiniteSet(N)
      /\ Sum(PaidOf, EnteredOf(c)') = Sum(w, E) + Sum(PaidOf, N)
  <2>1. Ints(PaidOf, Entry) BY RowInts
  <2> QED BY <2>1, PaidRows
<1>4. \A e \in E : w[e] = PaidOf[e] + AddedOf(r)[e]
  <2> SUFFICES ASSUME NEW e \in E PROVE w[e] = PaidOf[e] + AddedOf(r)[e] OBVIOUS
  <2>1. e \in Entry /\ Booked(e, A.pays) \in Entry BY <1>1, <1>2, BookedRow
  <2> QED BY <2>1, AddedToRow DEF PaidOf
<1>5. Ints(PaidOf, E) /\ Ints(AddedOf(r), E) BY <1>2, RowInts, AddedToRow DEF Ints
<1> HIDE DEF w
<1>6. Sum(w, E) = Sum(PaidOf, E) + Sum(AddedOf(r), E) BY <1>2, <1>4, <1>5, SumPlus
<1>7. Sum(AddedOf(r), E) = Sum(AmountOf, A.pays) BY AddedToAll DEF CommitPayment
<1>8. Sum(AmountOf, A.pays) + A.left = ask[r].amount BY <1>1 DEF Spent
<1>9. Sum(PaidOf, N) = A.left
  <2>1. CASE A.left > 0
    <3> DEFINE n == NewEntry(c, NoSale, "PAYMENT", 0, A.left, "PAID")
    <3>1. N = {n} BY <2>1 DEF CreditEntries
    <3>2. n.paid = A.left BY DEF NewEntry
    <3> HIDE DEF n
    <3>3. PaidOf[n] = A.left BY <1>3, <3>1, <3>2 DEF PaidOf
    <3>4. PaidOf[n] \in Int BY <1>1, <3>3
    <3> QED BY <3>1, <3>3, <3>4, SumSingle
  <2>2. CASE ~ (A.left > 0)
    <3>1. N = {} /\ A.left = 0 BY <1>1, <2>2 DEF CreditEntries
    <3> QED BY <3>1, SumEmpty
  <2> QED BY <2>1, <2>2
<1>10. Sum(PaidOf, E) \in Int /\ Sum(AddedOf(r), E) \in Int BY <1>2, <1>5, SumInt
<1> HIDE DEF A, E, N
<1>11. Sum(PaidOf, EnteredOf(c)') = Sum(PaidOf, E) + ask[r].amount
  BY <1>1, <1>3, <1>6, <1>7, <1>8, <1>9, <1>10
<1> QED BY <1>10, <1>11 DEF E

\* Two customers' books do not mix: who is not the customer of a step keeps what
\* it paid and what is on its rows.
LEMMA ReceivedKept ==
  ASSUME Consistent, Consistent', NEW r \in Writers, Accept(r) \/ LedgerStep(r) \/ Cut(r),
         NEW c \in Customers,
         c # ask[r].cust \/ Accept(r) \/ (awaits[r] # "ok" /\ awaits'[r] # "ok")
           \/ ask[r].op = "initial"
  PROVE  Received(c)' = Received(c)
<1>1. /\ \A q \in Writers \ {r} : awaits'[q] = awaits[q] /\ ask'[q] = ask[q]
      /\ Accept(r) \/ ask' = ask
  BY OnlyOneMoves, StepsAsk DEF Consistent
<1>2. r \notin PaidFor(c) /\ r \notin PaidFor(c)'
  <2>1. CASE Accept(r) BY <2>1, BeginsAsk DEF PaidFor, Consistent
  <2>2. CASE ~ Accept(r)
    <3>1. awaits[r] # "ok"
      BY <2>2 DEF LedgerStep, ReadEntries, CommitPayment, PaymentThrows, CommitInitial,
         InitialThrows, WriteRefund, WipeEntries, DeleteCustomer, DeleteThrows, Cut, Underway
    <3> QED BY <1>1, <2>2, <3>1 DEF PaidFor
  <2> QED BY <2>1, <2>2
<1>3. PaidFor(c)' = PaidFor(c) BY <1>1, <1>2 DEF PaidFor
<1>4. \A q \in PaidFor(c) : AskedOf[q] = AskedOf'[q] BY <1>1, <1>2 DEF PaidFor, AskedOf
<1>5. ReceivedIs(c) /\ ReceivedIs(c)' BY ReceivedEverywhere, ReceivedNext DEF AllReceived
<1>6. Ints(AskedOf, PaidFor(c)) /\ IsFiniteSet(PaidFor(c)) BY <1>5 DEF ReceivedIs, Ints, PaidFor
<1>7. Sum(AskedOf, PaidFor(c)) = Sum(AskedOf', PaidFor(c)) BY <1>4, <1>6, SumSame
<1> QED BY <1>3, <1>5, <1>7 DEF ReceivedIs

\* A payment that succeeds is received, once.
LEMMA PaymentReceived ==
  ASSUME Consistent, Consistent', NEW r \in Writers, CommitPayment(r),
         NEW c, c = ask[r].cust
  PROVE  Received(c) \in Int /\ Received(c)' = Received(c) + ask[r].amount
<1> DEFINE R == PaidFor(c)
<1>1. c \in Customers /\ ask[r].amount \in Nat BY DEF Consistent, LedgerTyped, Calls
<1>2. ask' = ask /\ awaits[r] = "pay" /\ awaits' = [awaits EXCEPT ![r] = "ok"] /\ ask[r].op = "payment"
  BY DEF CommitPayment, Await, Consistent, RequestsMatch, Sent
<1>3. r \notin R /\ PaidFor(c)' = R \cup {r} BY <1>2 DEF PaidFor, Consistent, LedgerTyped
<1>4. AskedOf' = AskedOf BY <1>2 DEF AskedOf
<1>5. ReceivedIs(c) /\ ReceivedIs(c)' BY <1>1, ReceivedEverywhere, ReceivedNext DEF AllReceived
<1>6. IsFiniteSet(R) /\ Ints(AskedOf, R) /\ Ints(AskedOf, R \cup {r})
  BY <1>5 DEF ReceivedIs, Ints, PaidFor
<1>7. AskedOf[r] = ask[r].amount BY DEF AskedOf
<1>8. Received(c) = Sum(AskedOf, R) /\ Received(c)' = Sum(AskedOf, R \cup {r})
  BY <1>3, <1>4, <1>5 DEF ReceivedIs
<1> HIDE DEF R
<1>9. Sum(AskedOf, R \cup {r}) = AskedOf[r] + Sum(AskedOf, R) BY <1>3, <1>6, SumAdd
<1>10. Sum(AskedOf, R) \in Int BY <1>6, SumInt
<1> QED BY <1>1, <1>7, <1>8, <1>9, <1>10

\* The rows of one customer.
LEMMA EntriesOfKept ==
  ASSUME Consistent, Consistent', NEW c,
         \A e \in Entry : e.cust = c => (e \in entered' <=> e \in entered)
  PROVE  EnteredOf(c)' = EnteredOf(c)
BY DEF EnteredOf, Consistent, LedgerTyped

\* The rows of its customer after an initial balance: one more.
LEMMA InitialRows ==
  ASSUME Consistent, NEW r \in Writers, CommitInitial(r), NEW c, c = ask[r].cust,
         NEW v, Ints(v, Entry)
  PROVE  \E n \in Entry :
           /\ entered' = entered \cup {n}
           /\ n.cust = c /\ n.owe = ask[r].amount /\ n.paid = 0
           /\ n.st = IF ask[r].amount > 0 THEN "UNPAID" ELSE "PAID"
           /\ Sum(v, EnteredOf(c)') = v[n] + Sum(v, EnteredOf(c))
           /\ Sum(v, EnteredOf(c)) \in Int
<1> DEFINE st == IF ask[r].amount > 0 THEN "UNPAID" ELSE "PAID"
           n == NewEntry(c, NoSale, "ADJUSTMENT", ask[r].amount, 0, st)
           E == EnteredOf(c)
<1>1. /\ n \in Entry /\ n.id = nextId /\ n.cust = c
      /\ n.owe = ask[r].amount /\ n.paid = 0 /\ n.st = st
  <2>1. "ADJUSTMENT" \in EntryType /\ st \in PaymentStatus BY DEF EntryType, PaymentStatus
  <2>2. /\ ask[r].amount \in Int /\ 0 \in Int /\ NoSale \in Sales \cup {NoSale}
        /\ c \in Customers /\ LedgerTyped
    BY DEF Consistent, LedgerTyped, Calls
  <2> HIDE DEF st
  <2>3. ASSUME NEW d \in Customers, NEW a \in Int, NEW x,
               x = NewEntry(d, NoSale, "ADJUSTMENT", a, 0, st)
        PROVE  /\ x \in Entry /\ x.id = nextId /\ x.cust = d
               /\ x.owe = a /\ x.paid = 0 /\ x.st = st
    BY <2>1, <2>2, <2>3 DEF NewEntry, Entry, LedgerTyped
  <2> QED BY <2>2, <2>3
<1>2. entered' = entered \cup {n} /\ ask' = ask BY DEF CommitInitial
<1> HIDE DEF n
<1>3. EnteredOf(c)' = E \cup {n} BY <1>1, <1>2 DEF EnteredOf
<1>4. n \notin E /\ E \in SUBSET Entry /\ IsFiniteSet(E)
  <2>1. E \in SUBSET Entry /\ IsFiniteSet(E)
    BY FS_Subset DEF EnteredOf, Consistent, LedgerTyped, Tables
  <2>2. nextId \in Nat /\ \A e \in E : e.id < nextId
    BY DEF EnteredOf, Consistent, LedgerTyped, Tables
  <2> QED BY <1>1, <2>1, <2>2
<1>5. Ints(v, E) /\ Ints(v, E \cup {n}) BY <1>1, <1>4 DEF Ints
<1> HIDE DEF E
<1>6. Sum(v, E \cup {n}) = v[n] + Sum(v, E) BY <1>4, <1>5, SumAdd
<1>7. Sum(v, E) \in Int BY <1>4, <1>5, SumInt
<1> QED BY <1>1, <1>2, <1>3, <1>6, <1>7 DEF E

PaidSums(c) ==
    /\ TotalPaidOn(EnteredOf(c)) = Sum(PaidOf, EnteredOf(c))
    /\ TotalOwedOn(OpenEntries(entered, c)) = Sum(DebtOf, EnteredOf(c))

AllSums == \A c \in Customers : PaidSums(c)

LEMMA SumsEverywhere == Consistent => AllSums
<1> SUFFICES ASSUME Consistent, NEW c \in Customers PROVE PaidSums(c) BY DEF AllSums
<1>1. EnteredOf(c) \in SUBSET Entry /\ IsFiniteSet(EnteredOf(c))
  BY FS_Subset DEF EnteredOf, Consistent, LedgerTyped, Tables
<1>2. entered \in SUBSET Entry /\ IsFiniteSet(entered) BY DEF Consistent, LedgerTyped, Tables
<1>3. TotalPaidOn(EnteredOf(c)) = Sum(PaidOf, EnteredOf(c)) BY <1>1, TotalPaidIsSum
<1>4. TotalOwedOn(OpenEntries(entered, c)) = Sum(DebtOf, {e \in entered : e.cust = c})
  BY <1>2, DebtIsSum
<1> QED BY <1>3, <1>4 DEF PaidSums, EnteredOf

LEMMA SumsNext == Consistent' => AllSums'
BY SumsEverywhere, PTL

LEMMA PaymentsInit == LedgerInit => PaymentsAreBooked
<1> SUFFICES ASSUME LedgerInit, NEW c \in Customers
             PROVE  TotalPaidOn(EnteredOf(c)) =
                      TotalPaidOn({e \in SeedEntries : e.cust = c}) + Received(c)
  BY DEF PaymentsAreBooked
<1>1. EnteredOf(c) = {e \in SeedEntries : e.cust = c} BY DEF LedgerInit, EnteredOf
<1>2. ReceivedIs(c) /\ PaidSums(c)
  BY ConsistentInit, ReceivedEverywhere, SumsEverywhere DEF AllReceived, AllSums
<1>3. PaidFor(c) = {} BY DEF LedgerInit, PaidFor
<1>4. Received(c) = 0 BY <1>2, <1>3, SumEmpty DEF ReceivedIs
<1>5. EnteredOf(c) \in SUBSET Entry /\ IsFiniteSet(EnteredOf(c))
  BY ConsistentInit, FS_Subset DEF EnteredOf, Consistent, LedgerTyped, Tables
<1>6. TotalPaidOn(EnteredOf(c)) \in Int BY <1>2, <1>5, RowInts, SumInt DEF PaidSums
<1> QED BY <1>1, <1>4, <1>6

LEMMA PaymentsNext ==
  ASSUME Consistent, Consistent', PaymentsAreBooked, [LedgerNext]_ledgerVars
  PROVE  PaymentsAreBooked'
<1> SUFFICES ASSUME NEW c \in Customers, Untouched(c)'
             PROVE  TotalPaidOn(EnteredOf(c))' =
                      TotalPaidOn({e \in SeedEntries : e.cust = c}) + Received(c)'
  BY DEF PaymentsAreBooked
<1> DEFINE seeds == TotalPaidOn({e \in SeedEntries : e.cust = c})
<1>1. Untouched(c) BY UntouchedBefore
<1>2. TotalPaidOn(EnteredOf(c)) = seeds + Received(c) BY <1>1 DEF PaymentsAreBooked
<1> HIDE DEF seeds
<1>3. /\ TotalPaidOn(EnteredOf(c)) = Sum(PaidOf, EnteredOf(c))
      /\ TotalPaidOn(EnteredOf(c))' = Sum(PaidOf, EnteredOf(c)')
  BY SumsEverywhere, SumsNext DEF AllSums, PaidSums
<1>4. CASE UNCHANGED ledgerVars
  <2>1. EnteredOf(c)' = EnteredOf(c) /\ PaidFor(c)' = PaidFor(c) /\ AskedOf' = AskedOf
    BY <1>4 DEF EnteredOf, PaidFor, AskedOf, ledgerVars, ledger
  <2>2. ReceivedIs(c) /\ ReceivedIs(c)' BY ReceivedEverywhere, ReceivedNext DEF AllReceived
  <2>3. Received(c)' = Received(c) BY <2>1, <2>2 DEF ReceivedIs
  <2> QED BY <1>2, <1>3, <2>1, <2>3 DEF seeds
<1>5. ASSUME NEW r \in Writers, Accept(r) \/ LedgerStep(r) \/ Cut(r)
      PROVE  TotalPaidOn(EnteredOf(c))' = seeds + Received(c)'
  <2>1. CASE c # ask[r].cust \/ Accept(r)
    <3>1. \A e \in Entry : e.cust = c => (e \in entered' <=> e \in entered)
      BY <1>5, <2>1, OthersKept
    <3>2. EnteredOf(c)' = EnteredOf(c) BY <3>1, EntriesOfKept
    <3>3. Received(c)' = Received(c) BY <1>5, <2>1, ReceivedKept
    <3> QED BY <1>2, <1>3, <3>2, <3>3
  <2>2. CASE c = ask[r].cust /\ CommitPayment(r)
    <3>1. /\ Sum(PaidOf, EnteredOf(c)) \in Int
          /\ Sum(PaidOf, EnteredOf(c)') = Sum(PaidOf, EnteredOf(c)) + ask[r].amount
      BY <2>2, PaymentAddsUp
    <3>2. Received(c) \in Int /\ Received(c)' = Received(c) + ask[r].amount
      BY <2>2, PaymentReceived
    <3>3. seeds \in Int
      <4>1. {e \in SeedEntries : e.cust = c} \in SUBSET Entry BY LedgerAssumption
      <4>2. IsFiniteSet({e \in SeedEntries : e.cust = c}) BY LedgerAssumption, FS_Subset
      <4> QED BY <4>1, <4>2, TotalPaidIsSum, RowInts, SumInt DEF seeds
    <3>4. ask[r].amount \in Int BY DEF Consistent, LedgerTyped, Calls
    <3> QED BY <1>2, <1>3, <3>1, <3>2, <3>3, <3>4
  <2>3. CASE c = ask[r].cust /\ CommitInitial(r)
    <3>0. Ints(PaidOf, Entry) BY RowInts
    <3>1. PICK n \in Entry :
            /\ n.paid = 0
            /\ Sum(PaidOf, EnteredOf(c)') = PaidOf[n] + Sum(PaidOf, EnteredOf(c))
            /\ Sum(PaidOf, EnteredOf(c)) \in Int
      BY <2>3, <3>0, InitialRows
    <3>2. PaidOf[n] = 0 BY <3>1 DEF PaidOf
    <3>3. ask[r].op = "initial" BY <2>3 DEF CommitInitial, Consistent, RequestsMatch, Sent
    <3>4. Received(c)' = Received(c) BY <1>5, <3>3, ReceivedKept
    <3>5. \A m \in Int : 0 + m = m OBVIOUS
    <3> QED BY <1>2, <1>3, <3>1, <3>2, <3>4, <3>5
  <2>4. CASE c = ask[r].cust /\ ~ Accept(r) /\ ~ CommitPayment(r) /\ ~ CommitInitial(r)
    <3>1. UNCHANGED ledger /\ awaits[r] # "ok" /\ awaits'[r] # "ok"
      BY <1>1, <1>5, <2>4, UntouchedSteps
    <3>2. EnteredOf(c)' = EnteredOf(c) BY <3>1 DEF EnteredOf, ledger
    <3>3. Received(c)' = Received(c) BY <1>5, <3>1, ReceivedKept
    <3> QED BY <1>2, <1>3, <3>2, <3>3
  <2> QED BY <2>1, <2>2, <2>3, <2>4
<1> QED BY <1>4, <1>5 DEF LedgerNext, seeds

----------------------------------------------------------------------------
(* The balance agrees with the entries *)

\* A payment that is alone on its customer pays the open rows as they are: each in
\* full, or in part, and when anything is left, none stays open.
LEMMA BookedAlone ==
  ASSUME Consistent, NEW r \in Writers, CommitPayment(r), NEW c, c = ask[r].cust,
         c \notin met, NEW e \in EnteredOf(c), NEW b, b = Booked(e, Allocation(r).pays),
         NEW x, x = AddedOf(r)[e]
  PROVE  /\ \/ b = e /\ x = 0
            \/ /\ Open(e) /\ b.owe = e.owe /\ b.paid = e.paid + x
               /\ \/ x = Owed(e) /\ b.st = "PAID"
                  \/ 0 < x /\ x < Owed(e) /\ b.st = "PARTIAL"
         /\ Allocation(r).left > 0 => ~ Open(b)
<1> DEFINE A == Allocation(r)
<1>1. got[r] = OpenEntries(entered, c)
  <2>1. awaits[r] = "pay" BY DEF CommitPayment
  <2> QED BY <2>1 DEF Consistent, Fresh, Underway
<1>2. Spent(ask[r].amount, got[r], A) /\ A.pays \in SUBSET Pay
  BY AllocationSpends DEF Consistent
<1>3. e \in Entry /\ e \in entered /\ e.cust = c BY DEF EnteredOf, Consistent, LedgerTyped
<1>4. \A p \in A.pays : p.entry.id = e.id => p.entry = e /\ Open(e)
  BY <1>1, <1>2, <1>3 DEF Spent, OpenEntries, Consistent, Tables
<1>5. ASSUME NEW p \in A.pays, p.entry.id = e.id
      PROVE  /\ Open(e) /\ b.owe = e.owe /\ b.paid = e.paid + x
             /\ \/ x = Owed(e) /\ b.st = "PAID"
                \/ 0 < x /\ x < Owed(e) /\ b.st = "PARTIAL"
             /\ x = p.amount
  <2>1. p.entry = e /\ Open(e) BY <1>4, <1>5
  <2>2. x = p.amount BY <1>3, <1>5, AddedToRow
  <2>3. x = Owed(e) \/ (0 < x /\ x < Owed(e)) BY <1>2, <2>1, <2>2 DEF Spent
  <2>4. (CHOOSE q \in A.pays : q.entry.id = e.id) = p BY <1>5, AddedToRow
  <2> HIDE DEF A
  <2>5. b = [e EXCEPT !.paid = @ + p.amount,
                      !.st = IF p.entry.paid + p.amount >= p.entry.owe
                             THEN "PAID" ELSE "PARTIAL"]
    BY <1>5, <2>4 DEF Booked, A
  <2>6. b = [e EXCEPT !.paid = e.paid + x,
                      !.st = IF e.paid + x >= e.owe THEN "PAID" ELSE "PARTIAL"]
    BY <2>1, <2>2, <2>5
  <2>7. /\ b.owe = e.owe /\ b.paid = e.paid + x
        /\ b.st = IF e.paid + x >= e.owe THEN "PAID" ELSE "PARTIAL"
    BY <1>3, <2>6 DEF Entry
  <2>8. e.paid \in Int /\ e.owe \in Int /\ p.amount \in Int /\ Owed(e) = e.owe - e.paid
    BY <1>2, <1>3 DEF Entry, Pay, Owed
  <2> QED BY <2>1, <2>2, <2>3, <2>7, <2>8
<1>6. ASSUME ~ \E p \in A.pays : p.entry.id = e.id
      PROVE  b = e /\ x = 0
  BY <1>3, <1>6, AddedToRow DEF Booked
<1>7. ASSUME A.left > 0
      PROVE  ~ Open(b)
  <2>1. CASE Open(e)
    <3>1. e \in got[r] BY <1>1, <1>3, <2>1 DEF OpenEntries
    <3>2. PICK p \in A.pays : p.entry = e /\ p.amount = Owed(e) BY <1>2, <1>7, <3>1 DEF Spent
    <3>3. b.st = "PAID"
      <4>1. e.paid \in Int /\ e.owe \in Int /\ Owed(e) = e.owe - e.paid BY <1>3 DEF Entry, Owed
      <4> QED BY <1>5, <3>2, <4>1
    <3> QED BY <3>3 DEF Open
  <2>2. CASE ~ Open(e) BY <1>4, <1>6, <2>2
  <2> QED BY <2>1, <2>2
<1> QED BY <1>5, <1>6, <1>7

\* The row that holds what is left is paid.
LEMMA CreditIsPaid ==
  ASSUME Consistent, NEW r \in Writers, NEW c
  PROVE  \A n \in CreditEntries(c, Allocation(r).left) : n.st = "PAID" /\ n.owe = 0
BY DEF CreditEntries, NewEntry

\* The rows of the customer after a payment.
LEMMA RowsPaid ==
  ASSUME Consistent, NEW r \in Writers, CommitPayment(r), NEW c, c = ask[r].cust,
         NEW f \in EnteredOf(c)'
  PROVE  \/ \E e \in EnteredOf(c) : f = Booked(e, Allocation(r).pays)
         \/ f.st = "PAID" /\ f.owe = 0
<1> DEFINE pays == Allocation(r).pays
<1>1. pays \in SUBSET Pay BY AllocationSpends DEF Consistent
<1>2. f \in entered' /\ f.cust = c BY DEF EnteredOf
<1>3. entered' = {Booked(e, pays) : e \in entered} \cup CreditEntries(c, Allocation(r).left)
  BY DEF CommitPayment
<1>4. CASE f \in CreditEntries(c, Allocation(r).left) BY <1>4, CreditIsPaid
<1>5. CASE f \notin CreditEntries(c, Allocation(r).left)
  <2>1. PICK e \in entered : f = Booked(e, pays) BY <1>2, <1>3, <1>5
  <2>2. e \in Entry BY DEF Consistent, LedgerTyped
  <2>3. e.cust = c BY <1>1, <1>2, <2>1, <2>2, BookedRow
  <2> QED BY <2>1, <2>3 DEF EnteredOf
<1> QED BY <1>4, <1>5

\* A payment that is alone takes from the debt what it takes from the balance.
LEMMA DebtFollowsPayment ==
  ASSUME Consistent, NEW r \in Writers, CommitPayment(r), NEW c, c = ask[r].cust,
         c \notin met
  PROVE  /\ Sum(DebtOf, EnteredOf(c)) \in Int
         /\ balance'[c] \in Int
         /\ balance'[c] - Sum(DebtOf, EnteredOf(c)') = balance[c] - Sum(DebtOf, EnteredOf(c))
<1> DEFINE A == Allocation(r)
           E == EnteredOf(c)
           N == CreditEntries(c, A.left)
           w == [e \in Entry |-> DebtOf[Booked(e, A.pays)]]
<1>1. Spent(ask[r].amount, got[r], A) /\ A.pays \in SUBSET Pay /\ A.left \in Nat
  BY AllocationSpends DEF Consistent
<1>2. E \in SUBSET Entry /\ IsFiniteSet(E)
  BY FS_Subset DEF EnteredOf, Consistent, LedgerTyped, Tables
<1>3. /\ N \in SUBSET Entry /\ IsFiniteSet(N)
      /\ Sum(DebtOf, EnteredOf(c)') = Sum(w, E) + Sum(DebtOf, N)
  <2>1. Ints(DebtOf, Entry) BY RowInts
  <2> QED BY <2>1, PaidRows
<1>4. Sum(DebtOf, N) = 0
  <2>1. \A n \in N : DebtOf[n] = 0 BY <1>3, CreditIsPaid DEF DebtOf, Open
  <2> HIDE DEF N
  <2> QED BY <1>3, <2>1, SumZero
<1>5. \A e \in E : w[e] \in Int /\ AddedOf(r)[e] \in Int /\ DebtOf[e] = w[e] + AddedOf(r)[e]
  <2> SUFFICES ASSUME NEW e \in E
               PROVE  /\ w[e] \in Int /\ AddedOf(r)[e] \in Int
                      /\ DebtOf[e] = w[e] + AddedOf(r)[e]
    OBVIOUS
  <2> DEFINE b == Booked(e, A.pays)
             x == AddedOf(r)[e]
  <2>1. e \in Entry /\ b \in Entry BY <1>1, <1>2, BookedRow
  <2>2. x \in Int BY <2>1, AddedToRow DEF Ints
  <2>3. \/ b = e /\ x = 0
        \/ /\ Open(e) /\ b.owe = e.owe /\ b.paid = e.paid + x
           /\ \/ x = Owed(e) /\ b.st = "PAID"
              \/ 0 < x /\ x < Owed(e) /\ b.st = "PARTIAL"
    BY BookedAlone
  <2>4. w[e] = DebtOf[b] BY <2>1
  <2> HIDE DEF b, x, w
  <2>5. DebtOf[b] \in Int /\ DebtOf[e] = DebtOf[b] + x
    BY <2>1, <2>2, <2>3 DEF DebtOf, Open, Owed, Entry
  <2> QED BY <2>2, <2>4, <2>5 DEF x
<1>6. Ints(w, E) /\ Ints(AddedOf(r), E) BY <1>5 DEF Ints
<1> HIDE DEF w
<1>7. Sum(DebtOf, E) = Sum(w, E) + Sum(AddedOf(r), E) BY <1>2, <1>5, <1>6, SumPlus
<1>8. Sum(AddedOf(r), E) = Sum(AmountOf, A.pays) BY AddedToAll DEF CommitPayment
<1>9. Sum(AmountOf, A.pays) + A.left = ask[r].amount BY <1>1 DEF Spent
<1>10. Sum(w, E) \in Int /\ Sum(AddedOf(r), E) \in Int BY <1>2, <1>6, SumInt
<1>11. balance'[c] = balance[c] - (ask[r].amount - A.left) /\ balance[c] \in Int
  <2>1. had[r].balance = balance[c] /\ c \in Customers
    BY DEF CommitPayment, Consistent, Fresh, Underway, LedgerTyped, Calls
  <2> QED BY <2>1 DEF CommitPayment, Consistent, LedgerTyped
<1> HIDE DEF A, E, N
<1>12. ask[r].amount \in Int /\ A.left \in Int BY <1>1 DEF Consistent, LedgerTyped, Calls
<1>13. /\ Sum(DebtOf, E) \in Int
       /\ balance'[c] \in Int
       /\ balance'[c] - Sum(DebtOf, EnteredOf(c)') = balance[c] - Sum(DebtOf, E)
  BY <1>3, <1>4, <1>7, <1>8, <1>9, <1>10, <1>11, <1>12
<1> QED BY <1>13 DEF E

\* No request leaves a customer that two of them have written.
LEMMA RacedGrows ==
  ASSUME Consistent, [LedgerNext]_ledgerVars
  PROVE  met \subseteq met'
<1>1. ASSUME NEW r \in Writers, Accept(r) PROVE met \subseteq met'
  BY <1>1, BeginsAsk DEF Find, Consistent
<1>2. ASSUME NEW r \in Writers, LedgerStep(r) \/ Cut(r) PROVE met \subseteq met'
  BY <1>2, StepsAsk DEF Consistent
<1> QED BY <1>1, <1>2 DEF LedgerNext, ledgerVars

LEMMA BooksInit == LedgerInit /\ SeedsTellPaid => BooksAgree
<1> SUFFICES ASSUME LedgerInit, SeedsTellPaid PROVE BooksAgree OBVIOUS
<1>1. ASSUME NEW c \in Customers PROVE DebtIsExplained(c) BY DEF LedgerInit, DebtIsExplained
<1>2. StatusesTellPaid BY DEF LedgerInit, StatusesTellPaid, SeedsTellPaid
<1> QED BY <1>1, <1>2 DEF BooksAgree

\* The totals that a request has read, if it is alone on its customer.
LEMMA FreshTotals ==
  ASSUME Consistent, NEW r \in Writers, Underway(r), ask[r].cust \notin met
  PROVE  had[r].balance = balance[ask[r].cust] /\ had[r].credits = credits[ask[r].cust]
<1>1. had[r] = [balance |-> balance[ask[r].cust], credits |-> credits[ask[r].cust]]
  BY DEF Consistent, Fresh
<1> QED BY <1>1

\* An initial balance that is alone adds to the debt what it adds to the balance.
LEMMA DebtFollowsInitial ==
  ASSUME Consistent, NEW r \in Writers, CommitInitial(r), NEW c, c = ask[r].cust,
         c \notin met
  PROVE  /\ Sum(DebtOf, EnteredOf(c)) \in Int
         /\ balance'[c] - Sum(DebtOf, EnteredOf(c)') = balance[c] - Sum(DebtOf, EnteredOf(c))
<1>1. Ints(DebtOf, Entry) BY RowInts
<1>2. PICK n \in Entry :
        /\ n.owe = ask[r].amount /\ n.paid = 0
        /\ n.st = IF ask[r].amount > 0 THEN "UNPAID" ELSE "PAID"
        /\ Sum(DebtOf, EnteredOf(c)') = DebtOf[n] + Sum(DebtOf, EnteredOf(c))
        /\ Sum(DebtOf, EnteredOf(c)) \in Int
  BY <1>1, InitialRows
<1>3. ask[r].amount \in Nat /\ c \in Customers BY DEF Consistent, LedgerTyped, Calls
<1>4. DebtOf[n] = ask[r].amount BY <1>2, <1>3 DEF DebtOf, Open, Owed
<1>5. balance'[c] = balance[c] + ask[r].amount /\ balance[c] \in Int
  <2>1. had[r].balance = balance[c]
    <3>1. awaits[r] = "initial" BY DEF CommitInitial
    <3> QED BY <3>1, FreshTotals DEF Underway
  <2> QED BY <1>3, <2>1 DEF CommitInitial, Consistent, LedgerTyped
<1> QED BY <1>2, <1>3, <1>4, <1>5

\* The four ways a step meets a customer whose books are to agree.
LEMMA StepsMeet ==
  ASSUME Consistent, NEW r \in Writers, Accept(r) \/ LedgerStep(r) \/ Cut(r),
         NEW c \in Customers, Untouched(c)
  PROVE  \/ /\ balance'[c] = balance[c]
            /\ \A e \in Entry : e.cust = c => (e \in entered' <=> e \in entered)
         \/ c = ask[r].cust /\ CommitPayment(r)
         \/ c = ask[r].cust /\ CommitInitial(r)
<1>1. CASE c # ask[r].cust \/ Accept(r) BY <1>1, OthersKept
<1>2. CASE c = ask[r].cust /\ ~ Accept(r) BY <1>2, UntouchedSteps DEF ledger
<1> QED BY <1>1, <1>2

LEMMA DebtNext ==
  ASSUME Consistent, Consistent', [LedgerNext]_ledgerVars, NEW c \in Customers, c \notin met',
         Untouched(c)', Untouched(c) /\ c \notin met => DebtIsExplained(c)
  PROVE  DebtIsExplained(c)'
<1> DEFINE seeds == TotalOwedOn(OpenEntries(SeedEntries, c))
<1>1. Untouched(c) /\ c \notin met BY UntouchedBefore, RacedGrows
<1>2. balance[c] - TotalOwedOn(OpenEntries(entered, c)) = SeedBalance[c] - seeds
  BY <1>1 DEF DebtIsExplained
<1>3. /\ TotalOwedOn(OpenEntries(entered, c)) = Sum(DebtOf, EnteredOf(c))
      /\ TotalOwedOn(OpenEntries(entered, c))' = Sum(DebtOf, EnteredOf(c)')
  BY SumsEverywhere, SumsNext DEF AllSums, PaidSums
<1> SUFFICES balance'[c] - Sum(DebtOf, EnteredOf(c)') = balance[c] - Sum(DebtOf, EnteredOf(c))
  BY <1>2, <1>3 DEF DebtIsExplained
<1>4. CASE UNCHANGED ledgerVars BY <1>4 DEF EnteredOf, ledgerVars, ledger
<1>5. ASSUME NEW r \in Writers, Accept(r) \/ LedgerStep(r) \/ Cut(r)
      PROVE  balance'[c] - Sum(DebtOf, EnteredOf(c)') = balance[c] - Sum(DebtOf, EnteredOf(c))
  <2>1. CASE /\ balance'[c] = balance[c]
             /\ \A e \in Entry : e.cust = c => (e \in entered' <=> e \in entered)
    BY <2>1, EntriesOfKept
  <2>2. CASE c = ask[r].cust /\ CommitPayment(r) BY <1>1, <2>2, DebtFollowsPayment
  <2>3. CASE c = ask[r].cust /\ CommitInitial(r) BY <1>1, <2>3, DebtFollowsInitial
  <2> QED BY <1>1, <1>5, <2>1, <2>2, <2>3, StepsMeet
<1> QED BY <1>4, <1>5 DEF LedgerNext

LEMMA StatusesNext ==
  ASSUME Consistent, Consistent', [LedgerNext]_ledgerVars, StatusesTellPaid
  PROVE  StatusesTellPaid'
<1> SUFFICES ASSUME NEW f \in entered', Untouched(f.cust)', f.cust \notin met'
             PROVE  TellsPaid(f)
  BY DEF StatusesTellPaid
<1> DEFINE c == f.cust
<1>1. f \in Entry /\ c \in Customers BY DEF Consistent, LedgerTyped, Entry
<1>2. Untouched(c) /\ c \notin met BY <1>1, UntouchedBefore, RacedGrows
<1>3. \A e \in EnteredOf(c) : e \in Entry /\ TellsPaid(e)
  BY <1>2 DEF StatusesTellPaid, EnteredOf, Consistent, LedgerTyped
<1>4. f \in EnteredOf(c)' BY DEF EnteredOf
<1> HIDE DEF c
<1>5. CASE UNCHANGED ledgerVars BY <1>3, <1>4, <1>5 DEF EnteredOf, ledgerVars, ledger
<1>6. ASSUME NEW r \in Writers, Accept(r) \/ LedgerStep(r) \/ Cut(r)
      PROVE  TellsPaid(f)
  <2>1. CASE \A e \in Entry : e.cust = c => (e \in entered' <=> e \in entered)
    BY <1>1, <1>3, <2>1 DEF EnteredOf, c
  <2>2. CASE c = ask[r].cust /\ CommitPayment(r)
    <3>1. CASE f.st = "PAID" /\ f.owe = 0 BY <3>1 DEF TellsPaid
    <3>2. ASSUME NEW e \in EnteredOf(c), f = Booked(e, Allocation(r).pays)
          PROVE  TellsPaid(f)
      <4> DEFINE x == AddedOf(r)[e]
      <4>1. e \in Entry /\ TellsPaid(e) BY <1>3
      <4>2. \/ f = e /\ x = 0
            \/ /\ Open(e) /\ f.owe = e.owe /\ f.paid = e.paid + x
               /\ \/ x = Owed(e) /\ f.st = "PAID"
                  \/ 0 < x /\ x < Owed(e) /\ f.st = "PARTIAL"
        BY <1>2, <2>2, <3>2, BookedAlone
      <4>3. x \in Int BY <4>1, AddedToRow DEF Ints
      <4> HIDE DEF x
      <4> QED BY <4>1, <4>2, <4>3 DEF TellsPaid, Open, Owed, Entry
    <3> QED BY <1>4, <2>2, <3>1, <3>2, RowsPaid
  <2>3. CASE c = ask[r].cust /\ CommitInitial(r)
    <3>1. Ints(DebtOf, Entry) BY RowInts
    <3>2. PICK n \in Entry :
            /\ entered' = entered \cup {n}
            /\ n.owe = ask[r].amount /\ n.paid = 0
            /\ n.st = IF ask[r].amount > 0 THEN "UNPAID" ELSE "PAID"
      BY <2>3, <3>1, InitialRows
    <3>3. ask[r].amount \in Nat BY DEF Consistent, LedgerTyped, Calls
    <3>4. TellsPaid(n) BY <3>2, <3>3 DEF TellsPaid
    <3> QED BY <1>3, <3>2, <3>4 DEF EnteredOf, c
  <2> QED BY <1>1, <1>2, <1>6, <2>1, <2>2, <2>3, StepsMeet
<1> QED BY <1>5, <1>6 DEF LedgerNext

LEMMA BooksNext ==
  ASSUME Consistent, Consistent', [LedgerNext]_ledgerVars, BooksAgree
  PROVE  BooksAgree'
<1>1. ASSUME NEW c \in Customers \ met', Untouched(c)' PROVE DebtIsExplained(c)'
  BY <1>1, DebtNext DEF BooksAgree
<1> QED BY <1>1, StatusesNext DEF BooksAgree

\* What is left of a payment that is alone.
LEMMA CreditStep ==
  ASSUME Consistent, [LedgerNext]_ledgerVars, NEW c \in Customers \ met, credits'[c] > credits[c]
  PROVE  OpenEntries(entered', c) = {}
<1>1. credits[c] \in Int /\ ~ (credits[c] > credits[c]) BY DEF Consistent, LedgerTyped
<1>2. PICK r \in Writers : Accept(r) \/ LedgerStep(r) \/ Cut(r)
  BY <1>1 DEF LedgerNext, ledgerVars, ledger
<1>3. c = ask[r].cust /\ ~ Accept(r) BY <1>1, <1>2, OthersKept
<1>4. CommitPayment(r)
  BY <1>1, <1>2, <1>3
     DEF LedgerStep, ReadEntries, PaymentThrows, CommitInitial, InitialThrows, WriteRefund,
         WipeEntries, DeleteCustomer, DeleteThrows, Throw, Cut, ledger
<1>5. had[r].credits = credits[c] /\ Allocation(r).left \in Nat
  <2>1. awaits[r] = "pay" /\ c \notin met BY <1>4 DEF CommitPayment
  <2>2. had[r].credits = credits[c] BY <1>3, <2>1, FreshTotals DEF Underway
  <2> QED BY <2>2, AllocationSpends DEF Consistent
<1>6. credits'[c] = credits[c] + Allocation(r).left
  BY <1>3, <1>4, <1>5 DEF CommitPayment, Consistent, LedgerTyped
<1>7. Allocation(r).left > 0 BY <1>1, <1>5, <1>6
<1>8. ASSUME NEW f \in EnteredOf(c)' PROVE ~ Open(f)
  <2>1. CASE f.st = "PAID" BY <2>1 DEF Open
  <2>2. ASSUME NEW e \in EnteredOf(c), f = Booked(e, Allocation(r).pays)
        PROVE  ~ Open(f)
    BY <1>3, <1>4, <1>7, <2>2, BookedAlone
  <2> QED BY <1>3, <1>4, <2>1, <2>2, RowsPaid
<1> QED BY <1>8 DEF OpenEntries, EnteredOf

----------------------------------------------------------------------------
(* The theorems about the ledger *)

LEMMA AlwaysConsistent == LedgerSpec => []Consistent
BY ConsistentInit, ConsistentNext, PTL DEF LedgerSpec

\* The tables and the requests of customer-balance.service.ts and deleteCustomer
\* keep their types.
THEOREM LedgerTypeOK == LedgerSpec => []LedgerTyped
<1>1. Consistent => LedgerTyped BY DEF Consistent
<1> QED BY <1>1, AlwaysConsistent, PTL

\* However the payments of processPayment overlap with one another and with every
\* other request, what is paid on a customer's entries is what its payments that
\* succeeded asked for, no unit lost and none counted twice, until a refund or the
\* deletion of the customer begins.
THEOREM PaymentsBooked == LedgerSpec => []PaymentsAreBooked
<1>1. LedgerInit => Consistent /\ PaymentsAreBooked BY ConsistentInit, PaymentsInit
<1>2. Consistent /\ PaymentsAreBooked /\ [LedgerNext]_ledgerVars => (Consistent /\ PaymentsAreBooked)'
  BY ConsistentNext, PaymentsNext
<1> QED BY <1>1, <1>2, PTL DEF LedgerSpec

\* And when requests write a customer one at a time, its currentBalance moves with
\* what its open entries owe, and the status of an entry tells what is paid on it,
\* if the entries the store starts with do (processPayment, addInitialBalance).
THEOREM BooksKept == SeedsTellPaid /\ LedgerSpec => []BooksAreKept
<1> SUFFICES ASSUME SeedsTellPaid PROVE LedgerSpec => []BooksAreKept OBVIOUS
<1>1. LedgerInit => Consistent /\ BooksAgree BY ConsistentInit, BooksInit
<1>2. Consistent /\ BooksAgree /\ [LedgerNext]_ledgerVars => (Consistent /\ BooksAgree)'
  BY ConsistentNext, BooksNext
<1>3. PaymentsAreBooked /\ BooksAgree => BooksAreKept BY DEF BooksAreKept
<1> QED BY <1>1, <1>2, <1>3, PaymentsBooked, PTL DEF LedgerSpec

\* A payment that is alone on its customer becomes credit only when it leaves none
\* of its debts open: processPayment pays every entry before it adds to credits.
THEOREM CreditsOnlyWithoutDebt == LedgerSpec => CreditOnlyWithoutDebt
<1> DEFINE Prop == \A c \in Customers \ met :
                     credits'[c] > credits[c] => OpenEntries(entered', c) = {}
<1>1. Consistent /\ [LedgerNext]_ledgerVars => [Prop]_ledgerVars BY CreditStep
<1> QED BY <1>1, AlwaysConsistent, PTL DEF LedgerSpec, CreditOnlyWithoutDebt

----------------------------------------------------------------------------
(* Expenses: what a request is at *)

Pcs == Ended \cup {"idle", "mkdir", "trash", "sheet", "entries", "latest", "values",
                   "pick", "lock", "replace", "fetch", "discard", "remove"}

\* Which requests come to a statement.
Runs(p, op) ==
    /\ p = "idle" => op = "none"
    /\ p = "mkdir" => op = "createDir"
    /\ p = "trash" => op = "deleteDir"
    /\ p = "sheet" => op = "createSheet"
    /\ p \in {"entries", "latest", "values"} => op = "addRows"
    /\ p \in {"pick", "lock", "replace", "fetch"} => op = "update"
    /\ p = "discard" => op = "deleteSheet"
    /\ p = "remove" => op = "hardDelete"

\* What a request of each kind carries.
Asks(c) ==
    /\ c.op = "createDir" => c.dir \in {Root} \cup DOMAIN dirs
    /\ c.op \in {"deleteDir", "createSheet"} => c.dir \in DOMAIN dirs
    /\ c.op = "createSheet" => c.body \in NewSheets
    /\ c.op \in {"update", "addRows", "deleteSheet", "hardDelete"} => c.sheet \in Ids
    /\ c.op = "update" => c.body \in Replacements
    /\ c.op = "addRows" => c.body \in Additions

RequestsFit ==
    /\ pc \in [Requests -> Pcs]
    /\ DOMAIN call = Requests /\ DOMAIN cols = Requests /\ DOMAIN found = Requests
    /\ \A r \in Requests :
         /\ Runs(pc[r], call[r].op)
         /\ Asks(call[r])
         /\ pc[r] = "idle" => cols[r] = {} /\ found[r] = <<>>
         /\ pc[r] = "pick" => call[r].body.names # Unset
         /\ pc[r] \in {"replace", "fetch"} => call[r].body.rows # Unset

DirsFit ==
    /\ \A d \in DOMAIN dirs :
         /\ dirs[d] \in Directory
         /\ d \in DOMAIN SeedDirs \/ d \in On(dirs[d].parent, "createDir")
         /\ \/ dirs[d].parent = Root /\ dirs[d].level = 1
            \/ /\ dirs[d].parent \in DOMAIN dirs
               /\ dirs[dirs[d].parent].level = 1
               /\ dirs[d].level = 2
    /\ \A r \in Requests : (pc[r] = "mkdir" /\ call[r].dir # Root) => dirs[call[r].dir].level = 1

\* Who replaces rows keeps the sheet from being deleted.
SheetsFit ==
    /\ \A s \in DOMAIN sheets :
         /\ sheets[s] \in Sheet
         /\ sheets[s].dir \in DOMAIN dirs
         /\ s \in DOMAIN SeedSheets \/ s \in On(sheets[s].dir, "createSheet")
    /\ \A r \in Requests : pc[r] \in {"replace", "fetch"} => call[r].sheet \in DOMAIN sheets

ColumnsFit ==
    /\ \A c \in columns : /\ c \in Column /\ c.sheet \in DOMAIN sheets
                          /\ c.by = Seed \/ pc[c.by] = "ok"
    /\ \A r \in Requests : \A c \in cols[r] : c \in Column /\ c.sheet = call[r].sheet

\* A request that can make no more entries.
Wrote(q) == q \in Requests /\ pc[q] \in {"latest", "values", "ok", "failed"}

\* The entries that a request read back stay in its sheet, while they are there.
EntriesFit ==
    /\ IsFiniteSet(DOMAIN entries)
    /\ \A e \in DOMAIN entries : e \in EntryId /\ Wrote(e[1]) /\ entries[e] \in DOMAIN sheets
    /\ \A r \in Requests :
         /\ found[r] \in Seq(EntryId)
         /\ \A e \in ToSet(found[r]) :
              Wrote(e[1]) /\ (e \in DOMAIN entries => entries[e] = call[r].sheet)

ValuesFit ==
    /\ \A v \in values : /\ v \in Value
                         /\ v.column \in columns
                         /\ v.entry \in DOMAIN entries
                         /\ v.column.sheet = entries[v.entry]
                         /\ pc[v.row[1]] = "ok"
    /\ \A v, w \in values : v.entry = w.entry /\ v.column = w.column => v = w

Rows == SheetsFit /\ ColumnsFit /\ EntriesFit /\ ValuesFit

\* Requests at work together have met.
MeetInv == \A q, r \in Requests : (q # r /\ InFlight(q) /\ InFlight(r)) => Met(q, r)

\* A folder, a sheet in use and the directory they share.
Shares(c, s) ==
    LET d == dirs[c].parent IN
    c \in On(d, "createDir") /\ s \in On(d, "createSheet") /\ Met(c, s)

\* Folders and sheets of one directory were made at the same time; so will be
\* those that requests are about to make.
MixInv ==
    /\ \A c \in DOMAIN dirs, s \in DOMAIN sheets :
         (sheets[s].active /\ sheets[s].dir = dirs[c].parent) => Shares(c, s)
    /\ \A q \in Requests : pc[q] = "sheet" =>
         \A c \in Children(call[q].dir) : c \in On(call[q].dir, "createDir") /\ Met(c, q)
    /\ \A r \in Requests : (pc[r] = "mkdir" /\ call[r].dir # Root) =>
         \A s \in ActiveSheets(call[r].dir) : s \in On(call[r].dir, "createSheet") /\ Met(s, r)

\* c was made in d, and while d was thrown away.
Escapes(c, d) == c \in On(d, "createDir") /\ \E q \in On(d, "deleteDir") : Met(c, q)

TrashInv ==
    /\ \A d \in DOMAIN dirs : ~ dirs[d].active =>
         /\ On(d, "deleteDir") # {}
         /\ \A c \in ActiveChildren(d) : Escapes(c, d)
         /\ ActiveSheets(d) \subseteq On(d, "createSheet")
    /\ \A q \in Requests : pc[q] = "trash" =>
         /\ \A c \in ActiveChildren(call[q].dir) : c \in On(call[q].dir, "createDir") /\ Met(c, q)
         /\ ActiveSheets(call[q].dir) \subseteq On(call[q].dir, "createSheet")
    /\ \A r \in Requests : (pc[r] = "mkdir" /\ call[r].dir # Root /\ ~ dirs[call[r].dir].active) =>
         \E q \in On(call[r].dir, "deleteDir") : Met(r, q)

Tree == DirsFit /\ MixInv /\ TrashInv

\* What refers to what.
Base == RequestsFit /\ Rows /\ Tree

\* A replacement that is about to put its columns.
Renames(r) == pc[r] \in {"lock", "replace", "fetch"} /\ call[r].body.names # Unset

NamesInv ==
    /\ ColumnsStandAlone
    /\ \A r \in Requests : Renames(r) =>
         \A k \in ColumnsOf(call[r].sheet) \ cols[r] : Met(k.by, r)

\* Who meets nobody deletes all that is there.
Alone(r) == \A q \in Requests : ~ Met(r, q)

AloneInv == \A r \in Requests : Alone(r) =>
    /\ Renames(r) => cols[r] = ColumnsOf(call[r].sheet)
    /\ pc[r] = "fetch" => ToSet(found[r]) = EntriesOf(call[r].sheet)

----------------------------------------------------------------------------
(* How requests come in and go on *)

Follows(p, q) ==
    /\ p \notin Ended \cup {"idle"}
    /\ \/ q \in {"ok", "failed"}
       \/ <<p, q>> \in {<<"entries", "latest">>, <<"latest", "values">>, <<"pick", "lock">>,
                        <<"lock", "replace">>, <<"replace", "fetch">>}

\* What every step does that receives no request.
Onward ==
    /\ call' = call /\ raced' = raced
    /\ pc' = [q \in Requests |-> pc'[q]]
    /\ \A q \in Requests : pc'[q] = pc[q] \/ Follows(pc[q], pc'[q])

\* What a request is let in with.
LetIn(c, p) ==
    /\ p \in {"refused", "mkdir", "trash", "sheet", "entries", "pick", "lock", "discard", "remove"}
    /\ Runs(p, c.op) /\ Asks(c)
    /\ (p = "mkdir" /\ c.dir # Root) =>
         dirs[c.dir].level = 1 /\ dirs[c.dir].active /\ ActiveSheets(c.dir) = {}
    /\ p = "trash" => ActiveChildren(c.dir) = {} /\ ActiveSheets(c.dir) = {}
    /\ p = "sheet" => (dirs[c.dir].level = 1 => Children(c.dir) = {})
    /\ p = "pick" => c.body.names # Unset
    /\ p = "lock" => c.body.names = Unset

\* Request r comes in with c, and goes to p.
Arrives(r, c, p) ==
    /\ pc[r] = "idle"
    /\ call' = [call EXCEPT ![r] = c]
    /\ pc' = [pc EXCEPT ![r] = p]
    /\ raced \subseteq raced'
    /\ p # "refused" => \A q \in Requests : InFlight(q) => {q, r} \in raced'
    /\ db' = db /\ found' = found
    /\ DOMAIN cols' = DOMAIN cols
    /\ \A q \in Requests \ {r} : cols'[q] = cols[q]
    /\ \A k \in cols'[r] : k \in cols[r] \/ (k \in columns /\ k.sheet = c.sheet)

\* What stays, whatever a step does.
Stays ==
    /\ \A q \in Requests : pc[q] = "ok" => pc'[q] = "ok" /\ call'[q] = call[q]
    /\ \A q : Wrote(q) => Wrote(q)'
    /\ raced \subseteq raced'

LEMMA MetBoth == \A q, r : Met(q, r) <=> Met(r, q)
<1> TAKE q, r
<1>1. {q, r} = {r, q} OBVIOUS
<1> QED BY <1>1 DEF Met

LEMMA StaysMet == ASSUME Stays PROVE \A q, r : Met(q, r) => Met(q, r)'
  BY DEF Stays, Met

LEMMA StaysOn == ASSUME Stays PROVE \A d, op : On(d, op) \subseteq On(d, op)'
  BY DEF Stays, On

LEMMA OnwardStays == ASSUME RequestsFit, Onward PROVE Stays
  BY DEF RequestsFit, Onward, Follows, Stays, Wrote, Ended

LEMMA ArrivesStays ==
    ASSUME RequestsFit, NEW r \in Requests, NEW c, NEW p, Arrives(r, c, p)
    PROVE  Stays
  BY DEF RequestsFit, Arrives, Stays, Wrote

\* Whatever is received comes in like this.
LEMMA Arrival ==
    ASSUME RequestsFit, SheetsFit, NEW r \in Requests, Receive(r)
    PROVE  \E c, p : Arrives(r, c, p) /\ LetIn(c, p)
<1> DEFINE Come == \E c, p : Arrives(r, c, p) /\ LetIn(c, p)
<1>1. ASSUME NEW c, NEW p, Begin(r, c, p), LetIn(c, p)
      PROVE  Come
  <2>1. Arrives(r, c, p) BY <1>1 DEF Begin, Goto, Arrives, db
  <2> QED BY <2>1, <1>1
<1>2. ASSUME NEW c, Refuse(r, c), Asks(c)
      PROVE  Come
  <2>1. Arrives(r, c, "refused") BY <1>2 DEF Refuse, Goto, Arrives, db
  <2>2. LetIn(c, "refused") BY <1>2 DEF LetIn, Runs
  <2> QED BY <2>1, <2>2
<1>3. \A s \in DOMAIN sheets : s \in Ids BY DEF SheetsFit, On, Ids
<1> HIDE DEF Come
<1>4. ASSUME NEW d \in {Root} \cup DOMAIN dirs, BeginCreateDir(r, d)
      PROVE  Come
  <2> DEFINE c == [op |-> "createDir", dir |-> d]
  <2>1. Asks(c) BY DEF Asks
  <2>2. MayHold(d) => LetIn(c, "mkdir") BY <2>1 DEF MayHold, LetIn, Runs
  <2> QED BY <1>1, <1>2, <1>4, <2>1, <2>2 DEF BeginCreateDir
<1>5. ASSUME NEW d \in DOMAIN dirs, BeginDeleteDir(r, d)
      PROVE  Come
  <2> DEFINE c == [op |-> "deleteDir", dir |-> d]
  <2>1. Asks(c) BY DEF Asks
  <2>2. (ActiveChildren(d) = {} /\ ActiveSheets(d) = {}) => LetIn(c, "trash")
    BY <2>1 DEF LetIn, Runs
  <2> QED BY <1>1, <1>2, <1>5, <2>1, <2>2 DEF BeginDeleteDir
<1>6. ASSUME NEW d \in DOMAIN dirs, NEW b \in NewSheets, BeginCreateSheet(r, d, b)
      PROVE  Come
  <2> DEFINE c == [op |-> "createSheet", dir |-> d, body |-> b]
  <2>1. Asks(c) BY DEF Asks
  <2>2. ~ (dirs[d].level = 1 /\ Children(d) # {}) => LetIn(c, "sheet") BY <2>1 DEF LetIn, Runs
  <2> QED BY <1>1, <1>2, <1>6, <2>1, <2>2 DEF BeginCreateSheet
<1>7. ASSUME NEW s \in DOMAIN sheets, NEW b \in Replacements, BeginUpdate(r, s, b)
      PROVE  Come
  <2> DEFINE c == [op |-> "update", sheet |-> s, body |-> b]
             p == IF b.names = Unset THEN "lock" ELSE "pick"
  <2>1. Asks(c) BY <1>3 DEF Asks
  <2>2. LetIn(c, p) BY <2>1 DEF LetIn, Runs
  <2> QED BY <1>1, <1>2, <1>7, <2>1, <2>2 DEF BeginUpdate
<1>8. ASSUME NEW s \in DOMAIN sheets, NEW b \in Additions, BeginAddRows(r, s, b)
      PROVE  Come
  <2> DEFINE c == [op |-> "addRows", sheet |-> s, body |-> b]
  <2>1. Asks(c) BY <1>3 DEF Asks
  <2>2. CASE Known(s)
    <3>1. LetIn(c, "entries") BY <2>1 DEF LetIn, Runs
    <3>2. PICK S \in Finds(ColumnsOf(s)) : cols' = [cols EXCEPT ![r] = S]
      BY <1>8, <2>2 DEF BeginAddRows
    <3>3. S \subseteq ColumnsOf(s) BY DEF Finds
    <3>4. cols'[r] = S /\ DOMAIN cols' = DOMAIN cols BY <3>2 DEF RequestsFit
    <3>5. Arrives(r, c, "entries")
      BY <1>8, <2>2, <3>2, <3>3, <3>4 DEF BeginAddRows, Goto, Arrives, db, ColumnsOf
    <3> QED BY <3>1, <3>5 DEF Come
  <2> QED BY <1>2, <1>8, <2>1, <2>2 DEF BeginAddRows
<1>9. ASSUME NEW s \in DOMAIN sheets, BeginDeleteSheet(r, s)
      PROVE  Come
  <2> DEFINE c == [op |-> "deleteSheet", sheet |-> s]
  <2>1. Asks(c) BY <1>3 DEF Asks
  <2>2. LetIn(c, "discard") BY <2>1 DEF LetIn, Runs
  <2> QED BY <1>1, <1>2, <1>9, <2>1, <2>2 DEF BeginDeleteSheet
<1>10. ASSUME NEW s \in DOMAIN sheets, BeginHardDelete(r, s)
       PROVE  Come
  <2> DEFINE c == [op |-> "hardDelete", sheet |-> s]
  <2>1. Asks(c) BY <1>3 DEF Asks
  <2>2. LetIn(c, "remove") BY <2>1 DEF LetIn, Runs
  <2> QED BY <1>1, <1>2, <1>10, <2>1, <2>2 DEF BeginHardDelete
<1>11. Come BY <1>4, <1>5, <1>6, <1>7, <1>8, <1>9, <1>10 DEF Receive
<1> QED BY <1>11 DEF Come

\* Steps of requests that were let in.
LEMMA OnwardRequests ==
    ASSUME RequestsFit, Onward, DOMAIN dirs \subseteq DOMAIN dirs',
           DOMAIN cols' = Requests, DOMAIN found' = Requests,
           \A q \in Requests :
             /\ pc[q] = "idle" => cols'[q] = cols[q] /\ found'[q] = found[q]
             /\ (pc[q] = "lock" /\ pc'[q] = "replace") => call[q].body.rows # Unset
    PROVE  RequestsFit'
<1>1. ASSUME NEW q \in Requests, Follows(pc[q], pc'[q])
      PROVE  /\ pc'[q] \in Pcs \ {"idle", "pick"}
             /\ Runs(pc'[q], call[q].op)
             /\ pc'[q] = "fetch" => pc[q] = "replace"
             /\ pc'[q] = "replace" => pc[q] = "lock"
  BY <1>1 DEF RequestsFit, Follows, Runs, Pcs, Ended
<1>2. ASSUME NEW q \in Requests
      PROVE  Asks(call[q])'
  BY DEF RequestsFit, Onward, Asks
<1>3. ASSUME NEW q \in Requests
      PROVE  pc'[q] \in Pcs /\ Runs(pc'[q], call[q].op)
  BY <1>1 DEF RequestsFit, Onward
<1>4. ASSUME NEW q \in Requests
      PROVE  /\ pc'[q] = "pick" => call[q].body.names # Unset
             /\ pc'[q] \in {"replace", "fetch"} => call[q].body.rows # Unset
  BY <1>1 DEF RequestsFit, Onward
<1>5. pc' \in [Requests -> Pcs] /\ DOMAIN call' = Requests BY <1>3 DEF RequestsFit, Onward
<1>6. ASSUME NEW q \in Requests, pc'[q] = "idle"
      PROVE  pc[q] = "idle"
  BY <1>1, <1>6 DEF Onward
<1> QED BY <1>2, <1>3, <1>4, <1>5, <1>6 DEF RequestsFit, Onward

LEMMA ArrivesRequests ==
    ASSUME RequestsFit, NEW r \in Requests, NEW c, NEW p, Arrives(r, c, p), LetIn(c, p)
    PROVE  RequestsFit'
<1>1. p \in Pcs \ {"idle", "replace", "fetch"} BY DEF LetIn, Pcs, Ended
<1>2. /\ pc' \in [Requests -> Pcs] /\ DOMAIN call' = Requests
      /\ DOMAIN cols' = Requests /\ DOMAIN found' = Requests
      /\ pc'[r] = p /\ call'[r] = c
      /\ \A q \in Requests \ {r} : pc'[q] = pc[q] /\ call'[q] = call[q]
  BY <1>1 DEF RequestsFit, Arrives
<1>3. Asks(c)' /\ \A q \in Requests \ {r} : Asks(call[q])'
  BY <1>2 DEF RequestsFit, Arrives, LetIn, Asks, db
<1>4. ASSUME NEW q \in Requests
      PROVE  /\ Runs(pc'[q], call'[q].op)
             /\ Asks(call[q])'
             /\ pc'[q] = "idle" => cols'[q] = {} /\ found'[q] = <<>>
             /\ pc'[q] = "pick" => call'[q].body.names # Unset
             /\ pc'[q] \in {"replace", "fetch"} => call'[q].body.rows # Unset
  BY <1>1, <1>2, <1>3 DEF RequestsFit, Arrives, LetIn
<1> QED BY <1>2, <1>4 DEF RequestsFit

----------------------------------------------------------------------------
(* The tree *)

\* No sheet is new, or in use again.
SheetsLess == \A s \in DOMAIN sheets' :
    /\ s \in DOMAIN sheets
    /\ sheets'[s] \in Sheet
    /\ sheets'[s].dir = sheets[s].dir
    /\ sheets'[s].active => sheets[s].active

LEMMA LessActive ==
    ASSUME SheetsLess
    PROVE  \A d : ActiveSheets(d)' \subseteq ActiveSheets(d)
  BY DEF SheetsLess, ActiveSheets

\* Steps that leave the directories alone, and make no sheet.
LEMMA TreeStays ==
    ASSUME Tree, Stays, dirs' = dirs, SheetsLess,
           \A q \in Requests : pc'[q] \in {"mkdir", "trash", "sheet"} =>
                                 pc'[q] = pc[q] /\ call'[q] = call[q]
    PROVE  Tree'
<1>1. \A d, op : On(d, op) \subseteq On(d, op)' BY StaysOn
<1>2. \A q, r : Met(q, r) => Met(q, r)' BY StaysMet
<1>3. \A d : Children(d)' = Children(d) /\ ActiveChildren(d)' = ActiveChildren(d)
  BY DEF Children, ActiveChildren
<1>4. \A d : ActiveSheets(d)' \subseteq ActiveSheets(d) BY LessActive
<1>5. DirsFit' BY <1>1 DEF Tree, DirsFit
<1>6. MixInv'
  <2>1. ASSUME NEW c \in DOMAIN dirs', NEW s \in DOMAIN sheets',
               sheets'[s].active, sheets'[s].dir = dirs'[c].parent
        PROVE  Shares(c, s)'
    <3>1. Shares(c, s) BY <2>1 DEF Tree, MixInv, SheetsLess
    <3> QED BY <3>1, <1>1, <1>2 DEF Shares
  <2>2. ASSUME NEW q \in Requests, pc'[q] = "sheet", NEW c \in Children(call[q].dir)'
        PROVE  c \in On(call[q].dir, "createDir")' /\ Met(c, q)'
    <3>1. c \in On(call[q].dir, "createDir") /\ Met(c, q) BY <2>2, <1>3 DEF Tree, MixInv
    <3> QED BY <2>2, <3>1, <1>1, <1>2
  <2>3. ASSUME NEW r \in Requests, pc'[r] = "mkdir", call'[r].dir # Root,
               NEW s \in ActiveSheets(call[r].dir)'
        PROVE  s \in On(call[r].dir, "createSheet")' /\ Met(s, r)'
    <3>1. s \in On(call[r].dir, "createSheet") /\ Met(s, r) BY <2>3, <1>4 DEF Tree, MixInv
    <3> QED BY <2>3, <3>1, <1>1, <1>2
  <2> QED BY <2>1, <2>2, <2>3 DEF MixInv
<1>7. TrashInv'
  <2>1. ASSUME NEW c, NEW d, Escapes(c, d)
        PROVE  Escapes(c, d)'
    BY <2>1, <1>1, <1>2 DEF Escapes
  <2>2. ASSUME NEW d \in DOMAIN dirs', ~ dirs'[d].active
        PROVE  /\ On(d, "deleteDir")' # {}
               /\ \A c \in ActiveChildren(d)' : Escapes(c, d)'
               /\ ActiveSheets(d)' \subseteq On(d, "createSheet")'
    <3>1. /\ On(d, "deleteDir") # {}
          /\ \A c \in ActiveChildren(d) : Escapes(c, d)
          /\ ActiveSheets(d) \subseteq On(d, "createSheet")
      BY <2>2 DEF Tree, TrashInv
    <3> QED BY <3>1, <2>1, <1>1, <1>3, <1>4
  <2>3. ASSUME NEW q \in Requests, pc'[q] = "trash"
        PROVE  /\ \A c \in ActiveChildren(call[q].dir)' :
                     c \in On(call[q].dir, "createDir")' /\ Met(c, q)'
               /\ ActiveSheets(call[q].dir)' \subseteq On(call[q].dir, "createSheet")'
    <3>1. /\ \A c \in ActiveChildren(call[q].dir) :
                c \in On(call[q].dir, "createDir") /\ Met(c, q)
          /\ ActiveSheets(call[q].dir) \subseteq On(call[q].dir, "createSheet")
      BY <2>3 DEF Tree, TrashInv
    <3> QED BY <2>3, <3>1, <1>1, <1>2, <1>3, <1>4
  <2>4. ASSUME NEW r \in Requests, pc'[r] = "mkdir", call'[r].dir # Root,
               ~ dirs'[call'[r].dir].active
        PROVE  \E q \in On(call[r].dir, "deleteDir")' : Met(r, q)'
    <3>1. \E q \in On(call[r].dir, "deleteDir") : Met(r, q) BY <2>4 DEF Tree, TrashInv
    <3> QED BY <2>4, <3>1, <1>1, <1>2
  <2> QED BY <2>2, <2>3, <2>4 DEF TrashInv
<1> QED BY <1>5, <1>6, <1>7 DEF Tree

LEMMA TreeArrives ==
    ASSUME RequestsFit, Tree, NEW r \in Requests, NEW c, NEW p, Arrives(r, c, p), LetIn(c, p)
    PROVE  Tree'
<1>1. Stays BY ArrivesStays
<1>2. \A d, op : On(d, op) \subseteq On(d, op)' BY <1>1, StaysOn
<1>3. \A q, s : Met(q, s) => Met(q, s)' BY <1>1, StaysMet
<1>4. dirs' = dirs /\ sheets' = sheets BY DEF Arrives, db
<1>5. \A d : /\ Children(d)' = Children(d) /\ ActiveChildren(d)' = ActiveChildren(d)
             /\ ActiveSheets(d)' = ActiveSheets(d)
  BY <1>4 DEF Children, ActiveChildren, ActiveSheets
<1>6. /\ pc'[r] = p /\ call'[r] = c
      /\ \A q \in Requests \ {r} : pc'[q] = pc[q] /\ call'[q] = call[q]
  BY DEF RequestsFit, Arrives
<1>7. DirsFit'
  <2>1. ASSUME NEW d \in DOMAIN dirs'
        PROVE  d \in DOMAIN SeedDirs \/ d \in On(dirs[d].parent, "createDir")'
    BY <1>2, <1>4 DEF Tree, DirsFit
  <2>2. \A q \in Requests : (pc'[q] = "mkdir" /\ call'[q].dir # Root) => dirs[call'[q].dir].level = 1
    BY <1>6 DEF Tree, DirsFit, LetIn
  <2> QED BY <2>1, <2>2, <1>4 DEF Tree, DirsFit
<1>8. p = "sheet" => Children(c.dir) = {}
  <2>1. \A d : Children(d) # {} => dirs[d].level = 1 \/ d = Root
    BY DEF Tree, DirsFit, Children
  <2>2. p = "sheet" => c.dir # Root
    BY ExpensesAssumption DEF LetIn, Asks, Runs, Tree, DirsFit, On, Ids
  <2> QED BY <2>1, <2>2 DEF LetIn
<1>9. MixInv'
  <2>1. ASSUME NEW k \in DOMAIN dirs', NEW s \in DOMAIN sheets',
               sheets'[s].active, sheets'[s].dir = dirs'[k].parent
        PROVE  Shares(k, s)'
    <3>1. Shares(k, s) BY <2>1, <1>4 DEF Tree, MixInv
    <3> QED BY <3>1, <1>2, <1>3, <1>4 DEF Shares
  <2>2. ASSUME NEW q \in Requests, pc'[q] = "sheet", NEW k \in Children(call[q].dir)'
        PROVE  k \in On(call[q].dir, "createDir")' /\ Met(k, q)'
    <3>1. CASE q = r BY <3>1, <2>2, <1>5, <1>6, <1>8
    <3>2. CASE q # r
      <4>1. k \in On(call[q].dir, "createDir") /\ Met(k, q)
        BY <3>2, <2>2, <1>5, <1>6 DEF Tree, MixInv
      <4> QED BY <3>2, <4>1, <1>2, <1>3, <1>6
    <3> QED BY <3>1, <3>2
  <2>3. ASSUME NEW q \in Requests, pc'[q] = "mkdir", call'[q].dir # Root,
               NEW s \in ActiveSheets(call[q].dir)'
        PROVE  s \in On(call[q].dir, "createSheet")' /\ Met(s, q)'
    <3>1. CASE q = r BY <3>1, <2>3, <1>5, <1>6 DEF LetIn
    <3>2. CASE q # r
      <4>1. s \in On(call[q].dir, "createSheet") /\ Met(s, q)
        BY <3>2, <2>3, <1>5, <1>6 DEF Tree, MixInv
      <4> QED BY <3>2, <4>1, <1>2, <1>3, <1>6
    <3> QED BY <3>1, <3>2
  <2> QED BY <2>1, <2>2, <2>3 DEF MixInv
<1>10. TrashInv'
  <2>1. ASSUME NEW k, NEW d, Escapes(k, d)
        PROVE  Escapes(k, d)'
    BY <2>1, <1>2, <1>3 DEF Escapes
  <2>2. ASSUME NEW d \in DOMAIN dirs', ~ dirs'[d].active
        PROVE  /\ On(d, "deleteDir")' # {}
               /\ \A k \in ActiveChildren(d)' : Escapes(k, d)'
               /\ ActiveSheets(d)' \subseteq On(d, "createSheet")'
    <3>1. /\ On(d, "deleteDir") # {}
          /\ \A k \in ActiveChildren(d) : Escapes(k, d)
          /\ ActiveSheets(d) \subseteq On(d, "createSheet")
      BY <2>2, <1>4 DEF Tree, TrashInv
    <3> QED BY <3>1, <2>1, <1>2, <1>5
  <2>3. ASSUME NEW q \in Requests, pc'[q] = "trash"
        PROVE  /\ \A k \in ActiveChildren(call[q].dir)' :
                     k \in On(call[q].dir, "createDir")' /\ Met(k, q)'
               /\ ActiveSheets(call[q].dir)' \subseteq On(call[q].dir, "createSheet")'
    <3>1. CASE q = r BY <3>1, <2>3, <1>5, <1>6 DEF LetIn
    <3>2. CASE q # r
      <4>1. /\ \A k \in ActiveChildren(call[q].dir) :
                  k \in On(call[q].dir, "createDir") /\ Met(k, q)
            /\ ActiveSheets(call[q].dir) \subseteq On(call[q].dir, "createSheet")
        BY <3>2, <2>3, <1>6 DEF Tree, TrashInv
      <4> QED BY <3>2, <4>1, <1>2, <1>3, <1>5, <1>6
    <3> QED BY <3>1, <3>2
  <2>4. ASSUME NEW q \in Requests, pc'[q] = "mkdir", call'[q].dir # Root,
               ~ dirs'[call'[q].dir].active
        PROVE  \E s \in On(call[q].dir, "deleteDir")' : Met(q, s)'
    <3>1. q # r BY <2>4, <1>4, <1>6 DEF LetIn
    <3>2. \E s \in On(call[q].dir, "deleteDir") : Met(q, s)
      BY <3>1, <2>4, <1>4, <1>6 DEF Tree, TrashInv
    <3> QED BY <3>1, <3>2, <1>2, <1>3, <1>6
  <2> QED BY <2>2, <2>3, <2>4 DEF TrashInv
<1> QED BY <1>7, <1>9, <1>10 DEF Tree

\* Two requests at work have met.
LEMMA WorkMeets ==
    ASSUME MeetInv, NEW q \in Requests, NEW r \in Requests, q # r, InFlight(q), InFlight(r)
    PROVE  Met(q, r)
  BY DEF MeetInv

\* A step of one request, that it was let in for.
Moves(r, p) ==
    /\ pc' = [pc EXCEPT ![r] = p]
    /\ call' = call /\ raced' = raced
    /\ Follows(pc[r], p)

LEMMA MovesOnward ==
    ASSUME RequestsFit, NEW r \in Requests, NEW p, Moves(r, p)
    PROVE  Onward /\ Stays /\ pc'[r] = p /\ \A q \in Requests \ {r} : pc'[q] = pc[q]
<1>1. pc'[r] = p /\ \A q \in Requests \ {r} : pc'[q] = pc[q] BY DEF RequestsFit, Moves
<1>2. Onward BY <1>1 DEF RequestsFit, Moves, Onward
<1> QED BY <1>1, <1>2, OnwardStays

LEMMA CreateDirTree ==
    ASSUME RequestsFit, SheetsFit, Tree, MeetInv, NEW r \in Requests, CreateDir(r)
    PROVE  Tree'
<1> DEFINE p == call[r].dir
           new == [parent |-> p, level |-> LevelUnder(p), active |-> TRUE]
<1>1. Moves(r, "ok") BY DEF CreateDir, Goto, Moves, Follows, Ended
<1>2. /\ Onward /\ Stays /\ pc'[r] = "ok" /\ \A q \in Requests \ {r} : pc'[q] = pc[q]
      /\ call' = call
  BY <1>1, MovesOnward DEF Moves
<1>3. \A d, op : On(d, op) \subseteq On(d, op)' BY <1>2, StaysOn
<1>4. \A q, s : Met(q, s) <=> Met(q, s)' BY <1>1 DEF Moves, Met
<1>5. pc[r] = "mkdir" /\ call[r].op = "createDir" /\ p \in {Root} \cup DOMAIN dirs
  BY DEF CreateDir, RequestsFit, Runs, Asks
<1>6. r \notin DOMAIN dirs BY <1>5, ExpensesAssumption DEF Tree, DirsFit, On
<1>7. /\ DOMAIN dirs' = DOMAIN dirs \cup {r}
      /\ \A d \in DOMAIN dirs : dirs'[d] = dirs[d]
      /\ dirs'[r] = new
      /\ sheets' = sheets
  BY <1>6 DEF CreateDir, Put
<1>8. \/ p = Root /\ new.level = 1
      \/ p # Root /\ dirs[p].level = 1 /\ new.level = 2
  BY <1>5 DEF Tree, DirsFit, LevelUnder
<1>9. p \in Ids \cup {Root} BY <1>5 DEF Tree, DirsFit, On, Ids
<1>10. new \in Directory /\ new.parent = p /\ new.active BY <1>8, <1>9 DEF Directory
<1>11. r \in On(p, "createDir")' BY <1>2, <1>5 DEF On
<1> HIDE DEF new
<1>12. \A d : /\ Children(d)' = IF d = p THEN Children(d) \cup {r} ELSE Children(d)
              /\ ActiveChildren(d)' \subseteq IF d = p THEN ActiveChildren(d) \cup {r} ELSE ActiveChildren(d)
              /\ ActiveSheets(d)' = ActiveSheets(d)
  BY <1>7, <1>10 DEF Children, ActiveChildren, ActiveSheets
<1>13. ASSUME NEW q \in Requests, InFlight(q), q # r
       PROVE  Met(r, q)' /\ Met(q, r)'
  <2>1. InFlight(r) BY <1>5 DEF InFlight, Ended
  <2> QED BY <2>1, <1>4, <1>13, WorkMeets
<1>14. DirsFit'
  <2>1. ASSUME NEW d \in DOMAIN dirs'
        PROVE  /\ dirs'[d] \in Directory
               /\ d \in DOMAIN SeedDirs \/ d \in On(dirs[d].parent, "createDir")'
               /\ \/ dirs'[d].parent = Root /\ dirs'[d].level = 1
                  \/ /\ dirs'[d].parent \in DOMAIN dirs'
                     /\ dirs'[dirs'[d].parent].level = 1
                     /\ dirs'[d].level = 2
    <3>1. CASE d = r
      <4>1. r \in On(dirs[r].parent, "createDir")' BY <1>2, <1>7, <1>10, <1>11
      <4> QED BY <3>1, <4>1, <1>5, <1>7, <1>8, <1>10
    <3>2. CASE d # r BY <3>2, <1>3, <1>7 DEF Tree, DirsFit
    <3> QED BY <3>1, <3>2
  <2>2. \A q \in Requests : (pc'[q] = "mkdir" /\ call'[q].dir # Root) => dirs'[call'[q].dir].level = 1
    <3> TAKE q \in Requests
    <3>1. pc'[q] = "mkdir" => call[q].dir \in {Root} \cup DOMAIN dirs
      BY <1>2 DEF RequestsFit, Runs, Asks
    <3> QED BY <3>1, <1>2, <1>7 DEF Tree, DirsFit
  <2> QED BY <2>1, <2>2 DEF DirsFit
<1>15. MixInv'
  <2>1. ASSUME NEW k \in DOMAIN dirs', NEW s \in DOMAIN sheets',
               sheets'[s].active, sheets'[s].dir = dirs'[k].parent
        PROVE  Shares(k, s)'
    <3>1. CASE k = r
      <4>1. s \in ActiveSheets(p) /\ p # Root
        BY <3>1, <2>1, <1>7, <1>10, ExpensesAssumption DEF ActiveSheets, SheetsFit, Sheet
      <4>2. s \in On(p, "createSheet") /\ Met(s, r) BY <4>1, <1>5 DEF Tree, MixInv
      <4> QED BY <3>1, <4>2, <1>2, <1>3, <1>4, <1>7, <1>10, <1>11, MetBoth DEF Shares
    <3>2. CASE k # r
      <4>1. Shares(k, s) BY <3>2, <2>1, <1>7 DEF Tree, MixInv
      <4> QED BY <3>2, <4>1, <1>3, <1>4, <1>7 DEF Shares
    <3> QED BY <3>1, <3>2
  <2>2. ASSUME NEW q \in Requests, pc'[q] = "sheet", NEW k \in Children(call[q].dir)'
        PROVE  k \in On(call[q].dir, "createDir")' /\ Met(k, q)'
    <3>1. q # r /\ InFlight(q) /\ pc[q] = "sheet" BY <2>2, <1>2 DEF InFlight, Ended
    <3>2. CASE k = r BY <3>1, <3>2, <2>2, <1>2, <1>6, <1>11, <1>12, <1>13 DEF Children
    <3>3. CASE k # r
      <4>1. k \in On(call[q].dir, "createDir") /\ Met(k, q)
        BY <3>1, <3>3, <2>2, <1>2, <1>12 DEF Tree, MixInv
      <4> QED BY <4>1, <1>2, <1>3, <1>4
    <3> QED BY <3>2, <3>3
  <2>3. ASSUME NEW q \in Requests, pc'[q] = "mkdir", call'[q].dir # Root,
               NEW s \in ActiveSheets(call[q].dir)'
        PROVE  s \in On(call[q].dir, "createSheet")' /\ Met(s, q)'
    <3>1. s \in On(call[q].dir, "createSheet") /\ Met(s, q)
      BY <2>3, <1>2, <1>12 DEF Tree, MixInv
    <3> QED BY <3>1, <1>2, <1>3, <1>4
  <2> QED BY <2>1, <2>2, <2>3 DEF MixInv
<1>16. TrashInv'
  <2>1. ASSUME NEW k, NEW d, Escapes(k, d)
        PROVE  Escapes(k, d)'
    BY <2>1, <1>3, <1>4 DEF Escapes
  <2>2. ASSUME NEW d \in DOMAIN dirs', ~ dirs'[d].active
        PROVE  /\ On(d, "deleteDir")' # {}
               /\ \A k \in ActiveChildren(d)' : Escapes(k, d)'
               /\ ActiveSheets(d)' \subseteq On(d, "createSheet")'
    <3>1. d # r /\ ~ dirs[d].active /\ d \in DOMAIN dirs BY <2>2, <1>7, <1>10
    <3>2. /\ On(d, "deleteDir") # {}
          /\ \A k \in ActiveChildren(d) : Escapes(k, d)
          /\ ActiveSheets(d) \subseteq On(d, "createSheet")
      BY <3>1 DEF Tree, TrashInv
    <3>3. d = p => Escapes(r, d)'
      <4>1. ASSUME d = p
            PROVE  \E q \in On(d, "deleteDir") : Met(r, q)
        <5>1. p # Root BY <3>1, <4>1, ExpensesAssumption DEF Tree, DirsFit, On, Ids
        <5> QED BY <5>1, <4>1, <3>1, <1>5 DEF Tree, TrashInv
      <4> QED BY <4>1, <1>2, <1>3, <1>4, <1>11 DEF Escapes
    <3> QED BY <3>2, <3>3, <2>1, <1>3, <1>12
  <2>3. ASSUME NEW q \in Requests, pc'[q] = "trash"
        PROVE  /\ \A k \in ActiveChildren(call[q].dir)' :
                     k \in On(call[q].dir, "createDir")' /\ Met(k, q)'
               /\ ActiveSheets(call[q].dir)' \subseteq On(call[q].dir, "createSheet")'
    <3>1. q # r /\ InFlight(q) /\ pc[q] = "trash" BY <2>3, <1>2 DEF InFlight, Ended
    <3>2. /\ \A k \in ActiveChildren(call[q].dir) :
                k \in On(call[q].dir, "createDir") /\ Met(k, q)
          /\ ActiveSheets(call[q].dir) \subseteq On(call[q].dir, "createSheet")
      BY <3>1 DEF Tree, TrashInv
    <3>3. Met(r, q)' BY <3>1, <1>13
    <3> QED BY <3>1, <3>2, <3>3, <1>2, <1>3, <1>4, <1>11, <1>12
  <2>4. ASSUME NEW q \in Requests, pc'[q] = "mkdir", call'[q].dir # Root,
               ~ dirs'[call'[q].dir].active
        PROVE  \E s \in On(call[q].dir, "deleteDir")' : Met(q, s)'
    <3>1. call[q].dir \in DOMAIN dirs /\ pc[q] = "mkdir"
      BY <2>4, <1>2 DEF RequestsFit, Runs, Asks
    <3>2. \E s \in On(call[q].dir, "deleteDir") : Met(q, s)
      BY <3>1, <2>4, <1>2, <1>7 DEF Tree, TrashInv
    <3> QED BY <3>2, <1>2, <1>3, <1>4
  <2> QED BY <2>2, <2>3, <2>4 DEF TrashInv
<1> QED BY <1>14, <1>15, <1>16 DEF Tree

LEMMA DeleteDirTree ==
    ASSUME RequestsFit, Tree, MeetInv, NEW r \in Requests, DeleteDir(r)
    PROVE  Tree'
<1>1. Moves(r, "ok") BY DEF DeleteDir, Goto, Moves, Follows, Ended
<1>2. /\ Onward /\ Stays /\ pc'[r] = "ok" /\ \A q \in Requests \ {r} : pc'[q] = pc[q]
      /\ call' = call
  BY <1>1, MovesOnward DEF Moves
<1>3. \A d, op : On(d, op) \subseteq On(d, op)' BY <1>2, StaysOn
<1>4. \A q, s : Met(q, s) <=> Met(q, s)' BY <1>1 DEF Moves, Met
<1>5. pc[r] = "trash" /\ call[r].op = "deleteDir" /\ call[r].dir \in DOMAIN dirs
  BY DEF DeleteDir, RequestsFit, Runs, Asks
<1>6. /\ DOMAIN dirs' = DOMAIN dirs /\ sheets' = sheets
      /\ \A d \in DOMAIN dirs :
           /\ dirs'[d] \in Directory
           /\ dirs'[d].parent = dirs[d].parent
           /\ dirs'[d].level = dirs[d].level
           /\ dirs'[d].active = (dirs[d].active /\ d # call[r].dir)
  BY <1>5 DEF DeleteDir, Tree, DirsFit, Directory
<1>7. \A d : /\ Children(d)' = Children(d)
             /\ ActiveChildren(d)' \subseteq ActiveChildren(d)
             /\ ActiveSheets(d)' = ActiveSheets(d)
  BY <1>6 DEF Children, ActiveChildren, ActiveSheets
<1>8. r \in On(call[r].dir, "deleteDir")' BY <1>2, <1>5 DEF On
<1>9. DirsFit'
  <2>1. ASSUME NEW d \in DOMAIN dirs'
        PROVE  /\ dirs'[d] \in Directory
               /\ d \in DOMAIN SeedDirs \/ d \in On(dirs[d].parent, "createDir")'
               /\ \/ dirs'[d].parent = Root /\ dirs'[d].level = 1
                  \/ /\ dirs'[d].parent \in DOMAIN dirs'
                     /\ dirs'[dirs'[d].parent].level = 1
                     /\ dirs'[d].level = 2
    BY <1>3, <1>6 DEF Tree, DirsFit
  <2>2. \A q \in Requests : (pc'[q] = "mkdir" /\ call'[q].dir # Root) => dirs'[call'[q].dir].level = 1
    BY <1>2, <1>6 DEF Tree, DirsFit, RequestsFit, Runs, Asks
  <2> QED BY <2>1, <2>2 DEF DirsFit
<1>10. MixInv'
  <2>1. ASSUME NEW k \in DOMAIN dirs', NEW s \in DOMAIN sheets',
               sheets'[s].active, sheets'[s].dir = dirs'[k].parent
        PROVE  Shares(k, s)'
    <3>1. Shares(k, s) BY <2>1, <1>6 DEF Tree, MixInv
    <3> QED BY <3>1, <2>1, <1>3, <1>4, <1>6 DEF Shares
  <2>2. ASSUME NEW q \in Requests, pc'[q] = "sheet", NEW k \in Children(call[q].dir)'
        PROVE  k \in On(call[q].dir, "createDir")' /\ Met(k, q)'
    <3>1. k \in On(call[q].dir, "createDir") /\ Met(k, q) BY <2>2, <1>2, <1>7 DEF Tree, MixInv
    <3> QED BY <3>1, <1>2, <1>3, <1>4
  <2>3. ASSUME NEW q \in Requests, pc'[q] = "mkdir", call'[q].dir # Root,
               NEW s \in ActiveSheets(call[q].dir)'
        PROVE  s \in On(call[q].dir, "createSheet")' /\ Met(s, q)'
    <3>1. s \in On(call[q].dir, "createSheet") /\ Met(s, q)
      BY <2>3, <1>2, <1>7 DEF Tree, MixInv
    <3> QED BY <3>1, <1>2, <1>3, <1>4
  <2> QED BY <2>1, <2>2, <2>3 DEF MixInv
<1>11. TrashInv'
  <2>1. ASSUME NEW k, NEW d, Escapes(k, d)
        PROVE  Escapes(k, d)'
    BY <2>1, <1>3, <1>4 DEF Escapes
  <2>2. ASSUME NEW d \in DOMAIN dirs', ~ dirs'[d].active
        PROVE  /\ On(d, "deleteDir")' # {}
               /\ \A k \in ActiveChildren(d)' : Escapes(k, d)'
               /\ ActiveSheets(d)' \subseteq On(d, "createSheet")'
    <3>1. CASE d = call[r].dir
      <4>1. /\ \A k \in ActiveChildren(d) : k \in On(d, "createDir") /\ Met(k, r)
            /\ ActiveSheets(d) \subseteq On(d, "createSheet")
        BY <3>1, <1>5 DEF Tree, TrashInv
      <4>2. r \in On(d, "deleteDir")' BY <3>1, <1>2, <1>8
      <4>3. \A k \in ActiveChildren(d)' : Escapes(k, d)'
        BY <4>1, <4>2, <1>3, <1>4, <1>7 DEF Escapes
      <4> QED BY <4>1, <4>2, <4>3, <1>3, <1>7
    <3>2. CASE d # call[r].dir
      <4>1. /\ On(d, "deleteDir") # {}
            /\ \A k \in ActiveChildren(d) : Escapes(k, d)
            /\ ActiveSheets(d) \subseteq On(d, "createSheet")
        BY <3>2, <2>2, <1>6 DEF Tree, TrashInv
      <4> QED BY <4>1, <2>1, <1>3, <1>7
    <3> QED BY <3>1, <3>2
  <2>3. ASSUME NEW q \in Requests, pc'[q] = "trash"
        PROVE  /\ \A k \in ActiveChildren(call[q].dir)' :
                     k \in On(call[q].dir, "createDir")' /\ Met(k, q)'
               /\ ActiveSheets(call[q].dir)' \subseteq On(call[q].dir, "createSheet")'
    <3>1. /\ \A k \in ActiveChildren(call[q].dir) :
                k \in On(call[q].dir, "createDir") /\ Met(k, q)
          /\ ActiveSheets(call[q].dir) \subseteq On(call[q].dir, "createSheet")
      BY <2>3, <1>2 DEF Tree, TrashInv
    <3> QED BY <3>1, <1>2, <1>3, <1>4, <1>7
  <2>4. ASSUME NEW q \in Requests, pc'[q] = "mkdir", call'[q].dir # Root,
               ~ dirs'[call'[q].dir].active
        PROVE  \E s \in On(call[q].dir, "deleteDir")' : Met(q, s)'
    <3>1. call[q].dir \in DOMAIN dirs /\ pc[q] = "mkdir" /\ q # r
      BY <2>4, <1>2 DEF RequestsFit, Runs, Asks
    <3>2. CASE call[q].dir = call[r].dir
      <4>1. Met(q, r) BY <3>1, <1>5, WorkMeets DEF InFlight, Ended
      <4>2. r \in On(call[q].dir, "deleteDir")' BY <3>2, <1>2, <1>8
      <4> QED BY <4>1, <4>2, <1>4
    <3>3. CASE call[q].dir # call[r].dir
      <4>1. \E s \in On(call[q].dir, "deleteDir") : Met(q, s)
        BY <3>1, <3>3, <2>4, <1>2, <1>6 DEF Tree, TrashInv
      <4> QED BY <4>1, <1>2, <1>3, <1>4
    <3> QED BY <3>2, <3>3
  <2> QED BY <2>2, <2>3, <2>4 DEF TrashInv
<1> QED BY <1>9, <1>10, <1>11 DEF Tree

\* The new sheet of CreateSheet; the old ones stay.
SheetOf(r) ==
    /\ pc[r] = "sheet"
    /\ dirs' = dirs
    /\ DOMAIN sheets' = DOMAIN sheets \cup {r}
    /\ \A s \in DOMAIN sheets : s # r => sheets'[s] = sheets[s]
    /\ sheets'[r] = [dir |-> call[r].dir, active |-> TRUE]

LEMMA SheetOfTree ==
    ASSUME RequestsFit, Tree, MeetInv, SheetsFit, NEW r \in Requests, Moves(r, "ok"), SheetOf(r)
    PROVE  Tree'
<1> DEFINE new == sheets'[r]
<1>1. /\ Onward /\ Stays /\ pc'[r] = "ok" /\ \A q \in Requests \ {r} : pc'[q] = pc[q]
      /\ call' = call
  BY MovesOnward DEF Moves
<1>2. \A d, op : On(d, op) \subseteq On(d, op)' BY <1>1, StaysOn
<1>3. \A q, s : Met(q, s) <=> Met(q, s)' BY DEF Moves, Met
<1>4. pc[r] = "sheet" /\ call[r].op = "createSheet" /\ call[r].dir \in DOMAIN dirs
  BY DEF SheetOf, RequestsFit, Runs, Asks
<1>5. r \notin DOMAIN sheets BY <1>4, ExpensesAssumption DEF SheetsFit, On
<1>6. \A d : /\ Children(d)' = Children(d)
             /\ ActiveChildren(d)' = ActiveChildren(d)
             /\ ActiveSheets(d)' = IF d = call[r].dir THEN ActiveSheets(d) \cup {r} ELSE ActiveSheets(d)
  BY <1>5 DEF SheetOf, Children, ActiveChildren, ActiveSheets
<1>7. r \in On(call[r].dir, "createSheet")' BY <1>1, <1>4 DEF On
<1>8. DirsFit'
  <2>1. ASSUME NEW d \in DOMAIN dirs'
        PROVE  d \in DOMAIN SeedDirs \/ d \in On(dirs[d].parent, "createDir")'
    BY <1>2 DEF SheetOf, Tree, DirsFit
  <2>2. \A q \in Requests : (pc'[q] = "mkdir" /\ call'[q].dir # Root) => dirs'[call'[q].dir].level = 1
    BY <1>1 DEF SheetOf, Tree, DirsFit
  <2> QED BY <2>1, <2>2 DEF SheetOf, Tree, DirsFit
<1>9. MixInv'
  <2>1. ASSUME NEW k \in DOMAIN dirs', NEW s \in DOMAIN sheets',
               sheets'[s].active, sheets'[s].dir = dirs'[k].parent
        PROVE  Shares(k, s)'
    <3>1. CASE s = r
      <4>1. k \in Children(call[r].dir) /\ dirs'[k].parent = call[r].dir
        BY <3>1, <2>1 DEF SheetOf, Children
      <4>2. k \in On(call[r].dir, "createDir") /\ Met(k, r) BY <4>1, <1>4 DEF Tree, MixInv
      <4> QED BY <3>1, <4>1, <4>2, <1>1, <1>2, <1>3, <1>7 DEF Shares
    <3>2. CASE s # r
      <4>1. Shares(k, s) BY <3>2, <2>1 DEF SheetOf, Tree, MixInv
      <4> QED BY <4>1, <1>2, <1>3 DEF SheetOf, Shares
    <3> QED BY <3>1, <3>2
  <2>2. ASSUME NEW q \in Requests, pc'[q] = "sheet", NEW k \in Children(call[q].dir)'
        PROVE  k \in On(call[q].dir, "createDir")' /\ Met(k, q)'
    <3>1. k \in On(call[q].dir, "createDir") /\ Met(k, q) BY <2>2, <1>1, <1>6 DEF Tree, MixInv
    <3> QED BY <3>1, <1>1, <1>2, <1>3
  <2>3. ASSUME NEW q \in Requests, pc'[q] = "mkdir", call'[q].dir # Root,
               NEW s \in ActiveSheets(call[q].dir)'
        PROVE  s \in On(call[q].dir, "createSheet")' /\ Met(s, q)'
    <3>1. pc[q] = "mkdir" /\ q # r BY <2>3, <1>1
    <3>2. CASE s = r
      <4>1. Met(r, q) BY <3>1, <1>4, WorkMeets DEF InFlight, Ended
      <4>2. r \in ActiveSheets(call[q].dir) \/ call[q].dir = call[r].dir
        BY <3>2, <2>3, <1>1, <1>6
      <4>3. r \notin ActiveSheets(call[q].dir) BY <1>5 DEF ActiveSheets
      <4> QED BY <3>2, <4>1, <4>2, <4>3, <1>1, <1>3, <1>7
    <3>3. CASE s # r
      <4>1. s \in On(call[q].dir, "createSheet") /\ Met(s, q)
        BY <3>1, <3>3, <2>3, <1>1, <1>6 DEF Tree, MixInv
      <4> QED BY <4>1, <1>1, <1>2, <1>3
    <3> QED BY <3>2, <3>3
  <2> QED BY <2>1, <2>2, <2>3 DEF MixInv
<1>10. TrashInv'
  <2>1. ASSUME NEW k, NEW d, Escapes(k, d)
        PROVE  Escapes(k, d)'
    BY <2>1, <1>2, <1>3 DEF Escapes
  <2>2. ASSUME NEW d, ActiveSheets(d) \subseteq On(d, "createSheet")
        PROVE  ActiveSheets(d)' \subseteq On(d, "createSheet")'
    <3>1. d = call[r].dir => r \in On(d, "createSheet")' BY <1>1, <1>7
    <3> QED BY <2>2, <3>1, <1>2, <1>6
  <2>3. ASSUME NEW d \in DOMAIN dirs', ~ dirs'[d].active
        PROVE  /\ On(d, "deleteDir")' # {}
               /\ \A k \in ActiveChildren(d)' : Escapes(k, d)'
               /\ ActiveSheets(d)' \subseteq On(d, "createSheet")'
    <3>1. /\ On(d, "deleteDir") # {}
          /\ \A k \in ActiveChildren(d) : Escapes(k, d)
          /\ ActiveSheets(d) \subseteq On(d, "createSheet")
      BY <2>3 DEF SheetOf, Tree, TrashInv
    <3> QED BY <3>1, <2>1, <2>2, <1>2, <1>6
  <2>4. ASSUME NEW q \in Requests, pc'[q] = "trash"
        PROVE  /\ \A k \in ActiveChildren(call[q].dir)' :
                     k \in On(call[q].dir, "createDir")' /\ Met(k, q)'
               /\ ActiveSheets(call[q].dir)' \subseteq On(call[q].dir, "createSheet")'
    <3>1. /\ \A k \in ActiveChildren(call[q].dir) :
                k \in On(call[q].dir, "createDir") /\ Met(k, q)
          /\ ActiveSheets(call[q].dir) \subseteq On(call[q].dir, "createSheet")
      BY <2>4, <1>1 DEF Tree, TrashInv
    <3> QED BY <3>1, <2>2, <1>1, <1>2, <1>3, <1>6
  <2>5. ASSUME NEW q \in Requests, pc'[q] = "mkdir", call'[q].dir # Root,
               ~ dirs'[call'[q].dir].active
        PROVE  \E s \in On(call[q].dir, "deleteDir")' : Met(q, s)'
    <3>1. \E s \in On(call[q].dir, "deleteDir") : Met(q, s)
      BY <2>5, <1>1 DEF SheetOf, Tree, TrashInv
    <3> QED BY <3>1, <1>1, <1>2, <1>3
  <2> QED BY <2>3, <2>4, <2>5 DEF TrashInv
<1> QED BY <1>8, <1>9, <1>10 DEF Tree

----------------------------------------------------------------------------
(* Operators the rows are written with *)

LEMMA CellsAre ==
    ASSUME NEW r, NEW rows, NEW at, NEW C
    PROVE  \A v : v \in Cells(r, rows, at, C) <=>
              \E i \in DOMAIN rows \cap DOMAIN at, c \in C :
                /\ c.name \in rows[i].cells
                /\ v = [entry |-> at[i], column |-> c, row |-> <<r, i>>]
  BY DEF Cells

LEMMA MadeFinite ==
    ASSUME NEW r, NEW n \in Nat
    PROVE  IsFiniteSet(Made(r, n)) /\ \A e \in Made(r, n) : \E i \in 1..n : e = <<r, i>>
<1> DEFINE f == [i \in 1..n |-> <<r, i>>]
<1>1. f \in Surjection(1..n, Made(r, n)) BY DEF Surjection, Made
<1>2. IsFiniteSet(1..n) BY FS_Interval
<1>3. IsFiniteSet(Made(r, n)) BY <1>1, <1>2, FS_Surjection
<1> QED BY <1>3 DEF Made

\* A finite set is all that its sequence has.
LEMMA SeqOfSet ==
    ASSUME NEW S, IsFiniteSet(S)
    PROVE  SetToSeq(S) \in Seq(S) /\ ToSet(SetToSeq(S)) = S
<1> DEFINE n == Cardinality(S)
           f == SetToSeq(S)
<1>1. n \in Nat /\ ExistsBijection(1..n, S) BY FS_CardinalityType
<1>2. \E g \in [1..n -> S] : IsInjective(g) BY <1>1 DEF ExistsBijection, Bijection, Injection
<1>3. f \in [1..n -> S] /\ IsInjective(f) BY <1>2 DEF SetToSeq
<1>4. f \in Injection(1..n, S) BY <1>3 DEF Injection
<1>5. IsFiniteSet(1..n) /\ Cardinality(1..n) = n BY <1>1, FS_Interval
<1>6. f \in Surjection(1..n, S) BY <1>4, <1>5, FS_Injection
<1>7. f \in Seq(S) BY <1>1, <1>3
<1>8. \A x \in S : \E i \in 1..n : f[i] = x BY <1>6 DEF Surjection
<1> HIDE DEF f, n
<1>9. DOMAIN f = 1..n /\ \A i \in 1..n : f[i] \in S BY <1>3
<1>10. ToSet(f) = S BY <1>8, <1>9 DEF ToSet
<1> QED BY <1>7, <1>10 DEF f

LEMMA EntriesFinite ==
    ASSUME EntriesFit, NEW s
    PROVE  IsFiniteSet(EntriesOf(s)) /\ EntriesOf(s) \subseteq DOMAIN entries
           /\ EntriesOf(s) \subseteq EntryId
  BY FS_Subset DEF EntriesFit, EntriesOf

LEMMA LatestAre ==
    ASSUME EntriesFit, NEW s, NEW n \in Nat, NEW at \in Latest(s, n)
    PROVE  at \in Seq(EntryId) /\ ToSet(at) \subseteq EntriesOf(s) /\ Len(at) <= n
<1> DEFINE E == EntriesOf(s)
           size == IF n < Cardinality(E) THEN n ELSE Cardinality(E)
<1>1. size \in Nat /\ size <= n BY EntriesFinite, FS_CardinalityType
<1>2. at \in [1..size -> E] BY DEF Latest
<1> HIDE DEF size
<1>3. at \in Seq(E) /\ Len(at) = size BY <1>1, <1>2
<1>4. at \in Seq(EntryId) BY <1>3, EntriesFinite
<1> QED BY <1>1, <1>2, <1>3, <1>4 DEF ToSet

\* Columns are those of the body, in their places.
LEMMA ColumnsAre ==
    ASSUME NEW r, NEW s, NEW names \in Seq(Names)
    PROVE  /\ IsFiniteSet(ColumnsBy(r, s, names))
           /\ \A c \in ColumnsBy(r, s, names) :
                c.sheet = s /\ c.by = r /\ (s \in Ids /\ r \in Requests \cup {Seed} => c \in Column)
<1> DEFINE f == [i \in DOMAIN names |-> [sheet |-> s, name |-> names[i], by |-> r, no |-> i]]
<1>1. f \in Surjection(DOMAIN names, ColumnsBy(r, s, names)) BY DEF Surjection, ColumnsBy
<1>2. Len(names) \in Nat /\ DOMAIN names = 1..Len(names) OBVIOUS
<1>3. IsFiniteSet(ColumnsBy(r, s, names)) BY <1>1, <1>2, FS_Interval, FS_Surjection
<1>4. ASSUME NEW c \in ColumnsBy(r, s, names)
      PROVE  c.sheet = s /\ c.by = r /\ (s \in Ids /\ r \in Requests \cup {Seed} => c \in Column)
  <2>1. PICK i \in DOMAIN names : c = [sheet |-> s, name |-> names[i], by |-> r, no |-> i]
    BY DEF ColumnsBy
  <2>2. names[i] \in Names /\ i \in Nat OBVIOUS
  <2> QED BY <2>1, <2>2 DEF Column
<1> QED BY <1>3, <1>4

LEMMA ReplacementIs ==
    ASSUME NEW b \in Replacements
    PROVE  /\ b.names # Unset => b.names \in Seq(Names)
           /\ b.rows # Unset => /\ b.rows \in Seq(Row)
                                /\ Len(b.rows) \in Nat
                                /\ DOMAIN b.rows = 1..Len(b.rows)
  BY ExpensesAssumption DEF Body

LEMMA NewSheetIs ==
    ASSUME NEW b \in NewSheets
    PROVE  /\ b.names \in Seq(Names)
           /\ b.rows \in Seq(Row) /\ Len(b.rows) \in Nat
           /\ DOMAIN b.rows = 1..Len(b.rows)
  BY ExpensesAssumption DEF Body

LEMMA AdditionIs ==
    ASSUME NEW b \in Additions
    PROVE  /\ b.rows \in Seq(Row) /\ Len(b.rows) \in Nat
           /\ DOMAIN b.rows = 1..Len(b.rows)
  BY ExpensesAssumption

----------------------------------------------------------------------------
(* The rows of sheets *)

LEMMA SheetsKept ==
    ASSUME Stays, SheetsFit, DOMAIN dirs \subseteq DOMAIN dirs', SheetsLess,
           \A q \in Requests : pc'[q] \in {"replace", "fetch"} => call'[q].sheet \in DOMAIN sheets'
    PROVE  SheetsFit'
<1>1. \A d, op : On(d, op) \subseteq On(d, op)' BY StaysOn
<1>2. ASSUME NEW s \in DOMAIN sheets'
      PROVE  /\ sheets'[s] \in Sheet
             /\ sheets'[s].dir \in DOMAIN dirs'
             /\ s \in DOMAIN SeedSheets \/ s \in On(sheets[s].dir, "createSheet")'
  <2>1. /\ s \in DOMAIN sheets /\ sheets'[s] \in Sheet /\ sheets'[s].dir = sheets[s].dir
    BY DEF SheetsLess
  <2>2. /\ sheets[s].dir \in DOMAIN dirs
        /\ s \in DOMAIN SeedSheets \/ s \in On(sheets[s].dir, "createSheet")
    BY <2>1 DEF SheetsFit
  <2> QED BY <2>1, <2>2, <1>1
<1> QED BY <1>2 DEF SheetsFit

LEMMA ColumnsKept ==
    ASSUME Stays, ColumnsFit,
           \A c \in columns' : \/ c \in columns
                               \/ c \in Column /\ c.sheet \in DOMAIN sheets' /\ pc'[c.by] = "ok",
           \A c \in columns' : c.sheet \in DOMAIN sheets',
           \A q \in Requests : \A c \in cols'[q] : c \in Column /\ c.sheet = call'[q].sheet
    PROVE  ColumnsFit'
<1>1. \A c \in columns : c \in Column /\ (c.by = Seed \/ (c.by \in Requests /\ pc[c.by] = "ok"))
  <2> TAKE c \in columns
  <2>1. c \in Column /\ (c.by = Seed \/ pc[c.by] = "ok") BY DEF ColumnsFit
  <2>2. c.by \in Requests \cup {Seed} BY <2>1 DEF Column
  <2> QED BY <2>1, <2>2
<1> QED BY <1>1 DEF Stays, ColumnsFit

LEMMA EntriesWritten ==
    ASSUME Stays, EntriesFit, call' = call, found' = found,
           NEW K \in SUBSET DOMAIN entries, NEW E, NEW s,
           entries' = [e \in K \cup E |-> IF e \in E THEN s ELSE entries[e]],
           IsFiniteSet(E),
           \A e \in E : e \in EntryId /\ ~ Wrote(e[1]) /\ Wrote(e[1])' /\ s \in DOMAIN sheets',
           \A e \in K : entries[e] \in DOMAIN sheets'
    PROVE  EntriesFit'
<1>1. DOMAIN entries' = K \cup E OBVIOUS
<1>2. \A q : Wrote(q) => Wrote(q)' BY DEF Stays
<1>3. IsFiniteSet(DOMAIN entries')
  <2>1. IsFiniteSet(K) BY FS_Subset DEF EntriesFit
  <2> QED BY <2>1, <1>1, FS_Union
<1>4. ASSUME NEW e \in DOMAIN entries'
      PROVE  e \in EntryId /\ Wrote(e[1])' /\ entries'[e] \in DOMAIN sheets'
  BY <1>1, <1>2 DEF EntriesFit
<1>5. ASSUME NEW q \in Requests, NEW e \in ToSet(found'[q])
      PROVE  Wrote(e[1])' /\ (e \in DOMAIN entries' => entries'[e] = call'[q].sheet)
  <2>1. Wrote(e[1]) /\ (e \in DOMAIN entries => entries[e] = call[q].sheet) BY DEF EntriesFit
  <2> QED BY <2>1, <1>1, <1>2
<1> QED BY <1>3, <1>4, <1>5 DEF EntriesFit

LEMMA EntriesRead ==
    ASSUME Stays, EntriesFit, call' = call, entries' = entries, sheets' = sheets, DOMAIN found = Requests,
           NEW r \in Requests, NEW f \in Seq(EntryId), ToSet(f) \subseteq EntriesOf(call[r].sheet),
           found' = [found EXCEPT ![r] = f]
    PROVE  EntriesFit'
<1>1. \A q : Wrote(q) => Wrote(q)' BY DEF Stays
<1>2. \A e \in ToSet(f) : e \in DOMAIN entries /\ Wrote(e[1]) /\ entries[e] = call[r].sheet
  BY DEF EntriesFit, EntriesOf
<1>3. found'[r] = f /\ \A q \in Requests \ {r} : found'[q] = found[q] OBVIOUS
<1>4. ASSUME NEW q \in Requests
      PROVE  /\ found'[q] \in Seq(EntryId)
             /\ \A e \in ToSet(found'[q]) :
                  Wrote(e[1])' /\ (e \in DOMAIN entries' => entries'[e] = call'[q].sheet)
  <2>1. CASE q = r BY <2>1, <1>1, <1>2, <1>3
  <2>2. CASE q # r BY <2>2, <1>1, <1>3 DEF EntriesFit
  <2> QED BY <2>1, <2>2
<1> QED BY <1>1, <1>4 DEF EntriesFit

LEMMA ValuesWritten ==
    ASSUME Stays, ValuesFit, NEW V \in SUBSET values, NEW new, values' = V \cup new,
           \A v \in V : /\ v.column \in columns' /\ v.entry \in DOMAIN entries'
                        /\ entries'[v.entry] = entries[v.entry],
           \A v \in new : /\ v \in Value
                          /\ v.column \in columns' /\ v.entry \in DOMAIN entries'
                          /\ v.column.sheet = entries'[v.entry]
                          /\ pc'[v.row[1]] = "ok",
           \A v \in new, w \in new \cup V : v.entry = w.entry /\ v.column = w.column => v = w
    PROVE  ValuesFit'
<1>1. \A v \in values : v \in Value /\ v.column.sheet = entries[v.entry] /\ pc[v.row[1]] = "ok"
                        /\ v.row[1] \in Requests
  BY DEF ValuesFit, Value, EntryId
<1>2. \A v \in V : v \in Value /\ v.column.sheet = entries'[v.entry] /\ pc'[v.row[1]] = "ok"
  BY <1>1 DEF Stays
<1>3. \A v, w \in V \cup new : v.entry = w.entry /\ v.column = w.column => v = w
  BY DEF ValuesFit
<1> QED BY <1>2, <1>3 DEF ValuesFit

LEMMA ValuesKept ==
    ASSUME Stays, ValuesFit, columns \subseteq columns', values' = values,
           \A v \in values : v.entry \in DOMAIN entries' /\ entries'[v.entry] = entries[v.entry]
    PROVE  ValuesFit'
<1>1. \A v \in values : pc'[v.row[1]] = "ok" BY DEF Stays, ValuesFit, Value, EntryId
<1> QED BY <1>1 DEF ValuesFit

LEMMA RowsArrive ==
    ASSUME RequestsFit, Rows, NEW r \in Requests, NEW c, NEW p, Arrives(r, c, p), LetIn(c, p)
    PROVE  Rows'
<1>1. Stays BY ArrivesStays
<1>2. UNCHANGED <<dirs, sheets, columns, entries, values, found>> BY DEF Arrives, db
<1>3. /\ pc'[r] = p /\ call'[r] = c
      /\ \A q \in Requests \ {r} : pc'[q] = pc[q] /\ call'[q] = call[q] /\ cols'[q] = cols[q]
      /\ cols[r] = {} /\ found[r] = <<>>
  BY DEF RequestsFit, Arrives
<1>4. SheetsFit'
  <2>1. SheetsLess BY <1>2 DEF SheetsLess, Rows, SheetsFit
  <2>2. \A q \in Requests : pc'[q] \in {"replace", "fetch"} => call'[q].sheet \in DOMAIN sheets'
    BY <1>2, <1>3 DEF LetIn, Rows, SheetsFit
  <2> QED BY <2>1, <2>2, <1>1, <1>2, SheetsKept DEF Rows
<1>5. ColumnsFit'
  <2>1. \A q \in Requests : \A k \in cols'[q] : k \in Column /\ k.sheet = call'[q].sheet
    BY <1>3 DEF Arrives, Rows, ColumnsFit
  <2> QED BY <2>1, <1>1, <1>2, ColumnsKept DEF Rows, ColumnsFit
<1>6. EntriesFit'
  <2>1. \A q : Wrote(q) => Wrote(q)' BY <1>1 DEF Stays
  <2>2. ToSet(found'[r]) = {} BY <1>2, <1>3 DEF ToSet
  <2>3. ASSUME NEW q \in Requests, NEW e \in ToSet(found'[q])
        PROVE  Wrote(e[1])' /\ (e \in DOMAIN entries' => entries'[e] = call'[q].sheet)
    BY <2>1, <2>2, <1>2, <1>3 DEF Rows, EntriesFit
  <2> QED BY <2>1, <2>3, <1>2 DEF Rows, EntriesFit
<1>7. ValuesFit'
  <2>1. \A v \in values : pc'[v.row[1]] = "ok"
    BY <1>1 DEF Stays, Rows, ValuesFit, Value, EntryId
  <2> QED BY <2>1, <1>2 DEF Rows, ValuesFit
<1> QED BY <1>4, <1>5, <1>6, <1>7 DEF Rows

LEMMA RowsKept ==
    ASSUME RequestsFit, Rows, Onward, SheetsFit', DOMAIN sheets \subseteq DOMAIN sheets',
           UNCHANGED <<columns, entries, values, cols, found>>
    PROVE  Rows'
<1>1. Stays /\ call' = call BY OnwardStays DEF Onward
<1>2. ColumnsFit' BY <1>1, ColumnsKept DEF Rows, ColumnsFit
<1>3. EntriesFit' BY <1>1 DEF Stays, Rows, EntriesFit
<1>4. ValuesFit'
  <2>1. \A v \in values : pc'[v.row[1]] = "ok"
    BY <1>1 DEF Stays, Rows, ValuesFit, Value, EntryId
  <2> QED BY <2>1 DEF Rows, ValuesFit
<1> QED BY <1>2, <1>3, <1>4 DEF Rows

\* A step that changes no row, and starts no statement.
LEMMA QuietBase ==
    ASSUME Base, Onward, UNCHANGED <<db, cols, found>>,
           \A q \in Requests : pc'[q] = pc[q] \/ pc'[q] = "failed"
    PROVE  Base'
<1>1. Stays /\ call' = call BY OnwardStays DEF Base, Onward
<1>2. UNCHANGED <<dirs, sheets, columns, entries, values>> BY DEF db
<1>3. SheetsLess BY <1>2 DEF Base, Rows, SheetsFit, SheetsLess
<1>4. RequestsFit' BY <1>2, OnwardRequests DEF Base, RequestsFit
<1>5. Tree' BY <1>1, <1>2, <1>3, TreeStays DEF Base
<1>6. SheetsFit' BY <1>1, <1>2, <1>3, SheetsKept DEF Base, Rows, SheetsFit
<1> QED BY <1>2, <1>4, <1>5, <1>6, RowsKept DEF Base

LEMMA ThrowsBase ==
    ASSUME Base, NEW r \in Requests, InFlight(r), Throws(r)
    PROVE  Base'
<1>1. Moves(r, "failed") BY DEF Throws, Goto, Moves, Follows, InFlight
<1>2. UNCHANGED <<db, cols, found>> BY DEF Throws
<1> QED BY <1>1, <1>2, MovesOnward, QuietBase DEF Base

LEMMA MovesRequests ==
    ASSUME RequestsFit, NEW r \in Requests, NEW p, Moves(r, p), DOMAIN dirs \subseteq DOMAIN dirs',
           DOMAIN cols' = Requests, \A q \in Requests \ {r} : cols'[q] = cols[q],
           DOMAIN found' = Requests, \A q \in Requests \ {r} : found'[q] = found[q],
           p = "replace" => call[r].body.rows # Unset
    PROVE  RequestsFit'
<1>1. Onward /\ pc'[r] = p /\ \A q \in Requests \ {r} : pc'[q] = pc[q] BY MovesOnward
<1>2. pc[r] # "idle" BY DEF Moves, Follows
<1> QED BY <1>1, <1>2, OnwardRequests

\* Steps that leave the directories alone, and make no sheet.
LEMMA MovesTree ==
    ASSUME RequestsFit, Tree, NEW r \in Requests, NEW p, Moves(r, p), dirs' = dirs, SheetsLess
    PROVE  Tree'
<1>1. /\ Onward /\ Stays /\ pc'[r] = p /\ \A q \in Requests \ {r} : pc'[q] = pc[q]
      /\ call' = call
  BY MovesOnward DEF Moves
<1>2. p \notin {"mkdir", "trash", "sheet"} BY DEF Moves, Follows
<1> QED BY <1>1, <1>2, TreeStays

\* Steps that change nothing about sheets themselves.
LEMMA MovesSheets ==
    ASSUME RequestsFit, SheetsFit, NEW r \in Requests, NEW p, Moves(r, p),
           DOMAIN dirs \subseteq DOMAIN dirs', sheets' = sheets,
           p \in {"replace", "fetch"} => call[r].sheet \in DOMAIN sheets
    PROVE  SheetsFit' /\ SheetsLess
<1>1. /\ Onward /\ Stays /\ pc'[r] = p /\ \A q \in Requests \ {r} : pc'[q] = pc[q]
      /\ call' = call
  BY MovesOnward DEF Moves
<1>2. SheetsLess BY DEF SheetsFit, SheetsLess
<1>3. \A q \in Requests : pc'[q] \in {"replace", "fetch"} => call'[q].sheet \in DOMAIN sheets'
  BY <1>1 DEF SheetsFit
<1> QED BY <1>1, <1>2, <1>3, SheetsKept

LEMMA CreateDirBase ==
    ASSUME Base, MeetInv, NEW r \in Requests, CreateDir(r)
    PROVE  Base'
<1>1. Moves(r, "ok") BY DEF CreateDir, Goto, Moves, Follows, Ended
<1>2. UNCHANGED <<sheets, columns, entries, values, cols, found>> /\ DOMAIN dirs \subseteq DOMAIN dirs'
  BY DEF CreateDir, Put
<1>3. RequestsFit' BY <1>1, <1>2, MovesRequests DEF Base, RequestsFit
<1>4. SheetsFit' BY <1>1, <1>2, MovesSheets DEF Base, Rows
<1>5. Rows' BY <1>1, <1>2, <1>4, MovesOnward, RowsKept DEF Base
<1> QED BY <1>3, <1>5, CreateDirTree DEF Base, Rows

LEMMA DeleteDirBase ==
    ASSUME Base, MeetInv, NEW r \in Requests, DeleteDir(r)
    PROVE  Base'
<1>1. Moves(r, "ok") BY DEF DeleteDir, Goto, Moves, Follows, Ended
<1>2. UNCHANGED <<sheets, columns, entries, values, cols, found>> /\ DOMAIN dirs \subseteq DOMAIN dirs'
  BY DEF DeleteDir
<1>3. RequestsFit' BY <1>1, <1>2, MovesRequests DEF Base, RequestsFit
<1>4. SheetsFit' BY <1>1, <1>2, MovesSheets DEF Base, Rows
<1>5. Rows' BY <1>1, <1>2, <1>4, MovesOnward, RowsKept DEF Base
<1> QED BY <1>3, <1>5, DeleteDirTree DEF Base

LEMMA CreateSheetBase ==
    ASSUME Base, MeetInv, NEW r \in Requests, CreateSheet(r)
    PROVE  Base'
<1> DEFINE b == call[r].body
           C == ColumnsBy(r, r, b.names)
           E == Made(r, Len(b.rows))
<1>1. /\ pc[r] = "sheet" /\ call[r].dir \in DOMAIN dirs /\ b \in NewSheets
  BY DEF CreateSheet, Base, RequestsFit, Runs, Asks
<1>2. CASE Throws(r) BY <1>1, <1>2, ThrowsBase DEF InFlight, Ended
<1>3. CASE ~ Throws(r)
  <2>0. PICK S \in Finds(C), at \in {f \in [DOMAIN b.rows -> E] : IsInjective(f)} :
           /\ sheets' = Put(sheets, r, [dir |-> call[r].dir, active |-> TRUE])
           /\ columns' = columns \cup C
           /\ entries' = [e \in DOMAIN entries \cup E |-> IF e \in E THEN r ELSE entries[e]]
           /\ values' = values \cup Cells(r, b.rows, at, S)
           /\ Goto(r, "ok")
           /\ UNCHANGED <<dirs, call, cols, found, raced>>
    BY <1>3 DEF CreateSheet
  <2> DEFINE new == Cells(r, b.rows, at, S)
  <2>1. /\ sheets' = Put(sheets, r, [dir |-> call[r].dir, active |-> TRUE])
        /\ columns' = columns \cup C
        /\ entries' = [e \in DOMAIN entries \cup E |-> IF e \in E THEN r ELSE entries[e]]
        /\ values' = values \cup new
        /\ Goto(r, "ok")
        /\ UNCHANGED <<dirs, call, cols, found, raced>>
    BY <2>0
  <2>2. Moves(r, "ok") BY <1>1, <2>1 DEF Goto, Moves, Follows, Ended
  <2>3. /\ Onward /\ Stays /\ pc'[r] = "ok" /\ \A q \in Requests \ {r} : pc'[q] = pc[q]
    BY <2>2, MovesOnward DEF Base
  <2>4. r \notin DOMAIN sheets BY <1>1, ExpensesAssumption DEF Base, Rows, SheetsFit, On
  <2>5. SheetOf(r) BY <1>1, <2>1, <2>4 DEF SheetOf, Put
  <2>6. Tree' BY <2>2, <2>5, SheetOfTree DEF Base, Rows
  <2>7. RequestsFit' BY <2>1, <2>2, MovesRequests DEF Base, RequestsFit
  <2>8. SheetsFit'
    <3>1. call[r].dir \in Ids BY <1>1 DEF Base, Tree, DirsFit, On, Ids
    <3>2. r \in On(call[r].dir, "createSheet")'
      BY <1>1, <2>1, <2>3 DEF On, Base, RequestsFit, Runs
    <3>3. \A d, op : On(d, op) \subseteq On(d, op)' BY <2>3, StaysOn
    <3>4. ASSUME NEW s \in DOMAIN sheets'
          PROVE  /\ sheets'[s] \in Sheet
                 /\ sheets'[s].dir \in DOMAIN dirs'
                 /\ s \in DOMAIN SeedSheets \/ s \in On(sheets[s].dir, "createSheet")'
      <4>1. CASE s = r
        <5>1. sheets'[r] = [dir |-> call[r].dir, active |-> TRUE] /\ dirs' = dirs
          BY <2>5 DEF SheetOf
        <5>2. sheets'[r] \in Sheet /\ sheets'[r].dir = call[r].dir BY <5>1, <3>1 DEF Sheet
        <5>3. r \in On(sheets[r].dir, "createSheet")' BY <5>2, <3>2, <2>1
        <5> QED BY <4>1, <5>1, <5>2, <5>3, <1>1
      <4>2. CASE s # r BY <4>2, <3>3, <2>5 DEF SheetOf, Base, Rows, SheetsFit
      <4> QED BY <4>1, <4>2
    <3>5. \A q \in Requests : pc'[q] \in {"replace", "fetch"} => call'[q].sheet \in DOMAIN sheets'
      BY <2>1, <2>3, <2>5 DEF SheetOf, Base, Rows, SheetsFit
    <3> QED BY <3>4, <3>5 DEF SheetsFit
  <2>9. \A c \in C : c \in Column /\ c.sheet = r /\ c.by = r
    BY <1>1, NewSheetIs, ColumnsAre DEF Ids
  <2>10. ColumnsFit'
    <3>1. \A c \in columns' : c.sheet \in DOMAIN sheets'
      BY <2>1, <2>5, <2>9 DEF SheetOf, Base, Rows, ColumnsFit
    <3> HIDE DEF C
    <3> QED BY <3>1, <2>1, <2>3, <2>5, <2>9, ColumnsKept DEF SheetOf, Base, Rows, ColumnsFit
  <2>11. /\ IsFiniteSet(E)
         /\ \A e \in E : e \in EntryId /\ e[1] = r /\ ~ Wrote(e[1]) /\ Wrote(e[1])'
    <3>1. IsFiniteSet(E) /\ \A e \in E : \E i \in 1..Len(b.rows) : e = <<r, i>>
      BY <1>1, NewSheetIs, MadeFinite
    <3>2. ~ Wrote(r) /\ Wrote(r)' BY <1>1, <2>3 DEF Wrote
    <3> QED BY <3>1, <3>2, <1>1, NewSheetIs DEF EntryId
  <2>12. EntriesFit'
    <3> DEFINE K == DOMAIN entries
    <3>1. \A e \in K : entries[e] \in DOMAIN sheets'
      BY <2>5 DEF SheetOf, Base, Rows, EntriesFit
    <3>2. r \in DOMAIN sheets' BY <2>5 DEF SheetOf
    <3>3. entries' = [e \in K \cup E |-> IF e \in E THEN r ELSE entries[e]] BY <2>1
    <3> HIDE DEF E
    <3> QED BY <3>1, <3>2, <3>3, <2>1, <2>3, <2>11, EntriesWritten DEF Base, Rows
  <2>13. \A e \in DOMAIN entries : e \notin E BY <2>11 DEF Base, Rows, EntriesFit
  <2>14. ValuesFit'
    <3>1. /\ at \in [DOMAIN b.rows -> E] /\ IsInjective(at) /\ S \subseteq C
          /\ DOMAIN b.rows = 1..Len(b.rows) /\ Len(b.rows) \in Nat
      BY <1>1, NewSheetIs DEF Finds
    <3> HIDE DEF C, E
    <3>2. ASSUME NEW v \in new
          PROVE  /\ v \in Value /\ v.column \in C /\ v.entry \in E /\ pc'[v.row[1]] = "ok"
                 /\ \E i \in DOMAIN at : v = [entry |-> at[i], column |-> v.column, row |-> <<r, i>>]
      <4>1. PICK i \in DOMAIN at, c \in S : v = [entry |-> at[i], column |-> c, row |-> <<r, i>>]
        BY CellsAre
      <4>2. at[i] \in E /\ c \in C /\ i \in Nat \ {0} BY <3>1
      <4>3. at[i] \in EntryId /\ c \in Column /\ <<r, i>> \in EntryId
        BY <4>2, <2>9, <2>11 DEF EntryId
      <4> QED BY <4>1, <4>2, <4>3, <2>3 DEF Value
    <3> HIDE DEF new
    <3>3. \A v \in values : /\ v.column \in columns' /\ v.entry \in DOMAIN entries' /\ v.entry \notin E
                            /\ entries'[v.entry] = entries[v.entry]
      BY <2>1, <2>13 DEF Base, Rows, ValuesFit
    <3>4. \A v \in new : v.column.sheet = entries'[v.entry] /\ v.column \in columns' /\ v.entry \in DOMAIN entries'
      BY <3>2, <2>1, <2>9
    <3>5. ASSUME NEW v \in new, NEW w \in new \cup values, v.entry = w.entry, v.column = w.column
          PROVE  v = w
      <4>1. w \in new BY <3>2, <3>3, <3>5
      <4>2. PICK i \in DOMAIN at : v = [entry |-> at[i], column |-> v.column, row |-> <<r, i>>]
        BY <3>2
      <4>3. PICK j \in DOMAIN at : w = [entry |-> at[j], column |-> w.column, row |-> <<r, j>>]
        BY <4>1, <3>2
      <4>4. i = j BY <4>2, <4>3, <3>1, <3>5 DEF IsInjective
      <4> QED BY <4>2, <4>3, <4>4, <3>5
    <3> QED BY ZenonT(120), <3>2, <3>3, <3>4, <3>5, <2>1, <2>3, ValuesWritten DEF Base, Rows
  <2> QED BY <2>6, <2>7, <2>8, <2>10, <2>12, <2>14 DEF Base, Rows
<1> QED BY <1>2, <1>3

LEMMA AddEntriesBase ==
    ASSUME Base, NEW r \in Requests, AddEntries(r)
    PROVE  Base'
<1> DEFINE s == call[r].sheet
           E == Made(r, Len(call[r].body.rows))
           K == DOMAIN entries
<1>1. pc[r] = "entries" /\ call[r].body \in Additions
  BY DEF AddEntries, Base, RequestsFit, Runs, Asks
<1>2. CASE Throws(r) BY <1>1, <1>2, ThrowsBase DEF InFlight, Ended
<1>3. CASE ~ Throws(r)
  <2>1. /\ s \in DOMAIN sheets
        /\ entries' = [e \in K \cup E |-> IF e \in E THEN s ELSE entries[e]]
        /\ Goto(r, "latest")
        /\ UNCHANGED <<dirs, sheets, columns, values, call, cols, found, raced>>
    BY <1>3 DEF AddEntries
  <2>2. Moves(r, "latest") BY <1>1, <2>1 DEF Goto, Moves, Follows, Ended
  <2>3. /\ Onward /\ Stays /\ pc'[r] = "latest" BY <2>2, MovesOnward DEF Base
  <2>4. RequestsFit' /\ SheetsFit' /\ SheetsLess
    BY <2>1, <2>2, MovesRequests, MovesSheets DEF Base, Rows, RequestsFit
  <2>5. Tree' BY <2>1, <2>2, <2>4, MovesTree DEF Base
  <2>6. ColumnsFit' BY <2>1, <2>3, ColumnsKept DEF Base, Rows, ColumnsFit
  <2>7. /\ IsFiniteSet(E)
        /\ \A e \in E : e \in EntryId /\ ~ Wrote(e[1]) /\ Wrote(e[1])'
    <3>1. IsFiniteSet(E) /\ \A e \in E : \E i \in 1..Len(call[r].body.rows) : e = <<r, i>>
      BY <1>1, AdditionIs, MadeFinite
    <3>2. ~ Wrote(r) /\ Wrote(r)' BY <1>1, <2>3 DEF Wrote
    <3> QED BY <3>1, <3>2, <1>1, AdditionIs DEF EntryId
  <2>8. \A e \in K : e \notin E /\ entries[e] \in DOMAIN sheets'
    BY <2>1, <2>7 DEF Base, Rows, EntriesFit
  <2> HIDE DEF E
  <2>9. EntriesFit' BY <2>1, <2>3, <2>7, <2>8, EntriesWritten DEF Base, Rows
  <2>10. ValuesFit'
    <3>1. \A v \in values : v.entry \in DOMAIN entries' /\ entries'[v.entry] = entries[v.entry]
      BY <2>1, <2>8 DEF Base, Rows, ValuesFit
    <3> QED BY <3>1, <2>1, <2>3, ValuesKept DEF Base, Rows
  <2> QED BY <2>4, <2>5, <2>6, <2>9, <2>10 DEF Base, Rows
<1> QED BY <1>2, <1>3

LEMMA ReadBackBase ==
    ASSUME Base, NEW r \in Requests, ReadBack(r)
    PROVE  Base'
<1> DEFINE rows == call[r].body.rows
<1>1. pc[r] = "latest" /\ call[r].body \in Additions
  BY DEF ReadBack, Base, RequestsFit, Runs, Asks
<1>2. CASE Throws(r) BY <1>1, <1>2, ThrowsBase DEF InFlight, Ended
<1>3. CASE ~ Throws(r)
  <2>1. PICK at \in Latest(call[r].sheet, Len(rows)) :
           /\ found' = [found EXCEPT ![r] = at]
           /\ Goto(r, "values")
           /\ UNCHANGED <<db, call, cols, raced>>
    BY <1>3 DEF ReadBack
  <2>2. UNCHANGED <<dirs, sheets, columns, entries, values, call, cols>> BY <2>1 DEF db
  <2>3. Moves(r, "values") BY <1>1, <2>1 DEF Goto, Moves, Follows, Ended
  <2>4. /\ Onward /\ Stays /\ pc'[r] = "values" BY <2>3, MovesOnward DEF Base
  <2>5. RequestsFit' /\ SheetsFit' /\ SheetsLess
    BY <2>1, <2>2, <2>3, MovesRequests, MovesSheets DEF Base, Rows, RequestsFit
  <2>6. Tree' BY <2>2, <2>3, <2>5, MovesTree DEF Base
  <2>7. ColumnsFit' BY <2>2, <2>4, ColumnsKept DEF Base, Rows, ColumnsFit
  <2>8. at \in Seq(EntryId) /\ ToSet(at) \subseteq EntriesOf(call[r].sheet)
    BY <1>1, AdditionIs, LatestAre DEF Base, Rows
  <2>9. EntriesFit' BY <2>1, <2>2, <2>4, <2>8, EntriesRead DEF Base, Rows, RequestsFit
  <2>10. ValuesFit' BY <2>2, <2>4, ValuesKept DEF Base, Rows, ValuesFit
  <2> QED BY <2>5, <2>6, <2>7, <2>9, <2>10 DEF Base, Rows
<1> QED BY <1>2, <1>3

\* Values in new are where nobody has put a value.
LEMMA NoClash ==
    ASSUME NEW new, ~ Clash(new), NEW v \in new, NEW w \in new \cup values,
           v.entry = w.entry, v.column = w.column
    PROVE  v = w
  BY DEF Clash

LEMMA AddValuesBase ==
    ASSUME Base, NEW r \in Requests, AddValues(r)
    PROVE  Base'
<1> DEFINE new == Cells(r, call[r].body.rows, found[r], cols[r])
<1>1. pc[r] = "values" /\ call[r].body \in Additions
  BY DEF AddValues, Base, RequestsFit, Runs, Asks
<1>2. CASE Throws(r) BY <1>1, <1>2, ThrowsBase DEF InFlight, Ended
<1>3. CASE ~ Throws(r)
  <2>1. /\ \A v \in new : v.entry \in DOMAIN entries /\ v.column \in columns
        /\ ~ Clash(new)
        /\ values' = values \cup new
        /\ Goto(r, "ok")
        /\ UNCHANGED <<dirs, sheets, columns, entries, times, call, cols, found, raced>>
    BY <1>3 DEF AddValues
  <2>2. Moves(r, "ok") BY <1>1, <2>1 DEF Goto, Moves, Follows, Ended
  <2>3. /\ Onward /\ Stays /\ pc'[r] = "ok" BY <2>2, MovesOnward DEF Base
  <2>4. RequestsFit' /\ SheetsFit' /\ SheetsLess
    BY <2>1, <2>2, MovesRequests, MovesSheets DEF Base, Rows, RequestsFit
  <2>5. Tree' BY <2>1, <2>2, <2>4, MovesTree DEF Base
  <2>6. ColumnsFit' BY <2>1, <2>3, ColumnsKept DEF Base, Rows, ColumnsFit
  <2>7. EntriesFit' BY <2>1, <2>3 DEF Stays, Base, Rows, EntriesFit
  <2>8. found[r] \in Seq(EntryId) BY DEF Base, Rows, EntriesFit
  <2>9. DOMAIN found[r] \subseteq Nat \ {0} BY <2>8
  <2>10. ASSUME NEW v \in new
         PROVE  /\ v \in Value
                /\ v.column.sheet = entries[v.entry]
                /\ pc'[v.row[1]] = "ok"
    <3>1. PICK i \in DOMAIN found[r], c \in cols[r] :
                 v = [entry |-> found[r][i], column |-> c, row |-> <<r, i>>]
      BY CellsAre
    <3>2. found[r][i] \in ToSet(found[r]) /\ found[r][i] \in EntryId
      BY <3>1, <2>8, <2>9 DEF ToSet
    <3>3. entries[found[r][i]] = call[r].sheet BY <3>1, <3>2, <2>1 DEF Base, Rows, EntriesFit
    <3>4. c \in Column /\ c.sheet = call[r].sheet BY <3>1 DEF Base, Rows, ColumnsFit
    <3>5. <<r, i>> \in EntryId BY <3>1, <2>9 DEF EntryId
    <3> QED BY <3>1, <3>2, <3>3, <3>4, <3>5, <2>3 DEF Value
  <2>11. ValuesFit'
    <3> HIDE DEF new
    <3>1. \A v \in new, w \in new \cup values : v.entry = w.entry /\ v.column = w.column => v = w
      BY <2>1, NoClash
    <3>2. \A v \in values : /\ v.column \in columns' /\ v.entry \in DOMAIN entries'
                            /\ entries'[v.entry] = entries[v.entry]
      BY <2>1 DEF Base, Rows, ValuesFit
    <3>3. \A v \in new : /\ v \in Value
                         /\ v.column \in columns' /\ v.entry \in DOMAIN entries'
                         /\ v.column.sheet = entries'[v.entry]
                         /\ pc'[v.row[1]] = "ok"
      BY <2>1, <2>10
    <3> QED BY <3>1, <3>2, <3>3, <2>1, <2>3, ValuesWritten DEF Base, Rows
  <2> QED BY <2>4, <2>5, <2>6, <2>7, <2>11 DEF Base, Rows
<1> QED BY <1>2, <1>3

LEMMA PickColumnsBase ==
    ASSUME Base, NEW r \in Requests, PickColumns(r)
    PROVE  Base'
<1>1. /\ cols' = [cols EXCEPT ![r] = ColumnsOf(call[r].sheet)]
      /\ UNCHANGED <<dirs, sheets, columns, entries, values, call, found>>
  BY DEF PickColumns, db
<1>2. Moves(r, "lock") BY DEF PickColumns, Goto, Moves, Follows, Ended
<1>3. /\ Onward /\ Stays /\ pc'[r] = "lock" BY <1>2, MovesOnward DEF Base
<1>4. /\ DOMAIN cols' = Requests /\ cols'[r] = ColumnsOf(call[r].sheet)
      /\ \A q \in Requests \ {r} : cols'[q] = cols[q]
  BY <1>1 DEF Base, RequestsFit
<1>5. RequestsFit' /\ SheetsFit' /\ SheetsLess
  BY <1>1, <1>2, <1>4, MovesRequests, MovesSheets DEF Base, Rows, RequestsFit
<1>6. Tree' BY <1>1, <1>2, <1>5, MovesTree DEF Base
<1>7. ColumnsFit'
  <2>1. \A q \in Requests : \A c \in cols'[q] : c \in Column /\ c.sheet = call'[q].sheet
    BY <1>1, <1>4 DEF Base, Rows, ColumnsFit, ColumnsOf
  <2> QED BY <2>1, <1>1, <1>3, ColumnsKept DEF Base, Rows, ColumnsFit
<1>8. EntriesFit' BY <1>1, <1>3 DEF Stays, Base, Rows, EntriesFit
<1>9. ValuesFit' BY <1>1, <1>3, ValuesKept DEF Base, Rows, ValuesFit
<1> QED BY <1>5, <1>6, <1>7, <1>8, <1>9 DEF Base, Rows

LEMMA ReplaceBase ==
    ASSUME Base, NEW r \in Requests, Replace(r)
    PROVE  Base'
<1> DEFINE E == EntriesOf(call[r].sheet)
<1>1. /\ found' = [found EXCEPT ![r] = SetToSeq(E)]
      /\ UNCHANGED <<dirs, sheets, columns, entries, values, call, cols>>
  BY DEF Replace
<1>2. Moves(r, "fetch") BY DEF Replace, Goto, Moves, Follows, Ended
<1>3. /\ Onward /\ Stays /\ pc'[r] = "fetch" BY <1>2, MovesOnward DEF Base
<1>4. RequestsFit' /\ SheetsFit' /\ SheetsLess
  <2>1. pc[r] = "replace" /\ call[r].sheet \in DOMAIN sheets
    BY DEF Replace, Base, Rows, SheetsFit
  <2> QED BY <2>1, <1>1, <1>2, MovesRequests, MovesSheets DEF Base, Rows, RequestsFit
<1>5. Tree' BY <1>1, <1>2, <1>4, MovesTree DEF Base
<1>6. ColumnsFit' BY <1>1, <1>3, ColumnsKept DEF Base, Rows, ColumnsFit
<1>7. SetToSeq(E) \in Seq(EntryId) /\ ToSet(SetToSeq(E)) = E
  <2>1. IsFiniteSet(E) /\ E \subseteq EntryId BY EntriesFinite DEF Base, Rows
  <2>2. SetToSeq(E) \in Seq(E) /\ ToSet(SetToSeq(E)) = E BY <2>1, SeqOfSet
  <2> QED BY <2>1, <2>2
<1>8. EntriesFit' BY <1>1, <1>3, <1>7, EntriesRead DEF Base, Rows, RequestsFit
<1>9. ValuesFit' BY <1>1, <1>3, ValuesKept DEF Base, Rows, ValuesFit
<1> QED BY <1>4, <1>5, <1>6, <1>8, <1>9 DEF Base, Rows

\* What the transaction of r puts, given what it deletes.
Puts(r, E, new) ==
    /\ \A e \in E : \E i \in Nat \ {0} : e = <<r, i>>
    /\ \A v \in new :
         /\ v \in Value
         /\ v.column \in (ColumnsOf(call[r].sheet) \ cols[r]) \cup NewColumns(r)
         /\ v.entry \in (EntriesOf(call[r].sheet) \ ToSet(found[r])) \cup E
         /\ v.row[1] = r

LEMMA NewColumnsAre ==
    ASSUME Base, NEW r \in Requests, call[r].op = "update"
    PROVE  \A c \in NewColumns(r) : c \in Column /\ c.sheet = call[r].sheet /\ c.by = r
<1>1. call[r].body \in Replacements /\ call[r].sheet \in Ids BY DEF Base, RequestsFit, Asks
<1> QED BY <1>1, ReplacementIs, ColumnsAre DEF NewColumns

LEMMA CommitBase ==
    ASSUME Base, NEW r \in Requests, pc[r] \in {"lock", "fetch"}, call[r].sheet \in DOMAIN sheets,
           NEW E, IsFiniteSet(E), NEW new, Puts(r, E, new), ~ Clash(new), Commit(r, E, new),
           UNCHANGED <<dirs, sheets, times, call, cols, found, raced>>
    PROVE  Base'
<1> DEFINE s == call[r].sheet
           kept == DOMAIN entries \ ToSet(found[r])
           N == NewColumns(r)
           V == {v \in values : v.column \in columns' /\ v.entry \in kept}
<1>1. /\ columns' = (columns \ cols[r]) \cup N
      /\ entries' = [e \in kept \cup E |-> IF e \in E THEN s ELSE entries[e]]
      /\ values' = V \cup new
      /\ Goto(r, "ok")
  BY DEF Commit
<1>2. Moves(r, "ok") BY <1>1 DEF Goto, Moves, Follows, Ended
<1>3. /\ Onward /\ Stays /\ pc'[r] = "ok" BY <1>2, MovesOnward DEF Base
<1>4. RequestsFit' /\ SheetsFit' /\ SheetsLess
  BY <1>2, MovesRequests, MovesSheets DEF Base, Rows, RequestsFit
<1>5. Tree' BY <1>2, <1>4, MovesTree DEF Base
<1>6. \A c \in N : c \in Column /\ c.sheet = s /\ c.by = r
  BY NewColumnsAre DEF Base, RequestsFit, Runs
<1> HIDE DEF N, V
<1>7. ColumnsFit'
  <2>1. \A c \in columns' : \/ c \in columns
                            \/ c \in Column /\ c.sheet \in DOMAIN sheets' /\ pc'[c.by] = "ok"
    BY <1>1, <1>3, <1>6
  <2>2. \A c \in columns' : c.sheet \in DOMAIN sheets'
    BY <1>1, <1>6 DEF Base, Rows, ColumnsFit
  <2> QED BY <2>1, <2>2, <1>3, ColumnsKept DEF Base, Rows, ColumnsFit
<1>8. \A e \in E : e \in EntryId /\ ~ Wrote(e[1]) /\ Wrote(e[1])' /\ s \in DOMAIN sheets'
  <2>1. ~ Wrote(r) /\ Wrote(r)' BY <1>3 DEF Wrote
  <2>2. \A e \in E : e \in EntryId /\ e[1] = r BY DEF Puts, EntryId
  <2> QED BY <2>1, <2>2
<1>9. \A e \in kept : e \notin E /\ entries[e] \in DOMAIN sheets' /\ e \in DOMAIN entries
  BY <1>8 DEF Base, Rows, EntriesFit
<1>10. kept \in SUBSET DOMAIN entries OBVIOUS
<1>11. EntriesFit'
  <2> HIDE DEF kept
  <2> QED BY <1>1, <1>3, <1>8, <1>9, <1>10, EntriesWritten DEF Base, Rows
<1>12. ValuesFit'
  <2>1. \A v \in V : /\ v \in values /\ v.column \in columns' /\ v.entry \in DOMAIN entries'
                     /\ entries'[v.entry] = entries[v.entry]
    BY <1>1, <1>9 DEF V
  <2>2. ASSUME NEW v \in new
        PROVE  /\ v \in Value
               /\ v.column \in columns' /\ v.entry \in DOMAIN entries'
               /\ v.column.sheet = entries'[v.entry]
               /\ pc'[v.row[1]] = "ok"
    <3>1. /\ v \in Value
          /\ v.column \in (ColumnsOf(s) \ cols[r]) \cup N
          /\ v.entry \in (EntriesOf(s) \ ToSet(found[r])) \cup E
          /\ v.row[1] = r
      BY DEF Puts, N
    <3>2. v.column \in columns' /\ v.column.sheet = s BY <3>1, <1>1, <1>6 DEF ColumnsOf
    <3>3. v.entry \in DOMAIN entries' /\ entries'[v.entry] = s BY <3>1, <1>1 DEF EntriesOf
    <3> QED BY <3>1, <3>2, <3>3, <1>3
  <2>3. \A v \in new, w \in new \cup V : v.entry = w.entry /\ v.column = w.column => v = w
    BY <2>1, NoClash
  <2>4. V \in SUBSET values BY DEF V
  <2> QED BY <2>1, <2>2, <2>3, <2>4, <1>1, <1>3, ValuesWritten DEF Base, Rows
<1> QED BY <1>4, <1>5, <1>7, <1>11, <1>12 DEF Base, Rows

LEMMA LockBase ==
    ASSUME Base, NEW r \in Requests, Lock(r)
    PROVE  Base'
<1>1. pc[r] = "lock" BY DEF Lock
<1>2. CASE call[r].sheet \notin DOMAIN sheets
  <2>1. Throws(r) BY <1>2 DEF Lock
  <2> QED BY <2>1, <1>1, ThrowsBase DEF InFlight, Ended
<1>3. CASE call[r].sheet \in DOMAIN sheets /\ call[r].body.rows = Unset
  <2>1. Commit(r, {}, {}) /\ UNCHANGED <<dirs, sheets, times, call, cols, found, raced>>
    BY <1>3 DEF Lock
  <2>2. Puts(r, {}, {}) /\ ~ Clash({}) /\ IsFiniteSet({}) BY FS_EmptySet DEF Puts, Clash
  <2> QED BY <2>1, <2>2, <1>1, <1>3, CommitBase
<1>4. CASE call[r].sheet \in DOMAIN sheets /\ call[r].body.rows # Unset
  <2>1. Goto(r, "replace") /\ UNCHANGED <<db, call, cols, found, raced>> BY <1>4 DEF Lock
  <2>2. UNCHANGED <<dirs, sheets, columns, entries, values>> BY <2>1 DEF db
  <2>3. Moves(r, "replace") BY <1>1, <2>1 DEF Goto, Moves, Follows, Ended
  <2>4. RequestsFit' /\ SheetsFit' /\ SheetsLess
    BY <1>4, <2>1, <2>2, <2>3, MovesRequests, MovesSheets DEF Base, Rows, RequestsFit
  <2>5. Tree' BY <2>2, <2>3, <2>4, MovesTree DEF Base
  <2>6. Rows' BY <2>1, <2>2, <2>3, <2>4, MovesOnward, RowsKept DEF Base
  <2> QED BY <2>4, <2>5, <2>6 DEF Base
<1> QED BY <1>2, <1>3, <1>4

\* What Fetch puts in goes where it says.
LEMMA FetchPuts ==
    ASSUME Base, NEW r \in Requests, pc[r] = "fetch",
           NEW S \in Finds((ColumnsOf(call[r].sheet) \ cols[r]) \cup NewColumns(r)),
           NEW at \in [1..Len(call[r].body.rows) ->
                         (EntriesOf(call[r].sheet) \ ToSet(found[r])) \cup Made(r, Len(call[r].body.rows))]
    PROVE  /\ Puts(r, Made(r, Len(call[r].body.rows)), Cells(r, call[r].body.rows, at, S))
           /\ IsFiniteSet(Made(r, Len(call[r].body.rows)))
           /\ call[r].body \in Replacements /\ call[r].body.rows # Unset
<1> DEFINE rows == call[r].body.rows
           own == Made(r, Len(rows))
           seen == (EntriesOf(call[r].sheet) \ ToSet(found[r])) \cup own
<1>1. /\ call[r].body \in Replacements /\ rows # Unset /\ call[r].op = "update"
  BY DEF Base, RequestsFit, Runs, Asks
<1>2. Len(rows) \in Nat BY <1>1, ReplacementIs
<1>3. IsFiniteSet(own) /\ \A e \in own : \E i \in 1..Len(rows) : e = <<r, i>>
  BY <1>2, MadeFinite
<1>4. \A e \in own : \E i \in Nat \ {0} : e = <<r, i>>
  <2> TAKE e \in own
  <2>1. PICK i \in 1..Len(rows) : e = <<r, i>> BY <1>3
  <2> QED BY <2>1, <1>2
<1>5. \A e \in seen : e \in EntryId BY <1>4, EntriesFinite DEF EntryId, Base, Rows
<1>6. ASSUME NEW v \in Cells(r, rows, at, S)
      PROVE  /\ v \in Value
             /\ v.column \in (ColumnsOf(call[r].sheet) \ cols[r]) \cup NewColumns(r)
             /\ v.entry \in seen
             /\ v.row[1] = r
  <2>1. PICK i \in DOMAIN at, c \in S : v = [entry |-> at[i], column |-> c, row |-> <<r, i>>]
    BY CellsAre
  <2>2. at[i] \in seen /\ i \in Nat \ {0} BY <2>1, <1>2
  <2>3. c \in (ColumnsOf(call[r].sheet) \ cols[r]) \cup NewColumns(r) BY DEF Finds
  <2>4. c \in Column BY <2>3, <1>1, NewColumnsAre DEF ColumnsOf, Base, Rows, ColumnsFit
  <2>5. <<r, i>> \in EntryId BY <2>2 DEF EntryId
  <2> HIDE DEF seen
  <2> QED BY <2>1, <2>2, <2>3, <2>4, <2>5, <1>5 DEF Value
<1> QED BY <1>1, <1>3, <1>4, <1>6 DEF Puts

LEMMA FetchBase ==
    ASSUME Base, NEW r \in Requests, Fetch(r)
    PROVE  Base'
<1> DEFINE rows == call[r].body.rows
           own == Made(r, Len(rows))
           seen == (EntriesOf(call[r].sheet) \ ToSet(found[r])) \cup own
<1>1. pc[r] = "fetch" /\ call[r].sheet \in DOMAIN sheets BY DEF Fetch, Base, Rows, SheetsFit
<1>2. PICK S \in Finds((ColumnsOf(call[r].sheet) \ cols[r]) \cup NewColumns(r)),
           at \in {f \in [1..Len(rows) -> seen] : IsInjective(f)} :
             LET new == Cells(r, rows, at, S) IN
             IF Covers(S, rows) /\ ~Clash(new)
             THEN /\ Commit(r, own, new)
                  /\ UNCHANGED <<dirs, sheets, times, call, cols, found, raced>>
             ELSE Throws(r)
  BY DEF Fetch
<1> DEFINE new == Cells(r, rows, at, S)
<1>3. CASE Throws(r) BY <1>1, <1>3, ThrowsBase DEF InFlight, Ended
<1>4. CASE ~ Throws(r)
  <2>1. /\ ~ Clash(new) /\ Commit(r, own, new)
        /\ UNCHANGED <<dirs, sheets, times, call, cols, found, raced>>
    BY <1>2, <1>4
  <2>2. Puts(r, own, new) /\ IsFiniteSet(own) BY <1>1, FetchPuts
  <2> HIDE DEF new, own
  <2> QED BY <2>1, <2>2, <1>1, CommitBase
<1> QED BY <1>3, <1>4

LEMMA DeleteSheetBase ==
    ASSUME Base, NEW r \in Requests, DeleteSheet(r)
    PROVE  Base'
<1>1. pc[r] = "discard" BY DEF DeleteSheet
<1>2. CASE Throws(r) BY <1>1, <1>2, ThrowsBase DEF InFlight, Ended
<1>3. CASE ~ Throws(r)
  <2>1. /\ sheets' = [sheets EXCEPT ![call[r].sheet].active = FALSE]
        /\ Goto(r, "ok")
        /\ UNCHANGED <<dirs, columns, entries, values, times, call, cols, found, raced>>
    BY <1>3 DEF DeleteSheet
  <2>2. Moves(r, "ok") BY <1>1, <2>1 DEF Goto, Moves, Follows, Ended
  <2>3. /\ Onward /\ Stays /\ pc'[r] = "ok" /\ \A q \in Requests \ {r} : pc'[q] = pc[q]
    BY <2>2, MovesOnward DEF Base
  <2>4. DOMAIN sheets' = DOMAIN sheets /\ SheetsLess
    BY <2>1 DEF SheetsLess, Base, Rows, SheetsFit, Sheet
  <2>5. SheetsFit'
    <3>1. \A q \in Requests : pc'[q] \in {"replace", "fetch"} => call'[q].sheet \in DOMAIN sheets'
      BY <2>1, <2>3, <2>4 DEF Base, Rows, SheetsFit
    <3> QED BY <3>1, <2>1, <2>3, <2>4, SheetsKept DEF Base, Rows
  <2>6. RequestsFit' BY <2>1, <2>2, MovesRequests DEF Base, RequestsFit
  <2>7. Tree' BY <2>1, <2>2, <2>4, MovesTree DEF Base
  <2>8. Rows' BY <2>1, <2>3, <2>4, <2>5, RowsKept DEF Base
  <2> QED BY <2>6, <2>7, <2>8 DEF Base
<1> QED BY <1>2, <1>3

\* Nobody holds a sheet that goes.
LEMMA HardDeleteBase ==
    ASSUME Base, NEW r \in Requests, HardDelete(r)
    PROVE  Base'
<1> DEFINE s == call[r].sheet
           kept == DOMAIN entries \ EntriesOf(s)
           V == {v \in values : v.entry \in kept}
<1>1. pc[r] = "remove" /\ Holders(s) = {} BY DEF HardDelete
<1>2. CASE Throws(r) BY <1>1, <1>2, ThrowsBase DEF InFlight, Ended
<1>3. CASE ~ Throws(r)
  <2>1. /\ sheets' = [t \in DOMAIN sheets \ {s} |-> sheets[t]]
        /\ columns' = columns \ ColumnsOf(s)
        /\ entries' = [e \in kept |-> entries[e]]
        /\ values' = V
        /\ Goto(r, "ok")
        /\ UNCHANGED <<dirs, times, call, cols, found, raced>>
    BY <1>3 DEF HardDelete
  <2>2. Moves(r, "ok") BY <1>1, <2>1 DEF Goto, Moves, Follows, Ended
  <2>3. /\ Onward /\ Stays /\ pc'[r] = "ok" /\ \A q \in Requests \ {r} : pc'[q] = pc[q]
    BY <2>2, MovesOnward DEF Base
  <2>4. SheetsLess BY <2>1 DEF SheetsLess, Base, Rows, SheetsFit
  <2>5. SheetsFit'
    <3>1. ASSUME NEW q \in Requests, pc'[q] \in {"replace", "fetch"}
          PROVE  call'[q].sheet \in DOMAIN sheets'
      <4>1. pc[q] = pc'[q] BY <3>1, <2>3
      <4>2. call[q].sheet # s BY <3>1, <4>1, <1>1 DEF Holders
      <4> QED BY <3>1, <4>1, <4>2, <2>1 DEF Base, Rows, SheetsFit
    <3> QED BY <3>1, <2>1, <2>3, <2>4, SheetsKept DEF Base, Rows
  <2>6. RequestsFit' BY <2>1, <2>2, MovesRequests DEF Base, RequestsFit
  <2>7. Tree' BY <2>1, <2>2, <2>4, MovesTree DEF Base
  <2>8. ColumnsFit'
    <3>1. \A c \in columns' : c \in columns /\ c.sheet \in DOMAIN sheets'
      BY <2>1 DEF ColumnsOf, Base, Rows, ColumnsFit
    <3> QED BY <3>1, <2>1, <2>3, ColumnsKept DEF Base, Rows, ColumnsFit
  <2>9. \A e \in kept : e \in DOMAIN entries /\ entries[e] # s /\ entries[e] \in DOMAIN sheets'
    BY <2>1 DEF EntriesOf, Base, Rows, EntriesFit
  <2>10. EntriesFit'
    <3>1. entries' = [e \in kept \cup {} |-> IF e \in {} THEN s ELSE entries[e]] BY <2>1
    <3>2. kept \in SUBSET DOMAIN entries OBVIOUS
    <3> HIDE DEF kept
    <3> QED BY <3>1, <3>2, <2>1, <2>3, <2>9, EntriesWritten, FS_EmptySet DEF Base, Rows
  <2>11. ValuesFit'
    <3>1. \A v \in V : /\ v.column \in columns' /\ v.entry \in DOMAIN entries'
                       /\ entries'[v.entry] = entries[v.entry]
      BY <2>1, <2>9 DEF ColumnsOf, Base, Rows, ValuesFit
    <3>2. V \subseteq values /\ values' = V BY <2>1
    <3>3. \A v \in values : pc'[v.row[1]] = "ok"
      BY <2>3 DEF Stays, Base, Rows, ValuesFit, Value, EntryId
    <3> HIDE DEF V
    <3> QED BY <3>1, <3>2, <3>3 DEF Base, Rows, ValuesFit
  <2> QED BY <2>5, <2>6, <2>7, <2>8, <2>10, <2>11 DEF Base, Rows
<1> QED BY <1>2, <1>3

----------------------------------------------------------------------------
(* Every step *)

LEMMA CrashOnward ==
    ASSUME RequestsFit, Crash
    PROVE  /\ Onward /\ UNCHANGED <<db, cols, found>>
           /\ \A q \in Requests : pc'[q] = pc[q] \/ pc'[q] = "failed"
  BY DEF RequestsFit, Crash, Onward, Follows, InFlight

LEMMA RestOnward ==
    ASSUME RequestsFit, UNCHANGED vars
    PROVE  /\ Onward /\ UNCHANGED <<db, cols, found>>
           /\ \A q \in Requests : pc'[q] = pc[q] \/ pc'[q] = "failed"
  BY DEF RequestsFit, vars, Onward

LEMMA ArriveBase ==
    ASSUME Base, NEW r \in Requests, Receive(r)
    PROVE  Base'
<1>1. PICK c, p : Arrives(r, c, p) /\ LetIn(c, p) BY Arrival DEF Base, Rows
<1> QED BY <1>1, ArrivesRequests, RowsArrive, TreeArrives DEF Base

LEMMA StepBase ==
    ASSUME Base, MeetInv, NEW r \in Requests, Step(r)
    PROVE  Base'
  BY CreateDirBase, DeleteDirBase, CreateSheetBase, AddEntriesBase, ReadBackBase, AddValuesBase,
     PickColumnsBase, LockBase, ReplaceBase, FetchBase, DeleteSheetBase, HardDeleteBase DEF Step

LEMMA NextBase ==
    ASSUME Base, MeetInv, [Next]_vars
    PROVE  Base'
<1>1. ASSUME NEW r \in Requests, Receive(r)
      PROVE  Base'
  BY <1>1, ArriveBase
<1>2. ASSUME NEW r \in Requests, Step(r)
      PROVE  Base'
  BY <1>2, StepBase
<1>3. ASSUME NEW r \in Requests, Fail(r)
      PROVE  Base'
  BY <1>3, ThrowsBase DEF Fail
<1>4. CASE Crash BY <1>4, CrashOnward, QuietBase DEF Base
<1>5. CASE UNCHANGED vars BY <1>5, RestOnward, QuietBase DEF Base
<1> QED BY <1>1, <1>2, <1>3, <1>4, <1>5 DEF Next

\* A step of a request moves it on, and touches what no other request read.
LEMMA StepMoves ==
    ASSUME RequestsFit, NEW r \in Requests, Step(r) \/ Fail(r)
    PROVE  /\ \E p : Moves(r, p)
           /\ \A q \in Requests \ {r} : cols'[q] = cols[q] /\ found'[q] = found[q]
           /\ InFlight(r)
<1>1. ASSUME Throws(r), InFlight(r)
      PROVE  Moves(r, "failed")
  BY <1>1 DEF Throws, Goto, Moves, Follows, InFlight
<1>2. ASSUME Throws(r)
      PROVE  cols' = cols /\ found' = found
  BY <1>2 DEF Throws
<1>3. ASSUME NEW p, Goto(r, p), Follows(pc[r], p), UNCHANGED <<call, raced>>
      PROVE  Moves(r, p)
  BY <1>3 DEF Goto, Moves
<1>4. ASSUME NEW p, Moves(r, p)
      PROVE  InFlight(r)
  BY <1>4 DEF Moves, Follows, InFlight
<1> DEFINE Done == /\ \E p : Moves(r, p)
                   /\ \A q \in Requests \ {r} : cols'[q] = cols[q] /\ found'[q] = found[q]
                   /\ InFlight(r)
<1>5. \A p, q \in {"mkdir", "trash", "sheet", "entries", "latest", "values", "pick", "lock",
                   "replace", "fetch", "discard", "remove"} :
        pc[r] = p => InFlight(r) /\ Follows(pc[r], "ok") /\ Follows(pc[r], "failed")
  BY DEF InFlight, Follows, Ended
<1> DEFINE Same == cols' = cols /\ found' = found
<1>6. ASSUME NEW p, Moves(r, p), Same
      PROVE  Done
  BY <1>4, <1>6
<1>7. ASSUME Throws(r), InFlight(r)
      PROVE  Done
  BY <1>1, <1>2, <1>7
<1>8. ASSUME NEW E, NEW new, Commit(r, E, new), Follows(pc[r], "ok"), UNCHANGED <<call, cols, found, raced>>
      PROVE  Done
  BY <1>3, <1>6, <1>8 DEF Commit
<1> HIDE DEF Done
<1>9. ASSUME CreateDir(r) \/ DeleteDir(r)
      PROVE  Done
  BY <1>3, <1>5, <1>6, <1>9 DEF CreateDir, DeleteDir
<1>10. ASSUME CreateSheet(r)
       PROVE  Done
  BY <1>3, <1>5, <1>6, <1>7, <1>10 DEF CreateSheet
<1>11. ASSUME AddEntries(r)
       PROVE  Done
  <2>1. Follows("entries", "latest") BY DEF Follows, Ended
  <2> QED BY <2>1, <1>3, <1>5, <1>6, <1>7, <1>11 DEF AddEntries
<1>12. ASSUME ReadBack(r)
       PROVE  Done
  <2>1. pc[r] = "latest" /\ Follows("latest", "values") BY <1>12 DEF ReadBack, Follows, Ended
  <2>2. CASE Throws(r) BY <2>1, <2>2, <1>5, <1>7
  <2>3. CASE ~ Throws(r)
    <3>1. PICK at : /\ found' = [found EXCEPT ![r] = at] /\ Goto(r, "values")
                    /\ UNCHANGED <<db, call, cols, raced>>
      BY <2>3, <1>12 DEF ReadBack
    <3>2. Moves(r, "values") BY <3>1, <2>1, <1>3
    <3> QED BY <3>1, <3>2, <1>4 DEF Done, RequestsFit
  <2> QED BY <2>2, <2>3
<1>13. ASSUME AddValues(r)
       PROVE  Done
  BY <1>3, <1>5, <1>6, <1>7, <1>13 DEF AddValues
<1>14. ASSUME PickColumns(r)
       PROVE  Done
  <2>1. Moves(r, "lock") BY <1>14 DEF PickColumns, Goto, Moves, Follows, Ended
  <2> QED BY <2>1, <1>4, <1>14 DEF PickColumns, Done, RequestsFit
<1>15. ASSUME Lock(r)
       PROVE  Done
  <2>1. pc[r] = "lock" /\ Follows("lock", "replace") /\ Follows("lock", "ok")
    BY <1>15 DEF Lock, Follows, Ended
  <2> QED BY <2>1, <1>3, <1>5, <1>6, <1>7, <1>8, <1>15 DEF Lock
<1>16. ASSUME Replace(r)
       PROVE  Done
  <2>1. Moves(r, "fetch") BY <1>16 DEF Replace, Goto, Moves, Follows, Ended
  <2> QED BY <2>1, <1>4, <1>16 DEF Replace, Done, RequestsFit
<1>17. ASSUME Fetch(r)
       PROVE  Done
  <2>1. pc[r] = "fetch" BY <1>17 DEF Fetch
  <2>2. CASE Throws(r) BY <2>1, <2>2, <1>5, <1>7
  <2>3. CASE ~ Throws(r)
    <3>1. \E E, new : Commit(r, E, new) /\ UNCHANGED <<dirs, sheets, times, call, cols, found, raced>>
      BY <2>3, <1>17 DEF Fetch
    <3> QED BY <3>1, <2>1, <1>5, <1>8
  <2> QED BY <2>2, <2>3
<1>18. ASSUME DeleteSheet(r)
       PROVE  Done
  BY <1>3, <1>5, <1>6, <1>7, <1>18 DEF DeleteSheet
<1>19. ASSUME HardDelete(r)
       PROVE  Done
  BY <1>3, <1>5, <1>6, <1>7, <1>19 DEF HardDelete
<1>20. ASSUME Fail(r)
       PROVE  Done
  BY <1>7, <1>20 DEF Fail
<1>21. Done
  BY <1>9, <1>10, <1>11, <1>12, <1>13, <1>14, <1>15, <1>16, <1>17, <1>18, <1>19, <1>20 DEF Step
<1> QED BY <1>21 DEF Done

----------------------------------------------------------------------------
(* Requests that meet, and the columns of a sheet *)

LEMMA NextMeet ==
    ASSUME Base, MeetInv, [Next]_vars
    PROVE  MeetInv'
<1>1. ASSUME Onward
      PROVE  MeetInv'
  <2>1. \A q \in Requests : InFlight(q)' => InFlight(q) BY <1>1 DEF Onward, Follows, InFlight
  <2> QED BY <2>1, <1>1 DEF Onward, MeetInv, Met
<1>2. ASSUME NEW r \in Requests, Receive(r)
      PROVE  MeetInv'
  <2>1. PICK c, p : Arrives(r, c, p) /\ LetIn(c, p) BY <1>2, Arrival DEF Base, Rows
  <2>2. pc'[r] = p /\ \A q \in Requests \ {r} : pc'[q] = pc[q]
    BY <2>1 DEF Arrives, Base, RequestsFit
  <2>3. \A q, s : Met(q, s) => Met(q, s)' BY <2>1, ArrivesStays, StaysMet DEF Base
  <2>4. InFlight(r)' => \A q \in Requests \ {r} : InFlight(q) => Met(q, r)' /\ Met(r, q)'
    <3>1. InFlight(r)' => p # "refused" BY <2>2 DEF InFlight, Ended
    <3>2. \A q : {q, r} = {r, q} OBVIOUS
    <3> QED BY <2>1, <3>1, <3>2 DEF Arrives, Met
  <2>5. \A q \in Requests \ {r} : InFlight(q)' => InFlight(q) BY <2>2 DEF InFlight
  <2> QED BY <2>3, <2>4, <2>5 DEF MeetInv
<1>3. ASSUME NEW r \in Requests, Step(r) \/ Fail(r)
      PROVE  Onward
  BY <1>3, StepMoves, MovesOnward DEF Base
<1> QED BY <1>1, <1>2, <1>3, CrashOnward, RestOnward DEF Next, Base

\* Who moves on to put columns was about to, or has just picked those that go.
LEMMA RenamesOn ==
    ASSUME RequestsFit, NEW r \in Requests, NEW p, Moves(r, p), NEW q \in Requests, Renames(q)'
    PROVE  \/ Renames(q)
           \/ q = r /\ p = "lock" /\ pc[r] = "pick"
<1>1. call' = call /\ pc'[r] = p /\ \A x \in Requests \ {r} : pc'[x] = pc[x]
  BY MovesOnward DEF Moves
<1> QED BY <1>1 DEF Moves, Follows, Renames

LEMMA NamesPut ==
    ASSUME Base, MeetInv, NamesInv, NEW r \in Requests, NEW p, Moves(r, p), NEW N, NEW s,
           columns' \subseteq columns \cup N,
           \A c \in N : c.by = r /\ c.sheet = s,
           \A k \in (columns' \cap columns) \ N : k.sheet = s /\ N # {} => Met(k.by, r),
           \A q \in Requests \ {r} : cols'[q] = cols[q],
           Renames(r)' => \A k \in ColumnsOf(call[r].sheet)' \ cols'[r] : Met(k.by, r)
    PROVE  NamesInv'
<1>1. call' = call /\ raced' = raced /\ InFlight(r) BY DEF Moves, Follows, InFlight
<1>2. \A q, k : Met(q, k)' <=> Met(q, k) BY <1>1 DEF Met
<1>3. ColumnsStandAlone'
  <2>1. ASSUME NEW c \in columns', NEW k \in columns', c.sheet = k.sheet
        PROVE  c.by = k.by \/ Met(c.by, k.by)
    <3>1. CASE c \in N /\ k \in N BY <2>1, <3>1
    <3>2. CASE c \in N /\ k \notin N BY <2>1, <3>2, MetBoth
    <3>3. CASE c \notin N /\ k \in N BY <2>1, <3>3
    <3>4. CASE c \notin N /\ k \notin N BY <2>1, <3>4 DEF NamesInv, ColumnsStandAlone
    <3> QED BY <3>1, <3>2, <3>3, <3>4
  <2> QED BY <2>1, <1>2 DEF ColumnsStandAlone
<1>4. ASSUME NEW q \in Requests, Renames(q)', NEW k \in ColumnsOf(call[q].sheet)' \ cols'[q]
      PROVE  Met(k.by, q)'
  <2>1. CASE q = r BY <2>1, <1>2, <1>4
  <2>2. CASE q # r
    <3>1. Renames(q) BY <2>2, <1>4, RenamesOn DEF Base
    <3>2. InFlight(q) BY <3>1 DEF Renames, InFlight, Ended
    <3>3. k \in columns' /\ k.sheet = call[q].sheet /\ k \notin cols[q]
      BY <2>2, <1>1, <1>4 DEF ColumnsOf
    <3>4. CASE k \in N BY <2>2, <3>2, <3>4, <1>1, <1>2, WorkMeets
    <3>5. CASE k \notin N BY <3>1, <3>3, <3>5, <1>2 DEF NamesInv, ColumnsOf
    <3> QED BY <3>4, <3>5
  <2> QED BY <2>1, <2>2
<1> QED BY <1>3, <1>4 DEF NamesInv

LEMMA NamesQuiet ==
    ASSUME NamesInv, Onward, columns' \subseteq columns, cols' = cols,
           \A q \in Requests : pc'[q] = pc[q] \/ pc'[q] \notin {"lock", "replace", "fetch"}
    PROVE  NamesInv'
<1>1. \A q, k : Met(q, k)' <=> Met(q, k) BY DEF Onward, Met
<1>2. \A q \in Requests : Renames(q)' => Renames(q) BY DEF Onward, Renames
<1>3. call' = call BY DEF Onward
<1> QED BY <1>1, <1>2, <1>3 DEF NamesInv, ColumnsStandAlone, ColumnsOf

LEMMA NamesArrive ==
    ASSUME Base, NamesInv, NEW r \in Requests, NEW c, NEW p, Arrives(r, c, p), LetIn(c, p)
    PROVE  NamesInv'
<1>1. \A q, k : Met(q, k) => Met(q, k)' BY ArrivesStays, StaysMet DEF Base
<1>2. /\ pc'[r] = p /\ call'[r] = c /\ columns' = columns
      /\ \A q \in Requests \ {r} : pc'[q] = pc[q] /\ call'[q] = call[q] /\ cols'[q] = cols[q]
  BY DEF Arrives, db, Base, RequestsFit
<1>3. ~ Renames(r)' BY <1>2 DEF LetIn, Renames
<1>4. ASSUME NEW q \in Requests, Renames(q)', NEW k \in ColumnsOf(call[q].sheet)' \ cols'[q]
      PROVE  Met(k.by, q)'
  <2>1. q # r BY <1>3, <1>4
  <2> QED BY <2>1, <1>1, <1>2, <1>4 DEF NamesInv, Renames, ColumnsOf
<1>5. ColumnsStandAlone' BY <1>1, <1>2 DEF NamesInv, ColumnsStandAlone
<1> QED BY <1>4, <1>5 DEF NamesInv

LEMMA NamesThrow ==
    ASSUME Base, NamesInv, NEW r \in Requests, InFlight(r), Throws(r)
    PROVE  NamesInv'
<1>1. Moves(r, "failed") BY DEF Throws, Goto, Moves, Follows, InFlight
<1>2. columns' = columns /\ cols' = cols BY DEF Throws, db
<1> QED BY <1>1, <1>2, MovesOnward, NamesQuiet DEF Base

LEMMA NamesCommit ==
    ASSUME Base, MeetInv, NamesInv, NEW r \in Requests, pc[r] \in {"lock", "fetch"},
           NEW E, NEW new, Commit(r, E, new), UNCHANGED <<call, cols, raced>>
    PROVE  NamesInv'
<1> DEFINE N == NewColumns(r)
           s == call[r].sheet
<1>1. Moves(r, "ok") /\ columns' = (columns \ cols[r]) \cup N
  BY DEF Commit, Goto, Moves, Follows, Ended
<1>2. \A c \in N : c.by = r /\ c.sheet = s BY NewColumnsAre DEF Base, RequestsFit, Runs
<1>4. N # {} => Renames(r) BY DEF NewColumns, Renames
<1>5. \A k \in (columns' \cap columns) \ N : k.sheet = s /\ N # {} => Met(k.by, r)
  BY <1>1, <1>4 DEF NamesInv, ColumnsOf
<1>6. ~ Renames(r)' BY <1>1, MovesOnward DEF Base, Renames
<1> HIDE DEF N, s
<1> QED BY <1>1, <1>2, <1>5, <1>6, NamesPut

LEMMA NamesCreateSheet ==
    ASSUME Base, MeetInv, NamesInv, NEW r \in Requests, CreateSheet(r)
    PROVE  NamesInv'
<1> DEFINE N == ColumnsBy(r, r, call[r].body.names)
<1>1. pc[r] = "sheet" BY DEF CreateSheet
<1>2. CASE Throws(r) BY <1>1, <1>2, NamesThrow DEF InFlight, Ended
<1>3. CASE ~ Throws(r)
  <2>1. columns' = columns \cup N /\ Goto(r, "ok") /\ UNCHANGED <<call, cols, raced>>
    BY <1>3 DEF CreateSheet
  <2>2. Moves(r, "ok") BY <1>1, <2>1 DEF Goto, Moves, Follows, Ended
  <2>3. \A c \in N : c.by = r /\ c.sheet = r BY DEF ColumnsBy
  <2>5. \A k \in columns : k.sheet # r
    <3>1. r \notin DOMAIN sheets BY <1>1, ExpensesAssumption DEF Base, Rows, SheetsFit, On
    <3> QED BY <3>1 DEF Base, Rows, ColumnsFit
  <2>6. ~ Renames(r)' BY <2>2, MovesOnward DEF Base, Renames
  <2> HIDE DEF N
  <2> QED BY <2>1, <2>2, <2>3, <2>5, <2>6, NamesPut
<1> QED BY <1>2, <1>3

\* Steps on the way to new columns.
LEMMA NamesOnTheWay ==
    ASSUME Base, MeetInv, NamesInv, NEW r \in Requests, NEW p, Moves(r, p), columns' = columns,
           \A q \in Requests \ {r} : cols'[q] = cols[q],
           \/ cols'[r] = ColumnsOf(call[r].sheet)
           \/ Renames(r)' => Renames(r) /\ cols'[r] = cols[r]
    PROVE  NamesInv'
<1>1. call' = call BY DEF Moves
<1>2. Renames(r)' => \A k \in ColumnsOf(call[r].sheet)' \ cols'[r] : Met(k.by, r)
  BY <1>1 DEF NamesInv, ColumnsOf
<1> DEFINE N == {}
<1>3. /\ columns' \subseteq columns \cup N
      /\ \A c \in N : c.by = r /\ c.sheet = r
      /\ \A k \in (columns' \cap columns) \ N : k.sheet = r /\ N # {} => Met(k.by, r)
  OBVIOUS
<1> HIDE DEF N
<1> QED BY <1>2, <1>3, NamesPut

LEMMA NamesStep ==
    ASSUME Base, MeetInv, NamesInv, NEW r \in Requests, Step(r)
    PROVE  NamesInv'
<1>1. ASSUME NEW p, Goto(r, p), p \notin {"lock", "replace", "fetch"}, Follows(pc[r], p),
             UNCHANGED <<call, cols, raced>>, columns' \subseteq columns
      PROVE  NamesInv'
  <2>1. Moves(r, p) BY <1>1 DEF Goto, Moves
  <2> QED BY <1>1, <2>1, MovesOnward, NamesQuiet DEF Base
<1>2. \A p \in {"mkdir", "trash", "sheet", "entries", "latest", "values", "pick", "lock",
                "replace", "fetch", "discard", "remove"} :
        pc[r] = p => InFlight(r) /\ Follows(pc[r], "ok")
  BY DEF InFlight, Follows, Ended
<1>3. ASSUME CreateDir(r) \/ DeleteDir(r)
      PROVE  NamesInv'
  BY <1>1, <1>2, <1>3 DEF CreateDir, DeleteDir
<1>4. ASSUME AddEntries(r)
      PROVE  NamesInv'
  <2>1. Follows("entries", "latest") BY DEF Follows, Ended
  <2> QED BY <2>1, <1>1, <1>2, <1>4, NamesThrow DEF AddEntries
<1>5. ASSUME ReadBack(r)
      PROVE  NamesInv'
  <2>1. pc[r] = "latest" /\ Follows("latest", "values") BY <1>5 DEF ReadBack, Follows, Ended
  <2>2. CASE Throws(r) BY <2>1, <2>2, <1>2, NamesThrow
  <2>3. CASE ~ Throws(r)
    <3>1. Goto(r, "values") /\ UNCHANGED <<db, call, cols, raced>> BY <2>3, <1>5 DEF ReadBack
    <3>2. columns' = columns BY <3>1 DEF db
    <3> QED BY <3>1, <3>2, <2>1, <1>1
  <2> QED BY <2>2, <2>3
<1>6. ASSUME AddValues(r)
      PROVE  NamesInv'
  BY <1>1, <1>2, <1>6, NamesThrow DEF AddValues
<1>7. ASSUME PickColumns(r)
      PROVE  NamesInv'
  <2>1. Moves(r, "lock") /\ columns' = columns
    BY <1>7 DEF PickColumns, Goto, Moves, Follows, Ended, db
  <2>2. /\ cols'[r] = ColumnsOf(call[r].sheet)
        /\ \A q \in Requests \ {r} : cols'[q] = cols[q]
    BY <1>7 DEF PickColumns, Base, RequestsFit
  <2> QED BY <2>1, <2>2, NamesOnTheWay
<1>8. ASSUME Lock(r)
      PROVE  NamesInv'
  <2>1. pc[r] = "lock" /\ Follows("lock", "replace") BY <1>8 DEF Lock, Follows, Ended
  <2>2. \/ Throws(r)
        \/ Commit(r, {}, {}) /\ UNCHANGED <<dirs, sheets, times, call, cols, found, raced>>
        \/ Goto(r, "replace") /\ UNCHANGED <<db, call, cols, found, raced>>
    BY <1>8 DEF Lock
  <2>3. ASSUME Goto(r, "replace"), UNCHANGED <<db, call, cols, found, raced>>
        PROVE  NamesInv'
    <3>1. Moves(r, "replace") /\ columns' = columns BY <2>1, <2>3 DEF Goto, Moves, db
    <3>2. Renames(r)' => Renames(r) BY <2>1, <2>3 DEF Renames
    <3> QED BY <3>1, <3>2, <2>3, NamesOnTheWay
  <2> QED BY <2>1, <2>2, <2>3, <1>2, NamesThrow, NamesCommit
<1>9. ASSUME Replace(r)
      PROVE  NamesInv'
  <2>1. Moves(r, "fetch") /\ columns' = columns /\ cols' = cols
    BY <1>9 DEF Replace, Goto, Moves, Follows, Ended
  <2>2. Renames(r)' => Renames(r) BY <1>9 DEF Replace, Renames
  <2> QED BY <2>1, <2>2, NamesOnTheWay
<1>10. ASSUME Fetch(r)
       PROVE  NamesInv'
  <2>1. pc[r] = "fetch" BY <1>10 DEF Fetch
  <2>2. \/ Throws(r)
        \/ \E E, new : Commit(r, E, new) /\ UNCHANGED <<dirs, sheets, times, call, cols, found, raced>>
    BY <1>10 DEF Fetch
  <2> QED BY <2>1, <2>2, <1>2, NamesThrow, NamesCommit
<1>11. ASSUME DeleteSheet(r)
       PROVE  NamesInv'
  BY <1>1, <1>2, <1>11, NamesThrow DEF DeleteSheet
<1>12. ASSUME HardDelete(r)
       PROVE  NamesInv'
  BY <1>1, <1>2, <1>12, NamesThrow DEF HardDelete
<1> QED
  BY <1>3, <1>4, <1>5, <1>6, <1>7, <1>8, <1>9, <1>10, <1>11, <1>12, NamesCreateSheet DEF Step

LEMMA NextNames ==
    ASSUME Base, MeetInv, NamesInv, [Next]_vars
    PROVE  NamesInv'
<1>1. ASSUME NEW r \in Requests, Receive(r)
      PROVE  NamesInv'
  BY <1>1, Arrival, NamesArrive DEF Base, Rows
<1>2. ASSUME NEW r \in Requests, Fail(r)
      PROVE  NamesInv'
  BY <1>2, NamesThrow DEF Fail
<1>3. ASSUME Crash \/ UNCHANGED vars
      PROVE  NamesInv'
  <2>1. /\ Onward /\ UNCHANGED <<db, cols, found>>
        /\ \A q \in Requests : pc'[q] = pc[q] \/ pc'[q] = "failed"
    BY <1>3, CrashOnward, RestOnward DEF Base
  <2>2. columns' = columns BY <2>1 DEF db
  <2> QED BY <2>1, <2>2, NamesQuiet
<1> QED BY <1>1, <1>2, <1>3, NamesStep DEF Next

----------------------------------------------------------------------------
(* Requests that meet nobody *)

\* At work, r meets whoever takes a step.
LEMMA AloneIsAlone ==
    ASSUME Base, MeetInv, NEW r \in Requests, NEW q \in Requests, q # r, InFlight(q), InFlight(r)
    PROVE  ~ Alone(r)
  BY WorkMeets DEF Alone

\* What the deletions of r find.
Finishes(r) ==
    /\ Renames(r) => cols[r] = ColumnsOf(call[r].sheet)
    /\ pc[r] = "fetch" => ToSet(found[r]) = EntriesOf(call[r].sheet)

LEMMA FinishesStep ==
    ASSUME Base, NEW r \in Requests, Step(r) \/ Fail(r), Finishes(r)
    PROVE  Finishes(r)'
<1>1. PICK p : Moves(r, p) BY StepMoves DEF Base
<1>2. call' = call /\ pc'[r] = p BY <1>1, MovesOnward DEF Base, Moves
<1>3. CASE PickColumns(r)
  <2>1. pc'[r] = "lock" /\ columns' = columns /\ cols'[r] = ColumnsOf(call[r].sheet)
    BY <1>3 DEF PickColumns, Goto, db, Base, RequestsFit
  <2> QED BY <2>1, <1>2 DEF Finishes, ColumnsOf
<1>4. CASE Lock(r)
  <2>1. \/ pc'[r] \in {"ok", "failed"}
        \/ pc'[r] = "replace" /\ UNCHANGED <<db, cols>>
    BY <1>4 DEF Lock, Throws, Commit, Goto, Base, RequestsFit
  <2>2. pc[r] = "lock" BY <1>4 DEF Lock
  <2> QED BY <2>1, <2>2, <1>2 DEF Finishes, Renames, ColumnsOf, db
<1>5. CASE Replace(r)
  <2>1. /\ pc[r] = "replace" /\ UNCHANGED <<columns, entries, cols>>
        /\ found'[r] = SetToSeq(EntriesOf(call[r].sheet))
    BY <1>5 DEF Replace, Base, RequestsFit
  <2>2. ToSet(found'[r]) = EntriesOf(call[r].sheet)
    BY <2>1, EntriesFinite, SeqOfSet DEF Base, Rows
  <2> QED BY <2>1, <2>2, <1>2 DEF Finishes, Renames, ColumnsOf, EntriesOf
<1>6. CASE ~ PickColumns(r) /\ ~ Lock(r) /\ ~ Replace(r)
  <2>1. pc'[r] \notin {"lock", "replace", "fetch"}
    <3>1. ASSUME NEW to \in {"ok", "failed", "latest", "values"}, Goto(r, to)
          PROVE  pc'[r] = to
      BY <3>1 DEF Goto, Base, RequestsFit
    <3> QED
      BY <3>1, <1>6 DEF Step, Fail, CreateDir, DeleteDir, CreateSheet, AddEntries, ReadBack, AddValues,
                        Fetch, DeleteSheet, HardDelete, Throws, Commit
  <2> QED BY <2>1 DEF Finishes, Renames
<1> QED BY <1>3, <1>4, <1>5, <1>6

LEMMA NextAlone ==
    ASSUME Base, MeetInv, AloneInv, [Next]_vars
    PROVE  AloneInv'
<1>0. AloneInv <=> \A r \in Requests : Alone(r) => Finishes(r) BY DEF AloneInv, Finishes
<1>1. ASSUME NEW r \in Requests, Receive(r)
      PROVE  AloneInv'
  <2>1. PICK c, p : Arrives(r, c, p) /\ LetIn(c, p) BY <1>1, Arrival DEF Base, Rows
  <2>2. \A q : Alone(q)' => Alone(q) BY <2>1 DEF Arrives, Alone, Met
  <2>3. /\ pc'[r] = p /\ call'[r] = c /\ UNCHANGED <<columns, entries, found>>
        /\ \A q \in Requests \ {r} : pc'[q] = pc[q] /\ call'[q] = call[q] /\ cols'[q] = cols[q]
    BY <2>1 DEF Arrives, db, Base, RequestsFit
  <2>4. ~ Renames(r)' /\ pc'[r] # "fetch" BY <2>1, <2>3 DEF LetIn, Renames
  <2>5. ASSUME NEW q \in Requests, Alone(q)'
        PROVE  Finishes(q)'
    <3>1. CASE q = r BY <3>1, <2>4 DEF Finishes
    <3>2. CASE q # r
      BY <3>2, <2>2, <2>3, <2>5, <1>0 DEF Finishes, Renames, ColumnsOf, EntriesOf
    <3> QED BY <3>1, <3>2
  <2> QED BY <2>5 DEF AloneInv, Finishes
<1>2. ASSUME NEW r \in Requests, Step(r) \/ Fail(r)
      PROVE  AloneInv'
  <2>1. PICK p : Moves(r, p) /\ InFlight(r) BY <1>2, StepMoves DEF Base
  <2>2. \A q : Alone(q)' <=> Alone(q) BY <2>1 DEF Moves, Alone, Met
  <2>3. ASSUME NEW q \in Requests, Alone(q)'
        PROVE  Finishes(q)'
    <3>1. CASE q = r BY <3>1, <2>2, <2>3, <1>0, <1>2, FinishesStep
    <3>2. CASE q # r
      <4>1. ~ InFlight(q) BY <3>2, <2>1, <2>2, <2>3, AloneIsAlone
      <4>2. pc'[q] \notin {"lock", "replace", "fetch"}
        BY <3>2, <4>1, <2>1, MovesOnward DEF Base, InFlight, Ended
      <4> QED BY <4>2 DEF Finishes, Renames
    <3> QED BY <3>1, <3>2
  <2> QED BY <2>3 DEF AloneInv, Finishes
<1>3. ASSUME Crash \/ UNCHANGED vars
      PROVE  AloneInv'
  <2>1. /\ Onward /\ UNCHANGED <<db, cols, found>>
        /\ \A q \in Requests : pc'[q] = pc[q] \/ pc'[q] = "failed"
    BY <1>3, CrashOnward, RestOnward DEF Base
  <2> QED BY <2>1 DEF Onward, db, AloneInv, Alone, Met, Renames, ColumnsOf, EntriesOf
<1> QED BY <1>1, <1>2, <1>3 DEF Next

----------------------------------------------------------------------------
(* The theorems about expenses *)

LEMMA InitHolds ==
    ASSUME Init
    PROVE  Base /\ MeetInv /\ NamesInv /\ AloneInv
<1>1. \A r \in Requests : pc[r] = "idle" /\ call[r] = NoCall /\ cols[r] = {} /\ found[r] = <<>>
  BY DEF Init
<1>2. \A d, op : On(d, op) = {} BY <1>1 DEF On
<1>3. RequestsFit
  <2>1. pc \in [Requests -> Pcs] BY DEF Init, Pcs
  <2>2. Asks(NoCall) /\ Runs("idle", NoCall.op) BY DEF NoCall, Asks, Runs
  <2> QED BY <2>1, <2>2, <1>1 DEF Init, RequestsFit
<1>4. DirsFit BY <1>1, ExpensesAssumption DEF Init, DirsFit
<1>5. SheetsFit BY <1>1, ExpensesAssumption DEF Init, SheetsFit
<1>6. ColumnsFit
  <2>1. \A c \in columns : c \in Column /\ c.sheet \in DOMAIN sheets /\ c.by = Seed
    <3> TAKE c \in columns
    <3>1. PICK s \in DOMAIN SeedSheets : c \in ColumnsBy(Seed, s, SeedNames) BY DEF Init
    <3>2. SeedNames \in Seq(Names) /\ s \in Ids /\ sheets = SeedSheets
      BY ExpensesAssumption DEF Init, Ids
    <3> QED BY <3>1, <3>2, ColumnsAre
  <2> QED BY <2>1, <1>1 DEF ColumnsFit
<1>7. EntriesFit
  <2>1. DOMAIN entries = {} BY DEF Init
  <2>2. ToSet(<<>>) = {} /\ <<>> \in Seq(EntryId) BY DEF ToSet
  <2> QED BY <2>1, <2>2, <1>1, FS_EmptySet DEF EntriesFit
<1>8. ValuesFit BY DEF Init, ValuesFit
<1>9. MixInv
  <2>1. \A c \in DOMAIN dirs, s \in DOMAIN sheets : ~ (sheets[s].active /\ sheets[s].dir = dirs[c].parent)
    BY ExpensesAssumption DEF Init
  <2> QED BY <2>1, <1>1 DEF MixInv
<1>10. TrashInv
  <2>1. \A d \in DOMAIN dirs : dirs[d].active BY ExpensesAssumption DEF Init
  <2> QED BY <2>1, <1>1 DEF TrashInv
<1>11. MeetInv BY <1>1 DEF MeetInv, InFlight
<1>12. NamesInv
  <2>1. \A c \in columns : c.by = Seed BY DEF Init, ColumnsBy
  <2> QED BY <2>1, <1>1 DEF NamesInv, ColumnsStandAlone, Renames
<1>13. AloneInv BY <1>1 DEF AloneInv, Renames
<1> QED
  BY <1>3, <1>4, <1>5, <1>6, <1>7, <1>8, <1>9, <1>10, <1>11, <1>12, <1>13 DEF Base, Rows, Tree

LEMMA InvariantsHold == Spec => [](Base /\ MeetInv /\ NamesInv /\ AloneInv)
<1> DEFINE I == Base /\ MeetInv /\ NamesInv /\ AloneInv
<1>1. Init => I BY InitHolds
<1>2. I /\ [Next]_vars => I' BY NextBase, NextMeet, NextNames, NextAlone
<1> QED BY <1>1, <1>2, PTL DEF Spec

\* Rows have their shape and name rows that are there, whatever requests race and
\* wherever they stop (the foreign keys of the expense tables, hardDelete).
THEOREM TypesHold == Spec => []TypeOK
<1>1. Base => TypeOK
  <2> SUFFICES ASSUME Base
               PROVE  TypeOK
    OBVIOUS
  <2>1. ASSUME NEW d \in DOMAIN dirs
        PROVE  /\ dirs[d] \in Directory
               /\ dirs[d].parent # Root => dirs[d].parent \in DOMAIN dirs
               /\ dirs[d].level = IF dirs[d].parent = Root THEN 1 ELSE dirs[dirs[d].parent].level + 1
    <3>1. Root \notin DOMAIN dirs BY ExpensesAssumption DEF Base, Tree, DirsFit, On, Ids
    <3> QED BY <3>1 DEF Base, Tree, DirsFit
  <2>2. /\ \A s \in DOMAIN sheets : sheets[s] \in Sheet /\ sheets[s].dir \in DOMAIN dirs
        /\ columns \subseteq Column
        /\ \A c \in columns : c.sheet \in DOMAIN sheets
        /\ \A e \in DOMAIN entries : e \in EntryId /\ entries[e] \in DOMAIN sheets
    BY DEF Base, Rows, SheetsFit, ColumnsFit, EntriesFit
  <2>3. /\ \A v \in values : /\ v \in Value
                             /\ v.column \in columns
                             /\ v.entry \in DOMAIN entries
                             /\ v.column.sheet = entries[v.entry]
        /\ \A v, w \in values : v.entry = w.entry /\ v.column = w.column => v = w
    BY DEF Base, Rows, ValuesFit
  <2>4. \A q \in Requests : pc[q] \in Pcs BY DEF Base, RequestsFit
  <2> QED BY <2>1, <2>2, <2>3, <2>4 DEF TypeOK, Pcs
<1> QED BY <1>1, InvariantsHold, PTL

LEMMA AppendToOne == ASSUME NEW S PROVE \A x, y \in S : Append(<<x>>, y) = <<x, y>>
<1> SUFFICES ASSUME NEW x \in S, NEW y \in S
             PROVE  Append(<<x>>, y) = <<x, y>>
  OBVIOUS
<1>1. <<x>> \in Seq(S) /\ Len(<<x>>) = 1 /\ <<x>>[1] = x OBVIOUS
<1>2. <<x, y>> \in Seq(S) /\ Len(<<x, y>>) = 2 /\ <<x, y>>[1] = x /\ <<x, y>>[2] = y OBVIOUS
<1>3. Append(<<x>>, y) \in Seq(S) /\ Len(Append(<<x>>, y)) = 2 BY <1>1
<1>4. \A i \in 1..Len(Append(<<x>>, y)) : Append(<<x>>, y)[i] = <<x, y>>[i]
  BY <1>1, <1>2, <1>3
<1> QED BY <1>2, <1>3, <1>4, SeqEqual

\* The way to a directory has one or two directories.
LEMMA PathIs ==
    ASSUME DirsFit, NEW d \in DOMAIN dirs
    PROVE  PathTo[d] = IF dirs[d].parent = Root THEN <<d>> ELSE <<dirs[d].parent, d>>
<1> DEFINE F(f) == [e \in DOMAIN dirs |->
                      IF dirs[e].parent = Root THEN <<e>> ELSE Append(f[dirs[e].parent], e)]
           g == [e \in DOMAIN dirs |->
                      IF dirs[e].parent = Root THEN <<e>> ELSE <<dirs[e].parent, e>>]
<1>1. ASSUME NEW f, f = F(f), NEW e \in DOMAIN dirs
      PROVE  f[e] = g[e]
  <2>1. \A x \in DOMAIN dirs : f[x] = IF dirs[x].parent = Root THEN <<x>> ELSE Append(f[dirs[x].parent], x)
    <3>1. \A x \in DOMAIN dirs : F(f)[x] = IF dirs[x].parent = Root THEN <<x>> ELSE Append(f[dirs[x].parent], x)
      OBVIOUS
    <3> QED BY <3>1, <1>1
  <2>2. dirs[e].parent # Root => /\ dirs[e].parent \in DOMAIN dirs
                                 /\ dirs[dirs[e].parent].parent = Root
    BY DEF DirsFit
  <2>3. \A x, y \in DOMAIN dirs : Append(<<x>>, y) = <<x, y>> BY AppendToOne
  <2> HIDE DEF F
  <2> QED BY <2>1, <2>2, <2>3
<1>2. g = F(g)
  <2>1. \A e \in DOMAIN dirs : dirs[e].parent # Root => /\ dirs[e].parent \in DOMAIN dirs
                                                        /\ dirs[dirs[e].parent].parent = Root
    BY DEF DirsFit
  <2>2. \A x, y \in DOMAIN dirs : Append(<<x>>, y) = <<x, y>> BY AppendToOne
  <2> QED BY <2>1, <2>2
<1>3. PathTo = F(PathTo)
  <2>1. PathTo = CHOOSE f : f = F(f) BY DEF PathTo
  <2> HIDE DEF F, g
  <2> QED BY <2>1, <1>2
<1> QED BY <1>1, <1>3

LEMMA OnTheWay ==
    ASSUME DirsFit, NEW d \in DOMAIN dirs
    PROVE  ToSet(PathTo[d]) = IF dirs[d].parent = Root THEN {d} ELSE {dirs[d].parent, d}
<1>1. \A x : ToSet(<<x>>) = {x} BY DEF ToSet
<1>2. \A x, y : ToSet(<<x, y>>) = {x, y} BY DEF ToSet
<1> QED BY PathIs, <1>1, <1>2

LEMMA RootIsNoDirectory == ASSUME DirsFit PROVE Root \notin DOMAIN dirs
  BY ExpensesAssumption DEF DirsFit, On, Ids

\* Pages lead to what the hierarchy holds.
LEMMA PagesLead ==
    ASSUME DirsFit
    PROVE  LET Under(D) == D \cup UNION {FoldersOn(d) : d \in D}
           IN  Under(Under(FirstLevel)) = Hierarchy
<1> DEFINE Under(D) == D \cup UNION {FoldersOn(d) : d \in D}
<1>1. \A d \in DOMAIN dirs :
        /\ dirs[d].level \in {1, 2}
        /\ dirs[d].level = 1 <=> dirs[d].parent = Root
        /\ dirs[d].level = 2 => /\ dirs[d].parent \in DOMAIN dirs
                                /\ dirs[dirs[d].parent].level = 1
                                /\ Children(d) = {}
  BY RootIsNoDirectory DEF DirsFit, Children
<1>2. \A d \in DOMAIN dirs : FoldersOn(d) = IF dirs[d].level = 1 THEN ActiveChildren(d) ELSE {}
  BY <1>1 DEF FoldersOn
<1>3. Hierarchy = {d \in DOMAIN dirs : /\ dirs[d].active
                                       /\ dirs[d].level = 2 => dirs[dirs[d].parent].active}
  <2>1. ASSUME NEW d \in DOMAIN dirs
        PROVE  (\A a \in ToSet(PathTo[d]) : dirs[a].active) <=>
                 dirs[d].active /\ (dirs[d].level = 2 => dirs[dirs[d].parent].active)
    <3>1. ToSet(PathTo[d]) = IF dirs[d].parent = Root THEN {d} ELSE {dirs[d].parent, d}
      BY OnTheWay
    <3> QED BY <3>1, <1>1
  <2> QED BY <2>1 DEF Hierarchy
<1>4. FirstLevel \subseteq Hierarchy BY <1>3 DEF FirstLevel
<1>5. \A d \in Hierarchy : FoldersOn(d) \subseteq Hierarchy
  BY <1>1, <1>2, <1>3 DEF ActiveChildren, Children
<1>6. Under(FirstLevel) = Hierarchy
  <2>1. Under(FirstLevel) \subseteq Hierarchy BY <1>4, <1>5
  <2>2. ASSUME NEW d \in Hierarchy, dirs[d].level = 2
        PROVE  dirs[d].parent \in FirstLevel /\ d \in FoldersOn(dirs[d].parent)
    BY <2>2, <1>1, <1>2, <1>3 DEF FirstLevel, ActiveChildren, Children
  <2>3. \A d \in Hierarchy : dirs[d].level = 1 => d \in FirstLevel BY <1>3 DEF FirstLevel
  <2>4. \A d \in Hierarchy : dirs[d].level \in {1, 2} BY <1>1, <1>3
  <2>5. Hierarchy \subseteq Under(FirstLevel) BY <2>2, <2>3, <2>4
  <2> QED BY <2>1, <2>5
<1>7. Under(Hierarchy) = Hierarchy BY <1>5
<1> QED BY <1>6, <1>7

\* Pages and hierarchy lose only what was made in a directory on its way to the trash.
LEMMA PagesFit ==
    ASSUME Base
    PROVE  PagesShowTheTree
<1> DirsFit /\ TrashInv BY DEF Base, Tree
<1>1. \A d \in DOMAIN dirs : dirs[d].parent # Root => dirs[d].parent \in DOMAIN dirs
  BY DEF DirsFit
<1>2. \A d \in DOMAIN dirs : dirs[d].level = 2 => Children(d) = {}
  BY RootIsNoDirectory DEF DirsFit, Children
<1>3. ASSUME NEW d \in DOMAIN dirs, d \notin Hierarchy
      PROVE  \E a \in ToSet(PathTo[d]) : a \in DOMAIN dirs /\ ~ dirs[a].active
  BY ZenonT(120), <1>1, <1>3, OnTheWay DEF Hierarchy
<1>4. ASSUME NEW d \in DOMAIN dirs, dirs[d].active, d \notin Hierarchy
      PROVE  \E q \in On(dirs[d].parent, "deleteDir") : Met(d, q)
  <2>1. dirs[d].parent # Root /\ ~ dirs[dirs[d].parent].active BY <1>4, OnTheWay DEF Hierarchy
  <2>2. d \in ActiveChildren(dirs[d].parent) BY <1>4 DEF ActiveChildren, Children
  <2> QED BY <2>1, <2>2, <1>1 DEF TrashInv, Escapes
<1>5. ASSUME NEW s \in SheetsListed \ SheetsShown
      PROVE  \E d \in ToSet(PathTo[sheets[s].dir]) : On(d, "deleteDir") # {}
  <2>1. sheets[s].dir \in DOMAIN dirs /\ sheets[s].dir \notin Hierarchy
    BY <1>5 DEF SheetsListed, SheetsShown, Base, Rows, SheetsFit
  <2> QED BY <2>1, <1>3 DEF TrashInv
<1> QED BY <1>2, <1>4, <1>5, PagesLead DEF PagesShowTheTree

\* Folders and sheets do not mix, the trash is empty, and pages and hierarchy agree,
\* but for requests that met, however many there are and wherever they stop
\* (create and delete of ExpenseDirectoryService, which check in one statement and
\* write in another).
THEOREM TreeIsTidyHolds == Spec => []TreeIsTidy
<1>1. ASSUME Base
      PROVE  TreeIsTidy
  <2>1. FoldersOrSheets
    <3> SUFFICES ASSUME NEW d \in DOMAIN dirs, ActiveChildren(d) # {}, ActiveSheets(d) # {}
                 PROVE  \E r \in On(d, "createDir"), q \in On(d, "createSheet") : Met(r, q)
      BY DEF FoldersOrSheets
    <3>1. PICK c : c \in ActiveChildren(d) OBVIOUS
    <3>2. PICK s : s \in ActiveSheets(d) OBVIOUS
    <3>3. Shares(c, s)
      BY <1>1, <3>1, <3>2 DEF Base, Tree, MixInv, ActiveChildren, Children, ActiveSheets
    <3> QED BY <3>1, <3>3 DEF Shares, ActiveChildren, Children
  <2>2. TrashIsEmpty BY <1>1 DEF Base, Tree, TrashInv, TrashIsEmpty, Escapes
  <2>3. PagesShowTheTree BY <1>1, PagesFit
  <2> QED BY <2>1, <2>2, <2>3 DEF TreeIsTidy
<1> QED BY <1>1, InvariantsHold, PTL

\* Columns of a sheet come from two bodies only where two replacements of its columns
\* met (updateWithData deletes the columns it sees and puts its own).
THEOREM ColumnsStandAloneHolds == Spec => []ColumnsStandAlone
<1>1. NamesInv => ColumnsStandAlone BY DEF NamesInv
<1> QED BY <1>1, InvariantsHold, PTL

\* A replacement ends well when it commits.
LEMMA UpdateEnds ==
    ASSUME Base, [Next]_vars, NEW r \in Requests,
           pc[r] # "ok", pc'[r] = "ok", call[r].op = "update"
    PROVE  Lock(r) \/ Fetch(r)
<1>1. ASSUME NEW q \in Requests, Receive(q)
      PROVE  FALSE
  <2>1. PICK c, p : Arrives(q, c, p) /\ LetIn(c, p) BY <1>1, Arrival DEF Base, Rows
  <2> QED BY <2>1 DEF Arrives, LetIn, Base, RequestsFit
<1>2. ASSUME NEW q \in Requests, Step(q) \/ Fail(q), q # r
      PROVE  FALSE
  <2>1. PICK p : Moves(q, p) BY <1>2, StepMoves DEF Base
  <2> QED BY <2>1, <1>2, MovesOnward DEF Base
<1>3. CASE Fail(r) BY <1>3 DEF Fail, Throws, Goto, Base, RequestsFit
<1>4. CASE Crash \/ UNCHANGED vars BY <1>4, CrashOnward, RestOnward DEF Base
<1>5. CASE Step(r)
  <2>1. pc[r] \in {"pick", "lock", "replace", "fetch"}
    <3>1. pc[r] \notin {"mkdir", "trash", "sheet", "entries", "latest", "values", "discard", "remove"}
      BY DEF Base, RequestsFit, Runs
    <3> QED
      BY <3>1, <1>5 DEF Step, CreateDir, DeleteDir, CreateSheet, AddEntries, ReadBack, AddValues,
                        PickColumns, Lock, Replace, Fetch, DeleteSheet, HardDelete
  <2>2. ~ PickColumns(r) /\ ~ Replace(r) BY DEF PickColumns, Replace, Goto, Base, RequestsFit
  <2> QED
    BY <1>5, <2>1, <2>2 DEF Step, CreateDir, DeleteDir, CreateSheet, AddEntries, ReadBack, AddValues,
                            DeleteSheet, HardDelete
<1> QED BY <1>1, <1>2, <1>3, <1>4, <1>5 DEF Next

LEMMA CommitColumns ==
    ASSUME Base, AloneInv, NEW r \in Requests, Alone(r), pc[r] \in {"lock", "fetch"},
           NEW E, NEW new, Commit(r, E, new), call' = call, call[r].body.names # Unset
    PROVE  ColumnsOf(call[r].sheet)' = ColumnsBy(r, call[r].sheet, call[r].body.names)
<1>1. call[r].op = "update" BY DEF Base, RequestsFit, Runs
<1>2. cols[r] = ColumnsOf(call[r].sheet) BY DEF AloneInv, Renames
<1>3. columns' = (columns \ cols[r]) \cup NewColumns(r) BY DEF Commit
<1>4. \A c \in NewColumns(r) : c.sheet = call[r].sheet BY <1>1, NewColumnsAre
<1>5. ColumnsOf(call[r].sheet)' = NewColumns(r) BY <1>2, <1>3, <1>4 DEF ColumnsOf
<1> QED BY <1>5 DEF NewColumns

LEMMA FetchReplaces ==
    ASSUME Base, AloneInv, NEW r \in Requests, Alone(r), Fetch(r), pc'[r] = "ok"
    PROVE  LET s == call[r].sheet
               b == call[r].body
           IN
           /\ b.names # Unset => ColumnsOf(s)' = ColumnsBy(r, s, b.names)
           /\ EntriesOf(s)' = Made(r, Len(b.rows))
           /\ \A i \in DOMAIN b.rows :
                {v.column.name : v \in {x \in values' : x.row = <<r, i>>}} = b.rows[i].cells
<1> DEFINE s == call[r].sheet
           rows == call[r].body.rows
           own == Made(r, Len(rows))
           seen == (EntriesOf(s) \ ToSet(found[r])) \cup own
<1>1. pc[r] = "fetch" BY DEF Fetch
<1>2. PICK S \in Finds((ColumnsOf(s) \ cols[r]) \cup NewColumns(r)),
           at \in {f \in [1..Len(rows) -> seen] : IsInjective(f)} :
             LET new == Cells(r, rows, at, S) IN
             IF Covers(S, rows) /\ ~Clash(new)
             THEN /\ Commit(r, own, new)
                  /\ UNCHANGED <<dirs, sheets, times, call, cols, found, raced>>
             ELSE Throws(r)
  BY DEF Fetch
<1> DEFINE new == Cells(r, rows, at, S)
<1>3. ~ Throws(r) BY DEF Throws, Goto, Base, RequestsFit
<1>4. Covers(S, rows) /\ Commit(r, own, new) /\ call' = call BY <1>2, <1>3
<1>5. call[r].body.names # Unset => ColumnsOf(s)' = ColumnsBy(r, s, call[r].body.names)
  <2> HIDE DEF new, own
  <2> QED BY <1>1, <1>4, CommitColumns
<1>6. EntriesOf(s)' = own
  <2>1. ToSet(found[r]) = EntriesOf(s) BY <1>1 DEF AloneInv
  <2>2. entries' = [e \in (DOMAIN entries \ EntriesOf(s)) \cup own |-> IF e \in own THEN s ELSE entries[e]]
    BY <1>4, <2>1 DEF Commit
  <2>3. \A e \in DOMAIN entries \ EntriesOf(s) : entries[e] # s BY DEF EntriesOf
  <2> HIDE DEF own
  <2> QED BY <1>4, <2>2, <2>3 DEF EntriesOf
<1>7. ASSUME NEW i \in DOMAIN rows
      PROVE  {v.column.name : v \in {x \in values' : x.row = <<r, i>>}} = rows[i].cells
  <2>1. DOMAIN rows = 1..Len(rows) /\ DOMAIN at = 1..Len(rows)
    BY <1>1, FetchPuts, ReplacementIs
  <2>2. \A v \in values' : v.row = <<r, i>> => v \in new
    <3>1. \A v \in values' : v \in values \/ v \in new BY <1>4 DEF Commit
    <3>2. \A v \in values : v.row # <<r, i>> BY <1>1 DEF Base, Rows, ValuesFit
    <3> QED BY <3>1, <3>2
  <2>3. new \subseteq values' BY <1>4 DEF Commit
  <2>4. \A v \in new : v.row = <<r, i>> => v.column.name \in rows[i].cells
    <3> TAKE v \in new
    <3>1. PICK j \in DOMAIN at, c \in S :
            c.name \in rows[j].cells /\ v = [entry |-> at[j], column |-> c, row |-> <<r, j>>]
      BY CellsAre
    <3> QED BY <3>1
  <2>5. ASSUME NEW n \in rows[i].cells
        PROVE  \E v \in new : v.row = <<r, i>> /\ v.column.name = n
    <3>1. PICK c \in S : c.name = n BY <1>4 DEF Covers
    <3>2. [entry |-> at[i], column |-> c, row |-> <<r, i>>] \in new BY <2>1, <3>1, CellsAre
    <3> QED BY <3>1, <3>2
  <2> HIDE DEF new, rows
  <2>6. \A n : n \in {v.column.name : v \in {x \in values' : x.row = <<r, i>>}} <=> n \in rows[i].cells
    BY ZenonT(120), <2>2, <2>3, <2>4, <2>5
  <2> QED BY <2>6
<1> QED BY <1>5, <1>6, <1>7

\* Who replaces columns or rows and meets nobody leaves exactly his own columns,
\* entries and values: the transaction of updateWithData deletes all that it saw,
\* and nothing else came (ExpenseSheetService).
THEOREM UpdateReplacesHolds == Spec => UpdateReplaces
<1> DEFINE Kept == \A r \in Requests :
              /\ pc[r] # "ok" /\ pc'[r] = "ok" /\ call[r].op = "update"
              /\ \A q \in Requests : ~Met(r, q)
              => LET s == call[r].sheet
                     b == call[r].body
                 IN
                 /\ b.names # Unset => ColumnsOf(s)' = ColumnsBy(r, s, b.names)
                 /\ b.rows # Unset =>
                      /\ EntriesOf(s)' = Made(r, Len(b.rows))
                      /\ \A i \in DOMAIN b.rows :
                           {v.column.name : v \in {x \in values' : x.row = <<r, i>>}} = b.rows[i].cells
<1>1. ASSUME Base, AloneInv, [Next]_vars
      PROVE  Kept
  <2> SUFFICES ASSUME NEW r \in Requests, pc[r] # "ok", pc'[r] = "ok", call[r].op = "update", Alone(r)
               PROVE  LET s == call[r].sheet
                          b == call[r].body
                      IN
                      /\ b.names # Unset => ColumnsOf(s)' = ColumnsBy(r, s, b.names)
                      /\ b.rows # Unset =>
                           /\ EntriesOf(s)' = Made(r, Len(b.rows))
                           /\ \A i \in DOMAIN b.rows :
                                {v.column.name : v \in {x \in values' : x.row = <<r, i>>}} = b.rows[i].cells
    BY DEF Alone
  <2>1. CASE Lock(r)
    <3>1. /\ pc[r] = "lock" /\ call[r].body.rows = Unset
          /\ Commit(r, {}, {}) /\ call' = call
      BY <2>1, <1>1 DEF Lock, Throws, Goto, Base, RequestsFit
    <3> QED BY <3>1, <1>1, CommitColumns
  <2>2. CASE Fetch(r) BY <2>2, <1>1, FetchReplaces
  <2> QED BY <2>1, <2>2, <1>1, UpdateEnds
<1>2. Base /\ AloneInv /\ [Next]_vars => [Kept]_vars BY <1>1
<1> QED BY <1>2, InvariantsHold, PTL DEF Spec, UpdateReplaces

----------------------------------------------------------------------------
(* Rows of several requests in one entry *)

\* The place of a request among those that made entries.
When(q) == CHOOSE i \in DOMAIN times : times[i] = q

\* Entries made after those of r.
Later(r) == {e \in DOMAIN entries : When(e[1]) > When(r)}

TimesInv ==
    /\ times \in Seq(Requests)
    /\ \A i, j \in DOMAIN times : times[i] = times[j] => i = j
    /\ \A q \in ToSet(times) : Wrote(q) \/ pc[q] = "fetch"
    /\ \A e \in DOMAIN entries : e[1] \in ToSet(times)
    /\ \A r \in Requests : pc[r] \in {"latest", "fetch"} => r \in ToSet(times)

\* One replacement at a time writes a sheet, and finds nothing before it looks.
HoldInv ==
    /\ \A q, r \in Requests :
         (/\ pc[q] \in {"replace", "fetch"} /\ pc[r] \in {"replace", "fetch"}
          /\ call[q].sheet = call[r].sheet) => q = r
    /\ \A r \in Requests : pc[r] \in {"pick", "lock", "replace"} => found[r] = <<>>

\* The entries of others that r may put a value into.
Guests(r) ==
    IF pc[r] = "fetch" THEN EntriesOf(call[r].sheet) \ ToSet(found[r])
    ELSE IF pc[r] = "latest" THEN Later(r)
    ELSE IF pc[r] = "values" THEN {e \in ToSet(found[r]) : e[1] # r}
    ELSE {}

\* Who made such an entry has met r, and so has who put a value into it.
GuestsInv ==
    /\ \A r \in Requests : \A e \in Guests(r) :
         Met(e[1], r) /\ \A v \in values : v.entry = e => Met(v.row[1], r)
    /\ \A r \in Requests : pc[r] = "values" => IsInjective(found[r])

\* The entries that r makes.
Lines(r) == Made(r, Len(call[r].body.rows))

\* While r reads back, all its entries are there, or none that was there before.
OwnInv == \A r \in Requests : pc[r] = "latest" =>
    \/ Lines(r) \subseteq EntriesOf(call[r].sheet)
    \/ EntriesOf(call[r].sheet) \subseteq Later(r)

\* So it will be when the replacement u commits.
GoneInv == \A u, r \in Requests :
    (pc[u] = "fetch" /\ pc[r] = "latest" /\ call[u].sheet = call[r].sheet) =>
        LET left == EntriesOf(call[r].sheet) \ ToSet(found[u]) IN
        \/ Lines(r) \subseteq left
        \/ When(u) > When(r) /\ left \subseteq Later(r)

\* What r was given as its i-th row, and made its i-th entry for.
Given(e) == call[e[1]].body.rows \in Seq(Row) /\ e[2] \in DOMAIN call[e[1]].body.rows

\* A row has one value of a name.
RowInv ==
    /\ \A v, w \in values : v.row = w.row /\ v.column.name = w.column.name => v = w
    /\ \A r \in Requests : call[r].op = "addRows" => \A c, k \in cols[r] : c.name = k.name => c = k
    /\ \A e \in DOMAIN entries : Given(e)
    /\ \A v \in values : Given(v.row)

ApartInv == TimesInv /\ HoldInv /\ GuestsInv /\ OwnInv /\ GoneInv /\ RowInv /\ RowsKeepApart

\* What a step of r does to the entries of a sheet.
Keeps(r, s) ==
    /\ EntriesOf(s) \subseteq EntriesOf(s)'
    /\ \A e \in EntriesOf(s)' \ EntriesOf(s) : e[1] = r /\ times' = Append(times, r)
Empties(s) == Holders(s) = {} /\ EntriesOf(s)' = {}
Replaces(r, s) ==
    /\ pc[r] = "fetch" /\ call[r].sheet = s /\ times' = times
    /\ EntriesOf(s)' = (EntriesOf(s) \ ToSet(found[r])) \cup Lines(r)

\* The values it puts, in entries of its own and guests.
Fills(r) ==
    /\ \A v \in values' \ values :
         v.row[1] = r /\ Given(v.row) /\ (v.entry[1] = r \/ v.entry \in Guests(r))
    /\ \A v, w \in values' \ values :
         /\ v.entry = w.entry => v.row = w.row
         /\ v.row = w.row /\ v.column.name = w.column.name => v = w

\* A step of r that makes entries says when.
Stamps(r) ==
    \/ times' = times /\ pc'[r] \notin {"latest", "fetch"}
    \/ /\ times' = Append(times, r)
       /\ pc[r] \in {"sheet", "entries", "replace"} /\ pc'[r] \in {"ok", "latest", "fetch"}

\* Entries stay where they are, and the new ones are of r.
Makes(r) ==
    \A e \in DOMAIN entries' :
        \/ e \in DOMAIN entries /\ entries'[e] = entries[e]
        \/ /\ e \notin DOMAIN entries /\ e[1] = r /\ Given(e) /\ r \in ToSet(times')
           /\ pc[r] \in {"sheet", "entries", "fetch"}

Effect(r) == Stamps(r) /\ Makes(r) /\ Fills(r) /\ \A s : Keeps(r, s) \/ Empties(s) \/ Replaces(r, s)

\* Steps that leave times, entries and values alone.
LEMMA StillEffect ==
    ASSUME NEW r \in Requests, times' = times, entries' = entries, values' = values,
           pc'[r] \notin {"latest", "fetch"}
    PROVE  Effect(r)
<1>1. \A s : EntriesOf(s)' = EntriesOf(s) BY DEF EntriesOf
<1> QED BY <1>1 DEF Effect, Stamps, Makes, Fills, Keeps

\* Values that go into different entries for different rows.
LEMMA CellsFill ==
    ASSUME NEW r, NEW rows, NEW at, IsInjective(at), NEW C,
           \A c, k \in C : c.name = k.name => c = k
    PROVE  /\ \A v \in Cells(r, rows, at, C) : /\ v.row[1] = r /\ v.row[2] \in DOMAIN rows
                                              /\ \E i \in DOMAIN at : v.entry = at[i]
           /\ \A v, w \in Cells(r, rows, at, C) :
                /\ v.entry = w.entry => v.row = w.row
                /\ v.row = w.row /\ v.column.name = w.column.name => v = w
<1> DEFINE new == Cells(r, rows, at, C)
<1>1. ASSUME NEW v \in new
      PROVE  \E i \in DOMAIN rows \cap DOMAIN at, c \in C :
               v = [entry |-> at[i], column |-> c, row |-> <<r, i>>]
  BY CellsAre
<1>2. \A i, j \in DOMAIN at : at[i] = at[j] => i = j BY DEF IsInjective
<1> HIDE DEF new
<1>3. ASSUME NEW v \in new
      PROVE  v.row[1] = r /\ v.row[2] \in DOMAIN rows /\ \E i \in DOMAIN at : v.entry = at[i]
  BY <1>1
<1>4. ASSUME NEW v \in new, NEW w \in new
      PROVE  /\ v.entry = w.entry => v.row = w.row
             /\ v.row = w.row /\ v.column.name = w.column.name => v = w
  <2>1. PICK i \in DOMAIN at, c \in C : v = [entry |-> at[i], column |-> c, row |-> <<r, i>>]
    BY <1>1
  <2>2. PICK j \in DOMAIN at, k \in C : w = [entry |-> at[j], column |-> k, row |-> <<r, j>>]
    BY <1>1
  <2>3. <<r, i>> = <<r, j>> => i = j OBVIOUS
  <2>4. v.entry = w.entry => i = j BY <2>1, <2>2, <1>2
  <2>5. v.row = w.row /\ v.column.name = w.column.name => i = j /\ c = k BY <2>1, <2>2, <2>3
  <2> QED BY <2>1, <2>2, <2>4, <2>5
<1> QED BY <1>3, <1>4 DEF new

LEMMA MadeGiven ==
    ASSUME NEW r, call[r].body.rows \in Seq(Row)
    PROVE  \A e \in Made(r, Len(call[r].body.rows)) : e[1] = r /\ Given(e)
  BY DEF Made, Given

\* Who puts entries in says when.
LEMMA PutsEntries ==
    ASSUME EntriesFit, NEW r \in Requests, times \in Seq(Requests), times' = Append(times, r),
           pc[r] \in {"sheet", "entries"}, pc'[r] \in {"ok", "latest"},
           NEW E, \A e \in E : e[1] = r /\ Given(e), NEW s,
           entries' = [e \in DOMAIN entries \cup E |-> IF e \in E THEN s ELSE entries[e]]
    PROVE  Stamps(r) /\ Makes(r) /\ \A t : Keeps(r, t)
<1>1. \A e \in DOMAIN entries : e \notin E BY DEF EntriesFit, Wrote
<1>2. r \in ToSet(times')
  <2>1. Append(times, r)[Len(times) + 1] = r /\ DOMAIN Append(times, r) = 1..Len(times) + 1
    OBVIOUS
  <2> QED BY <2>1 DEF ToSet
<1>3. Makes(r) BY <1>1, <1>2 DEF Makes
<1>4. \A t : EntriesOf(t) \subseteq EntriesOf(t)' /\ EntriesOf(t)' \ EntriesOf(t) \subseteq E
  BY <1>1 DEF EntriesOf
<1> QED BY <1>3, <1>4 DEF Stamps, Keeps

LEMMA CreateSheetEffect ==
    ASSUME Base, ApartInv, NEW r \in Requests, CreateSheet(r), ~ Throws(r)
    PROVE  Effect(r)
<1> DEFINE b == call[r].body
           C == ColumnsBy(r, r, b.names)
           E == Made(r, Len(b.rows))
<1>0. PICK S \in Finds(C), at \in {f \in [DOMAIN b.rows -> E] : IsInjective(f)} :
         values' = values \cup Cells(r, b.rows, at, S)
  BY DEF CreateSheet
<1> DEFINE new == Cells(r, b.rows, at, S)
<1>1. /\ pc[r] = "sheet" /\ pc'[r] = "ok"
      /\ entries' = [e \in DOMAIN entries \cup E |-> IF e \in E THEN r ELSE entries[e]]
      /\ times' = Append(times, r)
  BY DEF CreateSheet, Goto, Base, RequestsFit
<1>a. b.rows \in Seq(Row) BY <1>1, NewSheetIs DEF Base, RequestsFit, Runs, Asks
<1>b. \A e \in E : e[1] = r /\ Given(e) BY <1>a, MadeGiven
<1>2. Stamps(r) /\ Makes(r) /\ \A t : Keeps(r, t)
  <2>1. \A e \in E : e[1] = r /\ Given(e) BY <1>b
  <2> HIDE DEF E
  <2> QED BY <2>1, <1>1, PutsEntries DEF Base, Rows, ApartInv, TimesInv
<1>3. Fills(r)
  <2>1. IsInjective(at) OBVIOUS
  <2>2. \A c, k \in S : c.name = k.name => c = k BY DEF Finds
  <2>3. \A i \in DOMAIN at : at[i][1] = r BY <1>b
  <2>4. /\ \A v \in new : /\ v.row[1] = r /\ v.row[2] \in DOMAIN b.rows
                          /\ \E i \in DOMAIN at : v.entry = at[i]
        /\ \A v, w \in new : /\ v.entry = w.entry => v.row = w.row
                             /\ v.row = w.row /\ v.column.name = w.column.name => v = w
    BY <2>1, <2>2, CellsFill
  <2>5. \A v \in values' \ values : v \in new BY <1>0
  <2> HIDE DEF new
  <2> QED BY <1>a, <2>3, <2>4, <2>5 DEF Fills, Given
<1> QED BY <1>2, <1>3 DEF Effect

LEMMA AddEntriesEffect ==
    ASSUME Base, ApartInv, NEW r \in Requests, AddEntries(r), ~ Throws(r)
    PROVE  Effect(r)
<1> DEFINE E == Made(r, Len(call[r].body.rows))
<1>1. /\ pc[r] = "entries" /\ pc'[r] = "latest"
      /\ entries' = [e \in DOMAIN entries \cup E |-> IF e \in E THEN call[r].sheet ELSE entries[e]]
      /\ values' = values
      /\ times' = Append(times, r)
  BY DEF AddEntries, Goto, Base, RequestsFit
<1>a. call[r].body.rows \in Seq(Row) BY <1>1, AdditionIs DEF Base, RequestsFit, Runs, Asks
<1>2. Stamps(r) /\ Makes(r) /\ \A t : Keeps(r, t)
  <2>1. \A e \in E : e[1] = r /\ Given(e) BY <1>a, MadeGiven
  <2> HIDE DEF E
  <2> QED BY <2>1, <1>1, PutsEntries DEF Base, Rows, ApartInv, TimesInv
<1>3. Fills(r) BY <1>1 DEF Fills
<1> QED BY <1>2, <1>3 DEF Effect

LEMMA AddValuesEffect ==
    ASSUME Base, ApartInv, NEW r \in Requests, AddValues(r), ~ Throws(r)
    PROVE  Effect(r)
<1> DEFINE new == Cells(r, call[r].body.rows, found[r], cols[r])
<1>1. /\ pc[r] = "values" /\ pc'[r] = "ok"
      /\ values' = values \cup new /\ entries' = entries /\ times' = times
  BY DEF AddValues, Goto, Base, RequestsFit
<1>2. IsInjective(found[r]) /\ call[r].op = "addRows"
  BY <1>1 DEF ApartInv, GuestsInv, Base, RequestsFit, Runs
<1>3. \A c, k \in cols[r] : c.name = k.name => c = k BY <1>2 DEF ApartInv, RowInv
<1>a. call[r].body.rows \in Seq(Row) BY <1>1, AdditionIs DEF Base, RequestsFit, Runs, Asks
<1>4. /\ \A v \in new : /\ v.row[1] = r /\ v.row[2] \in DOMAIN call[r].body.rows
                        /\ \E i \in DOMAIN found[r] : v.entry = found[r][i]
      /\ \A v, w \in new : /\ v.entry = w.entry => v.row = w.row
                           /\ v.row = w.row /\ v.column.name = w.column.name => v = w
  BY <1>2, <1>3, CellsFill
<1> HIDE DEF new
<1>5. Fills(r)
  <2>1. \A i \in DOMAIN found[r] : found[r][i][1] = r \/ found[r][i] \in Guests(r)
    BY <1>1 DEF Guests, ToSet
  <2> QED BY <2>1, <1>a, <1>1, <1>4 DEF Fills, Given
<1>6. \A s : EntriesOf(s)' = EntriesOf(s) BY <1>1 DEF EntriesOf
<1> QED BY <1>1, <1>5, <1>6 DEF Effect, Stamps, Makes, Keeps

LEMMA ReplaceEffect ==
    ASSUME Base, NEW r \in Requests, Replace(r)
    PROVE  Effect(r)
<1>1. /\ pc[r] = "replace" /\ pc'[r] = "fetch"
      /\ values' = values /\ entries' = entries /\ times' = Append(times, r)
  BY DEF Replace, Goto, Base, RequestsFit
<1>2. \A s : EntriesOf(s)' = EntriesOf(s) BY <1>1 DEF EntriesOf
<1> QED BY <1>1, <1>2 DEF Effect, Stamps, Makes, Fills, Keeps

LEMMA LockEffect ==
    ASSUME Base, ApartInv, NEW r \in Requests, Lock(r)
    PROVE  Effect(r)
<1>1. pc[r] = "lock" /\ found[r] = <<>> BY DEF Lock, ApartInv, HoldInv
<1>2. CASE Throws(r) \/ (Goto(r, "replace") /\ UNCHANGED <<db, call, cols, found, raced>>)
  <2>1. times' = times /\ entries' = entries /\ values' = values /\ pc'[r] \notin {"latest", "fetch"}
    BY <1>2 DEF Throws, Goto, db, Base, RequestsFit
  <2> QED BY <2>1, StillEffect
<1>3. CASE Commit(r, {}, {}) /\ UNCHANGED <<dirs, sheets, times, call, cols, found, raced>>
  <2>1. ToSet(found[r]) = {} BY <1>1 DEF ToSet
  <2>2. /\ DOMAIN entries' = DOMAIN entries /\ \A e \in DOMAIN entries : entries'[e] = entries[e]
        /\ values' \subseteq values /\ times' = times /\ pc'[r] = "ok"
    BY <1>3, <2>1 DEF Commit, Goto, Base, RequestsFit
  <2>3. \A s : EntriesOf(s)' = EntriesOf(s) BY <2>2 DEF EntriesOf
  <2> QED BY <2>2, <2>3 DEF Effect, Stamps, Makes, Fills, Keeps
<1> QED BY <1>2, <1>3 DEF Lock

LEMMA FetchEffect ==
    ASSUME Base, ApartInv, NEW r \in Requests, Fetch(r), ~ Throws(r)
    PROVE  Effect(r)
<1> DEFINE s == call[r].sheet
           rows == call[r].body.rows
           own == Made(r, Len(rows))
           seen == (EntriesOf(s) \ ToSet(found[r])) \cup own
           kept == DOMAIN entries \ ToSet(found[r])
<1>1. PICK S \in Finds((ColumnsOf(s) \ cols[r]) \cup NewColumns(r)),
           at \in {f \in [1..Len(rows) -> seen] : IsInjective(f)} :
             /\ Commit(r, own, Cells(r, rows, at, S))
             /\ UNCHANGED <<dirs, sheets, times, call, cols, found, raced>>
  BY DEF Fetch
<1> DEFINE new == Cells(r, rows, at, S)
<1>2. /\ pc[r] = "fetch" /\ pc'[r] = "ok" /\ times' = times
      /\ values' \ values \subseteq new
      /\ entries' = [e \in kept \cup own |-> IF e \in own THEN s ELSE entries[e]]
  BY <1>1 DEF Fetch, Commit, Goto, Base, RequestsFit
<1>3. IsInjective(at) /\ \A c, k \in S : c.name = k.name => c = k BY DEF Finds
<1>a. rows \in Seq(Row) BY <1>2, ReplacementIs, FetchPuts
<1>4. \A e \in own : e[1] = r /\ Given(e) BY <1>a, MadeGiven
<1>5. \A e \in seen : e[1] = r \/ e \in Guests(r) BY <1>2, <1>4 DEF Guests
<1>6. \A i \in DOMAIN at : at[i] \in seen OBVIOUS
<1> HIDE DEF own, seen, kept
<1>7. Fills(r)
  <2>1. /\ \A v \in new : /\ v.row[1] = r /\ v.row[2] \in DOMAIN rows
                          /\ \E i \in DOMAIN at : v.entry = at[i]
        /\ \A v, w \in new : /\ v.entry = w.entry => v.row = w.row
                             /\ v.row = w.row /\ v.column.name = w.column.name => v = w
    BY <1>3, CellsFill
  <2> HIDE DEF new
  <2> QED BY <2>1, <1>a, <1>2, <1>5, <1>6 DEF Fills, Given
<1>8. \A e \in DOMAIN entries : e \notin own BY <1>2, <1>4 DEF Base, Rows, EntriesFit, Wrote
<1>9. \A e \in ToSet(found[r]) : e \in DOMAIN entries => entries[e] = s
  BY DEF Base, Rows, EntriesFit
<1>10. Makes(r)
  <2>1. r \in ToSet(times') BY <1>2 DEF ApartInv, TimesInv
  <2> QED BY <2>1, <1>2, <1>4, <1>8 DEF Makes, kept
<1>11. ASSUME NEW t
       PROVE  Keeps(r, t) \/ Replaces(r, t)
  <2>1. CASE t = s
    <3>1. EntriesOf(s)' = (EntriesOf(s) \ ToSet(found[r])) \cup own
      <4>1. \A e : e \in EntriesOf(s)' <=> e \in (EntriesOf(s) \ ToSet(found[r])) \cup own
        BY <1>1, <1>2, <1>8 DEF EntriesOf, kept
      <4> QED BY <4>1
    <3> QED BY <2>1, <3>1, <1>1, <1>2 DEF Replaces, Lines, own
  <2>2. CASE t # s
    <3>1. EntriesOf(t)' = EntriesOf(t)
      <4>1. \A e : e \in EntriesOf(t)' <=> e \in EntriesOf(t)
        BY <2>2, <1>2, <1>8, <1>9 DEF EntriesOf, kept
      <4> QED BY <4>1
    <3> QED BY <3>1 DEF Keeps
  <2> QED BY <2>1, <2>2
<1> QED BY <1>2, <1>7, <1>10, <1>11 DEF Effect, Stamps

LEMMA HardDeleteEffect ==
    ASSUME Base, NEW r \in Requests, HardDelete(r), ~ Throws(r)
    PROVE  Effect(r)
<1> DEFINE s == call[r].sheet
           kept == DOMAIN entries \ EntriesOf(s)
<1>1. /\ Holders(s) = {} /\ pc'[r] = "ok"
      /\ entries' = [e \in kept |-> entries[e]]
      /\ values' \subseteq values /\ times' = times /\ call' = call
  BY DEF HardDelete, Goto, Base, RequestsFit
<1>2. EntriesOf(s)' = {} /\ \A t : t # s => EntriesOf(t)' = EntriesOf(t)
  <2>1. \A e, t : e \in EntriesOf(t)' <=> e \in EntriesOf(t) /\ t # s
    BY <1>1 DEF EntriesOf, kept
  <2>2. EntriesOf(s)' = {} BY <2>1, <1>1
  <2>3. ASSUME NEW t, t # s
        PROVE  EntriesOf(t)' = EntriesOf(t)
    <3>1. \A e : e \in EntriesOf(t)' <=> e \in EntriesOf(t) BY <2>1, <2>3
    <3> QED BY <3>1
  <2> QED BY <2>2, <2>3
<1> QED BY <1>1, <1>2 DEF Effect, Stamps, Makes, Fills, Keeps, Empties

LEMMA StepEffect ==
    ASSUME Base, ApartInv, NEW r \in Requests, Step(r) \/ Fail(r)
    PROVE  Effect(r)
<1>1. ASSUME NEW p, Goto(r, p), p \notin {"latest", "fetch"}, UNCHANGED <<times, entries, values>>
      PROVE  Effect(r)
  <2>1. pc'[r] = p BY <1>1 DEF Goto, Base, RequestsFit
  <2> QED BY <1>1, <2>1, StillEffect
<1>2. ASSUME Throws(r)
      PROVE  Effect(r)
  BY <1>1, <1>2 DEF Throws, db
<1>3. ASSUME CreateDir(r) \/ DeleteDir(r)
      PROVE  Effect(r)
  BY <1>1, <1>3 DEF CreateDir, DeleteDir
<1>4. ASSUME PickColumns(r)
      PROVE  Effect(r)
  BY <1>1, <1>4 DEF PickColumns, db
<1>5. ASSUME ReadBack(r)
      PROVE  Effect(r)
  BY <1>1, <1>2, <1>5 DEF ReadBack, db
<1>6. ASSUME DeleteSheet(r)
      PROVE  Effect(r)
  BY <1>1, <1>2, <1>6 DEF DeleteSheet
<1> QED
  BY <1>2, <1>3, <1>4, <1>5, <1>6, CreateSheetEffect, AddEntriesEffect, AddValuesEffect, LockEffect,
     ReplaceEffect, FetchEffect, HardDeleteEffect DEF Step, Fail

LEMMA AppendIs ==
    ASSUME NEW S, NEW seq \in Seq(S), NEW x \in S
    PROVE  /\ Append(seq, x) \in Seq(S) /\ Append(seq, x) # seq
           /\ DOMAIN Append(seq, x) = 1..Len(seq) + 1 /\ DOMAIN seq = 1..Len(seq) /\ Len(seq) \in Nat
           /\ Len(Append(seq, x)) = Len(seq) + 1
           /\ \A i \in 1..Len(seq) : Append(seq, x)[i] = seq[i] /\ i \in 1..Len(seq) + 1
           /\ Append(seq, x)[Len(seq) + 1] = x
<1> DEFINE longer == Append(seq, x)
           n == Len(seq)
<1>1. /\ longer \in Seq(S) /\ Len(longer) = n + 1
      /\ \A i \in 1..n : longer[i] = seq[i]
      /\ longer[n + 1] = x
  BY AppendProperties
<1>2. DOMAIN longer = 1..Len(longer) /\ DOMAIN seq = 1..n /\ n \in Nat BY <1>1
<1> HIDE DEF longer, n
<1>3. n # n + 1 /\ \A i \in 1..n : i \in 1..n + 1 BY <1>2
<1>4. longer # seq BY <1>1, <1>3, Zenon DEF n
<1>5. /\ longer \in Seq(S) /\ longer # seq
      /\ DOMAIN longer = 1..n + 1 /\ DOMAIN seq = 1..n /\ n \in Nat
      /\ Len(longer) = n + 1
      /\ \A i \in 1..n : longer[i] = seq[i] /\ i \in 1..n + 1
      /\ longer[n + 1] = x
  BY <1>1, <1>2, <1>3, <1>4
<1> QED BY <1>5 DEF longer, n

LEMMA WhenIs ==
    ASSUME TimesInv, NEW q \in ToSet(times)
    PROVE  /\ When(q) \in 1..Len(times) /\ times[When(q)] = q
           /\ q \in Requests
<1>1. DOMAIN times = 1..Len(times) /\ \A i \in 1..Len(times) : times[i] \in Requests
  BY DEF TimesInv
<1>2. \E i \in DOMAIN times : times[i] = q BY DEF ToSet
<1> QED BY <1>1, <1>2 DEF When

\* Who has a place keeps it, and a new place is the last.
LEMMA WhenStays ==
    ASSUME TimesInv, TimesInv', NEW r \in Requests, times' = times \/ times' = Append(times, r)
    PROVE  /\ \A q \in ToSet(times) : q \in ToSet(times') /\ When(q)' = When(q)
           /\ (times' = Append(times, r) /\ r \notin ToSet(times)) =>
                /\ r \in ToSet(times') /\ When(r)' = Len(times) + 1
                /\ \A q \in ToSet(times) : When(r)' > When(q)'
<1>1. times \in Seq(Requests) /\ Len(times) \in Nat /\ times' \in Seq(Requests)
  BY DEF TimesInv
<1>2. /\ DOMAIN times' = 1..Len(times') /\ DOMAIN times = 1..Len(times)
      /\ Len(times') >= Len(times) /\ Len(times') \in Nat
      /\ \A i \in 1..Len(times) : times'[i] = times[i]
      /\ times' = Append(times, r) => Len(times') = Len(times) + 1 /\ times'[Len(times) + 1] = r
  BY <1>1, AppendProperties
<1>3. \A i, j \in DOMAIN times' : times'[i] = times'[j] => i = j BY DEF TimesInv
<1>4. ASSUME NEW q, NEW i \in DOMAIN times', times'[i] = q
      PROVE  q \in ToSet(times') /\ When(q)' = i
  <2>1. q \in ToSet(times') BY <1>4 DEF ToSet
  <2>2. \A j \in DOMAIN times' : times'[j] = q <=> j = i BY <1>3, <1>4
  <2>3. When(q)' = CHOOSE j \in DOMAIN times' : times'[j] = q BY DEF When
  <2> QED BY <2>1, <2>2, <2>3, <1>4
<1>5. ASSUME NEW q \in ToSet(times)
      PROVE  q \in ToSet(times') /\ When(q)' = When(q)
  <2>1. When(q) \in 1..Len(times) /\ times[When(q)] = q BY WhenIs
  <2> DEFINE i == When(q)
  <2> HIDE DEF i
  <2>2. i \in DOMAIN times' /\ times'[i] = q
    <3>1. i \in 1..Len(times) /\ times[i] = q BY <2>1 DEF i
    <3>2. i \in 1..Len(times')
      <4>1. ASSUME NEW m \in Nat, NEW n \in Nat, m >= n, NEW k \in 1..n
            PROVE  k \in 1..m
        BY <4>1
      <4> QED BY <4>1, <3>1, <1>1, <1>2
    <3> QED BY <3>1, <3>2, <1>2
  <2>3. q \in ToSet(times') /\ When(q)' = i BY <2>2, <1>4
  <2> QED BY <2>3 DEF i
<1>6. ASSUME times' = Append(times, r), r \notin ToSet(times)
      PROVE  /\ r \in ToSet(times') /\ When(r)' = Len(times) + 1
             /\ \A q \in ToSet(times) : When(r)' > When(q)'
  <2>1. r \in ToSet(times') /\ When(r)' = Len(times) + 1
    <3>1. Len(times) + 1 \in DOMAIN times' /\ times'[Len(times) + 1] = r BY <1>1, <1>2, <1>6
    <3> QED BY <3>1, <1>4
  <2>2. ASSUME NEW q \in ToSet(times)
        PROVE  When(r)' > When(q)'
    BY <2>1, <1>1, <1>5, WhenIs
  <2> QED BY <2>1, <2>2
<1> QED BY <1>5, <1>6

\* What a step of r leads to, and what it asked for before.
LEMMA StepLeads ==
    ASSUME Base, ApartInv, NEW r \in Requests, Step(r) \/ Fail(r)
    PROVE  /\ pc'[r] = "replace" => Holders(call[r].sheet) = {}
           /\ pc'[r] \in {"pick", "lock", "replace"} =>
                pc[r] \in {"pick", "lock"} /\ found'[r] = found[r]
           /\ pc'[r] = "latest" => AddEntries(r) /\ ~ Throws(r)
           /\ pc'[r] = "fetch" => Replace(r)
           /\ pc'[r] = "values" => ReadBack(r) /\ ~ Throws(r)
           /\ call[r].op = "addRows" => cols'[r] = cols[r]
<1>1. PICK p : Moves(r, p) BY StepMoves DEF Base
<1>2. pc'[r] = p /\ Follows(pc[r], p) BY <1>1, MovesOnward DEF Moves, Base
<1>3. Throws(r) => pc'[r] = "failed" /\ found' = found /\ cols' = cols
  BY DEF Throws, Goto, Base, RequestsFit
<1>4. Fail(r) => Throws(r) BY DEF Fail
<1>5. Step(r) =>
        /\ pc[r] = "entries" => AddEntries(r)
        /\ pc[r] = "latest" => ReadBack(r)
        /\ pc[r] = "pick" => PickColumns(r)
        /\ pc[r] = "lock" => Lock(r)
        /\ pc[r] = "replace" => Replace(r)
  BY DEF Step, CreateDir, DeleteDir, CreateSheet, AddEntries, ReadBack, AddValues,
         PickColumns, Lock, Replace, Fetch, DeleteSheet, HardDelete
<1>6. PickColumns(r) => found' = found BY DEF PickColumns
<1>7. Lock(r) => Holders(call[r].sheet) = {} /\ found' = found BY DEF Lock, Commit, Throws
<1>8. call[r].op = "addRows" => cols'[r] = cols[r]
  <2>1. call[r].op = "addRows" => pc[r] # "pick" BY DEF Base, RequestsFit, Runs
  <2>2. PickColumns(r) => pc[r] = "pick" BY DEF PickColumns
  <2>3. Step(r) /\ ~ PickColumns(r) => cols' = cols
    BY DEF Step, CreateDir, DeleteDir, CreateSheet, AddEntries, ReadBack, AddValues,
           Lock, Replace, Fetch, DeleteSheet, HardDelete, Throws
  <2> QED BY <2>1, <2>2, <2>3, <1>3, <1>4
<1> QED BY <1>2, <1>3, <1>4, <1>5, <1>6, <1>7, <1>8 DEF Follows

LEMMA TimesStep ==
    ASSUME Base, ApartInv, NEW r \in Requests, NEW p, Moves(r, p), Stamps(r), Makes(r)
    PROVE  TimesInv' /\ (times' = Append(times, r) => r \notin ToSet(times))
<1>1. /\ Stays /\ pc'[r] = p /\ \A q \in Requests \ {r} : pc'[q] = pc[q]
  BY MovesOnward DEF Base
<1>2. TimesInv BY DEF ApartInv
<1>3. times \in Seq(Requests) /\ DOMAIN times = 1..Len(times) /\ Len(times) \in Nat
  BY <1>2 DEF TimesInv
<1>0. /\ Append(times, r) \in Seq(Requests) /\ Append(times, r) # times
      /\ DOMAIN Append(times, r) = 1..Len(times) + 1
      /\ \A i \in 1..Len(times) : Append(times, r)[i] = times[i]
      /\ Append(times, r)[Len(times) + 1] = r
  <2>1. \A i \in 1..Len(times) : Append(times, r)[i] = times[i]
    <3> TAKE i \in 1..Len(times)
    <3> QED BY <1>3, AppendIs
  <2>2. times \in Seq(Requests) /\ r \in Requests BY <1>3
  <2>3. Append(times, r) \in Seq(Requests) /\ Append(times, r) # times
    BY <2>2, AppendIs, Zenon
  <2>4. DOMAIN Append(times, r) = 1..Len(times) + 1 BY <2>2, AppendIs, Zenon
  <2>5. Append(times, r)[Len(times) + 1] = r BY <2>2, AppendProperties, Zenon
  <2> QED BY <2>1, <2>3, <2>4, <2>5
<1>4. times' = Append(times, r) => r \notin ToSet(times)
  <2>1. \A q \in ToSet(times) : Wrote(q) \/ pc[q] = "fetch" BY <1>2 DEF TimesInv
  <2>2. times' = Append(times, r) =>
          times' = times \/ pc[r] \in {"sheet", "entries", "replace"}
    BY DEF Stamps
  <2>3. times' = Append(times, r) => times' # times BY <1>0
  <2> QED BY <2>1, <2>2, <2>3 DEF Wrote
<1>5. CASE times' = times
  <2>1. pc'[r] \notin {"latest", "fetch"}
    <3>1. times # Append(times, r) BY <1>0
    <3> QED BY <3>1, <1>5 DEF Stamps
  <2>2. \A q \in ToSet(times) : Wrote(q)' \/ pc'[q] = "fetch"
    <3> TAKE q \in ToSet(times)
    <3>1. Wrote(q) \/ pc[q] = "fetch" BY <1>2 DEF TimesInv
    <3>2. q \in Requests BY <1>2, WhenIs
    <3>3. q = r /\ pc[q] = "fetch" => Wrote(q)' BY <1>1 DEF Moves, Follows, Wrote
    <3> QED BY <3>1, <3>2, <3>3, <1>1 DEF Stays
  <2>3. \A e \in DOMAIN entries' : e[1] \in ToSet(times) BY <1>2, <1>5 DEF Makes, TimesInv
  <2>4. \A q \in Requests : pc'[q] \in {"latest", "fetch"} => q \in ToSet(times)
    BY <1>1, <1>2, <2>1 DEF TimesInv
  <2>5. ToSet(times)' = ToSet(times) BY <1>5
  <2> QED BY <2>2, <2>3, <2>4, <2>5, <1>2, <1>4, <1>5 DEF TimesInv
<1>6. CASE times' = Append(times, r) /\ times' # times
  <2>1. /\ pc[r] \in {"sheet", "entries", "replace"} /\ pc'[r] \in {"ok", "latest", "fetch"}
    BY <1>6 DEF Stamps
  <2>2. /\ times' \in Seq(Requests) /\ DOMAIN times' = 1..Len(times) + 1
        /\ times'[Len(times) + 1] = r /\ \A i \in 1..Len(times) : times'[i] = times[i]
    BY <1>0, <1>6
  <2>3. \A i \in 1..Len(times) : times[i] # r BY <1>3, <1>4, <1>6 DEF ToSet
  <2>4. \A i, j \in DOMAIN times' : times'[i] = times'[j] => i = j
    BY <2>2, <2>3, <1>2, <1>3 DEF TimesInv
  <2>5. ToSet(times') = ToSet(times) \cup {r}
    <3>1. \A i \in DOMAIN times' : i \in DOMAIN times \/ i = Len(times) + 1 BY <2>2, <1>3
    <3>2. \A i \in DOMAIN times : i \in DOMAIN times' /\ times'[i] = times[i] BY <2>2, <1>3
    <3>3. Len(times) + 1 \in DOMAIN times' BY <2>2, <1>3
    <3> QED BY <3>1, <3>2, <3>3, <2>2 DEF ToSet
  <2>6. \A q \in ToSet(times') : Wrote(q)' \/ pc'[q] = "fetch"
    <3>1. \A q \in ToSet(times) : q \in Requests /\ (Wrote(q) \/ pc[q] = "fetch")
      BY <1>2, WhenIs DEF TimesInv
    <3> QED BY <3>1, <2>1, <2>5, <1>1 DEF Stays, Wrote
  <2>7. \A e \in DOMAIN entries' : e[1] \in ToSet(times') BY <2>5, <1>2 DEF Makes, TimesInv
  <2>8. \A q \in Requests : pc'[q] \in {"latest", "fetch"} => q \in ToSet(times')
    BY <2>5, <1>1, <1>2 DEF TimesInv
  <2> QED BY <2>2, <2>4, <2>6, <2>7, <2>8, <1>4 DEF TimesInv
<1> QED BY <1>5, <1>6 DEF Stamps

LEMMA HoldStep ==
    ASSUME Base, ApartInv, NEW r \in Requests, Step(r) \/ Fail(r)
    PROVE  HoldInv'
<1>1. PICK p : Moves(r, p) /\ \A q \in Requests \ {r} : found'[q] = found[q]
  BY StepMoves DEF Base
<1>2. call' = call /\ pc'[r] = p /\ \A q \in Requests \ {r} : pc'[q] = pc[q]
  BY <1>1, MovesOnward DEF Base, Moves
<1>3. HoldInv BY DEF ApartInv
<1>4. \A q \in Requests : found'[q] # <<>> => pc'[q] \notin {"pick", "lock", "replace"}
  BY <1>1, <1>2, <1>3, StepLeads DEF HoldInv
<1>5. ASSUME NEW q \in Requests, q # r, pc'[q] \in {"replace", "fetch"}, pc'[r] \in {"replace", "fetch"},
             call[q].sheet = call[r].sheet
      PROVE  FALSE
  <2>1. q \in Holders(call[r].sheet) BY <1>2, <1>5 DEF Holders
  <2>2. pc[r] = "replace" BY <2>1, <1>5, StepLeads DEF Replace
  <2> QED BY <2>2, <1>2, <1>3, <1>5 DEF HoldInv
<1> QED BY <1>2, <1>3, <1>4, <1>5 DEF HoldInv

\* An entry made by a step was made later than those of who was there.
LEMMA NewIsLater ==
    ASSUME Base, ApartInv, NEW r \in Requests, NEW p, Moves(r, p), Stamps(r), Makes(r),
           NEW q \in ToSet(times)
    PROVE  /\ \A e \in DOMAIN entries : e \in DOMAIN entries' => (e \in Later(q)' <=> e \in Later(q))
           /\ times' = Append(times, r) => \A e \in DOMAIN entries' : e[1] = r => e \in Later(q)'
           /\ times' = Append(times, r) => \A e \in DOMAIN entries' : e \notin DOMAIN entries => e \in Later(q)'
           /\ (times' = Append(times, r) /\ pc'[r] = "fetch") => When(r)' > When(q)'
<1>1. TimesInv /\ TimesInv' /\ (times' = Append(times, r) => r \notin ToSet(times))
  BY TimesStep DEF ApartInv
<1>2. times' = times \/ times' = Append(times, r) BY DEF Stamps
<1>3. \A x \in ToSet(times) : x \in ToSet(times') /\ When(x)' = When(x)
  BY <1>1, <1>2, WhenStays
<1>4. times' = Append(times, r) => \A x \in ToSet(times) : When(r)' > When(x)'
  BY <1>1, WhenStays
<1>5. \A e \in DOMAIN entries : e[1] \in ToSet(times) BY <1>1 DEF TimesInv
<1> QED BY <1>3, <1>4, <1>5 DEF Later, Makes

\* The others that may put a value where r put an entry or a value have met r.
LEMMA GuestsOfOthers ==
    ASSUME Base, MeetInv, ApartInv, NEW r \in Requests, NEW p, Moves(r, p),
           \A q \in Requests \ {r} : found'[q] = found[q],
           Stamps(r), Makes(r), Fills(r), NEW q \in Requests \ {r}, NEW e \in Guests(q)'
    PROVE  Met(e[1], q) /\ \A v \in values' : v.entry = e => Met(v.row[1], q)
<1>1. /\ pc'[q] = pc[q] /\ call' = call /\ found'[q] = found[q] BY MovesOnward DEF Base, Moves
<1>2. pc[q] \in {"fetch", "latest", "values"} BY <1>1 DEF Guests
<1>3. Met(r, q)
  <2>1. InFlight(q) /\ InFlight(r) BY <1>2 DEF Moves, Follows, InFlight, Ended
  <2> QED BY <2>1, WorkMeets
<1>4. e \in Guests(q) \/ (e[1] = r /\ e \in DOMAIN entries' /\ e \notin DOMAIN entries)
  <2>1. CASE pc[q] = "fetch" BY <2>1, <1>1 DEF Guests, EntriesOf, Makes
  <2>2. CASE pc[q] = "latest"
    <3>1. q \in ToSet(times) BY <2>2 DEF ApartInv, TimesInv
    <3>2. e \in Later(q)' BY <2>2, <1>1 DEF Guests
    <3>3. e \in DOMAIN entries' BY <3>2 DEF Later
    <3>4. e \in DOMAIN entries => e \in Later(q) BY <3>1, <3>2, <3>3, NewIsLater
    <3>5. Guests(q) = Later(q) BY <2>2 DEF Guests
    <3> QED BY <3>3, <3>4, <3>5 DEF Makes
  <2>3. CASE pc[q] = "values" BY <2>3, <1>1 DEF Guests
  <2> QED BY <1>2, <2>1, <2>2, <2>3
<1>5. \A v \in values : v.entry \in DOMAIN entries BY DEF Base, Rows, ValuesFit
<1>6. \A v \in values' \ values : v.row[1] = r BY DEF Fills
<1>7. CASE e \in Guests(q) BY <1>3, <1>6, <1>7 DEF ApartInv, GuestsInv
<1>8. CASE e[1] = r /\ e \notin DOMAIN entries BY <1>3, <1>5, <1>6, <1>8
<1> QED BY <1>4, <1>7, <1>8

LEMMA LinesCount ==
    ASSUME NEW r, NEW n \in Nat
    PROVE  IsFiniteSet(Made(r, n)) /\ Cardinality(Made(r, n)) = n
<1> DEFINE f == [i \in 1..n |-> <<r, i>>]
<1>1. f \in Bijection(1..n, Made(r, n))
  <2>1. f \in [1..n -> Made(r, n)] BY DEF Made
  <2>2. \A i, j \in 1..n : f[i] = f[j] => i = j OBVIOUS
  <2>3. \A x \in Made(r, n) : \E i \in 1..n : f[i] = x BY DEF Made
  <2> QED BY <2>1, <2>2, <2>3 DEF Bijection, Injection, Surjection, IsInjective
<1>2. IsFiniteSet(1..n) /\ Cardinality(1..n) = n BY FS_Interval
<1>3. ExistsBijection(1..n, Made(r, n)) BY <1>1 DEF ExistsBijection
<1> QED BY <1>2, <1>3, FS_Bijection

\* What r reads back of others is later than its own.
LEMMA ReadBackGuests ==
    ASSUME Base, ApartInv, NEW r \in Requests, ReadBack(r), ~ Throws(r), pc'[r] = "values"
    PROVE  /\ IsInjective(found'[r])
           /\ \A e \in Guests(r)' : e \in Guests(r)
           /\ values' = values
<1> DEFINE n == Len(call[r].body.rows)
           s == call[r].sheet
           E == EntriesOf(s)
           size == IF n < Cardinality(E) THEN n ELSE Cardinality(E)
<1>1. PICK at \in Latest(s, n) :
           /\ found' = [found EXCEPT ![r] = at]
           /\ UNCHANGED <<db, call, cols, raced>>
  BY DEF ReadBack
<1>2. pc[r] = "latest" /\ call[r].body \in Additions /\ found'[r] = at
  BY <1>1 DEF ReadBack, Base, RequestsFit, Runs, Asks
<1>3. n \in Nat BY <1>2, AdditionIs
<1>4. /\ at \in [1..size -> E] /\ IsInjective(at)
      /\ \A e \in E \ ToSet(at), i \in 1..size : Time(at[i]) >= Time(e)
  BY DEF Latest
<1>5. Guests(r)' = {e \in ToSet(at) : e[1] # r} /\ Guests(r) = Later(r) BY <1>2 DEF Guests
<1>6. TimesInv /\ r \in ToSet(times) BY <1>2 DEF ApartInv, TimesInv
<1>7. IsFiniteSet(E) /\ E \subseteq DOMAIN entries BY EntriesFinite DEF Base, Rows
<1>8. size \in Nat /\ size <= n BY <1>3, <1>7, FS_CardinalityType
<1> HIDE DEF size, E, n
<1>9. ToSet(at) \subseteq E /\ \A e \in ToSet(at) : \E i \in 1..size : at[i] = e
  BY <1>4 DEF ToSet
<1>10. IsFiniteSet(ToSet(at)) /\ Cardinality(ToSet(at)) <= n
  <2>1. at \in Surjection(1..size, ToSet(at)) BY <1>4 DEF ToSet, Surjection
  <2>2. IsFiniteSet(1..size) /\ Cardinality(1..size) = size BY <1>8, FS_Interval
  <2>3. IsFiniteSet(ToSet(at)) /\ Cardinality(ToSet(at)) <= size BY <2>1, <2>2, FS_Surjection
  <2>4. Cardinality(ToSet(at)) \in Nat BY <2>3, FS_CardinalityType
  <2> QED BY <2>3, <2>4, <1>3, <1>8
<1>11. ASSUME NEW e \in ToSet(at), e[1] # r, Lines(r) \subseteq E
       PROVE  e \in Later(r)
  <2>1. PICK l \in Lines(r) : l \notin ToSet(at)
    <3>1. SUFFICES ASSUME Lines(r) \subseteq ToSet(at) PROVE FALSE OBVIOUS
    <3>2. IsFiniteSet(Lines(r)) /\ Cardinality(Lines(r)) = n BY <1>3, LinesCount DEF Lines, n
    <3>3. e \notin Lines(r) BY <1>11 DEF Lines, Made
    <3>4. Cardinality(ToSet(at)) \in Nat BY <1>10, FS_CardinalityType
    <3>5. Cardinality(Lines(r)) <= Cardinality(ToSet(at)) /\
            (Cardinality(Lines(r)) = Cardinality(ToSet(at)) => Lines(r) = ToSet(at))
      BY <3>1, <3>2, <1>10, FS_Subset
    <3> QED BY <3>2, <3>3, <3>4, <3>5, <1>3, <1>10, <1>11
  <2>2. l \in E /\ l[1] = r BY <2>1, <1>11 DEF Lines, Made
  <2>3. Time(e) >= Time(l) BY <2>1, <2>2, <1>4, <1>9
  <2>4. Time(e) = When(e[1]) /\ Time(l) = When(r) BY <2>2 DEF Time, When
  <2>5. e \in DOMAIN entries /\ e[1] \in ToSet(times) BY <1>6, <1>7, <1>9 DEF TimesInv
  <2>6. When(e[1]) # When(r) /\ When(e[1]) \in Nat /\ When(r) \in Nat
    <3>1. /\ When(e[1]) \in 1..Len(times) /\ times[When(e[1])] = e[1]
          /\ When(r) \in 1..Len(times) /\ times[When(r)] = r
      BY <2>5, <1>6, WhenIs
    <3>2. Len(times) \in Nat BY <1>6 DEF TimesInv
    <3> QED BY <3>1, <3>2, <1>11
  <2> QED BY <2>3, <2>4, <2>5, <2>6 DEF Later
<1>12. Lines(r) \subseteq E \/ E \subseteq Later(r) BY <1>2 DEF ApartInv, OwnInv, E
<1>13. \A e \in Guests(r)' : e \in Guests(r) BY <1>5, <1>9, <1>11, <1>12
<1> QED BY <1>1, <1>2, <1>4, <1>13 DEF db

LEMMA GuestsStep ==
    ASSUME Base, MeetInv, ApartInv, NEW r \in Requests, Step(r) \/ Fail(r)
    PROVE  GuestsInv'
<1>1. PICK p : Moves(r, p) /\ \A q \in Requests \ {r} : found'[q] = found[q]
  BY StepMoves DEF Base
<1>2. Stamps(r) /\ Makes(r) /\ Fills(r) BY StepEffect DEF Effect
<1>3. /\ call' = call /\ raced' = raced /\ pc'[r] = p /\ \A q \in Requests \ {r} : pc'[q] = pc[q]
  BY <1>1, MovesOnward DEF Base, Moves
<1>4. \A x, y : Met(x, y)' <=> Met(x, y) BY <1>3 DEF Met
<1>5. ASSUME NEW e \in Guests(r)'
      PROVE  Met(e[1], r)' /\ \A v \in values' : v.entry = e => Met(v.row[1], r)'
  <2>1. pc'[r] \in {"fetch", "latest", "values"} BY <1>5 DEF Guests
  <2>2. CASE pc'[r] = "fetch"
    <3>1. Replace(r) BY <2>2, StepLeads
    <3>2. found'[r] = SetToSeq(EntriesOf(call[r].sheet)) /\ entries' = entries
      BY <3>1 DEF Replace, Base, RequestsFit
    <3>3. ToSet(found'[r]) = EntriesOf(call[r].sheet)
      BY <3>2, EntriesFinite, SeqOfSet DEF Base, Rows
    <3>4. EntriesOf(call[r].sheet)' = EntriesOf(call[r].sheet) BY <3>2, <1>3 DEF EntriesOf
    <3> QED BY <2>2, <3>3, <3>4, <1>5 DEF Guests
  <2>3. CASE pc'[r] = "latest"
    <3>1. times' = Append(times, r) BY <1>2, <2>3 DEF Stamps
    <3>2. TimesInv /\ TimesInv' /\ r \notin ToSet(times)
      BY <3>1, <1>1, <1>2, TimesStep DEF ApartInv
    <3>3. \A q \in ToSet(times) : When(r)' > When(q)' /\ When(q) \in 1..Len(times) /\ When(q)' = When(q)
      BY <3>1, <3>2, WhenStays, WhenIs
    <3>4. When(r)' = Len(times) + 1 /\ Len(times) \in Nat
      BY <3>1, <3>2, WhenStays DEF TimesInv
    <3>5. When(e[1])' > When(r)' /\ e \in DOMAIN entries' BY <2>3, <1>5 DEF Guests, Later
    <3>6. e[1] \in ToSet(times) \/ e[1] = r BY <3>2, <3>5, <1>2 DEF Makes, TimesInv
    <3> QED BY <3>3, <3>4, <3>5, <3>6
  <2>4. CASE pc'[r] = "values"
    <3>1. ReadBack(r) /\ ~ Throws(r) BY <2>4, StepLeads
    <3>2. e \in Guests(r) /\ values' = values BY <2>4, <3>1, <1>5, ReadBackGuests
    <3> QED BY <3>2, <1>4 DEF ApartInv, GuestsInv
  <2> QED BY <2>1, <2>2, <2>3, <2>4
<1>6. ASSUME NEW q \in Requests, NEW e \in Guests(q)'
      PROVE  Met(e[1], q)' /\ \A v \in values' : v.entry = e => Met(v.row[1], q)'
  BY <1>1, <1>2, <1>4, <1>5, <1>6, GuestsOfOthers
<1>7. ASSUME NEW q \in Requests, pc'[q] = "values"
      PROVE  IsInjective(found'[q])
  <2>1. CASE q = r BY <2>1, <1>7, StepLeads, ReadBackGuests
  <2>2. CASE q # r BY <2>2, <1>1, <1>3, <1>7 DEF ApartInv, GuestsInv
  <2> QED BY <2>1, <2>2
<1> QED BY <1>6, <1>7 DEF GuestsInv

LEMMA OwnStep ==
    ASSUME Base, MeetInv, ApartInv, NEW r \in Requests, Step(r) \/ Fail(r)
    PROVE  OwnInv'
<1>1. PICK p : Moves(r, p) BY StepMoves DEF Base
<1>2. Stamps(r) /\ Makes(r) /\ \A s : Keeps(r, s) \/ Empties(s) \/ Replaces(r, s)
  BY StepEffect DEF Effect
<1>3. /\ call' = call /\ pc'[r] = p /\ \A q \in Requests \ {r} : pc'[q] = pc[q]
  BY <1>1, MovesOnward DEF Base, Moves
<1> SUFFICES ASSUME NEW q \in Requests, pc'[q] = "latest"
             PROVE  \/ Lines(q)' \subseteq EntriesOf(call[q].sheet)'
                    \/ EntriesOf(call[q].sheet)' \subseteq Later(q)'
  BY DEF OwnInv
<1> DEFINE s == call[q].sheet
<1>4. Lines(q)' = Lines(q) BY <1>3 DEF Lines
<1>5. CASE q = r
  <2>1. AddEntries(r) /\ ~ Throws(r) BY <1>5, StepLeads
  <2>2. Lines(r) \subseteq EntriesOf(s)' BY <2>1, <1>3, <1>5 DEF AddEntries, Lines, EntriesOf
  <2> QED BY <2>2, <1>4, <1>5
<1>6. CASE q # r
  <2>1. pc[q] = "latest" BY <1>3, <1>6
  <2>2. Lines(q) \subseteq EntriesOf(s) \/ EntriesOf(s) \subseteq Later(q)
    BY <2>1 DEF ApartInv, OwnInv
  <2>3. q \in ToSet(times) BY <2>1 DEF ApartInv, TimesInv
  <2>4. \A t : EntriesOf(t)' \subseteq DOMAIN entries' /\ EntriesOf(t) \subseteq DOMAIN entries
    BY DEF EntriesOf
  <2>5. EntriesOf(s)' = EntriesOf(call[q].sheet)' OBVIOUS
  <2> HIDE DEF s
  <2>6. CASE Keeps(r, s)
    <3>1. EntriesOf(s) \subseteq Later(q) => EntriesOf(s)' \subseteq Later(q)'
      <4> SUFFICES ASSUME EntriesOf(s) \subseteq Later(q), NEW e \in EntriesOf(s)'
                   PROVE  e \in Later(q)'
        OBVIOUS
      <4>1. CASE e \in EntriesOf(s) BY <4>1, <2>3, <2>4, <1>1, <1>2, NewIsLater
      <4>2. CASE e \notin EntriesOf(s)
        BY <4>2, <2>3, <2>4, <2>6, <1>1, <1>2, NewIsLater DEF Keeps
      <4> QED BY <4>1, <4>2
    <3>2. EntriesOf(s) \subseteq EntriesOf(s)' BY <2>6 DEF Keeps
    <3> QED BY <3>1, <3>2, <2>2, <1>3, <1>4 DEF s
  <2>7. CASE Empties(s) BY <2>7, <1>3 DEF Empties, s
  <2>8. CASE Replaces(r, s)
    <3>1. /\ pc[r] = "fetch" /\ call[r].sheet = s /\ times' = times
          /\ EntriesOf(s)' = (EntriesOf(s) \ ToSet(found[r])) \cup Lines(r)
      BY <2>8 DEF Replaces
    <3>2. \/ Lines(q) \subseteq EntriesOf(s) \ ToSet(found[r])
          \/ When(r) > When(q) /\ EntriesOf(s) \ ToSet(found[r]) \subseteq Later(q)
      BY <3>1, <2>1 DEF ApartInv, GoneInv, s
    <3>3. CASE Lines(q) \subseteq EntriesOf(s) \ ToSet(found[r])
      BY <3>1, <3>3, <1>3, <1>4 DEF s
    <3>4. CASE When(r) > When(q) /\ EntriesOf(s) \ ToSet(found[r]) \subseteq Later(q)
      <4>1. \A e \in Lines(r) : e[1] = r BY DEF Lines, Made
      <4>2. \A x : When(x)' = When(x) BY <3>1 DEF When
      <4>3. EntriesOf(s)' \subseteq Later(q)' BY <3>1, <3>4, <4>1, <4>2, <2>4 DEF Later
      <4> QED BY <4>3, <1>3 DEF s
    <3> QED BY <3>2, <3>3, <3>4
  <2> QED BY <2>6, <2>7, <2>8, <1>2
<1> QED BY <1>5, <1>6

LEMMA GoneStep ==
    ASSUME Base, MeetInv, ApartInv, NEW r \in Requests, Step(r) \/ Fail(r)
    PROVE  GoneInv'
<1>1. PICK p : Moves(r, p) /\ \A q \in Requests \ {r} : found'[q] = found[q]
  BY StepMoves DEF Base
<1>2. Stamps(r) /\ Makes(r) /\ \A s : Keeps(r, s) \/ Empties(s) \/ Replaces(r, s)
  BY StepEffect DEF Effect
<1>3. /\ call' = call /\ pc'[r] = p /\ \A q \in Requests \ {r} : pc'[q] = pc[q]
  BY <1>1, MovesOnward DEF Base, Moves
<1> SUFFICES ASSUME NEW u \in Requests, NEW q \in Requests, pc'[u] = "fetch", pc'[q] = "latest",
                    call[u].sheet = call[q].sheet
             PROVE  \/ Lines(q) \subseteq EntriesOf(call[q].sheet)' \ ToSet(found'[u])
                    \/ /\ When(u)' > When(q)'
                       /\ EntriesOf(call[q].sheet)' \ ToSet(found'[u]) \subseteq Later(q)'
  BY <1>3 DEF GoneInv, Lines
<1> DEFINE s == call[q].sheet
<1>4. CASE u = r
  <2>1. Replace(r) /\ pc[q] = "latest" BY <1>3, <1>4, StepLeads
  <2>2. found'[r] = SetToSeq(EntriesOf(s)) /\ entries' = entries /\ times' = Append(times, r)
    BY <2>1, <1>4 DEF Replace, Base, RequestsFit
  <2>3. ToSet(found'[r]) = EntriesOf(s) BY <2>2, EntriesFinite, SeqOfSet DEF Base, Rows
  <2>4. EntriesOf(s)' = EntriesOf(s) BY <2>2, <1>3 DEF EntriesOf
  <2>5. q \in ToSet(times) BY <2>1 DEF ApartInv, TimesInv
  <2>6. When(r)' > When(q)' BY <2>2, <2>5, <1>1, <1>2, <1>4, NewIsLater
  <2> QED BY <2>3, <2>4, <2>6, <1>3, <1>4
<1>5. CASE q = r
  <2>1. AddEntries(r) /\ ~ Throws(r) /\ u # r /\ pc[r] = "entries"
    BY <1>5, StepLeads DEF AddEntries
  <2>2. Lines(r) \subseteq EntriesOf(s)' BY <2>1, <1>3, <1>5 DEF AddEntries, Lines, EntriesOf
  <2>3. \A e \in ToSet(found[u]) : e[1] # r BY <2>1 DEF Base, Rows, EntriesFit, Wrote
  <2>4. \A e \in Lines(r) : e[1] = r BY DEF Lines, Made
  <2> QED BY <2>1, <2>2, <2>3, <2>4, <1>1, <1>3, <1>5
<1>6. CASE u # r /\ q # r
  <2>1. pc[u] = "fetch" /\ pc[q] = "latest" /\ found'[u] = found[u] BY <1>1, <1>3, <1>6
  <2>2. \/ Lines(q) \subseteq EntriesOf(s) \ ToSet(found[u])
        \/ When(u) > When(q) /\ EntriesOf(s) \ ToSet(found[u]) \subseteq Later(q)
    BY <2>1 DEF ApartInv, GoneInv
  <2>3. u \in ToSet(times) /\ q \in ToSet(times) BY <2>1 DEF ApartInv, TimesInv
  <2>4. \A t : EntriesOf(t)' \subseteq DOMAIN entries' /\ EntriesOf(t) \subseteq DOMAIN entries
    BY DEF EntriesOf
  <2>5. Holders(s) # {} /\ ~ Replaces(r, s)
    <3>1. u \in Holders(s) BY <2>1 DEF Holders
    <3>2. pc[r] = "fetch" /\ call[r].sheet = s => r = u BY <2>1 DEF ApartInv, HoldInv
    <3> QED BY <3>1, <3>2, <1>6 DEF Replaces
  <2> HIDE DEF s
  <2>6. Keeps(r, s) BY <2>5, <1>2 DEF Empties
  <2>7. EntriesOf(s) \subseteq EntriesOf(s)' BY <2>6 DEF Keeps
  <2>8. CASE Lines(q) \subseteq EntriesOf(s) \ ToSet(found[u]) BY <2>1, <2>7, <2>8, <1>3 DEF s
  <2>9. CASE When(u) > When(q) /\ EntriesOf(s) \ ToSet(found[u]) \subseteq Later(q)
    <3>1. ASSUME NEW e \in EntriesOf(s)', e \notin ToSet(found[u])
          PROVE  e \in Later(q)'
      <4>1. CASE e \in EntriesOf(s) BY <3>1, <4>1, <2>3, <2>4, <2>9, <1>1, <1>2, NewIsLater
      <4>2. CASE e \notin EntriesOf(s)
        BY <4>2, <2>3, <2>4, <2>6, <1>1, <1>2, NewIsLater DEF Keeps
      <4> QED BY <4>1, <4>2
    <3>2. When(u)' = When(u) /\ When(q)' = When(q)
      <4>1. TimesInv /\ TimesInv' BY <1>1, <1>2, TimesStep DEF ApartInv
      <4>2. times' = times \/ times' = Append(times, r) BY <1>2 DEF Stamps
      <4> QED BY <4>1, <4>2, <2>3, WhenStays
    <3> QED BY <3>1, <3>2, <2>1, <2>9, <1>3 DEF s
  <2> QED BY <2>2, <2>8, <2>9
<1> QED BY <1>4, <1>5, <1>6

LEMMA RowStep ==
    ASSUME Base, MeetInv, ApartInv, NEW r \in Requests, Step(r) \/ Fail(r)
    PROVE  RowInv' /\ RowsKeepApart'
<1>1. PICK p : Moves(r, p) /\ \A q \in Requests \ {r} : cols'[q] = cols[q]
  BY StepMoves DEF Base
<1>2. Makes(r) /\ Fills(r) BY StepEffect DEF Effect
<1>3. /\ call' = call /\ raced' = raced /\ pc[r] # "ok" BY <1>1 DEF Moves, Follows, Ended
<1>4. \A x, y : (Met(x, y)' <=> Met(x, y)) /\ (Met(x, y) => Met(y, x))
  BY <1>3, MetBoth DEF Met
<1>5. \A v \in values : v.row[1] # r BY <1>3 DEF Base, Rows, ValuesFit
<1>6. \A v \in values' \ values : v.row[1] = r BY <1>2 DEF Fills
<1>7. RowInv'
  <2>1. ASSUME NEW v \in values', NEW w \in values', v.row = w.row, v.column.name = w.column.name
        PROVE  v = w
    <3>1. (v \in values /\ w \in values) \/ (v \in values' \ values /\ w \in values' \ values)
      BY <2>1, <1>5, <1>6
    <3> QED BY <2>1, <3>1, <1>2 DEF Fills, ApartInv, RowInv
  <2>2. \A q \in Requests : call'[q].op = "addRows" => \A c, k \in cols'[q] : c.name = k.name => c = k
    <3> TAKE q \in Requests
    <3>1. call[q].op = "addRows" => cols'[q] = cols[q] BY <1>1, StepLeads
    <3> QED BY <3>1, <1>3 DEF ApartInv, RowInv
  <2>3. \A e : Given(e)' <=> Given(e) BY <1>3 DEF Given
  <2>4. \A e \in DOMAIN entries' : Given(e)' BY <2>3, <1>2 DEF Makes, ApartInv, RowInv
  <2>5. \A v \in values' : Given(v.row)' BY <2>3, <1>2 DEF Fills, ApartInv, RowInv
  <2> QED BY <2>1, <2>2, <2>4, <2>5 DEF RowInv
<1>8. ASSUME NEW v \in values'
      PROVE  v.entry[1] = v.row[1] \/ Met(v.entry[1], v.row[1])
  <2>1. CASE v \in values BY <2>1 DEF ApartInv, RowsKeepApart
  <2>2. CASE v \notin values BY <2>2, <1>2, <1>6 DEF Fills, ApartInv, GuestsInv
  <2> QED BY <2>1, <2>2
<1>9. ASSUME NEW v \in values' \ values, NEW w \in values, v.entry = w.entry
      PROVE  Met(w.row[1], r)
  <2>1. CASE v.entry[1] = r BY <2>1, <1>4, <1>5, <1>9 DEF ApartInv, RowsKeepApart
  <2>2. CASE v.entry \in Guests(r) BY <2>2, <1>9 DEF ApartInv, GuestsInv
  <2> QED BY <2>1, <2>2, <1>2 DEF Fills
<1>10. ASSUME NEW v \in values', NEW w \in values', v.entry = w.entry
       PROVE  v.row = w.row \/ Met(v.row[1], w.row[1])
  <2>1. CASE v \in values /\ w \in values BY <2>1, <1>10 DEF ApartInv, RowsKeepApart
  <2>2. CASE v \in values /\ w \notin values BY <2>2, <1>6, <1>9, <1>10
  <2>3. CASE v \notin values /\ w \in values BY <2>3, <1>4, <1>6, <1>9, <1>10
  <2>4. CASE v \notin values /\ w \notin values BY <2>4, <1>2, <1>10 DEF Fills
  <2> QED BY <2>1, <2>2, <2>3, <2>4
<1>11. RowsKeepApart' BY <1>4, <1>8, <1>10 DEF RowsKeepApart
<1> QED BY <1>7, <1>11

\* Steps that put nothing and delete nothing: whoever is somewhere else after one
\* has come in or has ended.
LEMMA QuietApart ==
    ASSUME Base, ApartInv, Stays, UNCHANGED <<entries, values, times, found>>,
           \A q \in Requests :
             \/ pc'[q] = pc[q] /\ call'[q] = call[q]
             \/ /\ pc'[q] \notin {"latest", "fetch", "values", "replace"}
                /\ pc'[q] \in {"pick", "lock"} => found[q] = <<>>,
           \A q : Wrote(q) => call'[q] = call[q],
           \A q \in Requests : pc[q] = "fetch" => pc'[q] \in {"fetch", "failed"},
           \A q \in Requests : call'[q].op = "addRows" =>
               \A c, k \in cols'[q] : c.name = k.name => c = k
    PROVE  ApartInv'
<1>1. \A x, y : Met(x, y) => Met(x, y)' BY StaysMet
<1>2. /\ \A q : When(q)' = When(q)
      /\ \A q : Later(q)' = Later(q)
      /\ \A s : EntriesOf(s)' = EntriesOf(s)
      /\ ToSet(times)' = ToSet(times)
  BY DEF When, Later, EntriesOf
<1>3. TimesInv'
  <2>1. \A q \in ToSet(times) : Wrote(q)' \/ pc'[q] = "fetch"
    <3> TAKE q \in ToSet(times)
    <3>1. q \in Requests /\ (Wrote(q) \/ pc[q] = "fetch") BY WhenIs DEF ApartInv, TimesInv
    <3> QED BY <3>1 DEF Stays, Wrote
  <2>2. \A q \in Requests : pc'[q] \in {"latest", "fetch"} => q \in ToSet(times)
    BY DEF ApartInv, TimesInv
  <2> QED BY <2>1, <2>2, <1>2 DEF ApartInv, TimesInv
<1>4. HoldInv' BY DEF ApartInv, HoldInv
<1>5. ASSUME NEW q \in Requests
      PROVE  /\ \A e \in Guests(q)' : e \in Guests(q)
             /\ pc'[q] = "values" => pc[q] = "values"
  <2>1. CASE pc'[q] = pc[q] /\ call'[q] = call[q] BY <2>1, <1>2 DEF Guests
  <2>2. CASE pc'[q] \notin {"latest", "fetch", "values", "replace"} BY <2>2 DEF Guests
  <2> QED BY <2>1, <2>2
<1>6. GuestsInv' BY <1>1, <1>5 DEF ApartInv, GuestsInv
<1>7. \A q \in Requests : pc'[q] \in {"latest", "fetch"} =>
          pc[q] = pc'[q] /\ call'[q] = call[q] /\ Lines(q)' = Lines(q)
  BY DEF Lines
<1>8. OwnInv' BY <1>2, <1>7 DEF ApartInv, OwnInv
<1>9. GoneInv'
  <2> SUFFICES ASSUME NEW u \in Requests, NEW q \in Requests, pc'[u] = "fetch", pc'[q] = "latest",
                      call'[u].sheet = call'[q].sheet
               PROVE  \/ Lines(q)' \subseteq EntriesOf(call[q].sheet)' \ ToSet(found'[u])
                      \/ /\ When(u)' > When(q)'
                         /\ EntriesOf(call[q].sheet)' \ ToSet(found'[u]) \subseteq Later(q)'
    BY <1>7 DEF GoneInv
  <2>1. /\ pc[u] = "fetch" /\ pc[q] = "latest" /\ call'[u] = call[u] /\ call'[q] = call[q]
        /\ call[u].sheet = call[q].sheet /\ Lines(q)' = Lines(q)
    BY <1>7
  <2>2. \/ Lines(q) \subseteq EntriesOf(call[q].sheet) \ ToSet(found[u])
        \/ When(u) > When(q) /\ EntriesOf(call[q].sheet) \ ToSet(found[u]) \subseteq Later(q)
    BY <2>1 DEF ApartInv, GoneInv
  <2> QED BY <2>1, <2>2, <1>2
<1>10. RowInv'
  <2>1. \A e \in DOMAIN entries : Wrote(e[1]) /\ Given(e)
    BY DEF ApartInv, RowInv, Base, Rows, EntriesFit
  <2>2. \A v \in values : Wrote(v.row[1]) /\ Given(v.row)
    BY DEF ApartInv, RowInv, Base, Rows, ValuesFit, Value, EntryId, Wrote
  <2>3. (\A e \in DOMAIN entries' : Given(e)') /\ \A v \in values' : Given(v.row)'
    BY <2>1, <2>2 DEF Given
  <2>4. \A v, w \in values' : v.row = w.row /\ v.column.name = w.column.name => v = w
    BY DEF ApartInv, RowInv
  <2> QED BY <2>3, <2>4 DEF RowInv
<1>11. RowsKeepApart' BY <1>1 DEF ApartInv, RowsKeepApart
<1> QED BY <1>3, <1>4, <1>6, <1>8, <1>9, <1>10, <1>11 DEF ApartInv

\* Who comes to add rows picks one column of each name.
LEMMA ReceiveCols ==
    ASSUME RequestsFit, NEW r \in Requests, Receive(r), call'[r].op = "addRows"
    PROVE  \A c, k \in cols'[r] : c.name = k.name => c = k
<1>1. pc[r] = "idle" /\ cols[r] = {} BY DEF Receive, RequestsFit
<1>2. ASSUME cols' = cols
      PROVE  \A c, k \in cols'[r] : c.name = k.name => c = k
  BY <1>1, <1>2
<1>3. ASSUME NEW s, NEW b, BeginAddRows(r, s, b)
      PROVE  \A c, k \in cols'[r] : c.name = k.name => c = k
  <2>1. CASE Known(s)
    <3>1. PICK S \in Finds(ColumnsOf(s)) : cols' = [cols EXCEPT ![r] = S]
      BY <1>3, <2>1 DEF BeginAddRows
    <3>2. cols'[r] = S BY <3>1 DEF RequestsFit
    <3> QED BY <3>2 DEF Finds
  <2>2. CASE ~ Known(s) BY <1>2, <1>3, <2>2 DEF BeginAddRows, Refuse
  <2> QED BY <2>1, <2>2
<1>4. \/ cols' = cols
      \/ \E s, b : BeginAddRows(r, s, b)
  <2>1. ASSUME NEW d, BeginCreateDir(r, d) \/ BeginDeleteDir(r, d) PROVE cols' = cols
    BY <2>1 DEF BeginCreateDir, BeginDeleteDir, Begin, Refuse
  <2>2. ASSUME NEW d, NEW b, BeginCreateSheet(r, d, b) \/ BeginUpdate(r, d, b) PROVE cols' = cols
    BY <2>2 DEF BeginCreateSheet, BeginUpdate, Begin, Refuse
  <2>3. ASSUME NEW d, BeginDeleteSheet(r, d) \/ BeginHardDelete(r, d) PROVE cols' = cols
    BY <2>3 DEF BeginDeleteSheet, BeginHardDelete, Begin, Refuse
  <2> QED BY <2>1, <2>2, <2>3 DEF Receive
<1> QED BY <1>2, <1>3, <1>4

LEMMA NextApart ==
    ASSUME Base, MeetInv, ApartInv, [Next]_vars
    PROVE  ApartInv'
<1>1. ASSUME NEW r \in Requests, Step(r) \/ Fail(r)
      PROVE  ApartInv'
  <2>1. PICK p : Moves(r, p) BY <1>1, StepMoves DEF Base
  <2>2. Stamps(r) /\ Makes(r) BY <1>1, StepEffect DEF Effect
  <2>3. TimesInv' BY <2>1, <2>2, TimesStep
  <2>4. HoldInv' /\ GuestsInv' /\ OwnInv' /\ GoneInv' /\ RowInv' /\ RowsKeepApart'
    BY <1>1, HoldStep, GuestsStep, OwnStep, GoneStep, RowStep
  <2> QED BY <2>3, <2>4 DEF ApartInv
<1>2. ASSUME NEW r \in Requests, Receive(r)
      PROVE  ApartInv'
  <2>1. PICK c, p : Arrives(r, c, p) /\ LetIn(c, p) BY <1>2, Arrival DEF Base, Rows
  <2>2. Stays /\ pc[r] = "idle" /\ found[r] = <<>>
    BY <2>1, ArrivesStays DEF Arrives, Base, RequestsFit
  <2>3. /\ pc'[r] = p /\ p \notin {"latest", "fetch", "values", "replace"}
        /\ \A q \in Requests \ {r} : pc'[q] = pc[q] /\ call'[q] = call[q] /\ cols'[q] = cols[q]
        /\ UNCHANGED <<entries, values, times, found>>
    BY <2>1 DEF Arrives, LetIn, db, Base, RequestsFit
  <2>4. \A q : Wrote(q) => call'[q] = call[q] BY <2>2, <2>3 DEF Wrote
  <2>5. \A q \in Requests : call'[q].op = "addRows" =>
            \A c1, k \in cols'[q] : c1.name = k.name => c1 = k
    BY <1>2, <2>3, ReceiveCols DEF ApartInv, RowInv, Base
  <2> QED BY <2>2, <2>3, <2>4, <2>5, QuietApart
<1>3. ASSUME Onward, UNCHANGED <<db, cols, found>>,
             \A q \in Requests : pc'[q] = pc[q] \/ pc'[q] = "failed"
      PROVE  ApartInv'
  <2>1. Stays /\ UNCHANGED <<entries, values, times, found, cols, call>>
    BY <1>3, OnwardStays DEF Base, Onward, db
  <2>2. \A q \in Requests : call'[q].op = "addRows" =>
            \A c, k \in cols'[q] : c.name = k.name => c = k
    BY <2>1 DEF ApartInv, RowInv
  <2> QED BY <1>3, <2>1, <2>2, QuietApart
<1> QED BY <1>1, <1>2, <1>3, CrashOnward, RestOnward DEF Next, Base

LEMMA InitApart ==
    ASSUME Init
    PROVE  ApartInv
<1>1. \A r \in Requests : pc[r] = "idle" /\ call[r] = NoCall /\ cols[r] = {} /\ found[r] = <<>>
  BY DEF Init
<1>2. times = <<>> /\ DOMAIN entries = {} /\ values = {} BY DEF Init
<1>3. times \in Seq(Requests) /\ DOMAIN times = {} /\ ToSet(times) = {} BY <1>2 DEF ToSet
<1>4. \A r \in Requests : Guests(r) = {} BY <1>1 DEF Guests
<1>5. TimesInv /\ HoldInv /\ GuestsInv
  BY <1>1, <1>2, <1>3, <1>4 DEF TimesInv, HoldInv, GuestsInv
<1>6. OwnInv /\ GoneInv /\ RowInv /\ RowsKeepApart
  BY <1>1, <1>2 DEF OwnInv, GoneInv, RowInv, RowsKeepApart
<1> QED BY <1>5, <1>6 DEF ApartInv

LEMMA ApartHolds == Spec => []ApartInv
<1>1. Init => ApartInv BY InitApart
<1>2. Base /\ MeetInv /\ ApartInv /\ [Next]_vars => ApartInv' BY NextApart
<1> QED BY <1>1, <1>2, InvariantsHold, PTL DEF Spec

----------------------------------------------------------------------------
(* Tables are finite *)

FinInv == IsFiniteSet(DOMAIN sheets) /\ IsFiniteSet(columns)

LEMMA NewColumnsFinite ==
    ASSUME Base, NEW r \in Requests, call[r].op = "update"
    PROVE  IsFiniteSet(NewColumns(r))
<1>1. call[r].body \in Replacements BY DEF Base, RequestsFit, Asks
<1> QED BY <1>1, ReplacementIs, ColumnsAre, FS_EmptySet DEF NewColumns

LEMMA StepFinite ==
    ASSUME Base, FinInv, NEW r \in Requests, Step(r)
    PROVE  FinInv'
<1>1. ASSUME NEW x, DOMAIN sheets' \subseteq DOMAIN sheets \cup {x},
             NEW C, IsFiniteSet(C), columns' \subseteq columns \cup C
      PROVE  FinInv'
  <2>1. IsFiniteSet(DOMAIN sheets \cup {x}) BY FS_AddElement DEF FinInv
  <2>2. IsFiniteSet(columns \cup C) BY <1>1, FS_Union DEF FinInv
  <2>3. IsFiniteSet(DOMAIN sheets') /\ IsFiniteSet(columns') BY <1>1, <2>1, <2>2, FS_Subset
  <2> QED BY <2>3 DEF FinInv
<1>2. ASSUME sheets' = sheets, columns' = columns
      PROVE  FinInv'
  BY <1>2 DEF FinInv
<1>3. ASSUME CreateSheet(r)
      PROVE  FinInv'
  <2> DEFINE C == ColumnsBy(r, r, call[r].body.names)
  <2>1. CASE Throws(r) BY <2>1, <1>2 DEF Throws, db
  <2>2. CASE ~ Throws(r)
    <3>1. /\ sheets' = Put(sheets, r, [dir |-> call[r].dir, active |-> TRUE])
          /\ columns' = columns \cup C
          /\ pc[r] = "sheet"
      BY <1>3, <2>2 DEF CreateSheet
    <3>2. call[r].body \in NewSheets BY <3>1 DEF Base, RequestsFit, Runs, Asks
    <3>4. IsFiniteSet(C) BY <3>2, NewSheetIs, ColumnsAre
    <3> HIDE DEF C
    <3>5. DOMAIN sheets' = DOMAIN sheets \cup {r} BY <3>1 DEF Put
    <3> QED BY <3>1, <3>4, <3>5, <1>1
  <2> QED BY <2>1, <2>2
<1>4. ASSUME NEW E, NEW new, Commit(r, E, new), sheets' = sheets, call[r].op = "update"
      PROVE  FinInv'
  <2>1. columns' \subseteq columns \cup NewColumns(r) BY <1>4 DEF Commit
  <2>2. IsFiniteSet(NewColumns(r)) BY <1>4, NewColumnsFinite
  <2> QED BY <2>1, <2>2, <1>1, <1>4
<1>5. pc[r] \in {"lock", "fetch"} => call[r].op = "update" BY DEF Base, RequestsFit, Runs
<1>6. ASSUME Lock(r)
      PROVE  FinInv'
  BY <1>2, <1>4, <1>5, <1>6 DEF Lock, Throws, db
<1>7. ASSUME Fetch(r)
      PROVE  FinInv'
  BY <1>2, <1>4, <1>5, <1>7 DEF Fetch, Throws, db
<1>8. ASSUME DeleteSheet(r)
      PROVE  FinInv'
  <2>1. CASE Throws(r) BY <2>1, <1>2 DEF Throws, db
  <2>2. CASE ~ Throws(r) BY <2>2, <1>8 DEF DeleteSheet, FinInv
  <2> QED BY <2>1, <2>2
<1>9. ASSUME HardDelete(r)
      PROVE  FinInv'
  <2>1. CASE Throws(r) BY <2>1, <1>2 DEF Throws, db
  <2>2. CASE ~ Throws(r) BY <2>2, <1>1, <1>9, FS_EmptySet DEF HardDelete
  <2> QED BY <2>1, <2>2
<1>10. ASSUME \/ CreateDir(r) \/ DeleteDir(r) \/ AddEntries(r) \/ ReadBack(r)
              \/ AddValues(r) \/ PickColumns(r) \/ Replace(r)
       PROVE  FinInv'
  <2>1. sheets' = sheets /\ columns' = columns
    BY <1>10 DEF CreateDir, DeleteDir, AddEntries, ReadBack, AddValues, PickColumns, Replace, Throws, db
  <2> QED BY <2>1, <1>2
<1> QED BY <1>3, <1>6, <1>7, <1>8, <1>9, <1>10 DEF Step

LEMMA FinHolds == Spec => []FinInv
<1>1. Init => FinInv
  <2> SUFFICES ASSUME Init
               PROVE  FinInv
    OBVIOUS
  <2> DEFINE S == DOMAIN SeedSheets
             D == {ColumnsBy(Seed, s, SeedNames) : s \in S}
             f == [s \in S |-> ColumnsBy(Seed, s, SeedNames)]
  <2>1. IsFiniteSet(S) /\ SeedNames \in Seq(Names) BY ExpensesAssumption
  <2>2. f \in Surjection(S, D) BY DEF Surjection
  <2>3. IsFiniteSet(D) BY <2>1, <2>2, FS_Surjection
  <2>4. \A C \in D : IsFiniteSet(C) BY <2>1, ColumnsAre
  <2>5. sheets = SeedSheets /\ columns = UNION D BY DEF Init
  <2> HIDE DEF D
  <2>6. IsFiniteSet(UNION D) BY <2>3, <2>4, FS_UNION
  <2> QED BY <2>1, <2>5, <2>6 DEF FinInv
<1>2. Base /\ FinInv /\ [Next]_vars => FinInv'
  <2> SUFFICES ASSUME Base, FinInv, [Next]_vars
               PROVE  FinInv'
    OBVIOUS
  <2>1. ASSUME sheets' = sheets, columns' = columns
        PROVE  FinInv'
    BY <2>1 DEF FinInv
  <2>2. ASSUME NEW r \in Requests, Receive(r)
        PROVE  FinInv'
    <3>1. PICK c, p : Arrives(r, c, p) BY <2>2, Arrival DEF Base, Rows
    <3> QED BY <3>1, <2>1 DEF Arrives, db
  <2>3. ASSUME NEW r \in Requests, Fail(r)
        PROVE  FinInv'
    BY <2>1, <2>3 DEF Fail, Throws, db
  <2>4. CASE Crash \/ UNCHANGED vars BY <2>1, <2>4 DEF Crash, vars, db
  <2> QED BY <2>2, <2>3, <2>4, StepFinite DEF Next
<1> QED BY <1>1, <1>2, InvariantsHold, PTL DEF Spec

----------------------------------------------------------------------------
(* Pages, totals and files *)

LEMMA ValuesFinite ==
    ASSUME Base, FinInv
    PROVE  IsFiniteSet(values)
<1> DEFINE T == (DOMAIN entries) \X columns
           f == [v \in values |-> <<v.entry, v.column>>]
<1>1. IsFiniteSet(T) BY FS_Product DEF FinInv, Base, Rows, EntriesFit
<1>2. f \in [values -> T] BY DEF Base, Rows, ValuesFit
<1>3. \A v, w \in values : f[v] = f[w] => v = w BY DEF Base, Rows, ValuesFit
<1> HIDE DEF f, T
<1>4. f \in Injection(values, T) BY <1>2, <1>3 DEF Injection, IsInjective
<1> QED BY <1>1, <1>4, FS_Injection

LEMMA FilledIsSum ==
    ASSUME NEW page, IsFiniteSet(DOMAIN page), \A e \in DOMAIN page : IsFiniteSet(page[e]),
           NEW f, \A e \in DOMAIN page : f[e] = Cardinality(page[e])
    PROVE  Filled(page) = Sum(f, DOMAIN page)
<1> DEFINE S == DOMAIN page
           P(g) == g = [s \in SUBSET S |-> IF s = {} THEN 0
                          ELSE Cardinality(page[CHOOSE x \in s : TRUE]) + g[s \ {CHOOSE x \in s : TRUE}]]
<1>1. Filled(page) = (CHOOSE g : P(g))[S] BY DEF Filled, MapThenSumSet, MapThenFoldSet
<1>2. \A g : P(g) <=> Adds(g, f, S)
  <2> SUFFICES ASSUME NEW g PROVE P(g) <=> Adds(g, f, S) OBVIOUS
  <2>1. ASSUME NEW s \in SUBSET S, s # {}
        PROVE  Cardinality(page[CHOOSE x \in s : TRUE]) + g[s \ {CHOOSE x \in s : TRUE}]
                 = f[Picked(s)] + g[s \ {Picked(s)}]
    <3>1. Picked(s) = (CHOOSE x \in s : TRUE) /\ Picked(s) \in S BY <2>1 DEF Picked
    <3> QED BY <3>1
  <2> QED BY <2>1 DEF Adds
<1>3. Ints(f, S) BY FS_CardinalityType DEF Ints
<1>4. \E g : Adds(g, f, S) BY <1>3, AddsExists
<1> DEFINE gg == CHOOSE g : P(g)
<1>5. P(gg)
  <2> HIDE DEF P
  <2> QED BY <1>2, <1>4
<1> HIDE DEF P, gg
<1>6. Adds(gg, f, S) /\ S \in SUBSET S BY <1>2, <1>5
<1>7. Sum(f, S) = gg[S] BY <1>3, <1>6, SumIs
<1> QED BY <1>1, <1>7 DEF gg

LEMMA GrandTotalIsSum ==
    ASSUME NEW totals
    PROVE  GrandTotal(totals) = Sum(totals, DOMAIN totals)
  BY DEF GrandTotal, Sum

\* The values on an entry, and their names.
ValuesOn(e) == {v \in values : v.entry = e}
NamesOn(e) == {v.column.name : v \in ValuesOn(e)}
ValuesOf(s) == {v \in values : v.entry \in EntriesOf(s)}

LEMMA NamesCount ==
    ASSUME IsFiniteSet(values), NEW e
    PROVE  /\ IsFiniteSet(NamesOn(e)) /\ Cardinality(NamesOn(e)) \in Nat
           /\ IsFiniteSet(ValuesOn(e)) /\ Cardinality(ValuesOn(e)) \in Nat
           /\ Cardinality(NamesOn(e)) <= Cardinality(ValuesOn(e))
           /\ (\A v, w \in ValuesOn(e) : v.column.name = w.column.name => v = w)
                => Cardinality(NamesOn(e)) = Cardinality(ValuesOn(e))
<1> DEFINE f == [v \in ValuesOn(e) |-> v.column.name]
<1>1. IsFiniteSet(ValuesOn(e)) BY FS_Subset DEF ValuesOn
<1>2. f \in Surjection(ValuesOn(e), NamesOn(e)) BY DEF NamesOn, Surjection
<1>3. (\A v, w \in ValuesOn(e) : v.column.name = w.column.name => v = w)
        => f \in Injection(ValuesOn(e), NamesOn(e))
  BY DEF NamesOn, Injection, IsInjective
<1> HIDE DEF f
<1>4. /\ IsFiniteSet(NamesOn(e)) /\ Cardinality(NamesOn(e)) <= Cardinality(ValuesOn(e))
      /\ f \in Injection(ValuesOn(e), NamesOn(e)) => Cardinality(NamesOn(e)) = Cardinality(ValuesOn(e))
  BY <1>1, <1>2, FS_Surjection
<1> QED BY <1>1, <1>3, <1>4, FS_CardinalityType

LEMMA DraftIsBoolean ==
    ASSUME Base, ApartInv, NEW e \in DOMAIN entries
    PROVE  Draft(e) \in BOOLEAN
<1>1. Given(e) BY DEF ApartInv, RowInv
<1>2. call[e[1]].body.rows[e[2]] \in Row BY <1>1 DEF Given
<1> QED BY <1>2 DEF Draft, Row

\* The total of a sheet counts its values.
LEMMA TotalIsCount ==
    ASSUME Base, FinInv, NEW s
    PROVE  /\ GrandTotal(SheetTotals(s)) = Cardinality(ValuesOf(s))
           /\ IsFiniteSet(ValuesOf(s)) /\ Cardinality(ValuesOf(s)) \in Nat
<1> DEFINE f == [v \in values |-> v.column]
           g == SheetTotals(s)
           I == ColumnsOf(s)
           V == ValuesOf(s)
<1>1. IsFiniteSet(V) /\ Cardinality(V) \in Nat
  BY ValuesFinite, FS_Subset, FS_CardinalityType DEF ValuesOf
<1>2. IsFiniteSet(I) BY FS_Subset DEF FinInv, ColumnsOf
<1>3. \A v \in V : f[v] \in I BY DEF ValuesOf, EntriesOf, ColumnsOf, Base, Rows, ValuesFit
<1>4. \A c \in I : g[c] = Cardinality(Fiber(f, V, c))
  <2> TAKE c \in I
  <2>1. Fiber(f, V, c) = {v \in values : v.entry \in EntriesOf(s) /\ v.column = c}
    BY DEF ValuesOf, Fiber
  <2> QED BY <2>1 DEF SheetTotals
<1>5. DOMAIN g = I BY DEF SheetTotals
<1> HIDE DEF f, g, I, V
<1>6. Sum(g, I) = Cardinality(V) BY <1>1, <1>2, <1>3, <1>4, CountByParts
<1> QED BY <1>1, <1>5, <1>6, GrandTotalIsSum DEF g, V

\* What the pages of a sheet show, and its file.
LEMMA ShownIsSum ==
    ASSUME Base, FinInv, ApartInv, NEW s, NEW f,
           \A e \in EntriesOf(s) : f[e] = Cardinality(NamesOn(e))
    PROVE  /\ Filled(PageOf(s, TRUE)) + Filled(PageOf(s, FALSE)) = Sum(f, EntriesOf(s))
           /\ Filled(FileOf(s)) = Sum(f, EntriesOf(s))
<1> DEFINE E == EntriesOf(s)
           D(d) == {x \in E : Draft(x) = d}
<1>1. IsFiniteSet(values) BY ValuesFinite
<1>2. \A e : IsFiniteSet(NamesOn(e)) /\ Cardinality(NamesOn(e)) \in Nat BY <1>1, NamesCount
<1>3. IsFiniteSet(E) /\ E \subseteq DOMAIN entries BY EntriesFinite DEF Base, Rows
<1>4. Ints(f, E) BY <1>2 DEF Ints
<1>5. \A d : IsFiniteSet(D(d)) /\ Ints(f, D(d)) BY <1>3, <1>4, FS_Subset DEF Ints
<1>6. ASSUME NEW d
      PROVE  Filled(PageOf(s, d)) = Sum(f, D(d))
  <2> DEFINE page == PageOf(s, d)
  <2>1. DOMAIN page = D(d) /\ \A e \in D(d) : page[e] = NamesOn(e)
    BY DEF PageOf, NamesOn, ValuesOn
  <2>2. \A e \in D(d) : f[e] = Cardinality(page[e]) /\ IsFiniteSet(page[e]) BY <1>2, <2>1
  <2> HIDE DEF page, D
  <2>3. Filled(page) = Sum(f, DOMAIN page) BY <1>5, <2>1, <2>2, FilledIsSum
  <2> QED BY <2>1, <2>3 DEF page
<1>7. E = D(TRUE) \cup D(FALSE) /\ D(TRUE) \cap D(FALSE) = {} BY <1>3, DraftIsBoolean
<1>8. Sum(f, E) = Sum(f, D(TRUE)) + Sum(f, D(FALSE))
  <2> HIDE DEF D, E
  <2> QED BY <1>5, <1>7, SumUnion
<1>9. Filled(FileOf(s)) = Sum(f, E)
  <2> DEFINE file == FileOf(s)
  <2>1. DOMAIN file = E BY DEF FileOf
  <2>2. ASSUME NEW e \in E
        PROVE  file[e] = NamesOn(e)
    <3>1. entries[e] = s BY DEF EntriesOf
    <3>2. \A v \in ValuesOn(e) : v.column \in ColumnsOf(s)
      BY <3>1 DEF ValuesOn, ColumnsOf, Base, Rows, ValuesFit
    <3>3. file[e] = {c.name : c \in {x \in ColumnsOf(s) : \E v \in values : v.entry = e /\ v.column.name = x.name}}
      BY DEF FileOf
    <3> HIDE DEF file
    <3>4. \A n \in file[e] : n \in NamesOn(e) BY <3>3 DEF ValuesOn, NamesOn
    <3>5. \A n \in NamesOn(e) : n \in file[e] BY <3>2, <3>3 DEF ValuesOn, NamesOn
    <3> QED BY <3>4, <3>5
  <2>3. \A e \in E : f[e] = Cardinality(file[e]) /\ IsFiniteSet(file[e]) BY <1>2, <2>2
  <2> HIDE DEF file, E
  <2>a. IsFiniteSet(DOMAIN file) BY <1>3, <2>1
  <2>b. /\ \A e \in DOMAIN file : IsFiniteSet(file[e])
        /\ \A e \in DOMAIN file : f[e] = Cardinality(file[e])
    BY <2>1, <2>3
  <2>4. Filled(file) = Sum(f, DOMAIN file) BY <2>a, <2>b, FilledIsSum
  <2> QED BY <2>1, <2>4 DEF file
<1> QED BY <1>6, <1>8, <1>9

LEMMA SheetAddsUp ==
    ASSUME Base, FinInv, ApartInv, NEW s
    PROVE  LET shown == Filled(PageOf(s, TRUE)) + Filled(PageOf(s, FALSE))
               total == GrandTotal(SheetTotals(s))
           IN
           /\ shown = Filled(FileOf(s))
           /\ shown <= total
           /\ shown < total => SharedBy(s) # {}
<1> DEFINE E == EntriesOf(s)
           f == [e \in E |-> Cardinality(NamesOn(e))]
           g == [e \in E |-> Cardinality(ValuesOn(e))]
           at == [v \in values |-> v.entry]
           V == ValuesOf(s)
<1>1. IsFiniteSet(values) BY ValuesFinite
<1>2. \A e \in E : /\ f[e] \in Nat /\ g[e] \in Nat /\ f[e] <= g[e]
                   /\ (\A v, w \in ValuesOn(e) : v.column.name = w.column.name => v = w) => f[e] = g[e]
  BY <1>1, NamesCount
<1>3. IsFiniteSet(E) BY EntriesFinite DEF Base, Rows
<1>4. Ints(f, E) /\ Ints(g, E) BY <1>2 DEF Ints
<1>5. /\ Filled(PageOf(s, TRUE)) + Filled(PageOf(s, FALSE)) = Sum(f, E)
      /\ Filled(FileOf(s)) = Sum(f, E)
  <2>1. \A e \in E : f[e] = Cardinality(NamesOn(e)) OBVIOUS
  <2> HIDE DEF f
  <2> QED BY <2>1, ShownIsSum
<1>6. GrandTotal(SheetTotals(s)) = Sum(g, E)
  <2>1. \A v \in V : at[v] \in E BY DEF ValuesOf
  <2>2. \A e \in E : g[e] = Cardinality(Fiber(at, V, e))
    <3> TAKE e \in E
    <3>1. Fiber(at, V, e) = ValuesOn(e) BY DEF ValuesOf, ValuesOn, Fiber
    <3> QED BY <3>1
  <2>3. IsFiniteSet(V) /\ GrandTotal(SheetTotals(s)) = Cardinality(V) BY TotalIsCount
  <2> HIDE DEF at, g, E, V
  <2>4. Sum(g, E) = Cardinality(V) BY <1>3, <2>1, <2>2, <2>3, CountByParts
  <2> QED BY <2>3, <2>4
<1>7. SharedBy(s) = {} => \A e \in E : f[e] = g[e]
  <2> SUFFICES ASSUME SharedBy(s) = {}, NEW e \in E
               PROVE  f[e] = g[e]
    OBVIOUS
  <2>1. ASSUME NEW v \in ValuesOn(e), NEW w \in ValuesOn(e), v.column.name = w.column.name
        PROVE  v = w
    <3>1. v \in values /\ w \in values /\ v.entry = e /\ w.entry = e /\ entries[e] = s
      BY DEF ValuesOn, EntriesOf
    <3>2. v # w => v.row = w.row
      <4>1. <<v, w>> \in values \X values /\ <<v, w>>[1] = v /\ <<v, w>>[2] = w BY <3>1
      <4> QED BY <3>1, <4>1 DEF SharedBy
    <3> QED BY <2>1, <3>1, <3>2 DEF ApartInv, RowInv
  <2> QED BY <2>1, <1>2
<1> HIDE DEF f, g, E
<1>8. Sum(f, E) <= Sum(g, E) /\ Sum(f, E) \in Int /\ Sum(g, E) \in Int
  BY <1>2, <1>3, <1>4, SumAtMost, SumInt
<1>9. SharedBy(s) = {} => Sum(f, E) = Sum(g, E) BY <1>3, <1>4, <1>7, SumSame
<1> DEFINE shown == Filled(PageOf(s, TRUE)) + Filled(PageOf(s, FALSE))
           total == GrandTotal(SheetTotals(s))
           file == Filled(FileOf(s))
<1>10. shown = Sum(f, E) /\ file = Sum(f, E) /\ total = Sum(g, E) BY <1>5, <1>6
<1> HIDE DEF shown, total, file
<1>11. shown = file /\ shown <= total /\ (shown < total => SharedBy(s) # {})
  BY <1>8, <1>9, <1>10
<1> QED BY <1>11 DEF shown, total, file

\* The sum over the sheets of their totals.
LEMMA SheetsTotalIsSum ==
    ASSUME NEW S, IsFiniteSet(S), NEW f, \A s \in S : f[s] = GrandTotal(SheetTotals(s)), Ints(f, S)
    PROVE  MapThenSumSet(LAMBDA s : GrandTotal(SheetTotals(s)), S) = Sum(f, S)
<1> DEFINE P(g) == g = [s \in SUBSET S |-> IF s = {} THEN 0
                          ELSE GrandTotal(SheetTotals(CHOOSE x \in s : TRUE)) + g[s \ {CHOOSE x \in s : TRUE}]]
<1>1. MapThenSumSet(LAMBDA s : GrandTotal(SheetTotals(s)), S) = (CHOOSE g : P(g))[S]
  BY DEF MapThenSumSet, MapThenFoldSet
<1>2. \A g : P(g) <=> Adds(g, f, S)
  <2> SUFFICES ASSUME NEW g PROVE P(g) <=> Adds(g, f, S) OBVIOUS
  <2>1. ASSUME NEW s \in SUBSET S, s # {}
        PROVE  GrandTotal(SheetTotals(CHOOSE x \in s : TRUE)) + g[s \ {CHOOSE x \in s : TRUE}]
                 = f[Picked(s)] + g[s \ {Picked(s)}]
    <3>1. Picked(s) = (CHOOSE x \in s : TRUE) /\ Picked(s) \in S BY <2>1 DEF Picked
    <3>2. f[Picked(s)] = GrandTotal(SheetTotals(Picked(s))) BY <3>1
    <3> QED BY <3>1, <3>2
  <2> QED BY <2>1 DEF Adds
<1>3. \E g : Adds(g, f, S) BY AddsExists
<1> DEFINE gg == CHOOSE g : P(g)
<1>4. P(gg)
  <2> HIDE DEF P
  <2> QED BY <1>2, <1>3
<1> HIDE DEF P, gg
<1>5. Adds(gg, f, S) /\ S \in SUBSET S BY <1>2, <1>4
<1>6. Sum(f, S) = gg[S] BY <1>5, SumIs
<1> QED BY <1>1, <1>6 DEF gg

LEMMA StoreAddsUp ==
    ASSUME Base, FinInv
    PROVE  GrandTotal(StoreTotals) = MapThenSumSet(LAMBDA s : GrandTotal(SheetTotals(s)), SheetsListed)
<1> DEFINE V == {v \in values : entries[v.entry] \in SheetsListed}
           C == {c \in columns : c.sheet \in SheetsListed}
           N == {c.name : c \in C}
           of(n) == {v \in values : entries[v.entry] \in SheetsListed /\ v.column.name = n}
           named == [v \in values |-> v.column.name]
           in == [v \in values |-> entries[v.entry]]
           f == [s \in SheetsListed |-> GrandTotal(SheetTotals(s))]
           t == [n \in N |-> Cardinality(of(n))]
<1>1. IsFiniteSet(V) BY ValuesFinite, FS_Subset
<1>2. IsFiniteSet(SheetsListed) BY FS_Subset DEF FinInv, SheetsListed
<1>3. IsFiniteSet(N)
  <2>1. IsFiniteSet(C) BY FS_Subset DEF FinInv
  <2>2. [c \in C |-> c.name] \in Surjection(C, N) BY DEF Surjection
  <2> HIDE DEF C, N
  <2> QED BY <2>1, <2>2, FS_Surjection
<1>4. GrandTotal(StoreTotals) = Sum(t, N)
  <2>1. StoreTotals = t /\ DOMAIN t = N BY DEF StoreTotals
  <2> HIDE DEF t, N
  <2> QED BY <2>1, GrandTotalIsSum
<1>5. Sum(t, N) = Cardinality(V)
  <2>1. \A v \in V : named[v] \in N BY DEF Base, Rows, ValuesFit
  <2>2. \A n \in N : t[n] = Cardinality(Fiber(named, V, n))
    <3> TAKE n \in N
    <3>1. Fiber(named, V, n) = of(n) BY DEF Fiber
    <3>2. t[n] = Cardinality(of(n)) OBVIOUS
    <3> QED BY <3>1, <3>2
  <2> HIDE DEF t, N, V, named
  <2> QED BY <1>1, <1>3, <2>1, <2>2, CountByParts
<1>6. \A s \in SheetsListed : f[s] = Cardinality(Fiber(in, V, s))
  <2> TAKE s \in SheetsListed
  <2>1. Fiber(in, V, s) = ValuesOf(s) BY DEF Fiber, ValuesOf, EntriesOf, Base, Rows, ValuesFit
  <2> QED BY <2>1, TotalIsCount
<1>7. Ints(f, SheetsListed) /\ \A s \in SheetsListed : f[s] = GrandTotal(SheetTotals(s))
  BY TotalIsCount DEF Ints
<1>8. \A v \in V : in[v] \in SheetsListed OBVIOUS
<1> HIDE DEF f, V, in
<1>9. Sum(f, SheetsListed) = Cardinality(V) BY <1>1, <1>2, <1>6, <1>8, CountByParts
<1>10. MapThenSumSet(LAMBDA s : GrandTotal(SheetTotals(s)), SheetsListed) = Sum(f, SheetsListed)
  BY <1>2, <1>7, SheetsTotalIsSum
<1> QED BY <1>4, <1>5, <1>9, <1>10

LEMMA PagesAgree ==
    ASSUME Base, FinInv, ApartInv
    PROVE  PagesAddUp
<1>1. ASSUME NEW v \in values, Draft(v.entry) # Draft(v.row)
      PROVE  Mixed(v.row[1]) \/ Met(v.entry[1], v.row[1])
  <2>1. v.entry[1] = v.row[1] \/ Met(v.entry[1], v.row[1]) BY DEF ApartInv, RowsKeepApart
  <2>2. Given(v.entry) /\ Given(v.row) BY DEF ApartInv, RowInv, Base, Rows, ValuesFit
  <2>3. v.entry[1] = v.row[1] => Mixed(v.row[1]) BY <2>2, <1>1 DEF Given, Draft, Mixed
  <2> QED BY <2>1, <2>3
<1> QED BY <1>1, SheetAddsUp, StoreAddsUp DEF PagesAddUp

\* A sheet keeps its rows and its columns apart, and its pages, totals and file
\* agree, unless requests on it race (addDraftEntries, updateWithData).
THEOREM SheetsKeepApartHolds == Spec => []SheetsKeepApart
<1>1. Base /\ FinInv /\ ApartInv /\ NamesInv => SheetsKeepApart
  BY PagesAgree DEF SheetsKeepApart, ApartInv, NamesInv
<1> QED BY <1>1, InvariantsHold, FinHolds, ApartHolds, PTL

===============================================================================
