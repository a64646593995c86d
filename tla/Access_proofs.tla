---------------------------- MODULE Access_proofs ----------------------------
(***************************************************************************)
(* Theorems about Access, for any employees, templates, stores and actions.  *)
(***************************************************************************)
EXTENDS Access, FiniteSetTheorems, TLAPS

(* Operators the model is built from *)

LEMMA OneAction == \A a \in Actions : {a} \subseteq Actions /\ {a} # {}
<1> TAKE a \in Actions
<1>1. a \in {a} OBVIOUS
<1>2. {a} # {} BY <1>1
<1> QED BY <1>2

LEMMA RightOf ==
    ASSUME NEW x, NEW u \in Emails, NEW s \in Places, NEW A \in SUBSET Actions, A # {},
           NEW g \in {"lasting", "timed", "expired", "denied"},
           x = [user |-> u, store |-> s, actions |-> A, grant |-> g]
    PROVE  x \in Right /\ x.user = u /\ x.store = s /\ x.actions = A /\ x.grant = g
  BY DEF Right

\* What was there stays, unless the request gives it to the user anew.
LEMMA GrantGives ==
    ASSUME NEW f, NEW r \in Makers, NEW u \in Emails, NEW X, X \subseteq Places \X Actions
    PROVE  /\ DOMAIN f \subseteq DOMAIN Grant(f, r, u, X)
           /\ \A i \in DOMAIN Grant(f, r, u, X) :
                 \/ i \in DOMAIN f /\ Grant(f, r, u, X)[i] = f[i]
                 \/ /\ i \in RightIds /\ i[1] = r /\ i[2] = u
                    /\ Grant(f, r, u, X)[i] \in Right
                    /\ Grant(f, r, u, X)[i].user = i[2] /\ Grant(f, r, u, X)[i].store = i[3]
<1> DEFINE new == {<<r, u, x[1], {x[2]}>> : x \in X}
           g == [i \in (DOMAIN f) \cup new |->
                   IF i \in new
                   THEN [user |-> u, store |-> i[3], actions |-> i[4], grant |-> "lasting"]
                   ELSE f[i]]
<1>1. Grant(f, r, u, X) = g BY DEF Grant
<1>2. \A i \in new : /\ i \in RightIds /\ i[1] = r /\ i[2] = u
                     /\ i[3] \in Places /\ i[4] \in SUBSET Actions /\ i[4] # {}
  <2> TAKE i \in new
  <2>1. PICK x \in X : i = <<r, u, x[1], {x[2]}>> OBVIOUS
  <2>2. x[1] \in Places /\ x[2] \in Actions OBVIOUS
  <2>3. {x[2]} \in SUBSET Actions /\ {x[2]} # {} BY <2>2, OneAction
  <2> QED BY <2>1, <2>2, <2>3 DEF RightIds
<1> HIDE DEF new
<1>3. DOMAIN g = (DOMAIN f) \cup new OBVIOUS
<1>4. ASSUME NEW i \in DOMAIN g
      PROVE  \/ i \in DOMAIN f /\ g[i] = f[i]
             \/ /\ i \in RightIds /\ i[1] = r /\ i[2] = u
                /\ g[i] \in Right /\ g[i].user = i[2] /\ g[i].store = i[3]
  <2>1. CASE i \in new
    <3>1. g[i] = [user |-> u, store |-> i[3], actions |-> i[4], grant |-> "lasting"] BY <2>1
    <3> HIDE DEF g
    <3>2. g[i] \in Right /\ g[i].user = u /\ g[i].store = i[3] BY <3>1, <1>2, <2>1, RightOf
    <3> QED BY <3>2, <1>2, <2>1
  <2>2. CASE i \notin new BY <2>2
  <2> QED BY <2>1, <2>2
<1> HIDE DEF g
<1> QED BY <1>1, <1>3, <1>4

LEMMA FirstIsStage == \A plan : First(plan) \in Stages
  BY DEF First, Stages

LEMMA RestIsWork == Rest \in Work
  BY DEF Rest, Work

LEMMA RestFits == \A c, U : \A p \in Ended : Fits(c, p, Rest, U)
  BY RestIsWork DEF Fits, Runs, Rest, Ended

LEMMA AsksGrow ==
    ASSUME NEW c, NEW U, NEW V, NEW T, NEW S, U \subseteq V, T \subseteq S, Asks(c, U, T)
    PROVE  Asks(c, V, S)
  BY DEF Asks

LEMMA FitsGrow ==
    ASSUME NEW c, NEW p, NEW w, NEW U, NEW V, U \subseteq V, Fits(c, p, w, U)
    PROVE  Fits(c, p, w, V)
  BY DEF Fits

----------------------------------------------------------------------------
(* Types: how a request goes on *)

LEMMA Goes ==
    ASSUME RequestsFit, NEW r \in Requests, NEW p \in Pcs, NEW w, Goto(r, p, w), call' = call,
           users \subseteq users', DOMAIN templates \subseteq DOMAIN templates',
           p \notin Ended => Fits(call[r], p, w, users')
    PROVE  RequestsFit'
<1>1. /\ pc' = [pc EXCEPT ![r] = p]
      /\ work' = [work EXCEPT ![r] = IF p \in Ended THEN Rest ELSE w]
  BY DEF Goto
<1>2. \A q \in Requests : /\ Asks(call[q], users', DOMAIN templates')
                          /\ Fits(call[q], pc[q], work[q], users')
  BY AsksGrow, FitsGrow DEF RequestsFit
<1>3. pc' \in [Requests -> Pcs] /\ DOMAIN work' = Requests /\ DOMAIN call' = Requests
  BY <1>1 DEF RequestsFit
<1>4. Fits(call[r], pc'[r], work'[r], users') BY <1>1, RestFits DEF RequestsFit
<1>5. \A q \in Requests \ {r} : pc'[q] = pc[q] /\ work'[q] = work[q] BY <1>1 DEF RequestsFit
<1>6. ASSUME NEW q \in Requests
      PROVE  Asks(call'[q], users', DOMAIN templates') /\ Fits(call'[q], pc'[q], work'[q], users')
  BY <1>2, <1>4, <1>5
<1> QED BY <1>3, <1>6 DEF RequestsFit

LEMMA Ends ==
    ASSUME RequestsFit, NEW r \in Requests, NEW p \in Ended, NEW w, Goto(r, p, w), call' = call,
           users \subseteq users', DOMAIN templates \subseteq DOMAIN templates'
    PROVE  RequestsFit'
<1>1. p \in Pcs BY DEF Ended, Pcs
<1> QED BY <1>1, Goes

LEMMA Begins ==
    ASSUME RequestsFit, NEW r \in Requests, NEW c, NEW p \in Pcs, NEW w, Begin(r, c, p, w),
           p # "refused" => Asks(c, users, DOMAIN templates),
           p \notin Ended => Fits(c, p, w, users)
    PROVE  RequestsFit'
<1>1. /\ pc' = [pc EXCEPT ![r] = p]
      /\ work' = [work EXCEPT ![r] = IF p \in Ended THEN Rest ELSE w]
      /\ call' = IF p = "refused" THEN call ELSE [call EXCEPT ![r] = c]
      /\ users' = users /\ templates' = templates
  BY DEF Begin, Goto, db
<1>2. pc' \in [Requests -> Pcs] /\ DOMAIN work' = Requests /\ DOMAIN call' = Requests
  BY <1>1 DEF RequestsFit
<1>3. Asks(call'[r], users, DOMAIN templates) BY <1>1 DEF RequestsFit
<1>4. Fits(call'[r], pc'[r], work'[r], users)
  <2>1. CASE p = "refused" BY <2>1, <1>1, RestFits DEF RequestsFit, Ended
  <2>2. CASE p # "refused" BY <2>2, <1>1, RestFits DEF RequestsFit, Ended
  <2> QED BY <2>1, <2>2
<1>5. \A q \in Requests \ {r} : pc'[q] = pc[q] /\ work'[q] = work[q] /\ call'[q] = call[q]
  BY <1>1 DEF RequestsFit
<1>6. ASSUME NEW q \in Requests
      PROVE  /\ Asks(call'[q], users', DOMAIN templates')
             /\ Fits(call'[q], pc'[q], work'[q], users')
  BY <1>1, <1>3, <1>4, <1>5 DEF RequestsFit
<1> QED BY <1>2, <1>6 DEF RequestsFit

LEMMA StaysTyped ==
    ASSUME TypeInv, RequestsFit', UNCHANGED db, torn' \subseteq Requests
    PROVE  TypeInv'
  BY DEF TypeInv, RowsFit, db

LEMMA FailTyped ==
    ASSUME TypeInv, NEW r \in Requests, Fail(r)
    PROVE  TypeInv'
<1>1. Goto(r, "failed", Rest) /\ UNCHANGED <<db, call, torn>> BY DEF Fail
<1>2. RequestsFit' BY <1>1, Ends DEF TypeInv, Ended, db
<1> QED BY <1>1, <1>2, StaysTyped DEF TypeInv

LEMMA NextUserTyped ==
    ASSUME TypeInv, NEW r \in Requests, NextUser(r)
    PROVE  TypeInv'
<1>1. PICK u \in work[r].todo :
        Goto(r, IF call[r].store = None \/ <<u, call[r].store>> \in members
                THEN "find" ELSE "join", [work[r] EXCEPT !.user = u])
  BY DEF NextUser
<1> DEFINE p == IF call[r].store = None \/ <<u, call[r].store>> \in members
                THEN "find" ELSE "join"
           w == [work[r] EXCEPT !.user = u]
<1>2. pc[r] = "next" /\ UNCHANGED <<db, call, torn>> BY DEF NextUser
<1>3. Asks(call[r], users, DOMAIN templates) /\ Fits(call[r], pc[r], work[r], users)
  BY DEF TypeInv, RequestsFit
<1>4. /\ work[r] \in Work /\ call[r].op = "assign" /\ call[r].store \in Places
      /\ work[r].todo \subseteq call[r].users /\ call[r].users \subseteq Emails
      /\ work[r].held = {}
  BY <1>2, <1>3 DEF Fits, Runs, Asks, Ended
<1>5. w \in Work /\ w.user = u /\ w.todo = work[r].todo /\ w.held = {} BY <1>4 DEF Work
<1>6. Fits(call[r], p, w, users) BY <1>4, <1>5 DEF Fits, Runs, Ended, Places
<1>7. RequestsFit'
  <2>1. p \in Pcs BY DEF Pcs
  <2> HIDE DEF p, w
  <2> QED BY <2>1, <1>1, <1>2, <1>6, Goes DEF TypeInv, db, p, w
<1> QED BY <1>2, <1>7, StaysTyped DEF TypeInv

LEMMA FindRightTyped ==
    ASSUME TypeInv, NEW r \in Requests, FindRight(r)
    PROVE  TypeInv'
<1> DEFINE rows == RightsAt(work[r].user, call[r].store)
<1>1. pc[r] = "find" /\ UNCHANGED <<db, call, torn>> BY DEF FindRight
<1>2. \/ rows = {} /\ Goto(r, IF Is(r, "revoke") THEN "ok" ELSE "write",
                            [work[r] EXCEPT !.found = None])
      \/ \E i \in rows :
            Goto(r, "write", [work[r] EXCEPT !.found = [id |-> i, actions |-> rights[i].actions]])
  BY DEF FindRight
<1>3. Asks(call[r], users, DOMAIN templates) /\ Fits(call[r], pc[r], work[r], users)
  BY DEF TypeInv, RequestsFit
<1>4. /\ work[r] \in Work /\ call[r].op \in {"assign", "revoke"} /\ work[r].held = {}
      /\ call[r].op = "revoke" => call[r].users = {work[r].user}
      /\ call[r].op = "assign" => /\ work[r].todo \subseteq call[r].users
                                 /\ work[r].user \in work[r].todo
  BY <1>1, <1>3 DEF Fits, Runs, Ended
<1>5. "write" \in Pcs BY DEF Pcs
<1>6. CASE /\ rows = {}
           /\ Goto(r, IF Is(r, "revoke") THEN "ok" ELSE "write", [work[r] EXCEPT !.found = None])
  <2> DEFINE w == [work[r] EXCEPT !.found = None]
  <2>1. w \in Work /\ w.user = work[r].user /\ w.todo = work[r].todo /\ w.held = {}
        /\ w.found = None
    BY <1>4 DEF Work
  <2>2. CASE Is(r, "revoke")
    <3>1. Goto(r, "ok", w) BY <2>2, <1>6
    <3> HIDE DEF w
    <3>2. RequestsFit' BY <3>1, <1>1, Ends DEF Ended, TypeInv, db
    <3> QED BY <3>2, <1>1, StaysTyped DEF TypeInv
  <2>3. CASE ~ Is(r, "revoke")
    <3>1. Fits(call[r], "write", w, users) BY <2>1, <2>3, <1>4 DEF Fits, Runs, Ended, Is
    <3>2. Goto(r, "write", w) BY <1>6, <2>3
    <3> HIDE DEF w
    <3>3. RequestsFit' BY <3>1, <3>2, <1>1, <1>5, Goes DEF TypeInv, db
    <3> QED BY <3>3, <1>1, StaysTyped DEF TypeInv
  <2> QED BY <2>2, <2>3
<1>7. ASSUME NEW i \in rows,
             Goto(r, "write", [work[r] EXCEPT !.found = [id |-> i, actions |-> rights[i].actions]])
      PROVE  TypeInv'
  <2> DEFINE w == [work[r] EXCEPT !.found = [id |-> i, actions |-> rights[i].actions]]
  <2>1. /\ i \in RightIds /\ rights[i].actions \subseteq Actions
        /\ i[2] = work[r].user /\ i[3] = call[r].store
    BY DEF RightsAt, RightsOf, TypeInv, RowsFit, Right
  <2>2. [id |-> i, actions |-> rights[i].actions] \in Found BY <2>1 DEF Found
  <2>3. /\ w \in Work /\ w.user = work[r].user /\ w.todo = work[r].todo /\ w.held = {}
        /\ w.found \in Found /\ w.found.id = i
    BY <1>4, <2>2 DEF Work
  <2>5. Fits(call[r], "write", w, users) BY <2>1, <2>3, <1>4 DEF Fits, Runs, Ended
  <2>6. Goto(r, "write", w) BY <1>7
  <2> HIDE DEF w
  <2>7. RequestsFit' BY <2>5, <2>6, <1>1, <1>5, Goes DEF TypeInv, db
  <2> QED BY <2>7, <1>1, StaysTyped DEF TypeInv
<1> QED BY <1>2, <1>6, <1>7

LEMMA StagesArePcs == Stages \subseteq Pcs /\ Stages \cap Ended = {}
  BY DEF Stages, Pcs, Ended

LEMMA EditFits ==
    ASSUME NEW c, NEW w \in Work, NEW p \in Stages \cup {"take"}, NEW U, c.op = "edit",
           c.users = {w.user}, w.snap \cup w.held \subseteq RowsOf(w.user)
    PROVE  Fits(c, p, w, U)
  BY DEF Fits, Runs, Stages, Ended

\* A statement of an edit is over.
LEMMA AdvanceTyped ==
    ASSUME TypeInv, NEW r \in Requests, NEW w \in Work, Advance(r, w), Is(r, "edit"),
           UNCHANGED <<db, call, torn>>, w.user = work[r].user, call[r].users = {w.user},
           w.snap \cup w.held \subseteq RowsOf(w.user)
    PROVE  TypeInv'
<1> DEFINE p == First(Ahead(r))
           v == [w EXCEPT !.plan = Ahead(r)]
<1>1. Goto(r, p, v) BY DEF Advance, After
<1>2. Ahead(r) \subseteq Stages BY DEF TypeInv, RequestsFit, Fits, Work, Ahead
<1>3. v \in Work /\ v.user = w.user /\ v.snap = w.snap /\ v.held = w.held BY <1>2 DEF Work
<1>4. p \in Stages BY FirstIsStage
<1> HIDE DEF p, v
<1>5. Fits(call[r], p, v, users) BY <1>3, <1>4, EditFits DEF Is
<1>6. RequestsFit' BY <1>1, <1>4, <1>5, StagesArePcs, Goes DEF TypeInv, db
<1> QED BY <1>6, StaysTyped DEF TypeInv

\* What a request is, by its kind and the statement it is at.
LEMMA AtWork ==
    ASSUME TypeInv, NEW r \in Requests
    PROVE  /\ Asks(call[r], users, DOMAIN templates) /\ Fits(call[r], pc[r], work[r], users)
           /\ work[r] \in Work /\ Runs(pc[r], call[r].op) /\ call[r].users \subseteq Emails
  BY DEF TypeInv, RequestsFit, Fits, Asks

LEMMA DrawTyped ==
    ASSUME TypeInv, NEW r \in Requests, Draw(r)
    PROVE  TypeInv'
<1>1. pc[r] = "draw" /\ UNCHANGED <<db, call, torn>> BY DEF Draw
<1>2. PICK t \in Source(r) : Advance(r, [work[r] EXCEPT !.grants = Granted(t)]) BY DEF Draw
<1> DEFINE w == [work[r] EXCEPT !.grants = Granted(t)]
<1>3. Fits(call[r], pc[r], work[r], users) /\ work[r] \in Work BY AtWork
<1>4. Granted(t) \subseteq Actions BY DEF TypeInv, RowsFit, Template, Granted, IsActive
<1>5. /\ w \in Work /\ w.user = work[r].user /\ w.held = work[r].held /\ w.snap = work[r].snap
      /\ w.found = work[r].found
  BY <1>3, <1>4 DEF Work
<1>6. Advance(r, w) BY <1>2
<1> HIDE DEF w
<1>7. CASE Is(r, "edit")
  <2>1. call[r].users = {w.user} /\ w.snap \cup w.held \subseteq RowsOf(w.user)
    BY <1>1, <1>3, <1>5, <1>7 DEF Fits, Is, Ended
  <2> QED BY <2>1, <1>1, <1>5, <1>6, <1>7, AdvanceTyped
<1>8. CASE ~ Is(r, "edit")
  <2> DEFINE p == IF Is(r, "hire") THEN "commit" ELSE "insert"
  <2>1. Goto(r, p, w) BY <1>6, <1>8 DEF Advance, After
  <2>2. Fits(call[r], p, w, users) BY <1>1, <1>3, <1>5, <1>8 DEF Fits, Runs, Is, Ended
  <2>3. p \in Pcs BY DEF Pcs
  <2> HIDE DEF p
  <2>4. RequestsFit' BY <1>1, <2>1, <2>2, <2>3, Goes DEF TypeInv, db
  <2> QED BY <2>4, <1>1, StaysTyped DEF TypeInv
<1> QED BY <1>7, <1>8

LEMMA LockUserTyped ==
    ASSUME TypeInv, NEW r \in Requests, LockUser(r)
    PROVE  TypeInv'
<1> DEFINE row == {<<work[r].user>>}
           w == [work[r] EXCEPT !.held = @ \cup row]
<1>1. pc[r] = "user" /\ Advance(r, w) /\ UNCHANGED <<db, call, torn>> BY DEF LockUser
<1>2. Fits(call[r], pc[r], work[r], users) /\ work[r] \in Work /\ call[r].users \subseteq Emails
  BY AtWork
<1>3. /\ Is(r, "edit") /\ call[r].users = {work[r].user} /\ work[r].user \in Emails
      /\ work[r].snap \cup work[r].held \subseteq RowsOf(work[r].user)
  BY <1>1, <1>2 DEF Fits, Runs, Is, Ended
<1>4. row \subseteq RowsOf(work[r].user) BY DEF RowsOf
<1>5. work[r].held \cup row \subseteq UNION {RowsOf(u) : u \in Emails} BY <1>3, <1>4
<1> HIDE DEF row
<1>6. /\ w \in Work /\ w.user = work[r].user /\ w.snap = work[r].snap
      /\ w.held = work[r].held \cup row
  BY <1>2, <1>5 DEF Work
<1> HIDE DEF w
<1>7. w.snap \cup w.held \subseteq RowsOf(w.user) BY <1>3, <1>4, <1>6
<1> QED BY <1>1, <1>3, <1>6, <1>7, AdvanceTyped

LEMMA LookTyped ==
    ASSUME TypeInv, NEW r \in Requests, Look(r)
    PROVE  TypeInv'
<1> DEFINE u == work[r].user
           S == CASE pc[r] = "roles" -> RolesOf(u)
                  [] pc[r] = "rights" -> RightsOf(u)
                  [] OTHER -> {p \in members : p[1] = u}
           w == [work[r] EXCEPT !.snap = S]
<1>1. pc[r] \in {"roles", "rights", "stores"} /\ Goto(r, "take", w) /\ UNCHANGED <<db, call, torn>>
  BY DEF Look
<1>2. Fits(call[r], pc[r], work[r], users) /\ work[r] \in Work /\ call[r].users \subseteq Emails
  BY AtWork
<1>3. /\ call[r].op \in {"edit", "setStores"} /\ call[r].users = {u} /\ u \in Emails
      /\ work[r].held \subseteq RowsOf(u)
      /\ call[r].op = "setStores" => work[r].todo \subseteq call[r].stores
      /\ work[r].held # {} => call[r].op = "edit"
  BY <1>1, <1>2 DEF Fits, Runs, Ended
<1>4. RolesOf(u) \subseteq RowsOf(u) BY DEF TypeInv, RowsFit, RolesOf, RowsOf, RoleIds
<1>5. RightsOf(u) \subseteq RowsOf(u) BY DEF TypeInv, RowsFit, RightsOf, RowsOf, RightIds
<1>6. {p \in members : p[1] = u} \subseteq RowsOf(u) BY DEF TypeInv, RowsFit, RowsOf
<1>7. S \subseteq RowsOf(u) BY <1>1, <1>4, <1>5, <1>6
<1> HIDE DEF S
<1>8. S \subseteq UNION {RowsOf(e) : e \in Emails} BY <1>3, <1>7
<1>9. /\ w \in Work /\ w.user = u /\ w.snap = S /\ w.held = work[r].held
      /\ w.todo = work[r].todo
  BY <1>2, <1>8 DEF Work
<1> HIDE DEF w
<1>10. Fits(call[r], "take", w, users) BY <1>3, <1>7, <1>9 DEF Fits, Runs, Ended
<1>11. RequestsFit' BY <1>1, <1>10, Goes DEF TypeInv, db, Pcs
<1> QED BY <1>11, <1>1, StaysTyped DEF TypeInv

LEMMA TakeTyped ==
    ASSUME TypeInv, NEW r \in Requests, Take(r)
    PROVE  TypeInv'
<1> DEFINE left == work[r].snap \cap (DOMAIN roles \cup DOMAIN rights \cup members)
           w == [work[r] EXCEPT !.held = @ \cup left, !.snap = {}]
<1>1. /\ pc[r] = "take" /\ Is(r, "edit") /\ Advance(r, w)
      /\ UNCHANGED <<db, call, torn>>
  BY DEF Take
<1>2. Fits(call[r], pc[r], work[r], users) /\ work[r] \in Work /\ call[r].users \subseteq Emails
  BY AtWork
<1>3. /\ call[r].users = {work[r].user} /\ work[r].user \in Emails
      /\ work[r].snap \cup work[r].held \subseteq RowsOf(work[r].user)
  BY <1>1, <1>2 DEF Fits, Is, Ended
<1>4. left \subseteq work[r].snap OBVIOUS
<1> HIDE DEF left
<1>5. work[r].held \cup left \subseteq UNION {RowsOf(u) : u \in Emails} BY <1>3, <1>4
<1>6. w \in Work /\ w.user = work[r].user /\ w.snap = {} /\ w.held = work[r].held \cup left
  BY <1>2, <1>5 DEF Work
<1> HIDE DEF w
<1>7. w.snap \cup w.held \subseteq RowsOf(w.user) BY <1>3, <1>4, <1>6
<1> QED BY <1>1, <1>3, <1>6, <1>7, AdvanceTyped

LEMMA MailTyped ==
    ASSUME TypeInv, NEW r \in Requests, Mail(r)
    PROVE  TypeInv'
<1>1. Goto(r, "ok", work[r]) /\ UNCHANGED <<db, call, torn>> BY DEF Mail
<1>2. RequestsFit' BY <1>1, Ends DEF TypeInv, Ended, db
<1> QED BY <1>1, <1>2, StaysTyped DEF TypeInv

LEMMA CountRolesTyped ==
    ASSUME TypeInv, NEW r \in Requests, CountRoles(r)
    PROVE  TypeInv'
<1>1. pc[r] = "count" /\ UNCHANGED <<db, call, torn>> BY DEF CountRoles
<1>2. Goto(r, "refused", work[r]) \/ Goto(r, "retire", work[r]) BY DEF CountRoles
<1>3. ASSUME Goto(r, "refused", work[r]) PROVE RequestsFit'
  BY <1>1, <1>3, Ends DEF TypeInv, Ended, db
<1>4. ASSUME Goto(r, "retire", work[r]) PROVE RequestsFit'
  <2>1. Fits(call[r], "retire", work[r], users) BY <1>1, AtWork DEF Fits, Runs, Ended
  <2> QED BY <1>1, <1>4, <2>1, Goes DEF TypeInv, Pcs, db
<1>5. RequestsFit' BY <1>2, <1>3, <1>4
<1> QED BY <1>1, <1>5, StaysTyped DEF TypeInv

\* The next store of setStores.
LEMMA AfterStoreTyped ==
    ASSUME TypeInv, NEW r \in Requests, pc[r] = "add", NEW s \in work[r].todo, AfterStore(r, s),
           UNCHANGED <<templates, users, call>>
    PROVE  RequestsFit'
<1> DEFINE w == [work[r] EXCEPT !.todo = @ \ {s}]
<1>1. Fits(call[r], pc[r], work[r], users) /\ work[r] \in Work BY AtWork
<1>2. /\ w \in Work /\ w.user = work[r].user /\ w.held = work[r].held
      /\ w.snap = work[r].snap /\ w.todo = work[r].todo \ {s}
  BY <1>1 DEF Work
<1>3. Goto(r, IF work[r].todo = {s} THEN "ok" ELSE "add", w) BY DEF AfterStore
<1> HIDE DEF w
<1>4. Fits(call[r], "add", w, users) BY <1>1, <1>2 DEF Fits, Runs, Ended
<1>5. CASE Goto(r, "ok", w) BY <1>5, Ends DEF TypeInv, Ended
<1>6. CASE Goto(r, "add", w) BY <1>4, <1>6, Goes DEF TypeInv, Pcs
<1> QED BY <1>3, <1>5, <1>6

LEMMA NoConnectionTyped ==
    ASSUME TypeInv, NEW r \in Requests, NoConnection(r)
    PROVE  TypeInv'
<1>1. UNCHANGED <<db, call>> /\ torn' \subseteq Requests BY DEF NoConnection, TypeInv
<1>2. ASSUME pc[r] = "add" PROVE RequestsFit'
  BY <1>1, <1>2, AfterStoreTyped DEF NoConnection, db
<1>3. ASSUME pc[r] # "add" /\ Swallows(r) PROVE RequestsFit'
  <2>1. Goto(r, "mail", work[r]) /\ pc[r] = "draw" /\ Is(r, "invite")
    BY <1>3 DEF NoConnection, Swallows
  <2>2. Fits(call[r], "mail", work[r], users) BY <2>1, AtWork DEF Fits, Runs, Ended, Is
  <2> QED BY <1>1, <2>1, <2>2, Goes DEF TypeInv, Pcs, db
<1>4. ASSUME pc[r] # "add" /\ ~ Swallows(r) PROVE RequestsFit'
  <2>1. Goto(r, "failed", Rest) BY <1>4 DEF NoConnection
  <2> QED BY <1>1, <2>1, Ends DEF TypeInv, Ended, db
<1>5. RequestsFit' BY <1>2, <1>3, <1>4
<1> QED BY <1>1, <1>5, StaysTyped

LEMMA CrashTyped ==
    ASSUME TypeInv, Crash
    PROVE  TypeInv'
<1>1. /\ UNCHANGED <<db, call, torn>>
      /\ pc' = [r \in Requests |-> IF InFlight(r) THEN "failed" ELSE pc[r]]
      /\ work' = [r \in Requests |-> Rest]
  BY DEF Crash
<1>2. pc' \in [Requests -> Pcs] /\ DOMAIN work' = Requests /\ DOMAIN call' = Requests
  <2>1. pc \in [Requests -> Pcs] /\ DOMAIN call = Requests BY DEF TypeInv, RequestsFit
  <2>2. \A r \in Requests : (IF InFlight(r) THEN "failed" ELSE pc[r]) \in Pcs
    BY <2>1 DEF Pcs, InFlight, Ended
  <2>3. pc' \in [Requests -> Pcs] BY <1>1, <2>2
  <2>4. DOMAIN work' = Requests BY <1>1
  <2>5. call' = call BY <1>1
  <2> QED BY <2>1, <2>3, <2>4, <2>5
<1>3. ASSUME NEW r \in Requests
      PROVE  /\ Asks(call'[r], users', DOMAIN templates')
             /\ Fits(call'[r], pc'[r], work'[r], users')
  <2>1. Asks(call[r], users, DOMAIN templates) /\ Runs(pc[r], call[r].op) BY AtWork
  <2>2. /\ pc'[r] \in Ended \/ (pc'[r] = "idle" /\ pc[r] = "idle")
        /\ work'[r] = Rest
    BY <1>1 DEF InFlight, Ended
  <2>3. Fits(call[r], pc'[r], Rest, users)
    BY <2>1, <2>2, RestIsWork DEF Fits, Runs, Rest, Ended
  <2> QED BY <1>1, <2>1, <2>2, <2>3 DEF db
<1>4. RequestsFit' BY <1>2, <1>3 DEF RequestsFit
<1> QED BY <1>1, <1>4, StaysTyped DEF TypeInv

----------------------------------------------------------------------------
(* Types: steps that write rows *)

LEMMA JoinTyped ==
    ASSUME TypeInv, NEW r \in Requests, Join(r)
    PROVE  TypeInv'
<1>1. /\ pc[r] = "join" /\ Goto(r, "find", work[r])
      /\ members' = members \cup {<<work[r].user, call[r].store>>}
      /\ UNCHANGED <<templates, users, roles, rights, call, torn>>
  BY DEF Join
<1>2. Fits(call[r], pc[r], work[r], users) /\ Asks(call[r], users, DOMAIN templates) BY AtWork
<1>3. Fits(call[r], "find", work[r], users) BY <1>1, <1>2 DEF Fits, Runs, Ended
<1>4. RequestsFit' BY <1>1, <1>3, Goes DEF TypeInv, Pcs
<1>5. work[r].user \in users /\ call[r].store \in Stores
  BY <1>1, <1>2 DEF Fits, Runs, Asks, Ended
<1>6. members' \subseteq users' \X Stores BY <1>1, <1>5 DEF TypeInv, RowsFit
<1> QED BY <1>1, <1>4, <1>6 DEF TypeInv, RowsFit

LEMMA WriteRightTyped ==
    ASSUME TypeInv, NEW r \in Requests, WriteRight(r)
    PROVE  TypeInv'
<1> DEFINE w == work[r]  c == call[r]
           id == IF w.found = None THEN <<r, w.user, c.store, c.actions>> ELSE w.found.id
           x == [user |-> w.user, store |-> c.store, grant |-> c.grant,
                 actions |-> c.actions \cup IF w.found = None THEN {} ELSE w.found.actions]
           v == [w EXCEPT !.todo = @ \ {w.user}]
<1>1. /\ pc[r] = "write" /\ Is(r, "assign") /\ rights' = Put(rights, id, x)
      /\ Goto(r, IF w.todo = {w.user} THEN "ok" ELSE "next", v)
      /\ UNCHANGED <<templates, users, roles, members, call, torn>>
  BY DEF WriteRight
<1>2. Fits(call[r], pc[r], work[r], users) /\ Asks(call[r], users, DOMAIN templates)
      /\ work[r] \in Work
  BY AtWork
<1>3. /\ w.user \in w.todo /\ w.todo \subseteq c.users /\ c.users \subseteq users /\ w.held = {}
      /\ c.store \in Places /\ c.actions \in (SUBSET Actions) \ {{}}
      /\ c.grant \in {"lasting", "timed", "denied"}
      /\ w.found # None => /\ w.found \in Found
                          /\ w.found.id[2] = w.user /\ w.found.id[3] = c.store
  BY <1>1, <1>2 DEF Fits, Runs, Asks, Ended, Is
<1>4. w.user \in Emails /\ w.user \in users BY <1>3 DEF TypeInv, RowsFit
<1>5. id \in RightIds /\ id[2] = w.user /\ id[3] = c.store
  <2>1. CASE w.found = None BY <2>1, <1>3, <1>4 DEF RightIds, Makers
  <2>2. CASE w.found # None BY <2>2, <1>3 DEF Found
  <2> QED BY <2>1, <2>2
<1>6. x \in Right /\ x.user = w.user /\ x.store = c.store
  <2>1. x.actions \in (SUBSET Actions) \ {{}} BY <1>3 DEF Found
  <2> QED BY <2>1, <1>3, <1>4 DEF Right
<1>7. v \in Work /\ v.todo = w.todo \ {w.user} /\ v.held = {} BY <1>2, <1>3 DEF Work
<1> HIDE DEF id, x, v
<1>8. RequestsFit'
  <2>1. Fits(c, "next", v, users) BY <1>1, <1>3, <1>7 DEF Fits, Runs, Ended, Is
  <2>2. CASE Goto(r, "ok", v) BY <1>1, <2>2, Ends DEF TypeInv, Ended
  <2>3. CASE Goto(r, "next", v) BY <1>1, <2>1, <2>3, Goes DEF TypeInv, Pcs
  <2> QED BY <1>1, <2>2, <2>3
<1>9. \A i \in DOMAIN rights' : /\ rights'[i] \in Right /\ i \in RightIds
                                /\ rights'[i].user = i[2] /\ rights'[i].store = i[3]
                                /\ rights'[i].user \in users
  <2> TAKE i \in DOMAIN rights'
  <2>1. (i = id /\ rights'[i] = x) \/ (i \in DOMAIN rights /\ rights'[i] = rights[i])
    BY <1>1 DEF Put
  <2> QED BY <2>1, <1>4, <1>5, <1>6 DEF TypeInv, RowsFit
<1> QED BY <1>1, <1>8, <1>9 DEF TypeInv, RowsFit

LEMMA RevokeRightTyped ==
    ASSUME TypeInv, NEW r \in Requests, RevokeRight(r)
    PROVE  TypeInv'
<1> DEFINE id == work[r].found.id
           rest == work[r].found.actions \ call[r].actions
<1>1. /\ pc[r] = "write" /\ Is(r, "revoke") /\ id \in DOMAIN rights
      /\ rights' = IF rest = {} THEN Drop(rights, {id}) ELSE [rights EXCEPT ![id].actions = rest]
      /\ Goto(r, "ok", work[r])
      /\ UNCHANGED <<templates, users, roles, members, call, torn>>
  BY DEF RevokeRight
<1>2. work[r].found \in Found BY <1>1, AtWork DEF Fits, Is
<1>3. rest \subseteq Actions BY <1>2 DEF Found
<1>4. RequestsFit' BY <1>1, Ends DEF TypeInv, Ended
<1> HIDE DEF id, rest
<1>5. \A i \in DOMAIN rights' : /\ rights'[i] \in Right /\ i \in RightIds
                                /\ rights'[i].user = i[2] /\ rights'[i].store = i[3]
                                /\ rights'[i].user \in users
  <2> TAKE i \in DOMAIN rights'
  <2>1. i \in DOMAIN rights BY <1>1 DEF Drop
  <2>2. CASE rights'[i] = rights[i] BY <2>1, <2>2 DEF TypeInv, RowsFit
  <2>3. CASE i = id /\ rest # {}
    <3>1. rights'[i] = [rights[i] EXCEPT !.actions = rest] BY <1>1, <2>3
    <3>2. rights[i] \in Right BY <2>1 DEF TypeInv, RowsFit
    <3>3. /\ rights'[i] \in Right /\ rights'[i].user = rights[i].user
          /\ rights'[i].store = rights[i].store
      BY <3>1, <3>2, <1>3, <2>3 DEF Right
    <3> QED BY <3>3, <2>1 DEF TypeInv, RowsFit
  <2> QED BY <1>1, <2>1, <2>2, <2>3 DEF Drop
<1> QED BY <1>1, <1>4, <1>5 DEF TypeInv, RowsFit

\* Rights that are granted have their types, as those that are there.
LEMMA GrantTyped ==
    ASSUME TypeInv, NEW r \in Requests, NEW u \in Emails, NEW X, X \subseteq Places \X Actions,
           u \in users', users \subseteq users',
           NEW f, \A i \in DOMAIN f : i \in DOMAIN rights /\ f[i] = rights[i],
           rights' = Grant(f, r, u, X)
    PROVE  \A i \in DOMAIN rights' : /\ rights'[i] \in Right /\ i \in RightIds
                                     /\ rights'[i].user = i[2] /\ rights'[i].store = i[3]
                                     /\ rights'[i].user \in users'
<1> TAKE i \in DOMAIN rights'
<1>1. r \in Makers BY DEF Makers
<1>2. \/ i \in DOMAIN f /\ rights'[i] = f[i]
      \/ /\ i \in RightIds /\ i[2] = u /\ rights'[i] \in Right
         /\ rights'[i].user = i[2] /\ rights'[i].store = i[3]
  BY <1>1, GrantGives
<1> QED BY <1>2 DEF TypeInv, RowsFit

LEMMA CommitHireTyped ==
    ASSUME TypeInv, NEW r \in Requests, CommitHire(r)
    PROVE  TypeInv'
<1> DEFINE w == work[r]  c == call[r]  e == w.user
           X == Everywhere(w.grants) \cup c.explicit
           x == [user |-> e, template |-> Chosen(r), store |-> None]
           p == IF Is(r, "hire") THEN "mail" ELSE "draw"
<1>1. /\ pc[r] = "commit" /\ ~ Is(r, "edit") /\ users' = users \cup {e}
      /\ roles' = Put(roles, <<r, e>>, x)
      /\ rights' = IF Is(r, "hire") THEN Grant(rights, r, e, X) ELSE rights
      /\ members' = members \cup ({e} \X c.stores) /\ Goto(r, p, w)
      /\ UNCHANGED <<templates, call, torn>>
  BY DEF CommitHire
<1>2. Fits(call[r], pc[r], work[r], users) /\ Asks(call[r], users, DOMAIN templates)
      /\ work[r] \in Work
  BY AtWork
<1>3. /\ c.op \in {"hire", "invite"} /\ c.users = {e} /\ e \in Emails /\ c.stores \subseteq Stores
      /\ c.templates # {} /\ c.templates \subseteq DOMAIN templates
      /\ Is(r, "hire") => c.explicit \subseteq Places \X Actions
  BY <1>1, <1>2 DEF Fits, Runs, Asks, Ended, Is
<1>4. w.grants \subseteq Actions BY <1>2 DEF Work
<1>5. Is(r, "hire") => X \subseteq Places \X Actions BY <1>3, <1>4 DEF Everywhere, Places
<1>6. Chosen(r) \in DOMAIN templates BY <1>3 DEF Chosen
<1>7. x \in Role /\ x.user = e /\ x.template = Chosen(r)
  BY <1>3, <1>6 DEF Role, Places, TypeInv, RowsFit
<1>8. RequestsFit'
  <2>1. Fits(c, p, w, users') BY <1>1, <1>2, <1>3 DEF Fits, Runs, Ended, Is
  <2>2. p \in Pcs BY DEF Pcs
  <2> QED BY <1>1, <2>1, <2>2, Goes DEF TypeInv
<1> HIDE DEF x, X
<1>9. \A i \in DOMAIN roles' : /\ roles'[i] \in Role /\ i \in RoleIds /\ roles'[i].user = i[2]
                               /\ roles'[i].user \in users'
                               /\ roles'[i].template \in DOMAIN templates'
  <2> TAKE i \in DOMAIN roles'
  <2>1. (i = <<r, e>> /\ roles'[i] = x) \/ (i \in DOMAIN roles /\ roles'[i] = roles[i])
    BY <1>1 DEF Put
  <2>2. <<r, e>> \in RoleIds BY <1>3 DEF RoleIds, Makers
  <2> QED BY <2>1, <2>2, <1>1, <1>3, <1>6, <1>7 DEF TypeInv, RowsFit
<1>10. \A i \in DOMAIN rights' : /\ rights'[i] \in Right /\ i \in RightIds
                                 /\ rights'[i].user = i[2] /\ rights'[i].store = i[3]
                                 /\ rights'[i].user \in users'
  <2>1. CASE Is(r, "hire") BY <2>1, <1>1, <1>3, <1>5, GrantTyped
  <2>2. CASE ~ Is(r, "hire") BY <2>2, <1>1 DEF TypeInv, RowsFit
  <2> QED BY <2>1, <2>2
<1>11. members' \subseteq users' \X Stores /\ users' \subseteq Emails
  BY <1>1, <1>3 DEF TypeInv, RowsFit
<1> QED BY <1>1, <1>8, <1>9, <1>10, <1>11 DEF TypeInv, RowsFit

LEMMA InsertRightsTyped ==
    ASSUME TypeInv, NEW r \in Requests, InsertRights(r)
    PROVE  TypeInv'
<1> DEFINE w == work[r]  X == Everywhere(w.grants)
<1>1. /\ pc[r] = "insert" /\ rights' = Grant(rights, r, w.user, X) /\ Goto(r, "mail", w)
      /\ UNCHANGED <<templates, users, roles, members, call, torn>>
  BY DEF InsertRights
<1>2. Fits(call[r], pc[r], work[r], users) /\ work[r] \in Work BY AtWork
<1>3. w.user \in users /\ Is(r, "invite") BY <1>1, <1>2 DEF Fits, Runs, Is
<1>4. X \subseteq Places \X Actions BY <1>2 DEF Work, Everywhere, Places
<1>5. RequestsFit'
  <2>1. Fits(call[r], "mail", w, users) BY <1>1, <1>2, <1>3 DEF Fits, Runs, Ended, Is
  <2> QED BY <1>1, <2>1, Goes DEF TypeInv, Pcs
<1>6. w.user \in Emails BY <1>3 DEF TypeInv, RowsFit
<1> HIDE DEF X
<1>7. \A i \in DOMAIN rights' : /\ rights'[i] \in Right /\ i \in RightIds
                                /\ rights'[i].user = i[2] /\ rights'[i].store = i[3]
                                /\ rights'[i].user \in users'
  BY <1>1, <1>3, <1>4, <1>6, GrantTyped
<1> QED BY <1>1, <1>5, <1>7 DEF TypeInv, RowsFit

LEMMA CommitEditTyped ==
    ASSUME TypeInv, NEW r \in Requests, CommitEdit(r)
    PROVE  TypeInv'
<1> DEFINE w == work[r]  c == call[r]  u == w.user
           X == Everywhere(w.grants) \cup IF c.explicit = None THEN {} ELSE c.explicit
           x == [user |-> u, template |-> Chosen(r), store |-> None]
<1>1. /\ pc[r] = "commit" /\ Is(r, "edit")
      /\ roles' = IF c.changes THEN Put(Drop(roles, w.held), <<r, u>>, x) ELSE roles
      /\ rights' = Grant(Drop(rights, w.held), r, u, X)
      /\ members' = IF c.stores = None THEN members
                    ELSE (members \ w.held) \cup ({u} \X c.stores)
      /\ Goto(r, "ok", w) /\ UNCHANGED <<templates, users, call, torn>>
  BY DEF CommitEdit
<1>2. Fits(call[r], pc[r], work[r], users) /\ Asks(call[r], users, DOMAIN templates)
      /\ work[r] \in Work
  BY AtWork
<1>3. /\ c.users = {u} /\ u \in users /\ u \in Emails
      /\ c.explicit # None => c.explicit \subseteq Places \X Actions
      /\ c.stores # None => c.stores \subseteq Stores
      /\ c.changes => c.templates # {} /\ c.templates \subseteq DOMAIN templates
  BY <1>1, <1>2 DEF Fits, Asks, Ended, Is
<1>4. X \subseteq Places \X Actions BY <1>2, <1>3 DEF Work, Everywhere, Places
<1>5. RequestsFit' BY <1>1, Ends DEF TypeInv, Ended
<1> HIDE DEF X
<1>6. ASSUME c.changes
      PROVE  \A i \in DOMAIN roles' : /\ roles'[i] \in Role /\ i \in RoleIds
                                       /\ roles'[i].user = i[2] /\ roles'[i].user \in users
                                       /\ roles'[i].template \in DOMAIN templates
  <2> TAKE i \in DOMAIN roles'
  <2>1. Chosen(r) \in DOMAIN templates BY <1>3, <1>6 DEF Chosen
  <2>2. x \in Role /\ x.user = u /\ x.template = Chosen(r)
    BY <1>3, <2>1 DEF Role, Places, TypeInv, RowsFit
  <2>3. <<r, u>> \in RoleIds BY <1>3 DEF RoleIds, Makers
  <2> HIDE DEF x
  <2>4. (i = <<r, u>> /\ roles'[i] = x) \/ (i \in DOMAIN roles /\ roles'[i] = roles[i])
    BY <1>1, <1>6 DEF Put, Drop
  <2> QED BY <2>1, <2>2, <2>3, <2>4, <1>3 DEF TypeInv, RowsFit
<1> HIDE DEF x
<1>7. \A i \in DOMAIN rights' : /\ rights'[i] \in Right /\ i \in RightIds
                                /\ rights'[i].user = i[2] /\ rights'[i].store = i[3]
                                /\ rights'[i].user \in users'
  <2> DEFINE f == Drop(rights, w.held)
  <2>1. \A i \in DOMAIN f : i \in DOMAIN rights /\ f[i] = rights[i] BY DEF Drop
  <2> HIDE DEF f
  <2>2. rights' = Grant(f, r, u, X) BY <1>1 DEF f
  <2> QED BY <1>1, <1>3, <1>4, <2>1, <2>2, GrantTyped
<1>8. members' \subseteq users \X Stores BY <1>1, <1>3 DEF TypeInv, RowsFit
<1> QED BY <1>1, <1>5, <1>6, <1>7, <1>8 DEF TypeInv, RowsFit

LEMMA ClearStoresTyped ==
    ASSUME TypeInv, NEW r \in Requests, ClearStores(r)
    PROVE  TypeInv'
<1> DEFINE w == [work[r] EXCEPT !.todo = call[r].stores]
<1>1. /\ pc[r] = "take" /\ Is(r, "setStores") /\ members' = members \ work[r].snap
      /\ Goto(r, IF call[r].stores = {} THEN "ok" ELSE "add", w)
      /\ UNCHANGED <<templates, users, roles, rights, call, torn>>
  BY DEF ClearStores
<1>2. Fits(call[r], pc[r], work[r], users) /\ Asks(call[r], users, DOMAIN templates)
      /\ work[r] \in Work
  BY AtWork
<1>3. call[r].stores \subseteq Stores BY <1>1, <1>2 DEF Asks, Is
<1>4. /\ w \in Work /\ w.user = work[r].user /\ w.held = work[r].held /\ w.snap = work[r].snap
      /\ w.todo = call[r].stores
  BY <1>2, <1>3 DEF Work
<1> HIDE DEF w
<1>5. Fits(call[r], "add", w, users) BY <1>1, <1>2, <1>4 DEF Fits, Runs, Ended, Is
<1>6. RequestsFit'
  <2>1. CASE Goto(r, "ok", w) BY <1>1, <2>1, Ends DEF TypeInv, Ended
  <2>2. CASE Goto(r, "add", w) BY <1>1, <1>5, <2>2, Goes DEF TypeInv, Pcs
  <2> QED BY <1>1, <2>1, <2>2
<1> QED BY <1>1, <1>6 DEF TypeInv, RowsFit

LEMMA AddStoreTyped ==
    ASSUME TypeInv, NEW r \in Requests, AddStore(r)
    PROVE  TypeInv'
<1>1. PICK s \in work[r].todo : /\ members' = members \cup {<<work[r].user, s>>}
                               /\ AfterStore(r, s)
  BY DEF AddStore
<1>2. pc[r] = "add" /\ UNCHANGED <<templates, users, roles, rights, call, torn>>
  BY DEF AddStore
<1>3. RequestsFit' BY <1>1, <1>2, AfterStoreTyped
<1>4. work[r].user \in users /\ s \in Stores BY <1>2, AtWork DEF Fits, Runs, Asks, Ended
<1>5. members' \subseteq users' \X Stores BY <1>1, <1>2, <1>4 DEF TypeInv, RowsFit
<1> QED BY <1>2, <1>3, <1>5 DEF TypeInv, RowsFit

LEMMA AssignTemplateTyped ==
    ASSUME TypeInv, NEW r \in Requests, AssignTemplate(r)
    PROVE  TypeInv'
<1> DEFINE s == call[r].store
           same(u) == {i \in RolesOf(u) : /\ roles[i].template \in call[r].templates
                                          /\ s # None /\ roles[i].store = s}
           fresh == {x \in call[r].users : same(x) = {}}
           new == {<<r, u>> : u \in fresh}
<1>1. /\ pc[r] = "assign" /\ Goto(r, "ok", work[r])
      /\ roles' = [i \in (DOMAIN roles) \cup new |->
                     IF i \in new THEN [user |-> i[2], template |-> Chosen(r), store |-> s]
                     ELSE roles[i]]
      /\ UNCHANGED <<templates, users, rights, members, call, torn>>
  BY DEF AssignTemplate
<1>2. /\ call[r].users \subseteq users /\ s \in Places
      /\ call[r].templates # {} /\ call[r].templates \subseteq DOMAIN templates
  BY <1>1, AtWork DEF Fits, Runs, Asks
<1>3. fresh \subseteq users BY <1>2
<1> HIDE DEF fresh
<1>4. RequestsFit' BY <1>1, Ends DEF TypeInv, Ended
<1>5. Chosen(r) \in DOMAIN templates BY <1>2 DEF Chosen
<1>6. \A i \in new : i \in RoleIds /\ i[2] \in users /\ i[2] \in Emails
  BY <1>3 DEF RoleIds, Makers, TypeInv, RowsFit
<1> HIDE DEF new
<1>7. \A i \in DOMAIN roles' : /\ roles'[i] \in Role /\ i \in RoleIds /\ roles'[i].user = i[2]
                               /\ roles'[i].user \in users
                               /\ roles'[i].template \in DOMAIN templates
  <2> TAKE i \in DOMAIN roles'
  <2>1. CASE i \in new
    <3>1. roles'[i] = [user |-> i[2], template |-> Chosen(r), store |-> s] BY <1>1, <2>1
    <3>2. roles'[i] \in Role /\ roles'[i].user = i[2] /\ roles'[i].template = Chosen(r)
      BY <3>1, <1>2, <1>5, <1>6, <2>1 DEF Role, TypeInv, RowsFit
    <3> QED BY <3>2, <1>5, <1>6, <2>1
  <2>2. CASE i \notin new BY <1>1, <2>2 DEF TypeInv, RowsFit
  <2> QED BY <2>1, <2>2
<1> QED BY <1>1, <1>4, <1>7 DEF TypeInv, RowsFit

LEMMA WriteTemplateTyped ==
    ASSUME TypeInv, NEW r \in Requests, WriteTemplate(r)
    PROVE  TypeInv'
<1>1. /\ pc[r] = "template"
      /\ \/ Goto(r, "failed", Rest) /\ UNCHANGED templates
         \/ /\ templates' = Put(templates, Chosen(r), call[r].row)
            /\ Goto(r, "ok", work[r])
      /\ UNCHANGED <<users, roles, rights, members, call, torn>>
  BY DEF WriteTemplate
<1>2. CASE Goto(r, "failed", Rest) /\ UNCHANGED templates
  <2>1. RequestsFit' BY <1>1, <1>2, Ends DEF TypeInv, Ended
  <2> QED BY <1>1, <1>2, <2>1, StaysTyped DEF TypeInv, db
<1>3. CASE templates' = Put(templates, Chosen(r), call[r].row) /\ Goto(r, "ok", work[r])
  <2>1. Chosen(r) \in Templates /\ call[r].row \in Template
    <3>1. /\ call[r].op \in {"createTemplate", "updateTemplate"}
          /\ Asks(call[r], users, DOMAIN templates)
      BY <1>1, AtWork DEF Runs
    <3>2. call[r].templates # {} /\ call[r].templates \subseteq Templates
      BY <3>1 DEF Asks, TypeInv, RowsFit
    <3> QED BY <3>1, <3>2 DEF Asks, Chosen
  <2>2. /\ DOMAIN templates \subseteq DOMAIN templates' /\ DOMAIN templates' \subseteq Templates
        /\ \A t \in DOMAIN templates' : templates'[t] \in Template
    BY <1>3, <2>1 DEF Put, TypeInv, RowsFit
  <2>3. RequestsFit' BY <1>1, <1>3, <2>2, Ends DEF TypeInv, Ended
  <2> QED BY <1>1, <2>2, <2>3 DEF TypeInv, RowsFit
<1> QED BY <1>1, <1>2, <1>3

LEMMA RetireTemplateTyped ==
    ASSUME TypeInv, NEW r \in Requests, RetireTemplate(r)
    PROVE  TypeInv'
<1>1. /\ templates' = [t \in DOMAIN templates |->
                        [templates[t] EXCEPT !.active = @ /\ t \notin call[r].templates]]
      /\ Goto(r, "ok", work[r])
      /\ UNCHANGED <<users, roles, rights, members, call, torn>>
  BY DEF RetireTemplate
<1>2. DOMAIN templates' = DOMAIN templates BY <1>1
<1>3. ASSUME NEW t \in DOMAIN templates PROVE templates'[t] \in Template
  <2>1. templates[t] \in Template BY DEF TypeInv, RowsFit
  <2>2. templates'[t] = [templates[t] EXCEPT !.active = @ /\ t \notin call[r].templates]
    BY <1>1
  <2> QED BY <2>1, <2>2 DEF Template
<1>4. RequestsFit' BY <1>1, <1>2, Ends DEF TypeInv, Ended
<1> QED BY <1>1, <1>2, <1>3, <1>4 DEF TypeInv, RowsFit

LEMMA ExpireTyped ==
    ASSUME TypeInv, Expire
    PROVE  TypeInv'
<1>1. PICK k \in DOMAIN rights : rights' = [rights EXCEPT ![k].grant = "expired"]
  BY DEF Expire
<1>2. UNCHANGED <<templates, users, roles, members, pc, call, work, torn>> BY DEF Expire
<1>3. ASSUME NEW i \in DOMAIN rights'
      PROVE  /\ rights'[i] \in Right /\ i \in RightIds
             /\ rights'[i].user = i[2] /\ rights'[i].store = i[3] /\ rights'[i].user \in users
  <2>1. i \in DOMAIN rights BY <1>1
  <2>2. rights'[i] = rights[i] \/ rights'[i] = [rights[i] EXCEPT !.grant = "expired"]
    BY <1>1, <2>1
  <2>3. rights[i] \in Right BY <2>1 DEF TypeInv, RowsFit
  <2>4. /\ rights'[i] \in Right /\ rights'[i].user = rights[i].user
        /\ rights'[i].store = rights[i].store
    BY <2>2, <2>3 DEF Right
  <2> QED BY <2>1, <2>4 DEF TypeInv, RowsFit
<1>4. RequestsFit' BY <1>2 DEF TypeInv, RequestsFit
<1> QED BY <1>2, <1>3, <1>4 DEF TypeInv, RowsFit

----------------------------------------------------------------------------
(* Types: requests that are received *)

LEMMA BeginTyped ==
    ASSUME TypeInv, NEW r \in Requests, NEW c, NEW p \in Pcs, NEW w, Begin(r, c, p, w),
           p # "refused" => Asks(c, users, DOMAIN templates),
           p \notin Ended => Fits(c, p, w, users)
    PROVE  TypeInv'
<1>1. RequestsFit' BY Begins DEF TypeInv
<1> QED BY <1>1, StaysTyped DEF TypeInv, Begin

LEMMA RestWith ==
    ASSUME NEW u \in Emails, NEW P \in SUBSET Stages
    PROVE  LET w == [Rest EXCEPT !.user = u, !.plan = P] IN
           w \in Work /\ w.user = u /\ w.snap = {} /\ w.held = {} /\ w.todo = {}
  BY RestIsWork DEF Rest, Work

LEMMA RestOf ==
    ASSUME NEW u \in Emails
    PROVE  LET w == [Rest EXCEPT !.user = u] IN
           w \in Work /\ w.user = u /\ w.snap = {} /\ w.held = {} /\ w.todo = {}
  BY RestIsWork DEF Rest, Work

LEMMA RestFor ==
    ASSUME NEW U \in SUBSET Emails
    PROVE  LET w == [Rest EXCEPT !.todo = U] IN
           w \in Work /\ w.todo = U /\ w.snap = {} /\ w.held = {}
  BY RestIsWork DEF Rest, Work

LEMMA BeginRightsTyped ==
    ASSUME TypeInv, NEW r \in Requests, NEW s \in Places, NEW A \in Choices(Actions),
           \/ \E U \in Choices(users), g \in {"lasting", "timed", "denied"} :
                BeginAssign(r, U, s, A, g)
           \/ \E u \in users : BeginRevoke(r, u, s, A)
    PROVE  TypeInv'
<1>1. users \subseteq Emails /\ A \in (SUBSET Actions) \ {{}} BY DEF TypeInv, RowsFit, Choices
<1>2. ASSUME NEW U \in Choices(users), NEW g \in {"lasting", "timed", "denied"},
             BeginAssign(r, U, s, A, g)
      PROVE  TypeInv'
  <2> DEFINE c == [op |-> "assign", users |-> U, templates |-> {}, store |-> s,
                   actions |-> A, grant |-> g]
             w == [Rest EXCEPT !.todo = U]
  <2>1. Begin(r, c, "next", w) BY <1>2 DEF BeginAssign
  <2>2. U \subseteq users /\ U \subseteq Emails BY <1>1 DEF Choices
  <2>3. Asks(c, users, DOMAIN templates) BY <1>1, <2>2 DEF Asks
  <2>4. w \in Work /\ w.todo = U /\ w.snap = {} /\ w.held = {} BY <2>2, RestFor
  <2>5. c.op = "assign" /\ c.users = U OBVIOUS
  <2> HIDE DEF c, w
  <2>6. Fits(c, "next", w, users) BY <2>4, <2>5 DEF Fits, Runs, Ended
  <2> QED BY <2>1, <2>3, <2>6, BeginTyped DEF Pcs
<1>3. ASSUME NEW u \in users, BeginRevoke(r, u, s, A)
      PROVE  TypeInv'
  <2> DEFINE c == [op |-> "revoke", users |-> {u}, templates |-> {}, store |-> s, actions |-> A,
                   single |-> \A i, j \in RightsAt(u, s) : i = j]
             w == [Rest EXCEPT !.user = u]
  <2>1. Begin(r, c, "find", w) BY <1>3 DEF BeginRevoke
  <2>2. u \in Emails BY <1>1
  <2>3. Asks(c, users, DOMAIN templates) BY <1>1, <2>2 DEF Asks
  <2>4. w \in Work /\ w.user = u /\ w.snap = {} /\ w.held = {} /\ w.todo = {} BY <2>2, RestOf
  <2>5. c.op = "revoke" /\ c.users = {u} OBVIOUS
  <2> HIDE DEF c, w
  <2>6. Fits(c, "find", w, users) BY <2>4, <2>5 DEF Fits, Runs, Ended
  <2> QED BY <2>1, <2>3, <2>6, BeginTyped DEF Pcs
<1> QED BY <1>2, <1>3

LEMMA BeginHireTyped ==
    ASSUME TypeInv, NEW r \in Requests, NEW e \in Emails, NEW t, NEW X, NEW S \in SUBSET Stores,
           X \subseteq Places \X Actions, BeginHire(r, e, t, X, S)
    PROVE  TypeInv'
<1> DEFINE c == [op |-> "hire", users |-> {e}, templates |-> {t}, explicit |-> X, stores |-> S]
           w == [Rest EXCEPT !.user = e]
           p == IF IsActive(t) /\ e \notin users THEN "draw" ELSE "refused"
<1>1. Begin(r, c, p, w) BY DEF BeginHire
<1>2. p # "refused" => Asks(c, users, DOMAIN templates) BY DEF Asks, IsActive
<1>3. w \in Work /\ w.user = e /\ w.snap = {} /\ w.held = {} /\ w.todo = {} BY RestOf
<1>4. c.op = "hire" /\ c.users = {e} /\ p \in {"draw", "refused"} OBVIOUS
<1> HIDE DEF c, w, p
<1>5. p \notin Ended => Fits(c, p, w, users) BY <1>3, <1>4 DEF Fits, Runs, Ended
<1>6. p \in Pcs BY <1>4 DEF Pcs, Ended
<1> QED BY <1>1, <1>2, <1>5, <1>6, BeginTyped

LEMMA BeginInviteTyped ==
    ASSUME TypeInv, NEW r \in Requests, NEW e \in Emails, NEW t, NEW S \in SUBSET Stores,
           BeginInvite(r, e, t, S)
    PROVE  TypeInv'
<1> DEFINE defaults == {d \in DOMAIN templates : templates[d].default}
           D == IF t # None THEN {t} ELSE IF defaults = {} THEN {None} ELSE defaults
           w == [Rest EXCEPT !.user = e]
           p(d) == IF (t = None \/ IsActive(t)) /\ d # None /\ e \notin users
                   THEN "commit" ELSE "refused"
           c(d) == [op |-> "invite", users |-> {e}, templates |-> {d}, explicit |-> {},
                    stores |-> S]
<1>1. PICK d \in D : Begin(r, c(d), p(d), w) BY DEF BeginInvite
<1>2. p(d) # "refused" => Asks(c(d), users, DOMAIN templates)
  <2> SUFFICES ASSUME (t = None \/ IsActive(t)) /\ d # None PROVE Asks(c(d), users, DOMAIN templates)
    OBVIOUS
  <2>1. d \in DOMAIN templates BY DEF IsActive
  <2> QED BY <2>1 DEF Asks
<1>3. w \in Work /\ w.user = e /\ w.snap = {} /\ w.held = {} /\ w.todo = {} BY RestOf
<1>4. c(d).op = "invite" /\ c(d).users = {e} /\ p(d) \in {"commit", "refused"} OBVIOUS
<1> HIDE DEF c, w, p
<1>5. p(d) \notin Ended => Fits(c(d), p(d), w, users) BY <1>3, <1>4 DEF Fits, Runs, Ended
<1>6. p(d) \in Pcs BY <1>4 DEF Pcs, Ended
<1> QED BY <1>1, <1>2, <1>5, <1>6, BeginTyped

LEMMA BeginEditTyped ==
    ASSUME TypeInv, NEW r \in Requests, NEW u \in users, NEW t, NEW X, NEW S, NEW data \in BOOLEAN,
           X # None => X \subseteq Places \X Actions, S # None => S \subseteq Stores,
           BeginEdit(r, u, t, X, S, data)
    PROVE  TypeInv'
<1> DEFINE changes(k) == t \notin {None, k}
           plan(k) == Plan(data, changes(k), X, S)
           p(k) == IF changes(k) /\ ~ IsActive(t) THEN "refused" ELSE First(plan(k))
           c(k) == [op |-> "edit", users |-> {u}, changes |-> changes(k), explicit |-> X,
                    stores |-> S, templates |-> IF changes(k) THEN {t} ELSE TemplatesOf(u)]
           w(k) == [Rest EXCEPT !.user = u, !.plan = plan(k)]
<1>1. PICK k \in TemplatesOf(u) : Begin(r, c(k), p(k), w(k)) BY DEF BeginEdit
<1>2. u \in Emails BY DEF TypeInv, RowsFit
<1>3. p(k) # "refused" => Asks(c(k), users, DOMAIN templates) BY <1>2 DEF Asks, IsActive
<1>4. plan(k) \in SUBSET Stages BY DEF Plan, Stages
<1>5. p(k) \in Stages \cup {"refused"} BY FirstIsStage
<1>6. c(k).op = "edit" /\ c(k).users = {u} OBVIOUS
<1> HIDE DEF plan, p
<1>7. /\ w(k) \in Work /\ w(k).user = u /\ w(k).snap = {} /\ w(k).held = {}
  BY <1>2, <1>4, RestWith
<1> HIDE DEF c, w
<1>8. p(k) \notin Ended => Fits(c(k), p(k), w(k), users)
  <2> SUFFICES ASSUME p(k) \in Stages PROVE Fits(c(k), p(k), w(k), users) BY <1>5 DEF Ended
  <2> QED BY <1>6, <1>7, EditFits
<1>9. p(k) \in Pcs BY <1>5 DEF Stages, Pcs, Ended
<1> QED BY <1>1, <1>3, <1>8, <1>9, BeginTyped

LEMMA BeginOtherTyped ==
    ASSUME TypeInv, NEW r \in Requests,
           \/ \E u \in users, S \in SUBSET Stores : BeginSetStores(r, u, S)
           \/ \E u \in users : BeginSetRights(r, u)
           \/ \E U \in Choices(users), t \in DOMAIN templates, s \in Places :
                BeginAssignTemplate(r, U, t, s)
           \/ \E t \in Templates, row \in Template : BeginTemplate(r, "createTemplate", t, row)
           \/ \E t \in DOMAIN templates, row \in Template : BeginTemplate(r, "updateTemplate", t, row)
           \/ \E t \in DOMAIN templates : BeginTemplate(r, "deleteTemplate", t, None)
    PROVE  TypeInv'
<1>0. users \subseteq Emails /\ DOMAIN templates \subseteq Templates BY DEF TypeInv, RowsFit
<1>1. ASSUME NEW u \in users, NEW S \in SUBSET Stores, BeginSetStores(r, u, S)
      PROVE  TypeInv'
  <2> DEFINE c == [op |-> "setStores", users |-> {u}, templates |-> {}, stores |-> S]
             w == [Rest EXCEPT !.user = u]
  <2>1. Begin(r, c, "stores", w) BY <1>1 DEF BeginSetStores
  <2>2. Asks(c, users, DOMAIN templates) BY <1>0 DEF Asks
  <2>3. w \in Work /\ w.user = u /\ w.snap = {} /\ w.held = {} /\ w.todo = {} BY <1>0, RestOf
  <2>4. c.op = "setStores" /\ c.users = {u} OBVIOUS
  <2> HIDE DEF c, w
  <2>5. Fits(c, "stores", w, users) BY <2>3, <2>4 DEF Fits, Runs, Ended
  <2> QED BY <2>1, <2>2, <2>5, BeginTyped DEF Pcs
<1>2. ASSUME NEW u \in users, BeginSetRights(r, u)
      PROVE  TypeInv'
  <2> DEFINE c == [op |-> "setRights", users |-> {u}, templates |-> {}]
  <2>1. Begin(r, c, "ok", Rest) BY <1>2 DEF BeginSetRights
  <2>2. Asks(c, users, DOMAIN templates) BY <1>0 DEF Asks
  <2> HIDE DEF c
  <2> QED BY <2>1, <2>2, BeginTyped DEF Pcs, Ended
<1>3. ASSUME NEW U \in Choices(users), NEW t \in DOMAIN templates, NEW s \in Places,
             BeginAssignTemplate(r, U, t, s)
      PROVE  TypeInv'
  <2> DEFINE c == [op |-> "assignTemplate", users |-> U, templates |-> {t}, store |-> s]
  <2>1. Begin(r, c, "assign", Rest) BY <1>3 DEF BeginAssignTemplate
  <2>2. Asks(c, users, DOMAIN templates) BY <1>0 DEF Asks, Choices
  <2>3. c.op = "assignTemplate" OBVIOUS
  <2> HIDE DEF c
  <2>4. Fits(c, "assign", Rest, users) BY <2>3, RestIsWork DEF Fits, Runs, Ended, Rest
  <2> QED BY <2>1, <2>2, <2>4, BeginTyped DEF Pcs
<1>4. ASSUME NEW op \in {"createTemplate", "updateTemplate", "deleteTemplate"},
             NEW t \in Templates, NEW row, BeginTemplate(r, op, t, row),
             op # "deleteTemplate" => row \in Template
      PROVE  TypeInv'
  <2> DEFINE c == [op |-> op, users |-> {}, templates |-> {t}, row |-> row]
             p == IF op # "createTemplate" /\ t \notin DOMAIN templates THEN "refused"
                  ELSE IF op = "deleteTemplate" THEN "count" ELSE "template"
  <2>1. Begin(r, c, p, Rest) BY <1>4 DEF BeginTemplate
  <2>2. p # "refused" => Asks(c, users, DOMAIN templates) BY <1>4 DEF Asks
  <2>3. c.op = op OBVIOUS
  <2>4. p \in Pcs BY DEF Pcs, Ended
  <2> HIDE DEF c
  <2>5. p \notin Ended => Fits(c, p, Rest, users)
    BY <2>3, RestIsWork DEF Fits, Runs, Ended, Rest
  <2> HIDE DEF p
  <2> QED BY <2>1, <2>2, <2>4, <2>5, BeginTyped
<1> QED BY <1>0, <1>1, <1>2, <1>3, <1>4

LEMMA ReceiveTyped ==
    ASSUME TypeInv, NEW r \in Requests, Receive(r)
    PROVE  TypeInv'
<1>1. \A X \in Wishes \cup {{}} : X \subseteq Places \X Actions BY AccessAssumption DEF Places
<1>2. ASSUME NEW s \in Places, NEW A \in Choices(Actions),
             \/ \E U \in Choices(users), g \in {"lasting", "timed", "denied"} :
                  BeginAssign(r, U, s, A, g)
             \/ \E u \in users : BeginRevoke(r, u, s, A)
      PROVE  TypeInv'
  BY <1>2, BeginRightsTyped
<1>3. ASSUME NEW S \in SUBSET Stores, NEW e \in Emails, NEW t \in DOMAIN templates,
             NEW X \in Wishes \cup {{}}, BeginHire(r, e, t, X, S)
      PROVE  TypeInv'
  BY <1>1, <1>3, BeginHireTyped
<1>4. ASSUME NEW S \in SUBSET Stores, NEW e \in Emails, NEW t \in (DOMAIN templates) \cup {None},
             BeginInvite(r, e, t, S)
      PROVE  TypeInv'
  BY <1>4, BeginInviteTyped
<1>5. ASSUME NEW u \in users, NEW t \in (DOMAIN templates) \cup {None}, NEW X \in Wishes \cup {None},
             NEW S \in (SUBSET Stores) \cup {None}, NEW data \in BOOLEAN,
             BeginEdit(r, u, t, X, S, data)
      PROVE  TypeInv'
  BY <1>1, <1>5, BeginEditTyped
<1>6. /\ \A G \in GrantSets, d \in BOOLEAN : [active |-> TRUE, default |-> d, grants |-> G] \in Template
      /\ \A t \in DOMAIN templates, G \in GrantSets, active \in BOOLEAN :
            [active |-> active, default |-> templates[t].default, grants |-> G] \in Template
  BY AccessAssumption DEF Template, TypeInv, RowsFit
<1>7. ASSUME \/ \E u \in users, S \in SUBSET Stores : BeginSetStores(r, u, S)
             \/ \E u \in users : BeginSetRights(r, u)
             \/ \E U \in Choices(users), t \in DOMAIN templates, s \in Places :
                  BeginAssignTemplate(r, U, t, s)
             \/ \E t \in Templates, row \in Template : BeginTemplate(r, "createTemplate", t, row)
             \/ \E t \in DOMAIN templates, row \in Template :
                  BeginTemplate(r, "updateTemplate", t, row)
             \/ \E t \in DOMAIN templates : BeginTemplate(r, "deleteTemplate", t, None)
      PROVE  TypeInv'
  BY <1>7, BeginOtherTyped
<1> QED BY <1>2, <1>3, <1>4, <1>5, <1>6, <1>7, Zenon DEF Receive

LEMMA StepTyped ==
    ASSUME TypeInv, NEW r \in Requests, Step(r)
    PROVE  TypeInv'
<1>1. CASE NextUser(r) \/ Join(r) \/ FindRight(r) \/ WriteRight(r) \/ RevokeRight(r)
  BY <1>1, NextUserTyped, JoinTyped, FindRightTyped, WriteRightTyped, RevokeRightTyped
<1>2. CASE JoinThrows(r) \/ RightIsGone(r) \/ EmailIsTaken(r) \/ MailFails(r)
  BY <1>2, FailTyped DEF JoinThrows, RightIsGone, EmailIsTaken, MailFails
<1>3. CASE Draw(r) \/ CommitHire(r) \/ InsertRights(r) \/ Mail(r)
  BY <1>3, DrawTyped, CommitHireTyped, InsertRightsTyped, MailTyped
<1>4. CASE LockUser(r) \/ Look(r) \/ Take(r) \/ CommitEdit(r)
  BY <1>4, LockUserTyped, LookTyped, TakeTyped, CommitEditTyped
<1>5. CASE ClearStores(r) \/ AddStore(r) \/ AssignTemplate(r) \/ WriteTemplate(r)
  BY <1>5, ClearStoresTyped, AddStoreTyped, AssignTemplateTyped, WriteTemplateTyped
<1>6. CASE CountRoles(r) \/ RetireTemplate(r) \/ NoConnection(r)
  BY <1>6, CountRolesTyped, RetireTemplateTyped, NoConnectionTyped
<1> QED BY <1>1, <1>2, <1>3, <1>4, <1>5, <1>6 DEF Step

LEMMA NextTyped == TypeInv /\ [Next]_vars => TypeInv'
<1> SUFFICES ASSUME TypeInv, [Next]_vars PROVE TypeInv' OBVIOUS
<1>1. CASE Next
  <2>1. ASSUME NEW r \in Requests, Receive(r) PROVE TypeInv' BY <2>1, ReceiveTyped
  <2>2. ASSUME NEW r \in Requests, Step(r) PROVE TypeInv' BY <2>2, StepTyped
  <2> QED BY <1>1, <2>1, <2>2, CrashTyped, ExpireTyped DEF Next
<1>2. CASE UNCHANGED vars BY <1>2 DEF vars, db, TypeInv, RowsFit, RequestsFit
<1> QED BY <1>1, <1>2

\* The rows of Permission at the start.
SeededRight(i) ==
    /\ i \in RightIds /\ i[1] = Seed /\ i[2] = SeedEmail
    /\ rights[i] \in Right /\ rights[i].user = i[2] /\ rights[i].store = i[3]

LEMMA InitSeeds == Init => \A i \in DOMAIN rights : SeededRight(i)
<1> SUFFICES ASSUME Init, NEW i \in DOMAIN rights PROVE SeededRight(i) OBVIOUS
<1> USE AccessAssumption
<1> DEFINE X == Everywhere(SeedGrants)
           id(x) == <<Seed, SeedEmail, x.store, x.actions>>
           f(past) == [k \in {id(x) : x \in past.rights} |-> CHOOSE x \in past.rights : id(x) = k]
<1>1. PICK past \in Pasts : rights = Grant(f(past), Seed, SeedEmail, X) BY Zenon DEF Init
<1>2. past.rights \subseteq Right /\ \A x \in past.rights : x.user = SeedEmail
  BY PastsAssumption
<1>3. X \subseteq Places \X Actions BY DEF Everywhere, Places
<1>4. ASSUME NEW k \in DOMAIN f(past)
      PROVE  /\ k \in RightIds /\ k[1] = Seed /\ k[2] = SeedEmail
             /\ f(past)[k] \in Right /\ f(past)[k].user = k[2] /\ f(past)[k].store = k[3]
  <2>1. PICK x \in past.rights : id(x) = k OBVIOUS
  <2>2. f(past)[k] \in past.rights /\ id(f(past)[k]) = k BY <2>1
  <2>3. f(past)[k] \in Right /\ f(past)[k].user = SeedEmail BY <2>2, <1>2
  <2> HIDE DEF f
  <2> QED BY <2>2, <2>3 DEF Right, RightIds, Makers
<1> DEFINE g == f(past)
<1> HIDE DEF f, X
<1>5. rights = Grant(g, Seed, SeedEmail, X) /\ Seed \in Makers BY <1>1 DEF Makers
<1>6. \A k \in DOMAIN g :
        /\ k \in RightIds /\ k[1] = Seed /\ k[2] = SeedEmail
        /\ g[k] \in Right /\ g[k].user = k[2] /\ g[k].store = k[3]
  BY <1>4
<1> HIDE DEF g
<1>7. \/ i \in DOMAIN g /\ rights[i] = g[i]
      \/ /\ i \in RightIds /\ i[1] = Seed /\ i[2] = SeedEmail /\ rights[i] \in Right
         /\ rights[i].user = i[2] /\ rights[i].store = i[3]
  BY <1>3, <1>5, GrantGives
<1> QED BY <1>6, <1>7 DEF SeededRight

LEMMA InitTyped == Init => TypeInv
<1> SUFFICES ASSUME Init PROVE TypeInv OBVIOUS
<1> USE AccessAssumption
<1>1. PICK past \in Pasts :
        /\ templates = [t \in {SeedTemplate} \cup DOMAIN past.templates |->
                         IF t = SeedTemplate
                         THEN [active |-> TRUE, default |-> TRUE, grants |-> SeedGrants]
                         ELSE past.templates[t]]
        /\ members = {SeedEmail} \X past.stores
  BY Zenon DEF Init
<1>2. /\ past.stores \subseteq Stores
      /\ DOMAIN past.templates \subseteq Templates \ {SeedTemplate}
      /\ \A t \in DOMAIN past.templates : past.templates[t] \in Template
  BY PastsAssumption
<1>3. /\ users = {SeedEmail} /\ pc = [r \in Requests |-> "idle"]
      /\ roles = [i \in {<<Seed, SeedEmail>>} |->
                    [user |-> SeedEmail, template |-> SeedTemplate, store |-> None]]
      /\ call = [r \in Requests |-> NoCall] /\ work = [r \in Requests |-> Rest]
      /\ raced = {} /\ torn = {}
  BY DEF Init
<1>4. /\ DOMAIN templates \subseteq Templates /\ SeedTemplate \in DOMAIN templates
      /\ \A t \in DOMAIN templates : templates[t] \in Template
  BY <1>1, <1>2 DEF Template
<1>5. \A i \in DOMAIN roles : /\ roles[i] \in Role /\ i \in RoleIds /\ roles[i].user = i[2]
                              /\ roles[i].user \in users
                              /\ roles[i].template \in DOMAIN templates
  BY <1>3, <1>4 DEF Role, RoleIds, Places, Makers
<1>6. \A i \in DOMAIN rights : /\ rights[i] \in Right /\ i \in RightIds
                               /\ rights[i].user = i[2] /\ rights[i].store = i[3]
                               /\ rights[i].user \in users
  BY <1>3, InitSeeds DEF SeededRight
<1>7. members \subseteq users \X Stores BY <1>1, <1>2, <1>3
<1>8. RowsFit BY <1>3, <1>4, <1>5, <1>6, <1>7 DEF RowsFit
<1>9. Asks(NoCall, users, DOMAIN templates) /\ Fits(NoCall, "idle", Rest, users)
  BY RestIsWork DEF Asks, NoCall, Fits, Runs, Rest, Ended
<1>10. RequestsFit BY <1>3, <1>9 DEF RequestsFit, Pcs, Ended
<1> QED BY <1>3, <1>8, <1>10 DEF TypeInv

LEMMA TypesImplied == TypeInv => TypeOK
  BY DEF TypeInv, RowsFit, RequestsFit, TypeOK, Fits, InFlight, Is, RoleIds, RightIds

\* Whatever overlaps and fails, rows have their types and refer to rows that are there:
\* no role or right outlives its employee or template, none of Permission is empty.
THEOREM TypesHold == Spec => []TypeOK
<1>1. Spec => []TypeInv BY InitTyped, NextTyped, PTL DEF Spec
<1> QED BY <1>1, TypesImplied, PTL

----------------------------------------------------------------------------
(* Races: what a request found is what is there, or another one was at work on it *)

\* Where a request goes it inserts no rights that it did not mean to before.
Narrows(r, p, w) ==
    \A u : MayInsert(call[r], p, IF p \in Ended THEN Rest ELSE w, u) => Inserts(r, u)

\* A step of r changes rows of Permission only so.
Touches(r, p, w, i) ==
    \/ i \in DOMAIN rights /\ rights'[i].actions = rights[i].actions
    \/ /\ i[1] = r /\ Inserts(r, i[2])
       /\ ~ MayInsert(call[r], p, IF p \in Ended THEN Rest ELSE w, i[2])
    \/ /\ i \in DOMAIN rights /\ call[r].op \in {"assign", "revoke"}
       /\ i[2] \in call[r].users /\ i[3] = call[r].store

LEMMA RaceGoes ==
    ASSUME TypeInv, RaceInv, NEW r \in Requests, InFlight(r), NEW p, NEW w, Goto(r, p, w),
           call' = call, raced' = raced, p # "write", Narrows(r, p, w),
           \A i \in DOMAIN rights' : Touches(r, p, w, i)
    PROVE  RaceInv'
<1> DEFINE v == IF p \in Ended THEN Rest ELSE w
<1>1. /\ pc'[r] = p /\ work'[r] = v
      /\ \A q \in Requests \ {r} : pc'[q] = pc[q] /\ work'[q] = work[q]
  BY DEF Goto, TypeInv, RequestsFit
<1>2. /\ \A u : MayInsert(call[r], p, v, u) => Inserts(r, u)
      /\ \A i \in DOMAIN rights' :
           \/ i \in DOMAIN rights /\ rights'[i].actions = rights[i].actions
           \/ i[1] = r /\ Inserts(r, i[2]) /\ ~ MayInsert(call[r], p, v, i[2])
           \/ /\ i \in DOMAIN rights /\ call[r].op \in {"assign", "revoke"}
              /\ i[2] \in call[r].users /\ i[3] = call[r].store
  BY DEF Narrows, Touches
<1> HIDE DEF v
<1>3. \A q \in Requests : \A u : MayInsert(call[q], pc'[q], work'[q], u) => Inserts(q, u)
  BY <1>1, <1>2 DEF Inserts
<1>4. \A i : Spent(i) => (i[1] \in Requests => ~ MayInsert(call[i[1]], pc'[i[1]], work'[i[1]], i[2]))
  BY <1>3 DEF Spent
<1>5. ASSUME NEW i \in DOMAIN rights'
      PROVE  i[1] \in Requests => ~ MayInsert(call[i[1]], pc'[i[1]], work'[i[1]], i[2])
  BY <1>1, <1>2, <1>4 DEF RaceInv
<1>6. ASSUME NEW q \in Requests, pc'[q] = "write", Is(q, "revoke") \/ work'[q].found # None
      PROVE  LET id == work'[q].found.id IN
             /\ id[1] \in Requests => ~ MayInsert(call[id[1]], pc'[id[1]], work'[id[1]], id[2])
             /\ id \in DOMAIN rights' /\ rights'[id].actions # work'[q].found.actions =>
                   Raced(q, work'[q].user, call[q].store)
  <2> DEFINE id == work[q].found.id
  <2>1. q # r /\ pc[q] = "write" /\ work'[q] = work[q] BY <1>1, <1>6
  <2>2. /\ Spent(id)
        /\ id \in DOMAIN rights /\ rights[id].actions # work[q].found.actions =>
              Raced(q, work[q].user, call[q].store)
    BY <1>6, <2>1 DEF RaceInv, FindHolds
  <2>3. id[2] = work[q].user /\ id[3] = call[q].store BY <1>6, <2>1, AtWork DEF Fits, Is
  <2>4. Together(r, q) BY <2>1 DEF RaceInv, InFlight, Ended
  <2> HIDE DEF id
  <2>5. ASSUME id \in DOMAIN rights', rights'[id].actions # work[q].found.actions
        PROVE  Raced(q, work[q].user, call[q].store)
    <3>1. CASE id \in DOMAIN rights /\ rights'[id].actions = rights[id].actions
      BY <2>2, <2>5, <3>1
    <3>2. CASE id[1] = r /\ Inserts(r, id[2]) BY <2>2, <3>2 DEF Spent
    <3>3. CASE /\ call[r].op \in {"assign", "revoke"}
               /\ id[2] \in call[r].users /\ id[3] = call[r].store
      BY <2>3, <2>4, <3>3 DEF Raced
    <3> QED BY <1>2, <2>5, <3>1, <3>2, <3>3
  <2> QED BY <2>1, <2>2, <2>5, <1>4 DEF id
<1>7. ASSUME NEW q \in Requests, NEW k \in Requests, q # k, InFlight(q)', InFlight(k)'
      PROVE  Together(q, k)
  <2>1. InFlight(q) /\ InFlight(k) BY <1>1, <1>7 DEF InFlight
  <2> QED BY <1>7, <2>1 DEF RaceInv
<1>8. \A i \in DOMAIN rights' : Spent(i)' BY <1>5 DEF Spent, Inserts
<1>9. \A q \in Requests : FindHolds(q)'
  BY <1>6 DEF FindHolds, Spent, Inserts, Raced, Together, Is
<1>10. \A q, k \in Requests : q # k /\ InFlight(q)' /\ InFlight(k)' => Together(q, k)'
  BY <1>7 DEF Together
<1> QED BY <1>8, <1>9, <1>10 DEF RaceInv

LEMMA RaceStays ==
    ASSUME TypeInv, RaceInv, NEW r \in Requests, InFlight(r), NEW p, NEW w, Goto(r, p, w),
           UNCHANGED <<call, raced, rights>>, p # "write", Narrows(r, p, w)
    PROVE  RaceInv'
<1>1. \A i \in DOMAIN rights' : Touches(r, p, w, i) BY DEF Touches
<1> QED BY <1>1, RaceGoes

LEMMA RaceEnds ==
    ASSUME TypeInv, RaceInv, NEW r \in Requests, InFlight(r), NEW p \in Ended, NEW w, Goto(r, p, w),
           UNCHANGED <<call, raced, rights>>
    PROVE  RaceInv'
<1>1. p # "write" /\ Narrows(r, p, w) BY DEF Narrows, MayInsert, Ended
<1> QED BY <1>1, RaceStays

LEMMA EditNarrows ==
    ASSUME NEW r \in Requests, InFlight(r), call[r].op = "edit"
    PROVE  \A p, w : p # "idle" => Narrows(r, p, w)
  BY DEF Narrows, MayInsert, Inserts, InFlight

LEMMA NextUserRaces ==
    ASSUME TypeInv, RaceInv, NEW r \in Requests, NextUser(r)
    PROVE  RaceInv'
<1>1. PICK u \in work[r].todo :
        Goto(r, IF call[r].store = None \/ <<u, call[r].store>> \in members
                THEN "find" ELSE "join", [work[r] EXCEPT !.user = u])
  BY DEF NextUser
<1> DEFINE p == IF call[r].store = None \/ <<u, call[r].store>> \in members
                THEN "find" ELSE "join"
           w == [work[r] EXCEPT !.user = u]
<1>2. pc[r] = "next" /\ UNCHANGED <<call, raced, rights>> BY DEF NextUser, db
<1>3. Is(r, "assign") /\ w.todo = work[r].todo BY <1>2, AtWork DEF Runs, Is, Work
<1>4. InFlight(r) /\ p \in {"find", "join"} BY <1>2 DEF InFlight, Ended
<1>5. Goto(r, p, w) BY <1>1
<1> HIDE DEF p, w
<1>6. Narrows(r, p, w) BY <1>2, <1>3, <1>4 DEF Narrows, MayInsert, Inserts, Is, Ended
<1> QED BY <1>2, <1>4, <1>5, <1>6, RaceStays

LEMMA FindRightRaces ==
    ASSUME TypeInv, RaceInv, NEW r \in Requests, FindRight(r)
    PROVE  RaceInv'
<1> DEFINE rows == RightsAt(work[r].user, call[r].store)
           none == [work[r] EXCEPT !.found = None]
           one(i) == [work[r] EXCEPT !.found = [id |-> i, actions |-> rights[i].actions]]
<1>1. pc[r] = "find" /\ UNCHANGED <<call, raced, rights>> /\ InFlight(r)
  BY DEF FindRight, db, InFlight, Ended
<1>2. \/ rows = {} /\ Goto(r, IF Is(r, "revoke") THEN "ok" ELSE "write", none)
      \/ \E i \in rows : Goto(r, "write", one(i))
  BY DEF FindRight
<1>3. work[r] \in Work /\ call[r].op \in {"assign", "revoke"} BY <1>1, AtWork DEF Runs
<1>4. CASE Goto(r, "ok", none) BY <1>1, <1>4, RaceEnds DEF Ended
<1>5. ASSUME NEW w, Goto(r, "write", w), w.todo = work[r].todo,
             Is(r, "revoke") \/ w.found # None =>
                w.found.id \in DOMAIN rights /\ rights[w.found.id].actions = w.found.actions
      PROVE  RaceInv'
  <2>1. /\ pc'[r] = "write" /\ work'[r] = w
        /\ \A q \in Requests \ {r} : pc'[q] = pc[q] /\ work'[q] = work[q]
    BY <1>5 DEF Goto, TypeInv, RequestsFit, Ended
  <2>2. \A q \in Requests : \A u : MayInsert(call[q], pc'[q], work'[q], u) => Inserts(q, u)
    BY <1>1, <1>3, <1>5, <2>1 DEF MayInsert, Inserts
  <2>3. \A i : Spent(i) =>
          (i[1] \in Requests => ~ MayInsert(call[i[1]], pc'[i[1]], work'[i[1]], i[2]))
    BY <2>2 DEF Spent
  <2>4. ASSUME NEW q \in Requests, pc'[q] = "write", Is(q, "revoke") \/ work'[q].found # None
        PROVE  LET id == work'[q].found.id IN
               /\ id[1] \in Requests => ~ MayInsert(call[id[1]], pc'[id[1]], work'[id[1]], id[2])
               /\ id \in DOMAIN rights /\ rights[id].actions # work'[q].found.actions =>
                     Raced(q, work'[q].user, call[q].store)
    <3>1. CASE q = r BY <1>5, <2>1, <2>3, <2>4, <3>1 DEF RaceInv
    <3>2. CASE q # r BY <2>1, <2>3, <2>4, <3>2 DEF RaceInv, FindHolds
    <3> QED BY <3>1, <3>2
  <2>5. \A i \in DOMAIN rights' : Spent(i)' BY <1>1, <2>3 DEF Spent, Inserts, RaceInv
  <2>6. \A q \in Requests : FindHolds(q)'
    BY <1>1, <2>4 DEF FindHolds, Spent, Inserts, Raced, Together, Is
  <2>7. \A q, k \in Requests : q # k /\ InFlight(q)' /\ InFlight(k)' => Together(q, k)'
    BY <1>1, <2>1 DEF RaceInv, InFlight, Together
  <2> QED BY <2>5, <2>6, <2>7 DEF RaceInv
<1>6. CASE rows = {} /\ ~ Is(r, "revoke") /\ Goto(r, "write", none)
  <2>1. none.todo = work[r].todo /\ none.found = None BY <1>3 DEF Work
  <2> HIDE DEF none
  <2> QED BY <1>5, <1>6, <2>1
<1>7. ASSUME NEW i \in rows, Goto(r, "write", one(i)) PROVE RaceInv'
  <2>1. /\ one(i).todo = work[r].todo /\ one(i).found.id = i
        /\ one(i).found.actions = rights[i].actions /\ i \in DOMAIN rights
    BY <1>3 DEF Work, RightsAt, RightsOf
  <2> HIDE DEF one
  <2> QED BY <1>5, <1>7, <2>1
<1> QED BY <1>2, <1>4, <1>6, <1>7

LEMMA WriteRightRaces ==
    ASSUME TypeInv, RaceInv, NEW r \in Requests, WriteRight(r)
    PROVE  RaceInv'
<1> DEFINE w == work[r]  c == call[r]
           id == IF w.found = None THEN <<r, w.user, c.store, c.actions>> ELSE w.found.id
           x == [user |-> w.user, store |-> c.store, grant |-> c.grant,
                 actions |-> c.actions \cup IF w.found = None THEN {} ELSE w.found.actions]
           v == [w EXCEPT !.todo = @ \ {w.user}]
           p == IF w.todo = {w.user} THEN "ok" ELSE "next"
<1>1. /\ pc[r] = "write" /\ Is(r, "assign") /\ rights' = Put(rights, id, x)
      /\ w.found # None => w.found.id \in DOMAIN rights
      /\ Goto(r, p, v) /\ UNCHANGED <<call, raced>>
  BY DEF WriteRight
<1>2. /\ w.user \in w.todo /\ w.todo \subseteq c.users /\ w \in Work
      /\ w.found # None => w.found.id[2] = w.user /\ w.found.id[3] = c.store
  BY <1>1, AtWork DEF Fits, Ended, Is
<1>3. v.todo = w.todo \ {w.user} BY <1>2 DEF Work
<1>4. InFlight(r) /\ p \in {"ok", "next"} BY <1>1 DEF InFlight, Ended
<1>5. id = <<r, w.user, c.store, c.actions>> \/
        (id \in DOMAIN rights /\ id[2] = w.user /\ id[3] = c.store)
  BY <1>1, <1>2
<1>6. \A i \in DOMAIN rights' : i = id \/ (i \in DOMAIN rights /\ rights'[i] = rights[i])
  BY <1>1 DEF Put
<1> HIDE DEF id, x, v, p
<1>7. Narrows(r, p, v) BY <1>1, <1>2, <1>3, <1>4 DEF Narrows, MayInsert, Inserts, Is, Ended
<1>8. Inserts(r, w.user) /\ ~ MayInsert(call[r], p, IF p \in Ended THEN Rest ELSE v, w.user)
  BY <1>1, <1>2, <1>3, <1>4 DEF MayInsert, Inserts, Is, Ended, Rest
<1>9. ASSUME NEW i \in DOMAIN rights' PROVE Touches(r, p, v, i)
  <2>1. CASE i \in DOMAIN rights /\ rights'[i] = rights[i] BY <2>1 DEF Touches
  <2>2. CASE i = <<r, w.user, c.store, c.actions>> BY <1>8, <2>2 DEF Touches
  <2>3. CASE i = id /\ id \in DOMAIN rights /\ id[2] = w.user /\ id[3] = c.store
    BY <1>1, <1>2, <2>3 DEF Touches, Is
  <2> QED BY <1>5, <1>6, <2>1, <2>2, <2>3
<1> QED BY <1>1, <1>4, <1>7, <1>9, RaceGoes

LEMMA RevokeRightRaces ==
    ASSUME TypeInv, RaceInv, NEW r \in Requests, RevokeRight(r)
    PROVE  RaceInv'
<1> DEFINE id == work[r].found.id
           rest == work[r].found.actions \ call[r].actions
<1>1. /\ pc[r] = "write" /\ Is(r, "revoke") /\ id \in DOMAIN rights
      /\ rights' = IF rest = {} THEN Drop(rights, {id}) ELSE [rights EXCEPT ![id].actions = rest]
      /\ Goto(r, "ok", work[r]) /\ UNCHANGED <<call, raced>>
  BY DEF RevokeRight
<1>2. id[2] \in call[r].users /\ id[3] = call[r].store BY <1>1, AtWork DEF Fits, Is, Ended
<1>3. InFlight(r) BY <1>1 DEF InFlight, Ended
<1> HIDE DEF id, rest
<1>4. \A i \in DOMAIN rights' : i \in DOMAIN rights /\ (i = id \/ rights'[i] = rights[i])
  BY <1>1 DEF Drop
<1>5. \A i \in DOMAIN rights' : Touches(r, "ok", work[r], i)
  BY <1>1, <1>2, <1>4 DEF Touches, Is
<1>6. Narrows(r, "ok", work[r]) BY DEF Narrows, MayInsert, Ended
<1> QED BY <1>1, <1>3, <1>5, <1>6, RaceGoes

\* Rights that a request grants to its user before it ends.
LEMMA GrantRaces ==
    ASSUME TypeInv, RaceInv, NEW r \in Requests, InFlight(r), NEW p, NEW w, Goto(r, p, w),
           UNCHANGED <<call, raced>>, p # "write", Narrows(r, p, w),
           NEW u \in Emails, NEW X, X \subseteq Places \X Actions,
           NEW f, \A i \in DOMAIN f : i \in DOMAIN rights /\ f[i] = rights[i],
           rights' = Grant(f, r, u, X),
           Inserts(r, u), ~ MayInsert(call[r], p, IF p \in Ended THEN Rest ELSE w, u)
    PROVE  RaceInv'
<1>1. \A i \in DOMAIN rights' :
        (i \in DOMAIN f /\ rights'[i] = f[i]) \/ (i[1] = r /\ i[2] = u)
  BY GrantGives DEF Makers
<1>2. \A i \in DOMAIN rights' : Touches(r, p, w, i) BY <1>1 DEF Touches
<1> QED BY <1>2, RaceGoes

LEMMA CommitHireRaces ==
    ASSUME TypeInv, RaceInv, NEW r \in Requests, CommitHire(r)
    PROVE  RaceInv'
<1> DEFINE w == work[r]  c == call[r]  e == w.user
           X == Everywhere(w.grants) \cup c.explicit
           p == IF Is(r, "hire") THEN "mail" ELSE "draw"
<1>1. /\ pc[r] = "commit" /\ ~ Is(r, "edit")
      /\ rights' = IF Is(r, "hire") THEN Grant(rights, r, e, X) ELSE rights
      /\ Goto(r, p, w) /\ UNCHANGED <<call, raced>>
  BY DEF CommitHire
<1>2. /\ c.op \in {"hire", "invite"} /\ e \in Emails /\ w.grants \subseteq Actions
      /\ Is(r, "hire") => c.explicit \subseteq Places \X Actions
  BY <1>1, AtWork DEF Fits, Runs, Asks, Ended, Is, Work
<1>3. InFlight(r) /\ p \in {"mail", "draw"} BY <1>1 DEF InFlight, Ended
<1>4. Narrows(r, p, w) BY <1>1, <1>2, <1>3 DEF Narrows, MayInsert, Inserts, Is, Ended
<1>5. CASE Is(r, "hire")
  <2>1. X \subseteq Places \X Actions BY <1>2, <1>5 DEF Everywhere, Places
  <2>2. p = "mail" /\ rights' = Grant(rights, r, e, X) BY <1>1, <1>5
  <2>3. Inserts(r, e) /\ ~ MayInsert(call[r], p, IF p \in Ended THEN Rest ELSE w, e)
    BY <1>1, <1>5, <2>2 DEF MayInsert, Inserts, Is, Ended
  <2> HIDE DEF X, p
  <2> QED BY <1>1, <1>2, <1>3, <1>4, <2>1, <2>2, <2>3, GrantRaces
<1>6. CASE ~ Is(r, "hire")
  <2>1. rights' = rights BY <1>1, <1>6
  <2> HIDE DEF p
  <2> QED BY <1>1, <1>3, <1>4, <2>1, RaceStays
<1> QED BY <1>5, <1>6

LEMMA InsertRightsRaces ==
    ASSUME TypeInv, RaceInv, NEW r \in Requests, InsertRights(r)
    PROVE  RaceInv'
<1> DEFINE w == work[r]  X == Everywhere(w.grants)
<1>1. /\ pc[r] = "insert" /\ rights' = Grant(rights, r, w.user, X) /\ Goto(r, "mail", w)
      /\ UNCHANGED <<call, raced>>
  BY DEF InsertRights
<1>2. w.user \in Emails /\ Is(r, "invite") /\ w.grants \subseteq Actions
  BY <1>1, AtWork DEF Fits, Runs, Is, Work, Ended
<1>3. X \subseteq Places \X Actions BY <1>2 DEF Everywhere, Places
<1>4. InFlight(r) /\ Narrows(r, "mail", w)
  BY <1>1, <1>2 DEF InFlight, Narrows, MayInsert, Inserts, Is, Ended
<1>5. /\ Inserts(r, w.user)
      /\ ~ MayInsert(call[r], "mail", IF "mail" \in Ended THEN Rest ELSE w, w.user)
  BY <1>1, <1>2 DEF MayInsert, Inserts, Is, Ended
<1> HIDE DEF X
<1> QED BY <1>1, <1>2, <1>3, <1>4, <1>5, GrantRaces

LEMMA CommitEditRaces ==
    ASSUME TypeInv, RaceInv, NEW r \in Requests, CommitEdit(r)
    PROVE  RaceInv'
<1> DEFINE w == work[r]  c == call[r]  u == w.user
           X == Everywhere(w.grants) \cup IF c.explicit = None THEN {} ELSE c.explicit
           f == Drop(rights, w.held)
<1>1. /\ pc[r] = "commit" /\ Is(r, "edit") /\ rights' = Grant(f, r, u, X)
      /\ Goto(r, "ok", w) /\ UNCHANGED <<call, raced>>
  BY DEF CommitEdit
<1>2. /\ u \in Emails /\ w.grants \subseteq Actions
      /\ c.explicit # None => c.explicit \subseteq Places \X Actions
  BY <1>1, AtWork DEF Fits, Asks, Ended, Is, Work
<1>3. X \subseteq Places \X Actions BY <1>2 DEF Everywhere, Places
<1>4. InFlight(r) /\ Narrows(r, "ok", w) BY <1>1 DEF InFlight, Narrows, MayInsert, Ended
<1>5. Inserts(r, u) /\ ~ MayInsert(call[r], "ok", IF "ok" \in Ended THEN Rest ELSE w, u)
  BY <1>1 DEF MayInsert, Inserts, Is, Ended
<1>6. \A i \in DOMAIN f : i \in DOMAIN rights /\ f[i] = rights[i] BY DEF Drop
<1> HIDE DEF X, f
<1> QED BY <1>1, <1>2, <1>3, <1>4, <1>5, <1>6, GrantRaces

LEMMA RequestsEndRaces ==
    ASSUME TypeInv, RaceInv, NEW r \in Requests,
           \/ JoinThrows(r) \/ RightIsGone(r) \/ EmailIsTaken(r) \/ MailFails(r) \/ Mail(r)
           \/ AssignTemplate(r) \/ WriteTemplate(r) \/ RetireTemplate(r)
    PROVE  RaceInv'
<1>1. UNCHANGED <<call, raced, rights>> /\ InFlight(r)
  BY DEF JoinThrows, RightIsGone, EmailIsTaken, MailFails, Mail, AssignTemplate, WriteTemplate,
         RetireTemplate, Fail, db, InFlight, Ended
<1>2. \E w : Goto(r, "ok", w) \/ Goto(r, "failed", w)
  BY DEF JoinThrows, RightIsGone, EmailIsTaken, MailFails, Mail, AssignTemplate, WriteTemplate,
         RetireTemplate, Fail
<1> QED BY <1>1, <1>2, RaceEnds DEF Ended

\* The steps of an edit before its commit.
LEMMA EditRaces ==
    ASSUME TypeInv, RaceInv, NEW r \in Requests, Is(r, "edit"), Draw(r) \/ LockUser(r) \/ Look(r) \/ Take(r)
    PROVE  RaceInv'
<1>1. UNCHANGED <<call, raced, rights>> /\ InFlight(r)
  BY DEF Draw, LockUser, Look, Take, db, InFlight, Ended
<1>2. \E p \in Stages \cup {"take"} : \E w : Goto(r, p, w)
  BY FirstIsStage DEF Draw, LockUser, Look, Take, Advance, After
<1> QED BY <1>1, <1>2, EditNarrows, RaceStays DEF Stages, Is

LEMMA DrawRaces ==
    ASSUME TypeInv, RaceInv, NEW r \in Requests, ~ Is(r, "edit"), Draw(r)
    PROVE  RaceInv'
<1>1. PICK t \in Source(r) : Advance(r, [work[r] EXCEPT !.grants = Granted(t)]) BY DEF Draw
<1>2. pc[r] = "draw" /\ UNCHANGED <<call, raced, rights>> /\ InFlight(r)
  BY DEF Draw, db, InFlight, Ended
<1>3. call[r].op \in {"hire", "invite"} BY <1>2, AtWork DEF Runs, Is
<1> DEFINE p == IF Is(r, "hire") THEN "commit" ELSE "insert"
           w == [work[r] EXCEPT !.grants = Granted(t)]
<1>4. Goto(r, p, w) /\ p \in {"commit", "insert"} BY <1>1 DEF Advance, After
<1>5. Narrows(r, p, w) BY <1>2, <1>3 DEF Narrows, MayInsert, Inserts, Is, Ended
<1> HIDE DEF p, w
<1> QED BY <1>2, <1>4, <1>5, RaceStays

\* Steps of requests that insert no rights, or none any more.
LEMMA OthersRace ==
    ASSUME TypeInv, RaceInv, NEW r \in Requests, NEW p, NEW w, Goto(r, p, w), InFlight(r),
           UNCHANGED <<call, raced, rights>>, p # "idle", p # "write",
           \/ p = "mail"
           \/ call[r].op \in {"setStores", "deleteTemplate"}
           \/ call[r].op = "assign" /\ pc[r] = "join" /\ p = "find" /\ w.todo = work[r].todo
    PROVE  RaceInv'
<1>1. Narrows(r, p, w) BY DEF Narrows, MayInsert, Inserts, InFlight, Ended, Rest
<1> QED BY <1>1, RaceStays

LEMMA QuietRaces ==
    ASSUME TypeInv, RaceInv, NEW r \in Requests,
           \/ Join(r) \/ (Look(r) /\ ~ Is(r, "edit")) \/ ClearStores(r) \/ AddStore(r)
           \/ CountRoles(r) \/ NoConnection(r)
    PROVE  RaceInv'
<1>1. UNCHANGED <<call, raced, rights>> /\ InFlight(r)
  BY DEF Join, Look, ClearStores, AddStore, CountRoles, NoConnection, db, InFlight, Ended
<1>2. CASE Join(r)
  <2>1. pc[r] = "join" /\ Goto(r, "find", work[r]) /\ call[r].op = "assign"
    BY <1>2, AtWork DEF Join, Runs
  <2> QED BY <1>1, <2>1, OthersRace
<1>3. CASE Look(r) /\ ~ Is(r, "edit")
  <2>1. PICK w : Goto(r, "take", w) /\ pc[r] \in {"roles", "rights", "stores"}
    BY <1>3 DEF Look
  <2>2. call[r].op = "setStores" BY <1>3, <2>1, AtWork DEF Runs, Is
  <2> QED BY <1>1, <2>1, <2>2, OthersRace
<1>4. CASE ClearStores(r)
  <2>1. PICK p, w : p \in {"ok", "add"} /\ Goto(r, p, w) BY <1>4 DEF ClearStores
  <2> QED BY <1>1, <1>4, <2>1, OthersRace DEF ClearStores, Is
<1>5. CASE AddStore(r) \/ (NoConnection(r) /\ pc[r] = "add")
  <2>0. PICK s : AfterStore(r, s) BY <1>5 DEF AddStore, NoConnection
  <2>1. PICK p, w : p \in {"ok", "add"} /\ Goto(r, p, w) BY <2>0 DEF AfterStore
  <2>2. call[r].op = "setStores" BY <1>5, AtWork DEF AddStore, Runs
  <2> QED BY <1>1, <2>1, <2>2, OthersRace
<1>6. CASE CountRoles(r)
  <2>1. PICK p \in {"refused", "retire"} : Goto(r, p, work[r]) BY <1>6 DEF CountRoles
  <2>2. call[r].op = "deleteTemplate" BY <1>6, AtWork DEF CountRoles, Runs
  <2> QED BY <1>1, <2>1, <2>2, OthersRace
<1>7. CASE NoConnection(r) /\ pc[r] # "add"
  <2>1. Goto(r, "mail", work[r]) \/ Goto(r, "failed", Rest) BY <1>7 DEF NoConnection
  <2> QED BY <1>1, <2>1, OthersRace, RaceEnds DEF Ended
<1> QED BY <1>2, <1>3, <1>4, <1>5, <1>6, <1>7

LEMMA StepRaces ==
    ASSUME TypeInv, RaceInv, NEW r \in Requests, Step(r)
    PROVE  RaceInv'
<1>1. CASE NextUser(r) \/ FindRight(r) \/ WriteRight(r) \/ RevokeRight(r)
  BY <1>1, NextUserRaces, FindRightRaces, WriteRightRaces, RevokeRightRaces
<1>2. CASE CommitHire(r) \/ InsertRights(r) \/ CommitEdit(r)
  BY <1>2, CommitHireRaces, InsertRightsRaces, CommitEditRaces
<1>3. CASE \/ JoinThrows(r) \/ RightIsGone(r) \/ EmailIsTaken(r) \/ MailFails(r) \/ Mail(r)
           \/ AssignTemplate(r) \/ WriteTemplate(r) \/ RetireTemplate(r)
  BY <1>3, RequestsEndRaces
<1>4. CASE Draw(r) BY <1>4, EditRaces, DrawRaces
<1>5. CASE LockUser(r) \/ Take(r)
  <2>1. Is(r, "edit") BY <1>5, AtWork DEF LockUser, Take, Runs, Is
  <2> QED BY <1>5, <2>1, EditRaces
<1>6. CASE Join(r) \/ ClearStores(r) \/ AddStore(r) \/ CountRoles(r) \/ NoConnection(r)
  BY <1>6, QuietRaces
<1>7. CASE Look(r) BY <1>7, EditRaces, QuietRaces
<1> QED BY <1>1, <1>2, <1>3, <1>4, <1>5, <1>6, <1>7 DEF Step

LEMMA CrashRaces ==
    ASSUME TypeInv, RaceInv, Crash
    PROVE  RaceInv'
<1>1. /\ UNCHANGED <<call, raced, rights>>
      /\ \A q \in Requests : /\ pc'[q] \in Ended \cup {"idle"}
                             /\ pc'[q] = "idle" => pc[q] = "idle"
  BY DEF Crash, InFlight, Ended, db
<1>2. \A q \in Requests : \A u : MayInsert(call[q], pc'[q], work'[q], u) => Inserts(q, u)
  BY <1>1 DEF MayInsert, Inserts, Ended
<1>3. \A i : Spent(i) => (i[1] \in Requests => ~ MayInsert(call[i[1]], pc'[i[1]], work'[i[1]], i[2]))
  BY <1>2 DEF Spent
<1>4. \A i \in DOMAIN rights' : Spent(i)' BY <1>1, <1>3 DEF Spent, Inserts, RaceInv
<1>5. \A q \in Requests : ~ InFlight(q)' /\ FindHolds(q)'
  BY <1>1 DEF InFlight, FindHolds, Ended
<1> QED BY <1>4, <1>5 DEF RaceInv

LEMMA ExpireRaces ==
    ASSUME TypeInv, RaceInv, Expire
    PROVE  RaceInv'
<1>1. PICK k \in DOMAIN rights : rights' = [rights EXCEPT ![k].grant = "expired"]
  BY DEF Expire
<1>2. UNCHANGED <<pc, call, work, raced>> BY DEF Expire
<1>3. DOMAIN rights' = DOMAIN rights /\ \A i \in DOMAIN rights : rights'[i].actions = rights[i].actions
  <2>1. \A i \in DOMAIN rights : rights[i] \in Right BY DEF TypeInv, RowsFit
  <2> QED BY <1>1, <2>1 DEF Right
<1>4. \A i : Spent(i)' <=> Spent(i) BY <1>2 DEF Spent, Inserts
<1>5. \A q \in Requests : FindHolds(q)'
  BY <1>2, <1>3, <1>4 DEF RaceInv, FindHolds, Raced, Together, Is
<1> QED BY <1>2, <1>3, <1>4, <1>5 DEF RaceInv, InFlight, Together

LEMMA BeginRaces ==
    ASSUME TypeInv, RaceInv, NEW r \in Requests, NEW c, NEW p, NEW w, Begin(r, c, p, w), p # "write"
    PROVE  RaceInv'
<1>1. /\ pc[r] = "idle" /\ rights' = rights /\ pc'[r] = p
      /\ \A q \in Requests \ {r} : pc'[q] = pc[q] /\ work'[q] = work[q] /\ call'[q] = call[q]
      /\ raced' = raced \cup {{q, r} : q \in {x \in Requests : InFlight(x)}}
  BY DEF Begin, Goto, db, TypeInv, RequestsFit
<1>2. \A i : Spent(i) => Spent(i)'
  <2>1. \A u : Inserts(r, u) BY <1>1 DEF Inserts, MayInsert
  <2>2. \A q \in Requests \ {r} : \A u : Inserts(q, u)' => Inserts(q, u) BY <1>1 DEF Inserts
  <2> QED BY <2>1, <2>2 DEF Spent
<1>3. ASSUME NEW q \in Requests \ {r}, NEW u, NEW s, Raced(q, u, s)
      PROVE  Raced(q, u, s)'
  <2>1. PICK k \in Requests : /\ Together(k, q) /\ u \in call[k].users
                              /\ call[k].op \in {"assign", "revoke"} /\ call[k].store = s
    BY <1>3 DEF Raced
  <2>2. k # r BY <1>1, <2>1, AtWork DEF Runs
  <2> QED BY <1>1, <2>1, <2>2 DEF Raced, Together
<1>4. \A q \in Requests : FindHolds(q)'
  <2> SUFFICES ASSUME NEW q \in Requests \ {r} PROVE FindHolds(q)' BY <1>1 DEF FindHolds
  <2>1. FindHolds(q) BY DEF RaceInv
  <2> QED BY <1>1, <1>2, <1>3, <2>1 DEF FindHolds, Is
<1>5. \A q, k \in Requests : q # k /\ InFlight(q)' /\ InFlight(k)' => Together(q, k)'
  BY <1>1 DEF RaceInv, InFlight, Together
<1>6. \A i \in DOMAIN rights' : Spent(i)' BY <1>1, <1>2 DEF RaceInv
<1> QED BY <1>4, <1>5, <1>6 DEF RaceInv

LEMMA ReceiveRaces ==
    ASSUME TypeInv, RaceInv, NEW r \in Requests, Receive(r)
    PROVE  RaceInv'
<1>1. ASSUME NEW c, NEW p \in {"next", "find", "draw", "commit", "stores", "ok", "assign", "template",
                             "count", "refused"} \cup Stages,
             NEW w, Begin(r, c, p, w)
      PROVE  RaceInv'
  BY <1>1, BeginRaces DEF Stages
<1>2. \A U, s, A, g : BeginAssign(r, U, s, A, g) => RaceInv' BY <1>1 DEF BeginAssign
<1>3. \A u, s, A : BeginRevoke(r, u, s, A) => RaceInv' BY <1>1 DEF BeginRevoke
<1>4. \A e, t, X, S : BeginHire(r, e, t, X, S) => RaceInv' BY <1>1 DEF BeginHire
<1>5. \A e, t, S : BeginInvite(r, e, t, S) => RaceInv' BY <1>1 DEF BeginInvite
<1>6. \A u, t, X, S, data : BeginEdit(r, u, t, X, S, data) => RaceInv'
  <2> TAKE u, t, X, S, data
  <2> HAVE BeginEdit(r, u, t, X, S, data)
  <2>1. \E c, w, plan, x : Begin(r, c, IF x THEN "refused" ELSE First(plan), w)
    BY DEF BeginEdit
  <2> QED BY <1>1, <2>1, FirstIsStage
<1>7. \A u, S : BeginSetStores(r, u, S) \/ BeginSetRights(r, u) => RaceInv'
  BY <1>1 DEF BeginSetStores, BeginSetRights
<1>8. \A U, t, s : BeginAssignTemplate(r, U, t, s) => RaceInv' BY <1>1 DEF BeginAssignTemplate
<1>9. \A op, t, row : BeginTemplate(r, op, t, row) => RaceInv' BY <1>1 DEF BeginTemplate
<1> QED BY <1>2, <1>3, <1>4, <1>5, <1>6, <1>7, <1>8, <1>9, Zenon DEF Receive

LEMMA NextRaces == TypeInv /\ RaceInv /\ [Next]_vars => RaceInv'
<1> SUFFICES ASSUME TypeInv, RaceInv, [Next]_vars PROVE RaceInv' OBVIOUS
<1>1. CASE Next
  <2>1. ASSUME NEW r \in Requests, Receive(r) PROVE RaceInv' BY <2>1, ReceiveRaces
  <2>2. ASSUME NEW r \in Requests, Step(r) PROVE RaceInv' BY <2>2, StepRaces
  <2> QED BY <1>1, <2>1, <2>2, CrashRaces, ExpireRaces DEF Next
<1>2. CASE UNCHANGED vars
  BY <1>2 DEF vars, db, RaceInv, Spent, Inserts, FindHolds, Raced, Together, InFlight, Is
<1> QED BY <1>1, <1>2

LEMMA InitRaces == Init => RaceInv
<1> SUFFICES ASSUME Init PROVE RaceInv OBVIOUS
<1>1. pc = [r \in Requests |-> "idle"] BY DEF Init
<1>2. \A i \in DOMAIN rights : Spent(i) BY InitSeeds, AccessAssumption DEF SeededRight, Spent
<1> QED BY <1>1, <1>2 DEF RaceInv, FindHolds, InFlight

----------------------------------------------------------------------------
(* No right is lost that nobody took *)

\* Why a right of u in s may go.
Explained(u, s, a) ==
    \/ \E i \in RightsAt(u, s) : i \in DOMAIN rights' /\ rights'[i].grant = "expired"
    \/ \E r \in Requests :
          /\ pc'[r] # pc[r] /\ u \in call[r].users
          /\ \/ TakesAway(r, s, a)
             \/ \E q \in Requests :
                  /\ Together(q, r) /\ u \in call[q].users
                  /\ call[q].op \in {"assign", "revoke"} /\ call[q].store = s

\* The row i grants a to u in s, and no longer.
Loses(i, u, s, a) ==
    /\ i \in DOMAIN rights /\ i[2] = u /\ i[3] = s
    /\ rights[i].user = u /\ rights[i].store = s /\ a \in rights[i].actions
    /\ rights[i].grant \in {"lasting", "timed"}
    /\ ~ (/\ i \in DOMAIN rights' /\ rights'[i].user = u /\ rights'[i].store = s
          /\ a \in rights'[i].actions /\ rights'[i].grant \in {"lasting", "timed"})

LEMMA WriteExplains ==
    ASSUME TypeInv, RaceInv, NEW r \in Requests, WriteRight(r), NEW i, NEW u, NEW s, NEW a,
           Loses(i, u, s, a)
    PROVE  Explained(u, s, a)
<1> DEFINE w == work[r]  c == call[r]
           id == IF w.found = None THEN <<r, w.user, c.store, c.actions>> ELSE w.found.id
           x == [user |-> w.user, store |-> c.store, grant |-> c.grant,
                 actions |-> c.actions \cup IF w.found = None THEN {} ELSE w.found.actions]
<1>1. /\ pc[r] = "write" /\ Is(r, "assign") /\ rights' = Put(rights, id, x)
      /\ pc' = [pc EXCEPT ![r] = IF w.todo = {w.user} THEN "ok" ELSE "next"]
  BY DEF WriteRight, Goto
<1>2. /\ w.user \in w.todo /\ w.user \in c.users /\ c.grant \in {"lasting", "timed", "denied"}
      /\ w.found # None => w.found.id[2] = w.user /\ w.found.id[3] = c.store
  BY <1>1, AtWork DEF Fits, Asks, Ended, Is
<1>3. pc'[r] # pc[r] BY <1>1 DEF TypeInv, RequestsFit
<1>4. i = id /\ rights'[i] = x /\ i \in DOMAIN rights' BY <1>1 DEF Loses, Put
<1>5. CASE w.found = None
  <2>1. i[1] = r /\ i[2] = w.user /\ i \in DOMAIN rights BY <1>4, <1>5 DEF Loses
  <2>2. Inserts(r, w.user) BY <1>1, <1>2 DEF Inserts, MayInsert, Is
  <2> QED BY <2>1, <2>2 DEF RaceInv, Spent
<1>6. CASE w.found # None
  <2>1. i = w.found.id /\ u = w.user /\ s = c.store BY <1>2, <1>4, <1>6 DEF Loses
  <2>2. CASE rights[i].actions = w.found.actions
    <3>1. x.user = u /\ x.store = s /\ a \in x.actions /\ x.grant = c.grant
      BY <1>6, <2>1, <2>2 DEF Loses
    <3>2. c.grant = "denied" BY <1>2, <1>4, <3>1 DEF Loses
    <3> QED BY <1>1, <1>2, <1>3, <2>1, <3>2 DEF Explained, TakesAway, Is
  <2>3. CASE rights[i].actions # w.found.actions
    <3>1. Raced(r, u, s) BY <1>1, <1>6, <2>1, <2>3 DEF RaceInv, FindHolds, Loses
    <3> QED BY <1>2, <1>3, <2>1, <3>1 DEF Explained, Raced
  <2> QED BY <2>2, <2>3
<1> QED BY <1>5, <1>6

LEMMA RevokeExplains ==
    ASSUME TypeInv, RaceInv, NEW r \in Requests, RevokeRight(r), NEW i, NEW u, NEW s, NEW a,
           Loses(i, u, s, a)
    PROVE  Explained(u, s, a)
<1> DEFINE w == work[r]  id == w.found.id  rest == w.found.actions \ call[r].actions
<1>1. /\ pc[r] = "write" /\ Is(r, "revoke") /\ id \in DOMAIN rights
      /\ rights' = IF rest = {} THEN Drop(rights, {id}) ELSE [rights EXCEPT ![id].actions = rest]
      /\ pc' = [pc EXCEPT ![r] = "ok"]
  BY DEF RevokeRight, Goto
<1>2. id[2] = w.user /\ id[3] = call[r].store /\ w.user \in call[r].users
  BY <1>1, AtWork DEF Fits, Ended, Is
<1>3. pc'[r] # pc[r] BY <1>1 DEF TypeInv, RequestsFit
<1>4. i = id BY <1>1 DEF Loses, Drop
<1>5. u = w.user /\ s = call[r].store BY <1>2, <1>4 DEF Loses
<1>6. CASE a \in call[r].actions BY <1>1, <1>2, <1>3, <1>5, <1>6 DEF Explained, TakesAway
<1>7. CASE a \notin w.found.actions
  <2>1. Raced(r, u, s) BY <1>1, <1>4, <1>5, <1>7 DEF RaceInv, FindHolds, Loses
  <2> QED BY <1>2, <1>3, <1>5, <2>1 DEF Explained, Raced
<1>8. CASE a \in rest
  <2>1. rights[i] \in Right BY DEF Loses, TypeInv, RowsFit
  <2>2. rights'[i] = [rights[i] EXCEPT !.actions = rest] /\ i \in DOMAIN rights'
    BY <1>1, <1>4, <1>8
  <2> HIDE DEF rest
  <2>3. /\ rights'[i].user = rights[i].user /\ rights'[i].store = rights[i].store
        /\ rights'[i].grant = rights[i].grant /\ a \in rights'[i].actions
    BY <1>8, <2>1, <2>2 DEF Right
  <2> QED BY <2>2, <2>3 DEF Loses
<1> QED BY <1>6, <1>7, <1>8

LEMMA GrantLosesNothing ==
    ASSUME RaceInv, NEW r \in Requests, NEW e \in Emails, NEW X, X \subseteq Places \X Actions,
           rights' = Grant(rights, r, e, X), Inserts(r, e),
           NEW i, NEW u, NEW s, NEW a, Loses(i, u, s, a)
    PROVE  FALSE
<1>1. r \in Makers BY DEF Makers
<1>2. i \in DOMAIN rights' /\ (rights'[i] = rights[i] \/ (i[1] = r /\ i[2] = e))
  BY <1>1, GrantGives DEF Loses
<1>3. ~ (i[1] = r /\ i[2] = e) BY DEF RaceInv, Spent, Loses
<1> QED BY <1>2, <1>3 DEF Loses

LEMMA RowsOfRights == \A i \in RightIds : \A u : i \in RowsOf(u) => i[2] = u
<1> TAKE i \in RightIds
<1> TAKE u
<1> HAVE i \in RowsOf(u)
<1>1. PICK m \in Makers, e \in Emails, s \in Places, A \in SUBSET Actions : i = <<m, e, s, A>>
  BY DEF RightIds
<1>2. \A x, y : i # <<x, y>> BY <1>1
<1> QED BY <1>1, <1>2 DEF RowsOf

LEMMA EditExplains ==
    ASSUME TypeInv, RaceInv, NEW r \in Requests, CommitEdit(r), NEW i, NEW u, NEW s, NEW a,
           Loses(i, u, s, a)
    PROVE  Explained(u, s, a)
<1> DEFINE w == work[r]  c == call[r]
           X == Everywhere(w.grants) \cup IF c.explicit = None THEN {} ELSE c.explicit
           f == Drop(rights, w.held)
<1>1. /\ pc[r] = "commit" /\ Is(r, "edit") /\ rights' = Grant(f, r, w.user, X)
      /\ pc' = [pc EXCEPT ![r] = "ok"]
  BY DEF CommitEdit, Goto
<1>2. /\ c.users = {w.user} /\ w.user \in Emails /\ w.held \subseteq RowsOf(w.user)
      /\ w.grants \subseteq Actions
      /\ c.explicit # None => c.explicit \subseteq Places \X Actions
  BY <1>1, AtWork DEF Fits, Asks, Ended, Is, Work
<1>3. X \subseteq Places \X Actions BY <1>2 DEF Everywhere, Places
<1>4. pc'[r] # pc[r] BY <1>1 DEF TypeInv, RequestsFit
<1>5. i \in RightIds /\ i[2] = u BY DEF Loses, TypeInv, RowsFit
<1>6. u = w.user
  <2>1. CASE i \in w.held BY <1>2, <1>5, <2>1, RowsOfRights
  <2>2. CASE i \notin w.held
    <3>1. i \in DOMAIN f /\ f[i] = rights[i] /\ r \in Makers BY <2>2 DEF Drop, Loses, Makers
    <3> HIDE DEF f, X
    <3>2. i \in DOMAIN rights' /\ (rights'[i] = rights[i] \/ i[2] = w.user)
      BY <1>1, <1>2, <1>3, <3>1, GrantGives
    <3> QED BY <1>5, <3>2 DEF Loses
  <2> QED BY <2>1, <2>2
<1> QED BY <1>1, <1>2, <1>4, <1>6 DEF Explained, TakesAway

LEMMA ExpireExplains ==
    ASSUME TypeInv, Expire, NEW i, NEW u, NEW s, NEW a, Loses(i, u, s, a)
    PROVE  Explained(u, s, a)
<1>1. PICK k \in DOMAIN rights : rights' = [rights EXCEPT ![k].grant = "expired"]
  BY DEF Expire
<1>2. rights[k] \in Right BY DEF TypeInv, RowsFit
<1>3. i = k BY <1>1 DEF Loses
<1>4. i \in DOMAIN rights' /\ rights'[i].grant = "expired" BY <1>1, <1>2, <1>3 DEF Right
<1> QED BY <1>4 DEF Explained, Loses, RightsAt, RightsOf

LEMMA StepExplains ==
    ASSUME TypeInv, RaceInv, NEW r \in Requests, Receive(r) \/ Step(r), rights' # rights,
           NEW i, NEW u, NEW s, NEW a, Loses(i, u, s, a)
    PROVE  Explained(u, s, a)
<1>1. CASE WriteRight(r) \/ RevokeRight(r) \/ CommitEdit(r)
  BY <1>1, WriteExplains, RevokeExplains, EditExplains
<1>2. CASE CommitHire(r)
  <2> DEFINE w == work[r]  X == Everywhere(w.grants) \cup call[r].explicit
  <2>1. pc[r] = "commit" /\ Is(r, "hire") /\ rights' = Grant(rights, r, w.user, X)
    BY <1>2 DEF CommitHire
  <2>2. X \subseteq Places \X Actions /\ w.user \in Emails
    BY <2>1, AtWork DEF Fits, Asks, Ended, Is, Work, Everywhere, Places
  <2>3. Inserts(r, w.user) BY <2>1 DEF Inserts, MayInsert, Is
  <2> HIDE DEF X
  <2> QED BY <2>1, <2>2, <2>3, GrantLosesNothing
<1>3. CASE InsertRights(r)
  <2> DEFINE w == work[r]  X == Everywhere(w.grants)
  <2>1. pc[r] = "insert" /\ rights' = Grant(rights, r, w.user, X) BY <1>3 DEF InsertRights
  <2>2. call[r].op = "invite" /\ w.user \in Emails /\ w.grants \subseteq Actions
    BY <2>1, AtWork DEF Fits, Runs, Ended, Work
  <2>3. X \subseteq Places \X Actions BY <2>2 DEF Everywhere, Places
  <2>4. Inserts(r, w.user) BY <2>1, <2>2 DEF Inserts, MayInsert
  <2> HIDE DEF X
  <2> QED BY <2>1, <2>2, <2>3, <2>4, GrantLosesNothing
<1>4. ~ Receive(r)
  <2>1. \A c, p, w : ~ Begin(r, c, p, w) BY DEF Begin, db
  <2>2. /\ \A U, k, A, g : ~ BeginAssign(r, U, k, A, g)
        /\ \A k, p, A : ~ BeginRevoke(r, k, p, A)
    BY <2>1 DEF BeginAssign, BeginRevoke
  <2>3. /\ \A e, t, X, S : ~ BeginHire(r, e, t, X, S)
        /\ \A e, t, S : ~ BeginInvite(r, e, t, S)
    BY <2>1 DEF BeginHire, BeginInvite
  <2>4. \A e, t, X, S, data : ~ BeginEdit(r, e, t, X, S, data)
    <3> SUFFICES ASSUME NEW e, NEW t, NEW X, NEW S, NEW data, BeginEdit(r, e, t, X, S, data)
                 PROVE  \E c, p, w : Begin(r, c, p, w)
      BY <2>1
    <3> QED BY DEF BeginEdit
  <2>6. \A e, S : ~ BeginSetStores(r, e, S) /\ ~ BeginSetRights(r, e)
    BY <2>1 DEF BeginSetStores, BeginSetRights
  <2>5. /\ \A U, t, p : ~ BeginAssignTemplate(r, U, t, p)
        /\ \A op, t, row : ~ BeginTemplate(r, op, t, row)
    BY <2>1 DEF BeginAssignTemplate, BeginTemplate
  <2> QED BY <2>2, <2>3, <2>4, <2>5, <2>6, Zenon DEF Receive
<1>5. ~ (\/ NextUser(r) \/ Join(r) \/ JoinThrows(r) \/ FindRight(r) \/ RightIsGone(r) \/ Draw(r)
         \/ EmailIsTaken(r) \/ Mail(r) \/ MailFails(r) \/ LockUser(r) \/ Look(r) \/ Take(r)
         \/ ClearStores(r) \/ AddStore(r) \/ AssignTemplate(r) \/ WriteTemplate(r)
         \/ CountRoles(r) \/ RetireTemplate(r) \/ NoConnection(r))
  BY DEF NextUser, Join, JoinThrows, FindRight, RightIsGone, Draw, EmailIsTaken, Mail, MailFails,
     LockUser, Look, Take, ClearStores, AddStore, AssignTemplate, WriteTemplate, CountRoles,
     RetireTemplate, NoConnection, Fail, db
<1> QED BY <1>1, <1>2, <1>3, <1>4, <1>5 DEF Step

LEMMA NextExplains ==
    ASSUME TypeInv, RaceInv, [Next]_vars, rights' # rights, NEW u, NEW s, NEW a,
           May(u, s, a), ~ May(u, s, a)'
    PROVE  Explained(u, s, a)
<1>1. PICK i \in RightsAt(u, s) : a \in rights[i].actions /\ rights[i].grant \in {"lasting", "timed"}
  BY DEF May
<1>2. Loses(i, u, s, a) BY <1>1 DEF Loses, May, RightsAt, RightsOf, TypeInv, RowsFit
<1>3. Next BY DEF vars, db
<1>4. ASSUME NEW r \in Requests, Receive(r) \/ Step(r) PROVE Explained(u, s, a)
  BY <1>2, <1>4, StepExplains
<1>5. ~ Crash BY DEF Crash, db
<1> QED BY <1>2, <1>3, <1>4, <1>5, ExpireExplains DEF Next

\* However assignments, revocations, hires and edits overlap, a right goes only when it
\* expires, when a request that takes it away is at work on its user, or when two
\* assignments or revocations of the user in that place overlap.
THEOREM RightsGoWhenAsked == Spec => RightsLostOnlyWhenAsked
<1>1. TypeInv /\ RaceInv /\ [Next]_vars =>
        [rights' # rights => \A u \in users, s \in Places, a \in Actions :
           (May(u, s, a) /\ ~ May(u, s, a)') =>
              \/ \E i \in RightsAt(u, s) : i \in DOMAIN rights' /\ rights'[i].grant = "expired"
              \/ \E r \in Requests :
                    /\ pc'[r] # pc[r] /\ u \in call[r].users
                    /\ \/ TakesAway(r, s, a)
                       \/ \E q \in Requests :
                            /\ Together(q, r) /\ u \in call[q].users
                            /\ call[q].op \in {"assign", "revoke"} /\ call[q].store = s]_vars
  BY NextExplains DEF Explained
<1>2. Spec => []TypeInv BY InitTyped, NextTyped, PTL DEF Spec
<1>3. Spec => []RaceInv BY <1>2, InitRaces, NextRaces, PTL DEF Spec
<1> QED BY <1>1, <1>2, <1>3, PTL DEF Spec, RightsLostOnlyWhenAsked

----------------------------------------------------------------------------
(* An employee has one role of its own *)

\* A step of r that may write the roles of its own user.
LEMMA LockGoes ==
    ASSUME TypeInv, LockInv, NEW r \in Requests, NEW p, NEW w, Goto(r, p, w), call' = call,
           p # "idle", \A i \in DOMAIN roles' : i \in DOMAIN roles \/ i[1] = r,
           \A u \in users' : \E i \in DOMAIN roles' : OwnRoles(u)' = {i},
           \A q \in Requests \ {r}, u \in Emails :
              (/\ call[q].op = "edit" /\ pc[q] \notin Ended /\ call[q].changes
               /\ work[q].user = u /\ <<u>> \in work[q].held)
                  => OwnRoles(u)' \subseteq OwnRoles(u),
           p \notin Ended => /\ \A u : u = w.user => Holds(call[r], p, w, OwnRoles(u)')
                            /\ \A u \in Emails :
                                  <<u>> \in w.held => <<u>> \in work[r].held \/ Free(r, {<<u>>})
    PROVE  LockInv'
<1> DEFINE v == IF p \in Ended THEN Rest ELSE w
<1>1. /\ pc'[r] = p /\ work'[r] = v
      /\ \A q \in Requests \ {r} : pc'[q] = pc[q] /\ work'[q] = work[q]
  BY DEF Goto, TypeInv, RequestsFit
<1>2. \A i \in DOMAIN roles' : i[1] \in Requests => pc'[i[1]] # "idle" BY <1>1 DEF LockInv
<1>3. ASSUME NEW q \in Requests, NEW u, u = work'[q].user
      PROVE  Holds(call[q], pc'[q], work'[q], OwnRoles(u)')
  <2>1. CASE q = r BY <1>1, <1>3, <2>1 DEF Holds
  <2>2. CASE q # r
    <3>1. pc'[q] = pc[q] /\ work'[q] = work[q] /\ u = work[q].user BY <1>1, <1>3, <2>2
    <3>2. Holds(call[q], pc[q], work[q], OwnRoles(u)) BY <3>1 DEF LockInv
    <3>3. Holds(call[q], pc[q], work[q], OwnRoles(u)')
      <4> SUFFICES ASSUME call[q].op = "edit", pc[q] \notin Ended, call[q].changes,
                          \/ pc[q] = "take" /\ "roles" \in work[q].plan
                          \/ "roles" \notin work[q].plan
                   PROVE  OwnRoles(u)' \subseteq OwnRoles(u)
        BY <3>2 DEF Holds
      <4>1. "user" \notin work[q].plan BY <3>2 DEF Holds, First
      <4>2. <<u>> \in work[q].held BY <3>1, <3>2, <4>1 DEF Holds
      <4>3. u \in Emails BY <3>1, AtWork DEF Fits, Runs, Ended
      <4> QED BY <2>2, <3>1, <4>2, <4>3
    <3> QED BY <3>1, <3>3
  <2> QED BY <2>1, <2>2
<1>4. ASSUME NEW q \in Requests \ {r}, NEW u \in Emails, <<u>> \in work'[q].held \cap work'[r].held
      PROVE  FALSE
  <2>1. <<u>> \in work[q].held BY <1>1, <1>4
  <2>2. p \notin Ended /\ <<u>> \in w.held BY <1>1, <1>4 DEF Rest
  <2>3. <<u>> \in work[r].held \/ Free(r, {<<u>>}) BY <2>2
  <2>4. ~ Free(r, {<<u>>}) BY <2>1 DEF Free
  <2> QED BY <2>1, <2>3, <2>4 DEF LockInv
<1>5. \A q, k \in Requests, u \in Emails : <<u>> \in work'[q].held \cap work'[k].held => q = k
  <2> SUFFICES ASSUME NEW q \in Requests, NEW k \in Requests, NEW u \in Emails, q # k,
                      <<u>> \in work'[q].held \cap work'[k].held
               PROVE  FALSE
    OBVIOUS
  <2>1. CASE q = r \/ k = r BY <1>4, <2>1
  <2>2. CASE q # r /\ k # r BY <1>1, <2>2 DEF LockInv
  <2> QED BY <2>1, <2>2
<1>6. \A q \in Requests : Holds(call[q], pc[q], work[q], OwnRoles(work[q].user))'
  BY <1>3 DEF Holds, OwnRoles, RolesOf, Is
<1> QED BY <1>2, <1>5, <1>6 DEF LockInv

LEMMA SameRoles ==
    ASSUME UNCHANGED <<roles, call>>
    PROVE  \A u : OwnRoles(u)' = OwnRoles(u)
  BY DEF OwnRoles, RolesOf, Is

\* A step that writes no roles.
LEMMA LockStays ==
    ASSUME TypeInv, LockInv, NEW r \in Requests, NEW p, NEW w, Goto(r, p, w),
           UNCHANGED <<roles, users, call>>, p # "idle",
           p \notin Ended => /\ Holds(call[r], p, w, OwnRoles(w.user))
                            /\ \A u \in Emails :
                                  <<u>> \in w.held => <<u>> \in work[r].held \/ Free(r, {<<u>>})
    PROVE  LockInv'
<1>1. \A u : OwnRoles(u)' = OwnRoles(u) BY SameRoles
<1>2. \A u \in users' : \E i \in DOMAIN roles' : OwnRoles(u)' = {i} BY <1>1 DEF LockInv
<1>3. p \notin Ended => /\ \A u : u = w.user => Holds(call[r], p, w, OwnRoles(u)')
                       /\ \A u \in Emails :
                             <<u>> \in w.held => <<u>> \in work[r].held \/ Free(r, {<<u>>})
  BY <1>1
<1>4. \A u : OwnRoles(u)' \subseteq OwnRoles(u) BY <1>1
<1> QED BY <1>2, <1>3, <1>4, LockGoes

LEMMA LockEnds ==
    ASSUME TypeInv, LockInv, NEW r \in Requests, NEW p \in Ended, NEW w, Goto(r, p, w),
           UNCHANGED <<roles, users, call>>
    PROVE  LockInv'
  BY LockStays DEF Ended

\* A step of a request that is no edit, and holds nothing.
LEMMA LockOthers ==
    ASSUME TypeInv, LockInv, NEW r \in Requests, NEW p, NEW w, Goto(r, p, w),
           UNCHANGED <<roles, users, call>>, p # "idle", ~ Is(r, "edit"), w.held = {}
    PROVE  LockInv'
  BY LockStays DEF Holds, Is

LEMMA HeldByEdits ==
    ASSUME TypeInv, NEW r \in Requests, ~ Is(r, "edit")
    PROVE  work[r].held = {}
  BY AtWork DEF Fits, Is

LEMMA LockKept ==
    ASSUME TypeInv, LockInv, NEW r \in Requests, NEW p, NEW x, UNCHANGED <<roles, users, call>>,
           p # "idle", ~ Is(r, "edit"),
           \/ Goto(r, p, work[r])
           \/ Goto(r, p, [work[r] EXCEPT !.user = x]) \/ Goto(r, p, [work[r] EXCEPT !.todo = x])
           \/ Goto(r, p, [work[r] EXCEPT !.found = x]) \/ Goto(r, p, [work[r] EXCEPT !.snap = x])
           \/ Goto(r, p, [work[r] EXCEPT !.grants = x])
    PROVE  LockInv'
<1>1. work[r] \in Work /\ work[r].held = {} BY AtWork, HeldByEdits
<1>2. /\ [work[r] EXCEPT !.user = x].held = {} /\ [work[r] EXCEPT !.todo = x].held = {}
      /\ [work[r] EXCEPT !.found = x].held = {} /\ [work[r] EXCEPT !.snap = x].held = {}
      /\ [work[r] EXCEPT !.grants = x].held = {}
  BY <1>1 DEF Work
<1> QED BY <1>1, <1>2, LockOthers

\* Steps that write no roles, of requests that are no edits, and those that end a request.
LEMMA QuietLocks ==
    ASSUME TypeInv, LockInv, NEW r \in Requests,
           \/ NextUser(r) \/ Join(r) \/ JoinThrows(r) \/ FindRight(r) \/ WriteRight(r)
           \/ RevokeRight(r) \/ RightIsGone(r) \/ EmailIsTaken(r) \/ InsertRights(r) \/ Mail(r)
           \/ MailFails(r) \/ (Look(r) /\ ~ Is(r, "edit")) \/ (Draw(r) /\ ~ Is(r, "edit"))
           \/ ClearStores(r) \/ AddStore(r) \/ WriteTemplate(r) \/ CountRoles(r)
           \/ RetireTemplate(r) \/ NoConnection(r)
    PROVE  LockInv'
<1>1. Runs(pc[r], call[r].op) BY AtWork
<1>2. CASE NextUser(r) \/ Join(r) \/ FindRight(r) \/ WriteRight(r) \/ RevokeRight(r) \/ InsertRights(r)
  <2>1. ~ Is(r, "edit") /\ UNCHANGED <<roles, users, call>>
    BY <1>1, <1>2 DEF NextUser, Join, FindRight, WriteRight, RevokeRight, InsertRights, Runs, Is, db
  <2>2. \E p, x : /\ p # "idle"
                  /\ \/ Goto(r, p, work[r]) \/ Goto(r, p, [work[r] EXCEPT !.user = x])
                     \/ Goto(r, p, [work[r] EXCEPT !.todo = x])
                     \/ Goto(r, p, [work[r] EXCEPT !.found = x])
    <3>1. CASE NextUser(r)
      <4>1. \E p \in {"find", "join"} : \E u : Goto(r, p, [work[r] EXCEPT !.user = u])
        BY <3>1 DEF NextUser
      <4> QED BY <4>1
    <3>2. CASE Join(r) \/ RevokeRight(r) \/ InsertRights(r)
      <4>1. \E p \in {"find", "ok", "mail"} : Goto(r, p, work[r])
        BY <3>2 DEF Join, RevokeRight, InsertRights
      <4> QED BY <4>1
    <3>3. CASE FindRight(r)
      <4>1. \E p \in {"ok", "write"} : \E x : Goto(r, p, [work[r] EXCEPT !.found = x])
        BY <3>3 DEF FindRight
      <4> QED BY <4>1
    <3>4. CASE WriteRight(r)
      <4>1. \E p \in {"ok", "next"} : \E x : Goto(r, p, [work[r] EXCEPT !.todo = x])
        BY <3>4 DEF WriteRight
      <4> QED BY <4>1
    <3> QED BY <1>2, <3>1, <3>2, <3>3, <3>4
  <2> QED BY <2>1, <2>2, LockKept
<1>3. CASE JoinThrows(r) \/ RightIsGone(r) \/ EmailIsTaken(r) \/ Mail(r) \/ MailFails(r)
           \/ WriteTemplate(r) \/ RetireTemplate(r)
  <2>1. UNCHANGED <<roles, users, call>>
    BY <1>3 DEF JoinThrows, RightIsGone, EmailIsTaken, Mail, MailFails, WriteTemplate, RetireTemplate,
       Fail, db
  <2>2. \E w : Goto(r, "ok", w) \/ Goto(r, "failed", w)
    BY <1>3 DEF JoinThrows, RightIsGone, EmailIsTaken, Mail, MailFails, WriteTemplate, RetireTemplate,
       Fail
  <2> QED BY <2>1, <2>2, LockEnds DEF Ended
<1>4. CASE (Look(r) \/ Draw(r)) /\ ~ Is(r, "edit")
  <2>1. UNCHANGED <<roles, users, call>> BY <1>4 DEF Look, Draw, db
  <2>2. CASE Look(r)
    <3>1. \E x : Goto(r, "take", [work[r] EXCEPT !.snap = x]) BY <2>2 DEF Look
    <3> QED BY <1>4, <2>1, <3>1, LockKept
  <2>3. CASE Draw(r)
    <3>1. \E p \in {"commit", "insert"} : \E x : Goto(r, p, [work[r] EXCEPT !.grants = x])
      BY <1>4, <2>3 DEF Draw, Advance, After
    <3> QED BY <1>4, <2>1, <3>1, LockKept
  <2> QED BY <1>4, <2>2, <2>3
<1>5. CASE ClearStores(r) \/ AddStore(r) \/ CountRoles(r)
  <2>1. ~ Is(r, "edit") /\ UNCHANGED <<roles, users, call>>
    BY <1>1, <1>5 DEF ClearStores, AddStore, CountRoles, Runs, Is, db
  <2>2. \/ \E p \in {"ok", "add"} : \E x : Goto(r, p, [work[r] EXCEPT !.todo = x])
        \/ \E p \in {"refused", "retire"} : Goto(r, p, work[r])
    BY <1>5 DEF ClearStores, AddStore, AfterStore, CountRoles
  <2> QED BY <2>1, <2>2, LockKept
<1>6. CASE NoConnection(r)
  <2>1. UNCHANGED <<roles, users, call>> BY <1>6 DEF NoConnection, db
  <2>2. CASE pc[r] = "add"
    <3>1. ~ Is(r, "edit") BY <1>1, <2>2 DEF Runs, Is
    <3>2. \E p \in {"ok", "add"} : \E x : Goto(r, p, [work[r] EXCEPT !.todo = x])
      BY <1>6, <2>2 DEF NoConnection, AfterStore
    <3> QED BY <2>1, <3>1, <3>2, LockKept
  <2>3. CASE pc[r] # "add" /\ Swallows(r)
    <3>1. ~ Is(r, "edit") /\ Goto(r, "mail", work[r])
      BY <1>6, <2>3 DEF NoConnection, Swallows, Is
    <3> QED BY <2>1, <3>1, LockKept
  <2>4. CASE pc[r] # "add" /\ ~ Swallows(r)
    BY <1>6, <2>1, <2>4, LockEnds DEF NoConnection, Ended
  <2> QED BY <2>2, <2>3, <2>4
<1> QED BY <1>2, <1>3, <1>4, <1>5, <1>6

\* A statement of an edit is over; what it locked or deleted is held.
LEMMA AdvanceLocks ==
    ASSUME TypeInv, LockInv, NEW r \in Requests, NEW w \in Work, Advance(r, w), Is(r, "edit"),
           pc[r] \notin Ended, UNCHANGED <<roles, users, call>>, w.user = work[r].user,
           work[r].held \subseteq w.held, w.plan = work[r].plan,
           First(w.plan) = "user" => <<w.user>> \in w.held,
           First(w.plan) = "roles" /\ call[r].changes => OwnRoles(w.user) \subseteq w.held,
           \A u \in Emails : <<u>> \in w.held => <<u>> \in work[r].held \/ Free(r, {<<u>>})
    PROVE  LockInv'
<1> DEFINE P == w.plan \ {First(w.plan)}
           v == [w EXCEPT !.plan = P]
<1>1. Goto(r, First(P), v) BY DEF Advance, After, Ahead
<1>2. P \subseteq Stages BY DEF Work
<1>3. v.plan = P /\ v.user = w.user /\ v.held = w.held /\ v.snap = w.snap BY <1>2 DEF Work
<1>4. First(P) \in Stages BY FirstIsStage
<1>5. Holds(call[r], pc[r], work[r], OwnRoles(w.user)) BY DEF LockInv
<1>6. ASSUME call[r].changes, "user" \notin P
      PROVE  <<w.user>> \in w.held
  <2>1. CASE First(w.plan) = "user" BY <2>1
  <2>2. CASE First(w.plan) # "user" BY <1>5, <1>6, <2>2 DEF Holds, Is
  <2> QED BY <2>1, <2>2
<1>7. ASSUME call[r].changes, "roles" \notin P
      PROVE  "user" \notin P /\ OwnRoles(w.user) \subseteq w.held
  <2>1. CASE First(w.plan) = "roles"
    <3>1. "user" \notin w.plan BY <2>1 DEF First
    <3> QED BY <1>7, <2>1, <3>1
  <2>2. CASE First(w.plan) # "roles" BY <1>5, <1>7, <2>2 DEF Holds, Is
  <2> QED BY <2>1, <2>2
<1> HIDE DEF P, v
<1>8. Holds(call[r], First(P), v, OwnRoles(v.user))
  BY <1>3, <1>4, <1>6, <1>7 DEF Holds, Stages
<1>9. First(P) # "idle" BY <1>4 DEF Stages
<1> QED BY <1>1, <1>3, <1>8, <1>9, LockStays

LEMMA EditLocks ==
    ASSUME TypeInv, LockInv, NEW r \in Requests, Is(r, "edit"), Draw(r) \/ LockUser(r) \/ Look(r) \/ Take(r)
    PROVE  LockInv'
<1>1. work[r] \in Work /\ Fits(call[r], pc[r], work[r], users) BY AtWork
<1>2. UNCHANGED <<roles, users, call>> /\ pc[r] \notin Ended
  BY DEF Draw, LockUser, Look, Take, db, Ended
<1>3. Holds(call[r], pc[r], work[r], OwnRoles(work[r].user)) BY DEF LockInv
<1>4. CASE Draw(r)
  <2>1. PICK t \in Source(r) : Advance(r, [work[r] EXCEPT !.grants = Granted(t)])
    BY <1>4 DEF Draw
  <2> DEFINE w == [work[r] EXCEPT !.grants = Granted(t)]
  <2>2. Granted(t) \subseteq Actions BY DEF TypeInv, RowsFit, Template, Granted, IsActive
  <2>3. w \in Work /\ w.user = work[r].user /\ w.held = work[r].held /\ w.plan = work[r].plan
    BY <1>1, <2>2 DEF Work
  <2>4. First(w.plan) = "draw" BY <1>3, <1>4, <2>3 DEF Holds, Draw, Stages, Is, Ended
  <2>5. Advance(r, w) BY <2>1
  <2> HIDE DEF w
  <2> QED BY <1>2, <2>3, <2>4, <2>5, AdvanceLocks
<1>5. CASE LockUser(r)
  <2> DEFINE row == {<<work[r].user>>}
             w == [work[r] EXCEPT !.held = @ \cup row]
  <2>1. pc[r] = "user" /\ Advance(r, w) /\ Free(r, row) BY <1>5 DEF LockUser
  <2>2. row \subseteq RowsOf(work[r].user) /\ work[r].user \in Emails
    BY <1>1, <2>1, AtWork DEF RowsOf, Fits, Ended, Is
  <2>3. work[r].held \cup row \in SUBSET UNION {RowsOf(u) : u \in Emails}
    BY <1>1, <2>2 DEF Work
  <2> HIDE DEF row
  <2>4. /\ w \in Work /\ w.user = work[r].user /\ w.held = work[r].held \cup row
        /\ w.plan = work[r].plan
    BY <1>1, <2>3 DEF Work
  <2> HIDE DEF w
  <2>5. First(w.plan) = "user" BY <1>3, <2>1, <2>4 DEF Holds, Stages, Is, Ended
  <2>6. \A u \in Emails : <<u>> \in w.held => <<u>> \in work[r].held \/ Free(r, {<<u>>})
    BY <2>1, <2>4 DEF row
  <2>7. <<w.user>> \in w.held BY <2>4 DEF row
  <2> QED BY <1>2, <2>1, <2>4, <2>5, <2>6, <2>7, AdvanceLocks
<1>6. CASE Look(r)
  <2> DEFINE u == work[r].user
             S == CASE pc[r] = "roles" -> RolesOf(u)
                    [] pc[r] = "rights" -> RightsOf(u)
                    [] OTHER -> {p \in members : p[1] = u}
             w == [work[r] EXCEPT !.snap = S]
  <2>1. pc[r] \in {"roles", "rights", "stores"} /\ Goto(r, "take", w) BY <1>6 DEF Look
  <2>2. pc[r] = "roles" => S = RolesOf(u) OBVIOUS
  <2> HIDE DEF S
  <2>3. w.user = u /\ w.held = work[r].held /\ w.snap = S /\ w.plan = work[r].plan
    BY <1>1 DEF Work
  <2> HIDE DEF w
  <2>4. pc[r] = First(work[r].plan) BY <1>3, <2>1 DEF Holds, Stages, Is, Ended
  <2>5. ASSUME "roles" \in work[r].plan PROVE OwnRoles(u) \subseteq S \/ "user" \in work[r].plan
    BY <2>1, <2>2, <2>4, <2>5 DEF First, OwnRoles
  <2>6. "user" \notin work[r].plan BY <2>1, <2>4 DEF First
  <2>7. Holds(call[r], "take", w, OwnRoles(w.user))
    BY <1>2, <1>3, <2>1, <2>3, <2>4, <2>5, <2>6 DEF Holds, Stages, Is
  <2> QED BY <1>2, <2>1, <2>3, <2>7, LockStays
<1>7. CASE Take(r)
  <2> DEFINE left == work[r].snap \cap (DOMAIN roles \cup DOMAIN rights \cup members)
             w == [work[r] EXCEPT !.held = @ \cup left, !.snap = {}]
  <2>1. pc[r] = "take" /\ Advance(r, w) BY <1>7 DEF Take
  <2>2. left \subseteq work[r].snap OBVIOUS
  <2>3. \A x \in left : \A u : x # <<u>> BY DEF TypeInv, RowsFit, RoleIds, RightIds
  <2>4. OwnRoles(work[r].user) \subseteq work[r].snap => OwnRoles(work[r].user) \subseteq left
    BY DEF OwnRoles, RolesOf
  <2> HIDE DEF left
  <2>5. /\ w \in Work /\ w.user = work[r].user /\ w.held = work[r].held \cup left
        /\ w.plan = work[r].plan
    BY <1>1, <2>2 DEF Work
  <2> HIDE DEF w
  <2>6. First(w.plan) \in {"roles", "rights", "stores"}
    BY <1>3, <2>1, <2>5 DEF Holds, Is, Ended
  <2>7. First(w.plan) = "roles" /\ call[r].changes => OwnRoles(w.user) \subseteq w.held
    BY <1>3, <2>1, <2>4, <2>5 DEF Holds, Is, Ended, First
  <2>8. \A u \in Emails : <<u>> \in w.held => <<u>> \in work[r].held \/ Free(r, {<<u>>})
    BY <2>3, <2>5
  <2> QED BY <1>2, <2>1, <2>5, <2>6, <2>7, <2>8, AdvanceLocks
<1> QED BY <1>4, <1>5, <1>6, <1>7

\* A role is among the rows of its user only.
LEMMA RowsOfRoles == \A i \in RoleIds : \A u \in Emails : i \in RowsOf(u) => i[2] = u
<1> SUFFICES ASSUME NEW i \in RoleIds, NEW u \in Emails, i \in RowsOf(u), i[2] # u
             PROVE  FALSE
  OBVIOUS
<1>1. i \in Makers \X {u} \/ i \in {u} \X Stores BY DEF RowsOf, RoleIds
<1>2. i[1] \in Makers BY DEF RoleIds
<1> QED BY <1>1, <1>2, AccessAssumption DEF Makers

LEMMA CommitEditLocks ==
    ASSUME TypeInv, LockInv, NEW r \in Requests, CommitEdit(r)
    PROVE  LockInv'
<1>0. PICK e : e = work[r].user OBVIOUS
<1> DEFINE w == work[r]
           x == [user |-> e, template |-> Chosen(r), store |-> None]
<1>1. /\ pc[r] = "commit" /\ Is(r, "edit") /\ Goto(r, "ok", w) /\ UNCHANGED <<users, call>>
      /\ roles' = IF call[r].changes THEN Put(Drop(roles, w.held), <<r, e>>, x) ELSE roles
  BY <1>0 DEF CommitEdit
<1>2. e \in Emails /\ w.held \subseteq RowsOf(e) /\ call[r].users = {e} /\ e \in users
  BY <1>0, <1>1, AtWork DEF Fits, Runs, Asks, Ended, Is
<1>3. CASE ~ call[r].changes BY <1>1, <1>3, LockEnds DEF Ended
<1>4. CASE call[r].changes
  <2>1. \A i : /\ i \in DOMAIN roles' <=> (i = <<r, e>> \/ (i \in DOMAIN roles /\ i \notin w.held))
               /\ i = <<r, e>> => roles'[i] = x
               /\ i \in DOMAIN roles /\ i \notin w.held /\ i # <<r, e>> => roles'[i] = roles[i]
    BY <1>1, <1>4 DEF Put, Drop
  <2>2. <<e>> \in w.held /\ OwnRoles(e) \subseteq w.held
    <3>1. Holds(call[r], pc[r], w, OwnRoles(e)) BY <1>0 DEF LockInv
    <3>2. First(w.plan) = "commit" BY <1>1, <3>1 DEF Holds, Stages, Is, Ended
    <3>3. "roles" \notin w.plan /\ "user" \notin w.plan BY <3>2 DEF First
    <3> QED BY <1>0, <1>1, <1>4, <3>1, <3>3 DEF Holds, Is, Ended
  <2>3. x.user = e OBVIOUS
  <2> HIDE DEF x
  <2>4. OwnRoles(e)' = {<<r, e>>}
    <3>1. <<r, e>> \in OwnRoles(e)' BY <1>1, <2>1, <2>3 DEF OwnRoles, RolesOf, Is
    <3>2. \A i \in OwnRoles(e)' : i = <<r, e>>
      <4> SUFFICES ASSUME NEW i \in OwnRoles(e)', i # <<r, e>> PROVE FALSE OBVIOUS
      <4>1. i \in DOMAIN roles /\ i \notin w.held /\ roles'[i] = roles[i]
        BY <2>1 DEF OwnRoles, RolesOf
      <4>2. i \in OwnRoles(e) BY <1>1, <4>1 DEF OwnRoles, RolesOf, Is
      <4> QED BY <2>2, <4>1, <4>2
    <3> QED BY <3>1, <3>2
  <2>5. ASSUME NEW u \in Emails, u # e PROVE OwnRoles(u)' = OwnRoles(u)
    <3>1. \A i \in RoleIds : i[2] = u => i \notin w.held /\ i # <<r, e>>
      BY <1>2, <2>5, RowsOfRoles
    <3>2. \A i \in DOMAIN roles : i \in RoleIds /\ roles[i].user = i[2]
      BY DEF TypeInv, RowsFit
    <3>3. \A i \in OwnRoles(u) : i \in OwnRoles(u)'
      <4> TAKE i \in OwnRoles(u)
      <4>1. i \in DOMAIN roles /\ roles[i].user = u BY DEF OwnRoles, RolesOf
      <4>2. i \in DOMAIN roles' /\ roles'[i] = roles[i] BY <2>1, <3>1, <3>2, <4>1
      <4> QED BY <1>1, <4>1, <4>2 DEF OwnRoles, RolesOf, Is
    <3>4. \A i \in OwnRoles(u)' : i \in OwnRoles(u)
      <4> TAKE i \in OwnRoles(u)'
      <4>1. i # <<r, e>> BY <2>1, <2>3, <2>5 DEF OwnRoles, RolesOf
      <4>2. i \in DOMAIN roles /\ roles'[i] = roles[i] BY <2>1, <4>1 DEF OwnRoles, RolesOf
      <4> QED BY <1>1, <4>2 DEF OwnRoles, RolesOf, Is
    <3> QED BY <3>3, <3>4
  <2>6. \A i \in DOMAIN roles' : i \in DOMAIN roles \/ i[1] = r BY <2>1
  <2>7. \A u \in users' : \E i \in DOMAIN roles' : OwnRoles(u)' = {i}
    <3> TAKE u \in users'
    <3>1. CASE u = e BY <2>1, <2>4, <3>1
    <3>2. CASE u # e
      <4>1. u \in users /\ u \in Emails BY <1>1 DEF TypeInv, RowsFit
      <4>2. PICK i \in DOMAIN roles : OwnRoles(u) = {i} BY <4>1 DEF LockInv
      <4>3. OwnRoles(u)' = {i} BY <2>5, <3>2, <4>1, <4>2
      <4>4. i \in DOMAIN roles' BY <4>3 DEF OwnRoles, RolesOf
      <4> QED BY <4>3, <4>4
    <3> QED BY <3>1, <3>2
  <2>8. ASSUME NEW q \in Requests \ {r}, NEW u \in Emails, <<u>> \in work[q].held
        PROVE  OwnRoles(u)' \subseteq OwnRoles(u)
    <3>1. u # e BY <2>2, <2>8 DEF LockInv
    <3> QED BY <2>5, <3>1
  <2> QED BY <1>1, <2>6, <2>7, <2>8, LockGoes DEF Ended
<1> QED BY <1>3, <1>4

LEMMA CommitHireLocks ==
    ASSUME TypeInv, LockInv, NEW r \in Requests, CommitHire(r)
    PROVE  LockInv'
<1>0. PICK e : e = work[r].user OBVIOUS
<1> DEFINE w == work[r]
           x == [user |-> e, template |-> Chosen(r), store |-> None]
           p == IF Is(r, "hire") THEN "mail" ELSE "draw"
<1>1. /\ pc[r] = "commit" /\ ~ Is(r, "edit") /\ e \notin users /\ users' = users \cup {e}
      /\ call' = call /\ roles' = Put(roles, <<r, e>>, x) /\ Goto(r, p, w)
  BY <1>0 DEF CommitHire
<1>2. call[r].op \in {"hire", "invite"} BY <1>1, AtWork DEF Fits, Runs, Is
<1>3. x.user = e OBVIOUS
<1> HIDE DEF x
<1>4. \A i \in DOMAIN roles : roles[i].user # e /\ i[2] # e /\ i # <<r, e>>
  BY <1>1 DEF TypeInv, RowsFit
<1>5. \A i : /\ i \in DOMAIN roles' <=> (i = <<r, e>> \/ i \in DOMAIN roles)
             /\ i = <<r, e>> => roles'[i] = x
             /\ i \in DOMAIN roles => roles'[i] = roles[i]
  BY <1>1, <1>4 DEF Put
<1>6. OwnRoles(e)' = {<<r, e>>}
  <2>1. <<r, e>> \in OwnRoles(e)' BY <1>1, <1>2, <1>3, <1>5 DEF OwnRoles, RolesOf, Is
  <2>2. \A i \in OwnRoles(e)' : i = <<r, e>> BY <1>4, <1>5 DEF OwnRoles, RolesOf
  <2> QED BY <2>1, <2>2
<1>7. ASSUME NEW u, u # e PROVE OwnRoles(u)' = OwnRoles(u)
  <2>1. \A i \in OwnRoles(u)' : i \in OwnRoles(u)
    BY <1>1, <1>3, <1>5, <1>7 DEF OwnRoles, RolesOf, Is
  <2>2. \A i \in OwnRoles(u) : i \in OwnRoles(u)' BY <1>1, <1>5 DEF OwnRoles, RolesOf, Is
  <2> QED BY <2>1, <2>2
<1>8. \A i \in DOMAIN roles' : i \in DOMAIN roles \/ i[1] = r BY <1>5
<1>9. \A u \in users' : \E i \in DOMAIN roles' : OwnRoles(u)' = {i}
  <2> TAKE u \in users'
  <2>1. CASE u = e BY <1>5, <1>6, <2>1
  <2>2. CASE u # e
    <3>1. PICK i \in DOMAIN roles : OwnRoles(u) = {i} BY <1>1, <2>2 DEF LockInv
    <3> QED BY <1>5, <1>7, <2>2, <3>1
  <2> QED BY <2>1, <2>2
<1>10. ASSUME NEW q \in Requests \ {r}, NEW u \in Emails, call[q].op = "edit", pc[q] \notin Ended,
              work[q].user = u
       PROVE  OwnRoles(u)' \subseteq OwnRoles(u)
  <2>1. u \in users BY <1>10, AtWork DEF Fits, Runs, Asks
  <2> QED BY <1>1, <1>7, <2>1
<1>11. Holds(call[r], p, w, {}) /\ \A u : Holds(call[r], p, w, OwnRoles(u)')
  BY <1>1 DEF Holds, Is
<1>12. w.held = {} /\ p # "idle" BY <1>1, HeldByEdits
<1> QED BY <1>1, <1>8, <1>9, <1>10, <1>11, <1>12, LockGoes

LEMMA AssignTemplateLocks ==
    ASSUME TypeInv, LockInv, NEW r \in Requests, AssignTemplate(r)
    PROVE  LockInv'
<1> DEFINE s == call[r].store
           same(u) == {i \in RolesOf(u) : /\ roles[i].template \in call[r].templates
                                          /\ s # None /\ roles[i].store = s}
           new == {<<r, u>> : u \in {x \in call[r].users : same(x) = {}}}
<1>1. /\ pc[r] = "assign" /\ Goto(r, "ok", work[r]) /\ UNCHANGED <<users, call>>
      /\ roles' = [i \in (DOMAIN roles) \cup new |->
                     IF i \in new THEN [user |-> i[2], template |-> Chosen(r), store |-> s]
                     ELSE roles[i]]
  BY DEF AssignTemplate
<1>2. Is(r, "assignTemplate") /\ r # Seed BY <1>1, AtWork, AccessAssumption DEF Fits, Runs, Is
<1>3. \A i \in new : i[1] = r OBVIOUS
<1> HIDE DEF new
<1>4. \A u : OwnRoles(u)' = OwnRoles(u)
  <2> TAKE u
  <2>1. \A i \in OwnRoles(u)' : i \in OwnRoles(u)
    <3> TAKE i \in OwnRoles(u)'
    <3>1. i \in DOMAIN roles' /\ i \notin new BY <1>1, <1>2, <1>3 DEF OwnRoles, RolesOf, Is
    <3>2. i \in DOMAIN roles /\ roles'[i] = roles[i] BY <1>1, <3>1
    <3> QED BY <1>1, <3>2 DEF OwnRoles, RolesOf, Is
  <2>2. \A i \in OwnRoles(u) : i \in OwnRoles(u)'
    <3> TAKE i \in OwnRoles(u)
    <3>1. i \in DOMAIN roles /\ i \notin new BY <1>2, <1>3 DEF OwnRoles, RolesOf
    <3>2. i \in DOMAIN roles' /\ roles'[i] = roles[i] BY <1>1, <3>1
    <3> QED BY <1>1, <3>2 DEF OwnRoles, RolesOf, Is
  <2> QED BY <2>1, <2>2
<1>5. \A i \in DOMAIN roles : i \in DOMAIN roles' BY <1>1
<1>6. \A i \in DOMAIN roles' : i \in DOMAIN roles \/ i[1] = r BY <1>1, <1>3
<1>7. \A u \in users' : \E i \in DOMAIN roles' : OwnRoles(u)' = {i}
  BY <1>1, <1>4, <1>5 DEF LockInv
<1>8. \A u : OwnRoles(u)' \subseteq OwnRoles(u) BY <1>4
<1> QED BY <1>1, <1>6, <1>7, <1>8, LockGoes DEF Ended

LEMMA StepLocks ==
    ASSUME TypeInv, LockInv, NEW r \in Requests, Step(r)
    PROVE  LockInv'
<1>1. CASE \/ NextUser(r) \/ Join(r) \/ JoinThrows(r) \/ FindRight(r) \/ WriteRight(r)
           \/ RevokeRight(r) \/ RightIsGone(r) \/ EmailIsTaken(r) \/ InsertRights(r) \/ Mail(r)
           \/ MailFails(r) \/ ClearStores(r) \/ AddStore(r) \/ WriteTemplate(r)
           \/ CountRoles(r) \/ RetireTemplate(r) \/ NoConnection(r)
  BY <1>1, QuietLocks
<1>2. CASE Draw(r) \/ Look(r) BY <1>2, QuietLocks, EditLocks
<1>3. CASE LockUser(r) \/ Take(r)
  <2>1. Is(r, "edit") BY <1>3, AtWork DEF LockUser, Take, Fits, Runs, Is
  <2> QED BY <1>3, <2>1, EditLocks
<1>4. CASE CommitHire(r) \/ CommitEdit(r) \/ AssignTemplate(r)
  BY <1>4, CommitHireLocks, CommitEditLocks, AssignTemplateLocks
<1> QED BY <1>1, <1>2, <1>3, <1>4 DEF Step

\* A request that has not begun made no role, so that what it asks for changes none.
LEMMA BeginLocks ==
    ASSUME TypeInv, LockInv, NEW r \in Requests, NEW c, NEW p, NEW w, Begin(r, c, p, w),
           p # "idle", p \notin Ended => w.held = {} /\ \A own : Holds(c, p, w, own)
    PROVE  LockInv'
<1> DEFINE v == IF p \in Ended THEN Rest ELSE w
<1>1. /\ pc[r] = "idle" /\ roles' = roles /\ users' = users /\ pc'[r] = p /\ work'[r] = v
      /\ \A q \in Requests \ {r} : pc'[q] = pc[q] /\ work'[q] = work[q] /\ call'[q] = call[q]
      /\ p \notin Ended => call'[r] = c
  BY DEF Begin, Goto, db, TypeInv, RequestsFit, Ended
<1>2. v.held = {} BY DEF Rest
<1>3. \A i \in DOMAIN roles : i[1] # r /\ i[1] \in Makers
  BY <1>1 DEF LockInv, TypeInv, RowsFit, RoleIds
<1>4. \A i \in DOMAIN roles : i[1] # Seed => (Is(i[1], "assignTemplate")' <=> Is(i[1], "assignTemplate"))
  BY <1>1, <1>3 DEF Is, Makers
<1>5. \A u : OwnRoles(u)' = OwnRoles(u) BY <1>1, <1>4 DEF OwnRoles, RolesOf
<1>6. ASSUME NEW q \in Requests, NEW u, u = work'[q].user
      PROVE  Holds(call'[q], pc'[q], work'[q], OwnRoles(u)')
  <2>1. CASE q = r BY <1>1, <2>1 DEF Holds
  <2>2. CASE q # r BY <1>1, <1>5, <1>6, <2>2 DEF LockInv
  <2> QED BY <2>1, <2>2
<1>7. \A q \in Requests : Holds(call[q], pc[q], work[q], OwnRoles(work[q].user))'
  BY <1>6 DEF Holds, OwnRoles, RolesOf, Is
<1>8. \A q, k \in Requests, u \in Emails : <<u>> \in work'[q].held \cap work'[k].held => q = k
  <2> TAKE q, k \in Requests, u \in Emails
  <2>1. CASE q = r \/ k = r BY <1>1, <1>2, <2>1
  <2>2. CASE q # r /\ k # r BY <1>1, <2>2 DEF LockInv
  <2> QED BY <2>1, <2>2
<1>9. \A i \in DOMAIN roles' : i[1] \in Requests => pc'[i[1]] # "idle"
  BY <1>1, <1>3 DEF LockInv
<1>10. \A u \in users' : \E i \in DOMAIN roles' : OwnRoles(u)' = {i} BY <1>1, <1>5 DEF LockInv
<1> QED BY <1>7, <1>8, <1>9, <1>10 DEF LockInv

LEMMA ReceiveLocks ==
    ASSUME TypeInv, LockInv, NEW r \in Requests, Receive(r)
    PROVE  LockInv'
<1>1. ASSUME NEW c, c.op # "edit", NEW p, p # "idle", NEW x,
             \/ Begin(r, c, p, Rest) \/ Begin(r, c, p, [Rest EXCEPT !.user = x])
             \/ Begin(r, c, p, [Rest EXCEPT !.todo = x])
      PROVE  LockInv'
  <2>1. \A w, own : Holds(c, p, w, own) BY <1>1 DEF Holds
  <2>2. Rest.held = {} /\ [Rest EXCEPT !.user = x].held = {} /\ [Rest EXCEPT !.todo = x].held = {}
    BY DEF Rest
  <2> QED BY <1>1, <2>1, <2>2, BeginLocks
<1>2. \A U, s, A, g : BeginAssign(r, U, s, A, g) => LockInv' BY <1>1 DEF BeginAssign
<1>3. \A u, s, A : BeginRevoke(r, u, s, A) => LockInv' BY <1>1 DEF BeginRevoke
<1>4. \A e, t, X, S : BeginHire(r, e, t, X, S) => LockInv' BY <1>1 DEF BeginHire
<1>5. \A e, t, S : BeginInvite(r, e, t, S) => LockInv' BY <1>1 DEF BeginInvite
<1>6. \A u, t, X, S, data : BeginEdit(r, u, t, X, S, data) => LockInv'
  <2> TAKE u, t, X, S, data
  <2> HAVE BeginEdit(r, u, t, X, S, data)
  <2>1. PICK current \in TemplatesOf(u) :
          LET changes == t \notin {None, current}
              plan == Plan(data, changes, X, S)
          IN Begin(r, [op |-> "edit", users |-> {u}, changes |-> changes, explicit |-> X,
                       stores |-> S,
                       templates |-> IF changes THEN {t} ELSE TemplatesOf(u)],
                   IF changes /\ ~ IsActive(t) THEN "refused" ELSE First(plan),
                   [Rest EXCEPT !.user = u, !.plan = plan])
    BY DEF BeginEdit
  <2> DEFINE changes == t \notin {None, current}
             plan == Plan(data, changes, X, S)
             c == [op |-> "edit", users |-> {u}, changes |-> changes, explicit |-> X,
                   stores |-> S, templates |-> IF changes THEN {t} ELSE TemplatesOf(u)]
             p == IF changes /\ ~ IsActive(t) THEN "refused" ELSE First(plan)
             w == [Rest EXCEPT !.user = u, !.plan = plan]
  <2>2. Begin(r, c, p, w) BY <2>1
  <2>3. c.op = "edit" /\ c.changes = changes OBVIOUS
  <2>4. w.held = {} /\ w.plan = plan BY DEF Rest
  <2>5. changes => "user" \in plan /\ "roles" \in plan BY DEF Plan
  <2>6. p = "refused" \/ (p = First(plan) /\ p \in Stages) BY FirstIsStage
  <2> HIDE DEF plan, c, p, w, changes
  <2>7. ASSUME p \notin Ended PROVE \A own : Holds(c, p, w, own)
    BY <2>3, <2>4, <2>5, <2>6, <2>7 DEF Holds, Stages, Ended
  <2>8. p # "idle" BY <2>6 DEF Stages
  <2> QED BY <2>2, <2>4, <2>7, <2>8, BeginLocks
<1>7. \A u, S : BeginSetStores(r, u, S) \/ BeginSetRights(r, u) => LockInv'
  BY <1>1 DEF BeginSetStores, BeginSetRights
<1>8. \A U, t, s : BeginAssignTemplate(r, U, t, s) => LockInv' BY <1>1 DEF BeginAssignTemplate
<1>9. \A op \in {"createTemplate", "updateTemplate", "deleteTemplate"} :
        \A t, row : BeginTemplate(r, op, t, row) => LockInv'
  BY <1>1 DEF BeginTemplate
<1>10. /\ \A t, row : BeginTemplate(r, "createTemplate", t, row) => LockInv'
       /\ \A t, row : BeginTemplate(r, "updateTemplate", t, row) => LockInv'
       /\ \A t, row : BeginTemplate(r, "deleteTemplate", t, row) => LockInv'
  BY <1>9
<1> QED BY <1>2, <1>3, <1>4, <1>5, <1>6, <1>7, <1>8, <1>10, Zenon DEF Receive

LEMMA CrashLocks ==
    ASSUME TypeInv, LockInv, Crash
    PROVE  LockInv'
<1>1. /\ UNCHANGED <<call, roles, users>>
      /\ \A q \in Requests : /\ pc'[q] \in Ended \cup {"idle"} /\ work'[q] = Rest
                             /\ pc'[q] = "idle" => pc[q] = "idle"
  BY DEF Crash, InFlight, Ended, db
<1>2. \A u : OwnRoles(u)' = OwnRoles(u) BY <1>1, SameRoles
<1>3. \A q \in Requests : pc'[q] \notin Ended => call[q].op = "none"
  BY <1>1, AtWork DEF Fits, Runs
<1>4. \A q \in Requests : Holds(call[q], pc[q], work[q], OwnRoles(work[q].user))'
  BY <1>1, <1>3 DEF Holds
<1>5. \A q \in Requests : work'[q].held = {} BY <1>1 DEF Rest
<1>6. \A i \in DOMAIN roles' : i[1] \in Requests => pc'[i[1]] # "idle" BY <1>1 DEF LockInv
<1>7. \A u \in users' : \E i \in DOMAIN roles' : OwnRoles(u)' = {i} BY <1>1, <1>2 DEF LockInv
<1> QED BY <1>4, <1>5, <1>6, <1>7 DEF LockInv

LEMMA NextLocks == TypeInv /\ LockInv /\ [Next]_vars => LockInv'
<1> SUFFICES ASSUME TypeInv, LockInv, [Next]_vars PROVE LockInv' OBVIOUS
<1>1. ASSUME UNCHANGED <<roles, users, pc, call, work>>
      PROVE  LockInv'
  BY <1>1 DEF LockInv, Holds, OwnRoles, RolesOf, Is
<1>2. CASE Next
  <2>1. ASSUME NEW r \in Requests, Receive(r) PROVE LockInv' BY <2>1, ReceiveLocks
  <2>2. ASSUME NEW r \in Requests, Step(r) PROVE LockInv' BY <2>2, StepLocks
  <2>3. CASE Expire BY <1>1, <2>3 DEF Expire
  <2> QED BY <1>2, <2>1, <2>2, <2>3, CrashLocks DEF Next
<1>3. CASE UNCHANGED vars BY <1>1, <1>3 DEF vars, db
<1> QED BY <1>2, <1>3

LEMMA InitLocks == Init => LockInv
<1> SUFFICES ASSUME Init PROVE LockInv OBVIOUS
<1> DEFINE first == <<Seed, SeedEmail>>
<1>1. /\ users = {SeedEmail}
      /\ roles = [i \in {first} |->
                    [user |-> SeedEmail, template |-> SeedTemplate, store |-> None]]
      /\ call = [r \in Requests |-> NoCall] /\ work = [r \in Requests |-> Rest]
  BY DEF Init
<1>2. OwnRoles(SeedEmail) = {first} /\ first \in DOMAIN roles BY <1>1 DEF OwnRoles, RolesOf
<1>3. \A i \in DOMAIN roles : i[1] \notin Requests BY <1>1, AccessAssumption
<1>4. \A r \in Requests : call[r].op = "none" /\ work[r].held = {} BY <1>1 DEF NoCall, Rest
<1> QED BY <1>1, <1>2, <1>3, <1>4 DEF LockInv, Holds

\* However edits, hires and assignments of templates overlap, an employee has one role
\* of its own: the edit that changes it holds the row of the user from its update to
\* its commit, and deletes under that lock the role it replaces.
THEOREM OneRoleHolds == Spec => []OneRole
<1>1. LockInv => OneRole BY FS_Singleton DEF LockInv, OneRole
<1>2. Spec => []TypeInv BY InitTyped, NextTyped, PTL DEF Spec
<1>3. Spec => []LockInv BY <1>2, InitLocks, NextLocks, PTL DEF Spec
<1> QED BY <1>1, <1>3, PTL

----------------------------------------------------------------------------
(* The guard and the list *)

\* The rows of the list of a user, before those for everywhere are left out.
Rows(u, s) ==
    {i \in RightsOf(u) : /\ rights[i].grant # "denied"
                         /\ rights[i].store \in {s, None} \/ rights[i].grant # "expired"}
Listed(u, s) ==
    (UNION {{rights[i].store} \X rights[i].actions : i \in Rows(u, s)})
    \cup Everywhere(RoleGrants(u, {s, None}))

LEMMA ListingIs ==
    ASSUME NEW u, NEW s
    PROVE  Listing(u, s) =
             {x \in Listed(u, s) : x[1] = None => \A q \in Stores : <<q, x[2]>> \notin Listed(u, s)}
  BY DEF Listing, Listed, Rows

\* What is listed is a right that is not denied, or granted by a role.
LEMMA ListedFrom ==
    ASSUME NEW u, NEW s, NEW p, NEW a, <<p, a>> \in Listed(u, s)
    PROVE  \/ \E i \in Rows(u, s) : rights[i].store = p /\ a \in rights[i].actions
           \/ p = None /\ a \in RoleGrants(u, {s, None})
<1>1. CASE <<p, a>> \in Everywhere(RoleGrants(u, {s, None})) BY <1>1 DEF Everywhere
<1>2. CASE <<p, a>> \in UNION {{rights[i].store} \X rights[i].actions : i \in Rows(u, s)}
  BY <1>2
<1> QED BY <1>1, <1>2 DEF Listed

\* What is found in the rows is listed, for a store or for everywhere.
LEMMA ListedSomewhere ==
    ASSUME RowsFit, NEW u, NEW s, NEW p \in Places, NEW a, <<p, a>> \in Listed(u, s)
    PROVE  \E q \in Places : <<q, a>> \in Listing(u, s)
<1>1. CASE p # None \/ \A q \in Stores : <<q, a>> \notin Listed(u, s)
  <2>1. <<p, a>> \in Listing(u, s) BY <1>1, ListingIs
  <2> QED BY <2>1
<1>2. CASE \E q \in Stores : <<q, a>> \in Listed(u, s)
  <2>1. PICK q \in Stores : <<q, a>> \in Listed(u, s) BY <1>2
  <2>2. q # None /\ q \in Places BY <2>1, AccessAssumption DEF Places
  <2>3. <<q, a>> \in Listing(u, s) BY <2>1, <2>2, ListingIs
  <2> QED BY <2>2, <2>3
<1> QED BY <1>1, <1>2

LEMMA MayIsListed ==
    ASSUME RowsFit, NEW u, NEW s, NEW p, NEW a, May(u, p, a)
    PROVE  \E q \in Places : <<q, a>> \in Listing(u, s)
<1>1. PICK i \in RightsAt(u, p) : a \in rights[i].actions /\ rights[i].grant \in {"lasting", "timed"}
  BY DEF May
<1>2. i \in Rows(u, s) /\ rights[i].store = p /\ rights[i].store \in Places
  BY <1>1 DEF RightsAt, RightsOf, Rows, RowsFit, Right
<1>3. <<p, a>> \in Listed(u, s)
  <2>1. <<p, a>> \in {rights[i].store} \X rights[i].actions BY <1>1, <1>2
  <2> QED BY <1>2, <2>1 DEF Listed
<1> QED BY <1>2, <1>3, ListedSomewhere

LEMMA RoleIsListed ==
    ASSUME RowsFit, NEW u, NEW s, NEW a, a \in RoleGrants(u, {s, None})
    PROVE  \E q \in Places : <<q, a>> \in Listing(u, s)
<1>1. <<None, a>> \in Listed(u, s) BY DEF Listed, Everywhere
<1> QED BY <1>1, ListedSomewhere DEF Places

LEMMA ListedPasses ==
    ASSUME RowsFit, NEW u, NEW s \in Places, NEW a,
           {<<s, a>>, <<None, a>>} \cap Listing(u, s) # {}
    PROVE  \/ Passes(u, s, a)
           \/ s # None /\ <<u, s>> \notin members
           \/ \E i \in RightsAt(u, s) \cup RightsAt(u, None) :
                rights[i].grant = "expired" /\ a \in rights[i].actions
<1>1. PICK p \in {s, None} : <<p, a>> \in Listed(u, s) BY ListingIs
<1>2. ASSUME NEW i \in Rows(u, s), rights[i].store = p, a \in rights[i].actions,
             rights[i].grant # "expired"
      PROVE  May(u, p, a)
  <2>1. i \in RightsAt(u, p) /\ rights[i].grant \in {"lasting", "timed"}
    BY <1>2 DEF Rows, RightsAt, RightsOf, RowsFit, Right
  <2> QED BY <1>2, <2>1 DEF May
<1>3. ASSUME NEW i \in Rows(u, s), rights[i].store = p
      PROVE  i \in RightsAt(u, s) \cup RightsAt(u, None)
  BY <1>1, <1>3 DEF Rows, RightsAt
<1>4. Allowed(u, s, a) => Passes(u, s, a) \/ (s # None /\ <<u, s>> \notin members)
  BY DEF Passes
<1>5. May(u, p, a) \/ a \in RoleGrants(u, {s, None}) => Allowed(u, s, a) BY <1>1 DEF Allowed
<1> QED BY <1>1, <1>2, <1>3, <1>4, <1>5, ListedFrom

LEMMA PassesIsListed ==
    ASSUME RowsFit, NEW u, NEW s \in Places, NEW a, Passes(u, s, a)
    PROVE  \/ \E p \in Places : <<p, a>> \in Listing(u, s)
           \/ s = None /\ a \in RoleGrants(u, Stores)
<1>1. CASE s # None
  <2>1. May(u, s, a) \/ May(u, None, a) \/ a \in RoleGrants(u, {s, None})
    BY <1>1 DEF Passes, Allowed
  <2> QED BY <2>1, MayIsListed, RoleIsListed
<1>2. CASE s = None
  <2>1. PICK p : (p = None \/ p \in Stores) /\ Allowed(u, p, a) BY <1>2 DEF Passes, RowsFit
  <2>2. a \in RoleGrants(u, {p, None}) => a \in RoleGrants(u, {s, None}) \/ a \in RoleGrants(u, Stores)
    BY <1>2, <2>1 DEF RoleGrants
  <2> QED BY <1>2, <2>1, <2>2, MayIsListed, RoleIsListed DEF Allowed
<1> QED BY <1>1, <1>2

\* What the list of a user shows passes the guard, and what passes is shown, but for
\* who is not of the store, rights that expired and roles in a store when none is
\* asked for (the guard and getUserPermissions read the same rows).
THEOREM AnswersAgreeHolds == Spec => []AnswersAgree
<1>1. ASSUME TypeInv, NEW u \in users, NEW s \in Places, NEW a \in Actions
      PROVE  /\ {<<s, a>>, <<None, a>>} \cap Listing(u, s) # {} =>
                  \/ Passes(u, s, a)
                  \/ s # None /\ <<u, s>> \notin members
                  \/ \E i \in RightsAt(u, s) \cup RightsAt(u, None) :
                       rights[i].grant = "expired" /\ a \in rights[i].actions
             /\ Passes(u, s, a) =>
                  \/ \E p \in Places : <<p, a>> \in Listing(u, s)
                  \/ s = None /\ a \in RoleGrants(u, Stores)
  <2>1. RowsFit BY <1>1 DEF TypeInv
  <2>2. Passes(u, s, a) => \/ \E p \in Places : <<p, a>> \in Listing(u, s)
                           \/ s = None /\ a \in RoleGrants(u, Stores)
    BY <2>1, PassesIsListed
  <2> QED BY <2>1, <2>2, ListedPasses
<1>2. TypeInv => AnswersAgree BY <1>1 DEF AnswersAgree
<1> QED BY <1>2, InitTyped, NextTyped, PTL DEF Spec

----------------------------------------------------------------------------
(* What success means *)

\* The rows of a user are what they were, but for rights that expire.
SameUser(u) ==
    /\ RolesOf(u)' = RolesOf(u) /\ \A i \in RolesOf(u) : roles'[i] = roles[i]
    /\ RightsOf(u)' = RightsOf(u)
    /\ \A i \in RightsOf(u) :
          /\ rights'[i].store = rights[i].store /\ rights'[i].actions = rights[i].actions
          /\ rights'[i].grant = rights[i].grant \/ rights[i].grant = "timed"
    /\ MembersOf(u)' = MembersOf(u)

\* A template is what it was, and nobody new has it.
SameTemplate(t) ==
    /\ t \in DOMAIN templates' <=> t \in DOMAIN templates
    /\ t \in DOMAIN templates => templates'[t] = templates[t]
    /\ \A i \in DOMAIN roles' :
          roles'[i].template = t => i \in DOMAIN roles /\ roles[i].template = t

\* A step of r leaves alone whom r does not concern.
Leaves(r) ==
    /\ \A u : u \notin call[r].users => SameUser(u)
    /\ \A t : t \notin call[r].templates => SameTemplate(t)

LEMMA QuietLeaves ==
    ASSUME UNCHANGED <<roles, rights, members>>
    PROVE  /\ \A u : SameUser(u)
           /\ UNCHANGED templates => \A t : SameTemplate(t)
  BY DEF SameUser, SameTemplate, RolesOf, RightsOf, MembersOf

\* What is read of the rows.
LEMMA SameReads ==
    ASSUME NEW u, SameUser(u)
    PROVE  /\ TemplatesOf(u)' = TemplatesOf(u)
           /\ \A s : RightsAt(u, s)' = RightsAt(u, s)
           /\ \A S : StoresAre(u, S)' <=> StoresAre(u, S)
           /\ \A s : <<u, s>> \in members' <=> <<u, s>> \in members
<1>1. TemplatesOf(u)' = TemplatesOf(u) BY DEF SameUser, TemplatesOf
<1>2. \A s : RightsAt(u, s)' = RightsAt(u, s) BY DEF SameUser, RightsAt
<1>3. MembersOf(u)' = MembersOf(u) BY DEF SameUser
<1>4. \A S : StoresAre(u, S)' <=> StoresAre(u, S) BY <1>3 DEF MembersOf, StoresAre
<1>5. ASSUME NEW s
      PROVE  <<u, s>> \in members' <=> <<u, s>> \in members
  BY <1>3 DEF MembersOf
<1> QED BY <1>1, <1>2, <1>4, <1>5

LEMMA SameGrants ==
    ASSUME NEW t, SameTemplate(t)
    PROVE  Granted(t)' = Granted(t)
  BY DEF SameTemplate, Granted, IsActive

\* What the user may do by rights of its own.
Mays(u) == {x \in Places \X Actions : May(u, x[1], x[2])}

\* Rights that last do not expire.
LEMMA SameMays ==
    ASSUME NEW u, SameUser(u), \A i \in RightsOf(u) : rights[i].grant = "lasting"
    PROVE  /\ \A i \in RightsOf(u)' : rights'[i].grant = "lasting"
           /\ Mays(u)' = Mays(u)
<1>1. /\ RightsOf(u)' = RightsOf(u)
      /\ \A i \in RightsOf(u) : /\ rights'[i].grant = "lasting"
                                /\ rights'[i].actions = rights[i].actions
  BY DEF SameUser
<1>2. \A s : RightsAt(u, s)' = RightsAt(u, s) BY SameReads
<1>3. ASSUME NEW s, NEW a
      PROVE  May(u, s, a)' <=> May(u, s, a)
  <2>1. \A i \in RightsAt(u, s) : i \in RightsOf(u) BY DEF RightsAt
  <2> QED BY <1>1, <1>2, <2>1 DEF May
<1>4. Mays(u)' = Mays(u) BY <1>3 DEF Mays
<1> QED BY <1>1, <1>4

\* Who was hired has what it was hired with.
LEMMA HiredKept ==
    ASSUME NEW r \in Requests, call'[r] = call[r], Is(r, "hire") \/ Is(r, "invite"), Achieved(r),
           \A u \in call[r].users : \A i \in RightsOf(u) : rights[i].grant = "lasting",
           \A u \in call[r].users : SameUser(u),
           \A t \in call[r].templates : SameTemplate(t)
    PROVE  /\ Achieved(r)'
           /\ \A u \in call[r].users : \A i \in RightsOf(u)' : rights'[i].grant = "lasting"
<1> DEFINE c == call[r]
<1>1. \A u \in c.users : /\ \A i \in RightsOf(u)' : rights'[i].grant = "lasting"
                         /\ Mays(u)' = Mays(u)
  BY SameMays
<1>2. ASSUME NEW u \in c.users, NEW t \in c.templates
      PROVE  /\ TemplatesOf(u)' = {t} /\ StoresAre(u, c.stores)'
             /\ Mays(u)' = c.explicit \cup Everywhere(Granted(t)')
  <2>1. /\ TemplatesOf(u) = {t} /\ HasExactly(u, c.explicit \cup Everywhere(Granted(t)))
        /\ StoresAre(u, c.stores)
    BY DEF Achieved, Is
  <2>2. Mays(u) = c.explicit \cup Everywhere(Granted(t)) BY <2>1 DEF HasExactly, Mays
  <2>3. TemplatesOf(u)' = TemplatesOf(u) /\ (StoresAre(u, c.stores)' <=> StoresAre(u, c.stores))
    BY SameReads
  <2>4. Granted(t)' = Granted(t) BY SameGrants
  <2> QED BY <1>1, <2>1, <2>2, <2>3, <2>4
<1>3. Achieved(r)' BY <1>2 DEF Achieved, Is, HasExactly, Mays
<1> QED BY <1>1, <1>3

\* A request stays where it is, and so do the rows it concerns.
LEMMA DoneKept ==
    ASSUME TypeInv, DoneInv, NEW r \in Requests, InFlight(r), Done(r),
           pc'[r] = pc[r], work'[r] = work[r], call'[r] = call[r],
           \A u \in call[r].users : SameUser(u),
           \A t \in call[r].templates : SameTemplate(t)
    PROVE  Done(r)'
<1> DEFINE c == call[r]
           w == work[r]
<1>1. /\ pc[r] \notin Ended \cup {"idle"} /\ Fits(c, pc[r], w, users) /\ CallFits(r)
      /\ Runs(pc[r], c.op)
  BY AtWork DEF InFlight, DoneInv
<1>2. c.op \in {"revoke", "hire", "invite", "edit", "setStores"} => c.users = {w.user} /\ SameUser(w.user)
  BY <1>1 DEF Fits
<1>3. \A u \in c.users : /\ TemplatesOf(u)' = TemplatesOf(u)
                         /\ \A s : RightsAt(u, s)' = RightsAt(u, s)
                         /\ \A S : StoresAre(u, S)' <=> StoresAre(u, S)
                         /\ \A s : <<u, s>> \in members' <=> <<u, s>> \in members
  BY SameReads
<1>4. \A t \in c.templates : Granted(t)' = Granted(t) BY SameGrants
<1>5. ASSUME Is(r, "assign")
      PROVE  AssignDone(r)'
  <2>1. AssignDone(r) BY <1>5 DEF Done
  <2>2. w.todo \subseteq c.users BY <1>1, <1>5 DEF Fits, Is
  <2>3. w.user \in w.todo \/ pc[r] \notin {"find", "write"} BY <1>1, <1>5 DEF Fits, Is
  <2>4. ASSUME NEW u \in c.users \ w.todo, Given(r, u)
        PROVE  Given(r, u)'
    <3>1. c.grant = "lasting"
      <4>1. pc[r] \in {"next", "join", "find", "write"}
        BY <1>1, <1>5 DEF Runs, Is, Ended, Pcs, TypeInv, RequestsFit
      <4>2. w.todo # {} BY <1>1, <1>5, <4>1 DEF CallFits, Fits, Is
      <4> QED BY <1>1, <1>5, <2>2, <4>2 DEF CallFits
    <3>2. PICK i \in RightsAt(u, c.store) : rights[i].grant = c.grant /\ c.actions \subseteq rights[i].actions
      BY <2>4 DEF Given
    <3>3. i \in RightsOf(u) BY <3>2 DEF RightsAt
    <3>4. rights'[i].grant = c.grant /\ c.actions \subseteq rights'[i].actions
      BY <3>1, <3>2, <3>3 DEF SameUser
    <3> QED BY <1>3, <2>4, <3>2, <3>4 DEF Given
  <2>5. c.grant # "denied" => \A u \in c.users \ w.todo : Given(r, u)'
    BY <2>1, <2>4 DEF AssignDone
  <2>6. pc[r] \in {"find", "write"} /\ c.store # None => <<w.user, c.store>> \in members'
    BY <1>3, <2>1, <2>2, <2>3 DEF AssignDone
  <2> QED BY <2>5, <2>6 DEF AssignDone
<1>6. ASSUME Is(r, "revoke")
      PROVE  RevokeDone(r)'
  <2>1. RevokeDone(r) /\ w.user \in c.users /\ SameUser(w.user) BY <1>2, <1>6 DEF Done, Is
  <2>2. RightsAt(w.user, c.store)' = RightsAt(w.user, c.store) BY <1>3, <2>1
  <2>3. \A i \in RightsAt(w.user, c.store) : rights'[i].actions = rights[i].actions
    BY <2>1 DEF SameUser, RightsAt
  <2> QED BY <2>1, <2>2, <2>3 DEF RevokeDone
<1>7. ASSUME Is(r, "hire") \/ Is(r, "invite")
      PROVE  HireDone(r)'
  <2>1. HireDone(r) BY <1>7 DEF Done
  <2>2. \A u \in c.users : RightsOf(u)' = RightsOf(u) BY DEF SameUser
  <2>3. ASSUME pc[r] = "mail"
        PROVE  Achieved(r)' /\ \A u \in c.users : \A i \in RightsOf(u)' : rights'[i].grant = "lasting"
    <3>1. Achieved(r) /\ \A u \in c.users : \A i \in RightsOf(u) : rights[i].grant = "lasting"
      BY <2>1, <2>3 DEF HireDone
    <3> QED BY <1>7, <3>1, HiredKept
  <2>4. /\ (Is(r, "hire") /\ pc[r] = "commit") \/ pc[r] = "insert" =>
              \A t \in c.templates : w.grants = Granted(t)'
        /\ (Is(r, "invite") /\ pc[r] = "draw") \/ pc[r] = "insert" =>
              \A u \in c.users : /\ \A t \in c.templates : TemplatesOf(u)' = {t}
                                 /\ StoresAre(u, c.stores)' /\ RightsOf(u)' = {}
    BY <1>3, <1>4, <2>1, <2>2 DEF HireDone
  <2> QED BY <2>3, <2>4 DEF HireDone, Is
<1>8. ASSUME Is(r, "edit")
      PROVE  EditDone(r)'
  <2>1. EditDone(r) /\ w.user \in c.users /\ SameUser(w.user) BY <1>2, <1>8 DEF Done, Is
  <2>2. /\ RolesOf(w.user)' = RolesOf(w.user) /\ RightsOf(w.user)' = RightsOf(w.user)
        /\ MembersOf(w.user)' = MembersOf(w.user) /\ TemplatesOf(w.user)' = TemplatesOf(w.user)
    BY <1>3, <2>1 DEF SameUser
  <2>3. c.changes => c.templates \subseteq DOMAIN templates BY <1>8, AtWork DEF Asks, Is
  <2>4. c.changes => \A t \in c.templates : templates'[t].active <=> templates[t].active
    BY <2>3 DEF SameTemplate
  <2>5. \A s, X : Cleared(r, s, X)' <=> Cleared(r, s, X) BY DEF Cleared
  <2> QED BY <1>4, <2>1, <2>2, <2>4 DEF EditDone, Cleared
<1>9. ASSUME Is(r, "setStores")
      PROVE  StoresDone(r)'
  <2>1. StoresDone(r) /\ SameUser(w.user) BY <1>2, <1>9 DEF Done, Is
  <2> QED BY <2>1 DEF StoresDone, SameUser
<1>10. pc[r] = "retire" => \A i \in DOMAIN roles' : roles'[i].template \notin c.templates
  BY DEF Done, SameTemplate
<1>11. pc[r] # "ok" BY <1>1 DEF Ended
<1> QED BY <1>5, <1>6, <1>7, <1>8, <1>9, <1>10, <1>11 DEF Done, Is, InFlight

\* What a request has done, it has done after the step, unless another met it.
DoneNext ==
    \A r \in Requests :
       InFlight(r) \/ (pc[r] # "ok" /\ pc'[r] = "ok") => (Done(r) \/ r \in torn \/ Conflicts(r) # {})'

LEMMA GoesOn ==
    ASSUME TypeInv, NEW r \in Requests, NEW p, NEW w, Goto(r, p, w)
    PROVE  /\ pc'[r] = p /\ work'[r] = IF p \in Ended THEN Rest ELSE w
           /\ \A q \in Requests \ {r} : pc'[q] = pc[q] /\ work'[q] = work[q]
  BY DEF Goto, TypeInv, RequestsFit

\* A step of r: the others that r concerns have met it.
LEMMA DoneByOne ==
    ASSUME TypeInv, RaceInv, DoneInv, NEW r \in Requests, NEW p, NEW w, Goto(r, p, w), InFlight(r),
           UNCHANGED <<call, raced>>, torn \subseteq torn', Leaves(r), p # "idle",
           p = "next" => w.todo # {}, Done(r) => Done(r)' \/ r \in torn'
    PROVE  DoneInv' /\ DoneNext
<1>1. /\ pc'[r] = p /\ work'[r] = IF p \in Ended THEN Rest ELSE w
      /\ \A q \in Requests \ {r} : pc'[q] = pc[q] /\ work'[q] = work[q]
  BY GoesOn
<1>2. \A q \in Requests : CallFits(q)'
  <2>1. "next" \notin Ended BY DEF Ended
  <2> QED BY <1>1, <2>1 DEF DoneInv, CallFits, Is
<1>3. \A q \in Requests : Conflicts(q)' = Conflicts(q) BY DEF Conflicts, Together
<1>4. ASSUME NEW q \in Requests \ {r}, InFlight(q), Done(q), Conflicts(q) = {}
      PROVE  Done(q)'
  <2>1. Together(r, q) BY <1>4 DEF RaceInv
  <2>2. call[r].users \cap call[q].users = {} /\ call[r].templates \cap call[q].templates = {}
    BY <1>4, <2>1 DEF Conflicts
  <2>3. /\ \A u \in call[q].users : SameUser(u)
        /\ \A t \in call[q].templates : SameTemplate(t)
    BY <2>2 DEF Leaves
  <2> QED BY <1>1, <1>4, <2>3, DoneKept
<1>5. ASSUME NEW q \in Requests, InFlight(q)
      PROVE  Done(q)' \/ q \in torn' \/ Conflicts(q)' # {}
  BY <1>3, <1>4, <1>5 DEF DoneInv
<1>6. \A q \in Requests : InFlight(q)' \/ (pc[q] # "ok" /\ pc'[q] = "ok") => InFlight(q)
  BY <1>1 DEF InFlight
<1> QED BY <1>2, <1>5, <1>6 DEF DoneInv, DoneNext

\* A request that ends without success has nothing to show.
LEMMA EndDone ==
    ASSUME NEW r \in Requests, pc'[r] \in {"failed", "refused"}
    PROVE  Done(r)'
  BY DEF Done, InFlight, Ended

LEMMA FailDone ==
    ASSUME TypeInv, RaceInv, DoneInv, NEW r \in Requests, Fail(r), InFlight(r)
    PROVE  DoneInv' /\ DoneNext
<1>1. Goto(r, "failed", Rest) /\ UNCHANGED <<db, call, raced, torn>> BY DEF Fail
<1>2. Leaves(r) BY <1>1, QuietLeaves DEF Leaves, db
<1>3. Done(r)' BY <1>1, GoesOn, EndDone
<1> QED BY <1>1, <1>2, <1>3, DoneByOne

\* Steps of a request that write nothing.
LEMMA QuietDone ==
    ASSUME TypeInv, RaceInv, DoneInv, NEW r \in Requests, NEW p, NEW w, Goto(r, p, w), InFlight(r),
           UNCHANGED <<db, call, raced>>, torn \subseteq torn', p # "idle",
           p = "next" => w.todo # {}, Done(r) => Done(r)' \/ r \in torn'
    PROVE  DoneInv' /\ DoneNext
<1>1. Leaves(r) BY QuietLeaves DEF Leaves, db
<1> QED BY <1>1, DoneByOne

LEMMA NextUserDone ==
    ASSUME TypeInv, RaceInv, DoneInv, NEW r \in Requests, NextUser(r)
    PROVE  DoneInv' /\ DoneNext
<1> DEFINE c == call[r]
           w == work[r]
<1>1. pc[r] = "next" /\ UNCHANGED <<db, call, raced, torn>> BY DEF NextUser
<1>2. PICK u \in w.todo : 
         Goto(r, IF c.store = None \/ <<u, c.store>> \in members THEN "find" ELSE "join",
              [w EXCEPT !.user = u])
  BY DEF NextUser
<1> DEFINE v == [w EXCEPT !.user = u]
<1>3. w \in Work /\ InFlight(r) /\ c.op = "assign" BY <1>1, AtWork DEF InFlight, Ended, Runs
<1>4. v.user = u /\ v.todo = w.todo BY <1>3 DEF Work
<1> HIDE DEF v
<1>5. PICK p \in {"find", "join"} : Goto(r, p, v) /\ (p = "find" => c.store = None \/ <<u, c.store>> \in members)
  BY <1>2 DEF v
<1>6. pc'[r] = p /\ work'[r] = v BY <1>5, GoesOn DEF Ended
<1>7. AssignDone(r) => AssignDone(r)'
  BY <1>1, <1>4, <1>5, <1>6 DEF AssignDone, Given, RightsAt, RightsOf, db
<1>8. Done(r) => Done(r)' BY <1>1, <1>3, <1>5, <1>6, <1>7 DEF Done, Is, InFlight, Ended
<1> QED BY <1>1, <1>3, <1>5, <1>8, QuietDone

LEMMA FindRightDone ==
    ASSUME TypeInv, RaceInv, DoneInv, NEW r \in Requests, FindRight(r)
    PROVE  DoneInv' /\ DoneNext
<1> DEFINE c == call[r]
           w == work[r]
           rows == RightsAt(w.user, c.store)
<1>1. pc[r] = "find" /\ UNCHANGED <<db, call, raced, torn>> BY DEF FindRight
<1>2. w \in Work /\ InFlight(r) /\ c.op \in {"assign", "revoke"} /\ (c.op = "revoke" => c.users = {w.user})
  BY <1>1, AtWork DEF InFlight, Ended, Runs, Fits
<1>3. \A u, s : RightsAt(u, s)' = RightsAt(u, s) BY <1>1 DEF RightsAt, RightsOf, db
<1>4. CASE rows = {} /\ Goto(r, IF Is(r, "revoke") THEN "ok" ELSE "write", [w EXCEPT !.found = None])
  <2>1. CASE Is(r, "revoke")
    <3>1. Goto(r, "ok", [w EXCEPT !.found = None]) BY <1>4, <2>1
    <3>2. pc'[r] = "ok" BY <3>1, GoesOn
    <3>3. Achieved(r)' BY <1>1, <1>2, <1>3, <1>4, <2>1 DEF Achieved, Is, May
    <3>4. Done(r)' BY <3>2, <3>3 DEF Done, InFlight, Ended
    <3> QED BY <1>1, <1>2, <3>1, <3>4, QuietDone
  <2>2. CASE ~ Is(r, "revoke")
    <3> DEFINE v == [w EXCEPT !.found = None]
    <3>1. Goto(r, "write", v) BY <1>4, <2>2
    <3>2. v.user = w.user /\ v.todo = w.todo BY <1>2 DEF Work
    <3> HIDE DEF v
    <3>3. pc'[r] = "write" /\ work'[r] = v BY <3>1, GoesOn DEF Ended
    <3>4. AssignDone(r) => AssignDone(r)' BY <1>1, <1>3, <3>2, <3>3 DEF AssignDone, Given, db
    <3>5. Done(r) => Done(r)' BY <1>1, <1>2, <2>2, <3>3, <3>4 DEF Done, Is, InFlight, Ended
    <3> QED BY <1>1, <1>2, <3>1, <3>5, QuietDone
  <2> QED BY <2>1, <2>2
<1>5. ASSUME NEW i \in rows, Goto(r, "write", [w EXCEPT !.found = [id |-> i, actions |-> rights[i].actions]])
      PROVE  DoneInv' /\ DoneNext
  <2> DEFINE f == [id |-> i, actions |-> rights[i].actions]
             v == [w EXCEPT !.found = f]
  <2>1. v.user = w.user /\ v.todo = w.todo /\ v.found = f BY <1>2 DEF Work
  <2>2. f.id = i /\ f.actions = rights[i].actions OBVIOUS
  <2>3. Goto(r, "write", v) BY <1>5
  <2> HIDE DEF v, f
  <2>4. pc'[r] = "write" /\ work'[r] = v BY <2>3, GoesOn DEF Ended
  <2>5. AssignDone(r) => AssignDone(r)' BY <1>1, <1>3, <2>1, <2>4 DEF AssignDone, Given, db
  <2>6. RevokeDone(r) => RevokeDone(r)'
    BY <1>1, <1>3, <1>5, <2>1, <2>2, <2>4 DEF RevokeDone, db
  <2>7. Done(r) => Done(r)' BY <1>1, <1>2, <2>4, <2>5, <2>6 DEF Done, Is, InFlight, Ended
  <2> QED BY <1>1, <1>2, <2>3, <2>7, QuietDone
<1> QED BY <1>4, <1>5 DEF FindRight

LEMMA MailDone ==
    ASSUME TypeInv, RaceInv, DoneInv, NEW r \in Requests, Mail(r)
    PROVE  DoneInv' /\ DoneNext
<1>1. pc[r] = "mail" /\ Goto(r, "ok", work[r]) /\ UNCHANGED <<db, call, raced, torn>>
  BY DEF Mail
<1>2. InFlight(r) /\ call[r].op \in {"hire", "invite"}
  BY <1>1, AtWork DEF InFlight, Ended, Runs
<1>3. pc'[r] = "ok" BY <1>1, GoesOn
<1>4. Done(r) => Achieved(r)'
  <2>1. (\A u : SameUser(u)) /\ (\A t : SameTemplate(t)) BY <1>1, QuietLeaves DEF db
  <2> QED BY <1>1, <1>2, <2>1, HiredKept DEF Done, HireDone, Is
<1>5. Done(r) => Done(r)' BY <1>3, <1>4 DEF Done, InFlight, Ended
<1> QED BY <1>1, <1>2, <1>5, QuietDone

LEMMA CountRolesDone ==
    ASSUME TypeInv, RaceInv, DoneInv, NEW r \in Requests, CountRoles(r)
    PROVE  DoneInv' /\ DoneNext
<1>1. pc[r] = "count" /\ UNCHANGED <<db, call, raced, torn>> BY DEF CountRoles
<1>2. InFlight(r) /\ call[r].op = "deleteTemplate" BY <1>1, AtWork DEF InFlight, Ended, Runs
<1>3. CASE \E i \in DOMAIN roles : roles[i].template \in call[r].templates
  <2>1. Goto(r, "refused", work[r]) BY <1>3 DEF CountRoles
  <2>2. Done(r)' BY <2>1, GoesOn, EndDone
  <2> QED BY <1>1, <1>2, <2>1, <2>2, QuietDone
<1>4. CASE ~ \E i \in DOMAIN roles : roles[i].template \in call[r].templates
  <2>1. Goto(r, "retire", work[r]) BY <1>4 DEF CountRoles
  <2>2. pc'[r] = "retire" BY <2>1, GoesOn
  <2>3. Done(r)' BY <1>1, <1>2, <1>4, <2>2 DEF Done, Is, db
  <2> QED BY <1>1, <1>2, <2>1, <2>3, QuietDone
<1> QED BY <1>3, <1>4

LEMMA NoConnectionDone ==
    ASSUME TypeInv, RaceInv, DoneInv, NEW r \in Requests, NoConnection(r)
    PROVE  DoneInv' /\ DoneNext
<1>1. InFlight(r) /\ UNCHANGED <<db, call, raced>> /\ torn \subseteq torn' BY DEF NoConnection
<1>2. CASE Swallows(r)
  <2>1. r \in torn' BY <1>2 DEF NoConnection
  <2>2. \E p \in {"ok", "add", "mail"} : \E w : Goto(r, p, w)
    <3>1. CASE pc[r] = "add" BY <3>1 DEF NoConnection, AfterStore
    <3>2. CASE pc[r] # "add" BY <1>2, <3>2 DEF NoConnection
    <3> QED BY <3>1, <3>2
  <2> QED BY <1>1, <2>1, <2>2, QuietDone
<1>3. CASE ~ Swallows(r)
  <2>1. Goto(r, "failed", Rest) BY <1>3 DEF NoConnection, Swallows
  <2>2. Done(r)' BY <2>1, GoesOn, EndDone
  <2> QED BY <1>1, <2>1, <2>2, QuietDone
<1> QED BY <1>2, <1>3

LEMMA FailuresDone ==
    ASSUME TypeInv, RaceInv, DoneInv, NEW r \in Requests,
           JoinThrows(r) \/ RightIsGone(r) \/ EmailIsTaken(r) \/ MailFails(r)
    PROVE  DoneInv' /\ DoneNext
<1>1. Fail(r) /\ pc[r] \in {"join", "write", "commit", "mail"}
  BY DEF JoinThrows, RightIsGone, EmailIsTaken, MailFails
<1>2. InFlight(r) BY <1>1 DEF InFlight, Ended
<1> QED BY <1>1, <1>2, FailDone

\* Rights and stores of those whom a request concerns.
LEMMA RightsLeave ==
    ASSUME RowsFit, RowsFit', NEW r \in Requests, UNCHANGED <<templates, roles, members>>,
           \A i \in (DOMAIN rights) \cup DOMAIN rights' :
              \/ i[2] \in call[r].users
              \/ i \in DOMAIN rights /\ i \in DOMAIN rights' /\ rights'[i] = rights[i]
    PROVE  Leaves(r)
<1>1. ASSUME NEW u, u \notin call[r].users
      PROVE  SameUser(u)
  <2>1. /\ \A i \in DOMAIN rights : rights[i].user = i[2]
        /\ \A i \in DOMAIN rights' : rights'[i].user = i[2]
    BY DEF RowsFit
  <2>2. RightsOf(u)' = RightsOf(u) /\ \A i \in RightsOf(u) : rights'[i] = rights[i]
    BY <1>1, <2>1 DEF RightsOf
  <2> QED BY <2>2 DEF SameUser, RolesOf, MembersOf
<1>2. \A t : SameTemplate(t) BY DEF SameTemplate
<1> QED BY <1>1, <1>2 DEF Leaves

LEMMA MembersLeave ==
    ASSUME NEW r \in Requests, UNCHANGED <<templates, roles, rights>>,
           \A x \in members \cup members' :
              x[1] \in call[r].users \/ (x \in members /\ x \in members')
    PROVE  Leaves(r)
<1>1. ASSUME NEW u, u \notin call[r].users
      PROVE  SameUser(u)
  BY <1>1 DEF SameUser, RolesOf, RightsOf, MembersOf
<1>2. \A t : SameTemplate(t) BY DEF SameTemplate
<1> QED BY <1>1, <1>2 DEF Leaves

LEMMA JoinDone ==
    ASSUME TypeInv, RaceInv, DoneInv, NEW r \in Requests, Join(r)
    PROVE  DoneInv' /\ DoneNext
<1> DEFINE c == call[r]
           w == work[r]
           pair == <<w.user, c.store>>
<1>1. /\ pc[r] = "join" /\ members' = members \cup {pair} /\ Goto(r, "find", w)
      /\ UNCHANGED <<templates, users, roles, rights, call, raced, torn>>
  BY DEF Join
<1>2. InFlight(r) /\ c.op = "assign" /\ w.user \in c.users
  BY <1>1, AtWork DEF InFlight, Ended, Runs, Fits
<1>3. pc'[r] = "find" /\ work'[r] = w BY <1>1, GoesOn DEF Ended
<1>4. Leaves(r)
  <2>1. pair[1] = w.user OBVIOUS
  <2> QED BY <1>1, <1>2, <2>1, MembersLeave
<1>5. AssignDone(r) => AssignDone(r)' BY <1>1, <1>3 DEF AssignDone, Given, RightsAt, RightsOf
<1>6. Done(r) => Done(r)' BY <1>1, <1>2, <1>3, <1>5 DEF Done, Is, InFlight, Ended
<1> QED BY <1>1, <1>2, <1>4, <1>6, DoneByOne

LEMMA WriteRightDone ==
    ASSUME TypeInv, RaceInv, DoneInv, NEW r \in Requests, WriteRight(r)
    PROVE  DoneInv' /\ DoneNext
<1> DEFINE w == work[r]  c == call[r]
           id == IF w.found = None THEN <<r, w.user, c.store, c.actions>> ELSE w.found.id
           x == [user |-> w.user, store |-> c.store, grant |-> c.grant,
                 actions |-> c.actions \cup IF w.found = None THEN {} ELSE w.found.actions]
           v == [w EXCEPT !.todo = @ \ {w.user}]
           p == IF w.todo = {w.user} THEN "ok" ELSE "next"
<1>1. /\ pc[r] = "write" /\ Is(r, "assign") /\ rights' = Put(rights, id, x)
      /\ Goto(r, p, v) /\ UNCHANGED <<templates, users, roles, members, call, raced, torn>>
  BY DEF WriteRight
<1>2. /\ w.user \in w.todo /\ w.todo \subseteq c.users /\ w \in Work /\ InFlight(r)
      /\ w.found # None => w.found.id[2] = w.user /\ w.found.id[3] = c.store
      /\ c.grant \in {"lasting", "timed", "denied"} /\ c.op = "assign" /\ c.store \in Places
  BY <1>1, AtWork DEF Fits, Asks, Ended, Is, InFlight
<1>3. v.todo = w.todo \ {w.user} BY <1>2 DEF Work
<1>4. id[2] = w.user BY <1>2
<1>5. /\ x.user = w.user /\ x.store = c.store /\ x.grant = c.grant /\ c.actions \subseteq x.actions
  OBVIOUS
<1>6. /\ id \in DOMAIN rights' /\ rights'[id] = x
      /\ \A i \in DOMAIN rights : i \in DOMAIN rights' /\ (i # id => rights'[i] = rights[i])
      /\ \A i \in DOMAIN rights' : i # id => i \in DOMAIN rights
  BY <1>1 DEF Put
<1> HIDE DEF id, x, v
<1>7. /\ p \in {"ok", "next"} /\ (p = "next" => v.todo # {}) /\ (p = "ok" => w.todo = {w.user})
  BY <1>2, <1>3
<1> HIDE DEF p
<1>8. TypeInv' BY WriteRightTyped
<1>9. Leaves(r) BY <1>1, <1>2, <1>4, <1>6, <1>8, RightsLeave DEF TypeInv
<1>10. ASSUME AssignDone(r), c.grant # "denied", NEW u \in c.users, u \notin w.todo \ {w.user}
       PROVE  Given(r, u)'
  <2>1. CASE u = w.user
    <3>1. id \in RightsAt(u, c.store)' BY <1>1, <1>5, <1>6, <2>1 DEF RightsAt, RightsOf
    <3>2. c.store # None => <<u, c.store>> \in members BY <1>1, <1>10, <2>1 DEF AssignDone
    <3> QED BY <1>1, <1>5, <1>6, <3>1, <3>2 DEF Given
  <2>2. CASE u # w.user
    <3>1. Given(r, u) BY <1>10, <2>2 DEF AssignDone
    <3>2. PICK i \in RightsAt(u, c.store) : rights[i].grant = c.grant /\ c.actions \subseteq rights[i].actions
      BY <3>1 DEF Given
    <3>3. i # id /\ i \in DOMAIN rights BY <1>4, <2>2 DEF RightsAt, RightsOf, TypeInv, RowsFit
    <3>4. i \in RightsAt(u, c.store)' /\ rights'[i] = rights[i]
      BY <1>1, <1>6, <3>2, <3>3 DEF RightsAt, RightsOf
    <3> QED BY <1>1, <3>1, <3>2, <3>4 DEF Given
  <2> QED BY <2>1, <2>2
<1>11. ASSUME NEW u, Given(r, u)', c.grant # "denied"
       PROVE  \A a \in c.actions : Passes(u, c.store, a)'
  <2>1. PICK i \in RightsAt(u, c.store)' : rights'[i].grant = c.grant /\ c.actions \subseteq rights'[i].actions
    BY <1>1, <1>11 DEF Given
  <2>2. \A a \in c.actions : May(u, c.store, a)' BY <1>2, <1>11, <2>1 DEF May
  <2>3. c.store # None => <<u, c.store>> \in members' BY <1>1, <1>11 DEF Given
  <2> QED BY <1>1, <2>2, <2>3 DEF Passes, Allowed
<1>12. pc'[r] = p /\ (p = "next" => work'[r] = v) BY <1>1, <1>7, GoesOn DEF Ended
<1>13. CASE p = "ok"
  <2>1. AssignDone(r) => Achieved(r)' BY <1>1, <1>7, <1>10, <1>11, <1>13 DEF Achieved, Is
  <2>2. Done(r) => Done(r)' BY <1>1, <1>2, <1>12, <1>13, <2>1 DEF Done, InFlight, Ended
  <2> QED BY <1>1, <1>2, <1>9, <1>13, <2>2, DoneByOne
<1>14. CASE p = "next"
  <2>1. AssignDone(r) => AssignDone(r)' BY <1>1, <1>3, <1>10, <1>12, <1>14 DEF AssignDone
  <2>2. Done(r) => Done(r)' BY <1>1, <1>2, <1>12, <1>14, <2>1 DEF Done, Is, InFlight, Ended
  <2> QED BY <1>1, <1>2, <1>7, <1>9, <1>14, <2>2, DoneByOne
<1> QED BY <1>7, <1>13, <1>14

LEMMA RevokeRightDone ==
    ASSUME TypeInv, RaceInv, DoneInv, NEW r \in Requests, RevokeRight(r)
    PROVE  DoneInv' /\ DoneNext
<1> DEFINE w == work[r]  c == call[r]
           id == w.found.id
           rest == w.found.actions \ c.actions
<1>1. /\ pc[r] = "write" /\ Is(r, "revoke") /\ id \in DOMAIN rights
      /\ rights' = IF rest = {} THEN Drop(rights, {id}) ELSE [rights EXCEPT ![id].actions = rest]
      /\ Goto(r, "ok", w) /\ UNCHANGED <<templates, users, roles, members, call, raced, torn>>
  BY DEF RevokeRight
<1>2. id[2] = w.user /\ id[3] = c.store /\ c.users = {w.user} /\ InFlight(r)
  BY <1>1, AtWork DEF Fits, Is, Ended, InFlight
<1>3. \A i \in DOMAIN rights : i # id => i \in DOMAIN rights' /\ rights'[i] = rights[i]
  BY <1>1 DEF Drop
<1>4. \A i \in DOMAIN rights' : i \in DOMAIN rights BY <1>1 DEF Drop
<1>5. id \in DOMAIN rights' => rights'[id].actions = rest
  <2>1. rights[id] \in Right BY <1>1 DEF TypeInv, RowsFit
  <2>2. [rights[id] EXCEPT !.actions = rest].actions = rest BY <2>1 DEF Right
  <2> QED BY <1>1, <2>2 DEF Drop
<1>6. TypeInv' BY RevokeRightTyped
<1>7. Leaves(r) BY <1>1, <1>2, <1>3, <1>4, <1>6, RightsLeave DEF TypeInv
<1>8. pc'[r] = "ok" BY <1>1, GoesOn
<1>9. ASSUME RevokeDone(r), c.single, NEW u, u = w.user, NEW s, s = c.store
      PROVE  \A a \in c.actions : ~ May(u, s, a)'
  <2>1. RightsAt(u, s) \subseteq {id} BY <1>1, <1>9 DEF RevokeDone
  <2>2. \A i \in RightsAt(u, s)' : i = id /\ i \in DOMAIN rights'
    <3> TAKE i \in RightsAt(u, s)'
    <3>1. i \in DOMAIN rights' /\ rights'[i].user = u /\ rights'[i].store = s
      BY DEF RightsAt, RightsOf
    <3>2. i # id => i \in RightsAt(u, s) BY <1>3, <1>4, <3>1 DEF RightsAt, RightsOf
    <3> QED BY <2>1, <3>1, <3>2
  <2> QED BY <1>5, <2>2 DEF May
<1>10. Done(r) => Achieved(r)'
  <2>1. Done(r) => RevokeDone(r) BY <1>1, <1>2 DEF Done
  <2>2. call'[r] = c /\ c.op = "revoke" BY <1>1 DEF Is
  <2>3. RevokeDone(r) /\ c.single => \A u \in c.users, a \in c.actions : ~ May(u, c.store, a)'
    BY <1>1, <1>2, <1>9
  <2>4. ASSUME RevokeDone(r) PROVE Achieved(r)' BY <1>1, <2>2, <2>3, <2>4 DEF Achieved, Is
  <2> QED BY <2>1, <2>4
<1>11. Done(r) => Done(r)' BY <1>8, <1>10 DEF Done, InFlight, Ended
<1> QED BY <1>1, <1>2, <1>7, <1>11, DoneByOne

\* Whom a step leaves alone, by the ids of the rows.
LEMMA RowsLeave ==
    ASSUME RowsFit, RowsFit', NEW r \in Requests, UNCHANGED templates,
           \A i \in (DOMAIN roles) \cup DOMAIN roles' :
              \/ i[2] \in call[r].users
              \/ i \in DOMAIN roles /\ i \in DOMAIN roles' /\ roles'[i] = roles[i],
           \A i \in DOMAIN roles' :
              \/ roles'[i].template \in call[r].templates
              \/ i \in DOMAIN roles /\ roles'[i] = roles[i],
           \A i \in (DOMAIN rights) \cup DOMAIN rights' :
              \/ i[2] \in call[r].users
              \/ i \in DOMAIN rights /\ i \in DOMAIN rights' /\ rights'[i] = rights[i],
           \A x \in members \cup members' :
              x[1] \in call[r].users \/ (x \in members /\ x \in members')
    PROVE  Leaves(r)
<1>1. ASSUME NEW u, u \notin call[r].users
      PROVE  SameUser(u)
  <2>1. /\ \A i \in DOMAIN rights : rights[i].user = i[2]
        /\ \A i \in DOMAIN rights' : rights'[i].user = i[2]
        /\ \A i \in DOMAIN roles : roles[i].user = i[2]
        /\ \A i \in DOMAIN roles' : roles'[i].user = i[2]
    BY DEF RowsFit
  <2>2. RightsOf(u)' = RightsOf(u) /\ \A i \in RightsOf(u) : rights'[i] = rights[i]
    BY <1>1, <2>1 DEF RightsOf
  <2>3. RolesOf(u)' = RolesOf(u) /\ \A i \in RolesOf(u) : roles'[i] = roles[i]
    BY <1>1, <2>1 DEF RolesOf
  <2>4. MembersOf(u)' = MembersOf(u) BY <1>1 DEF MembersOf
  <2> QED BY <2>2, <2>3, <2>4 DEF SameUser
<1>2. \A t : t \notin call[r].templates => SameTemplate(t) BY DEF SameTemplate
<1> QED BY <1>1, <1>2 DEF Leaves

\* What is granted to a user that has nothing is all that it may do.
LEMMA GrantIs ==
    ASSUME NEW f, NEW r, NEW u, NEW X
    PROVE  /\ \A i \in DOMAIN Grant(f, r, u, X) :
                 \/ \E x \in X : /\ i = <<r, u, x[1], {x[2]}>>
                                 /\ Grant(f, r, u, X)[i] = [user |-> u, store |-> x[1],
                                                            actions |-> {x[2]}, grant |-> "lasting"]
                 \/ i \in DOMAIN f /\ Grant(f, r, u, X)[i] = f[i]
           /\ \A x \in X : /\ <<r, u, x[1], {x[2]}>> \in DOMAIN Grant(f, r, u, X)
                           /\ Grant(f, r, u, X)[<<r, u, x[1], {x[2]}>>] =
                                [user |-> u, store |-> x[1], actions |-> {x[2]}, grant |-> "lasting"]
<1> DEFINE new == {<<r, u, x[1], {x[2]}>> : x \in X}
           g == [i \in (DOMAIN f) \cup new |->
                   IF i \in new
                   THEN [user |-> u, store |-> i[3], actions |-> i[4], grant |-> "lasting"]
                   ELSE f[i]]
<1>1. Grant(f, r, u, X) = g BY DEF Grant
<1>2. \A i \in new : \E x \in X : i = <<r, u, x[1], {x[2]}>> OBVIOUS
<1>3. \A x \in X : <<r, u, x[1], {x[2]}>> \in new OBVIOUS
<1> HIDE DEF new
<1>4. DOMAIN g = (DOMAIN f) \cup new OBVIOUS
<1>5. \A i \in new : g[i] = [user |-> u, store |-> i[3], actions |-> i[4], grant |-> "lasting"]
  OBVIOUS
<1>6. \A i \in DOMAIN f : i \notin new => g[i] = f[i] OBVIOUS
<1> HIDE DEF g
<1>7. \A i \in DOMAIN g : (i \in new) \/ (i \in DOMAIN f /\ g[i] = f[i]) BY <1>4, <1>6
<1>8. \A x \in X : LET i == <<r, u, x[1], {x[2]}>> IN
        /\ i \in DOMAIN g
        /\ g[i] = [user |-> u, store |-> x[1], actions |-> {x[2]}, grant |-> "lasting"]
  <2> TAKE x \in X
  <2> DEFINE i == <<r, u, x[1], {x[2]}>>
  <2>1. i[3] = x[1] /\ i[4] = {x[2]} /\ i \in new BY <1>3
  <2> QED BY <1>4, <1>5, <2>1
<1>9. ASSUME NEW i \in DOMAIN g
      PROVE  \/ \E x \in X : /\ i = <<r, u, x[1], {x[2]}>>
                             /\ g[i] = [user |-> u, store |-> x[1], actions |-> {x[2]},
                                        grant |-> "lasting"]
             \/ i \in DOMAIN f /\ g[i] = f[i]
  BY <1>2, <1>7, <1>8
<1> QED BY <1>1, <1>8, <1>9

LEMMA GrantMays ==
    ASSUME NEW f, NEW r, NEW u, NEW X, X \subseteq Places \X Actions, rights' = Grant(f, r, u, X),
           \A i \in DOMAIN f : f[i].user # u
    PROVE  Mays(u)' = X /\ \A i \in RightsOf(u)' : rights'[i].grant = "lasting"
<1>1. \A i \in RightsOf(u)' : \E x \in X :
         rights'[i] = [user |-> u, store |-> x[1], actions |-> {x[2]}, grant |-> "lasting"]
  BY GrantIs DEF RightsOf
<1>2. \A i \in RightsOf(u)' : \E x \in X :
         rights'[i].store = x[1] /\ rights'[i].actions = {x[2]} /\ rights'[i].grant = "lasting"
  <2> TAKE i \in RightsOf(u)'
  <2>1. PICK x \in X :
          rights'[i] = [user |-> u, store |-> x[1], actions |-> {x[2]}, grant |-> "lasting"]
    BY <1>1
  <2>2. rights'[i].store = x[1] /\ rights'[i].actions = {x[2]} /\ rights'[i].grant = "lasting"
    BY <2>1
  <2> QED BY <2>2
<1>3. \A x \in X : \E i \in RightsOf(u)' :
         rights'[i].store = x[1] /\ rights'[i].actions = {x[2]} /\ rights'[i].grant = "lasting"
  <2> TAKE x \in X
  <2> DEFINE i == <<r, u, x[1], {x[2]}>>
  <2>1. /\ i \in DOMAIN rights'
        /\ rights'[i] = [user |-> u, store |-> x[1], actions |-> {x[2]}, grant |-> "lasting"]
    BY GrantIs
  <2> HIDE DEF i
  <2>2. i \in RightsOf(u)' /\ rights'[i].store = x[1] /\ rights'[i].actions = {x[2]}
        /\ rights'[i].grant = "lasting"
    BY <2>1 DEF RightsOf
  <2> QED BY <2>2
<1>4. ASSUME NEW y \in Places \X Actions
      PROVE  May(u, y[1], y[2])' <=> y \in X
  <2>1. ASSUME NEW i \in RightsAt(u, y[1])', y[2] \in rights'[i].actions
        PROVE  y \in X
    <3>1. i \in RightsOf(u)' /\ rights'[i].store = y[1] BY DEF RightsAt, RightsOf
    <3>2. PICK x \in X : rights'[i].store = x[1] /\ rights'[i].actions = {x[2]} BY <1>2, <3>1
    <3>3. x[1] = y[1] /\ x[2] = y[2] /\ x \in Places \X Actions BY <2>1, <3>1, <3>2
    <3>4. x = y BY <3>3
    <3> QED BY <3>4
  <2>2. ASSUME y \in X PROVE May(u, y[1], y[2])'
    <3>1. PICK i \in RightsOf(u)' : rights'[i].store = y[1] /\ rights'[i].actions = {y[2]}
                                    /\ rights'[i].grant = "lasting"
      BY <1>3, <2>2
    <3>2. i \in RightsAt(u, y[1])' BY <3>1 DEF RightsAt, RightsOf
    <3> QED BY <3>1, <3>2 DEF May
  <2> QED BY <2>1, <2>2 DEF May
<1>5. Mays(u)' = X BY <1>4 DEF Mays
<1> QED BY <1>2, <1>5

\* The template a request gives.
LEMMA OneTemplate ==
    ASSUME DoneInv, NEW r \in Requests,
           call[r].op \in {"hire", "invite", "assignTemplate"} \/ (Is(r, "edit") /\ call[r].changes)
    PROVE  call[r].templates = {Chosen(r)}
<1>1. PICK t \in Templates : call[r].templates = {t} BY DEF DoneInv, CallFits, Is
<1> QED BY <1>1 DEF Chosen

LEMMA CommitHireDone ==
    ASSUME TypeInv, RaceInv, DoneInv, NEW r \in Requests, CommitHire(r)
    PROVE  DoneInv' /\ DoneNext
<1>0. PICK e, t : e = work[r].user /\ t = Chosen(r) OBVIOUS
<1> DEFINE w == work[r]  c == call[r]
           X == Everywhere(w.grants) \cup c.explicit
           x == [user |-> e, template |-> t, store |-> None]
           p == IF Is(r, "hire") THEN "mail" ELSE "draw"
<1>1. /\ pc[r] = "commit" /\ ~ Is(r, "edit") /\ e \notin users
      /\ roles' = Put(roles, <<r, e>>, x)
      /\ rights' = IF Is(r, "hire") THEN Grant(rights, r, e, X) ELSE rights
      /\ members' = members \cup ({e} \X c.stores) /\ Goto(r, p, w)
      /\ UNCHANGED <<templates, call, raced, torn>>
  BY <1>0 DEF CommitHire
<1>2. /\ c.op \in {"hire", "invite"} /\ c.users = {e} /\ e \in Emails /\ InFlight(r)
      /\ (Is(r, "hire") => c.explicit \subseteq Places \X Actions) /\ w.grants \subseteq Actions
  BY <1>0, <1>1, AtWork DEF Fits, Runs, Asks, Ended, Is, InFlight, Work
<1>3. Is(r, "hire") => X \subseteq Places \X Actions BY <1>2 DEF Everywhere, Places
<1>4. c.templates = {t} BY <1>0, <1>2, OneTemplate
<1>5. x.user = e /\ x.template = t OBVIOUS
<1>6. p \in {"mail", "draw"} /\ (Is(r, "hire") <=> p = "mail") OBVIOUS
<1> HIDE DEF x, X, p
<1>7. TypeInv' BY CommitHireTyped
<1>8. /\ \A i \in DOMAIN roles : i[2] # e /\ roles[i].user # e
      /\ \A i \in DOMAIN rights : i[2] # e /\ rights[i].user # e
      /\ \A y \in members : y[1] # e
  BY <1>1 DEF TypeInv, RowsFit
<1>9. \A i : /\ i \in DOMAIN roles' <=> (i = <<r, e>> \/ i \in DOMAIN roles)
             /\ i = <<r, e>> => roles'[i] = x
             /\ i \in DOMAIN roles => roles'[i] = roles[i]
  BY <1>1, <1>8 DEF Put
<1>10. /\ DOMAIN rights \subseteq DOMAIN rights'
       /\ \A i \in DOMAIN rights' : i[2] = e \/ (i \in DOMAIN rights /\ rights'[i] = rights[i])
  <2>1. CASE Is(r, "hire")
    <3>1. r \in Makers BY DEF Makers
    <3> QED BY <1>1, <1>2, <1>3, <2>1, <3>1, GrantGives
  <2>2. CASE ~ Is(r, "hire") BY <1>1, <2>2
  <2> QED BY <2>1, <2>2
<1>11. Leaves(r)
  <2>1. \A i \in DOMAIN rights : i[2] # e => rights'[i] = rights[i] BY <1>10
  <2> QED BY <1>1, <1>2, <1>4, <1>5, <1>7, <1>8, <1>9, <1>10, <2>1, RowsLeave DEF TypeInv
<1>12. TemplatesOf(e)' = {t}
  <2>1. RolesOf(e)' = {<<r, e>>} BY <1>5, <1>8, <1>9 DEF RolesOf
  <2> QED BY <1>5, <1>9, <2>1 DEF TemplatesOf
<1>13. StoresAre(e, c.stores)' BY <1>1, <1>8 DEF StoresAre
<1>14. pc'[r] = p /\ work'[r] = w BY <1>1, <1>6, GoesOn DEF Ended
<1>15. Granted(t)' = Granted(t) BY <1>1 DEF Granted, IsActive
<1>16. CASE p = "mail"
  <2>1. Mays(e)' = X /\ \A i \in RightsOf(e)' : rights'[i].grant = "lasting"
    BY <1>1, <1>3, <1>6, <1>8, <1>16, GrantMays
  <2>2. ASSUME Done(r) PROVE Achieved(r)'
    <3>1. w.grants = Granted(t) BY <1>1, <1>2, <1>4, <1>6, <1>16, <2>2 DEF Done, HireDone
    <3>2. X = c.explicit \cup Everywhere(Granted(t)') BY <1>15, <3>1 DEF X
    <3>3. HasExactly(e, c.explicit \cup Everywhere(Granted(t)))'
      BY <1>1, <2>1, <3>2 DEF HasExactly, Mays
    <3> QED BY <1>1, <1>2, <1>4, <1>12, <1>13, <3>3 DEF Achieved, Is
  <2>3. Done(r) => Done(r)'
    BY <1>1, <1>2, <1>6, <1>14, <1>16, <2>1, <2>2 DEF Done, HireDone, Is, InFlight, Ended
  <2> QED BY <1>1, <1>2, <1>11, <1>16, <2>3, DoneByOne
<1>17. CASE p = "draw"
  <2>1. RightsOf(e)' = {} BY <1>1, <1>6, <1>8, <1>17 DEF RightsOf
  <2>2. HireDone(r)'
    BY <1>1, <1>2, <1>4, <1>6, <1>12, <1>13, <1>14, <1>17, <2>1 DEF HireDone, Is
  <2>3. Done(r)' BY <1>1, <1>2, <1>14, <1>17, <2>2 DEF Done, Is, InFlight, Ended
  <2> QED BY <1>1, <1>2, <1>11, <1>17, <2>3, DoneByOne
<1> QED BY <1>6, <1>16, <1>17

LEMMA InsertRightsDone ==
    ASSUME TypeInv, RaceInv, DoneInv, NEW r \in Requests, InsertRights(r)
    PROVE  DoneInv' /\ DoneNext
<1>0. PICK e, t : e = work[r].user /\ t = Chosen(r) OBVIOUS
<1> DEFINE w == work[r]  c == call[r]
           X == Everywhere(w.grants)
<1>1. /\ pc[r] = "insert" /\ rights' = Grant(rights, r, e, X) /\ Goto(r, "mail", w)
      /\ UNCHANGED <<templates, users, roles, members, call, raced, torn>>
  BY <1>0 DEF InsertRights
<1>2. c.op = "invite" /\ c.users = {e} /\ e \in Emails /\ InFlight(r) /\ w.grants \subseteq Actions
  BY <1>0, <1>1, AtWork DEF Fits, Runs, Asks, Ended, Is, InFlight, Work
<1>3. X \subseteq Places \X Actions /\ r \in Makers BY <1>2 DEF Everywhere, Places, Makers
<1>4. c.templates = {t} /\ c.explicit = {}
  BY <1>0, <1>2, OneTemplate DEF DoneInv, CallFits, Is
<1> HIDE DEF X
<1>5. TypeInv' BY InsertRightsTyped
<1>6. Leaves(r)
  <2>1. /\ DOMAIN rights \subseteq DOMAIN rights'
        /\ \A i \in DOMAIN rights' : i[2] = e \/ (i \in DOMAIN rights /\ rights'[i] = rights[i])
    BY <1>1, <1>2, <1>3, GrantGives
  <2>2. \A i \in DOMAIN rights : i[2] # e => rights'[i] = rights[i] BY <2>1
  <2> QED BY <1>1, <1>2, <1>5, <2>1, <2>2, RightsLeave DEF TypeInv
<1>7. pc'[r] = "mail" BY <1>1, GoesOn
<1>8. ASSUME Done(r)
      PROVE  Achieved(r)' /\ \A i \in RightsOf(e)' : rights'[i].grant = "lasting"
  <2>1. /\ w.grants = Granted(t) /\ TemplatesOf(e) = {t} /\ StoresAre(e, c.stores)
        /\ RightsOf(e) = {}
    BY <1>1, <1>2, <1>4, <1>8 DEF Done, HireDone, Is
  <2>2. Mays(e)' = X /\ \A i \in RightsOf(e)' : rights'[i].grant = "lasting"
    <3>1. \A i \in DOMAIN rights : rights[i].user # e BY <2>1 DEF RightsOf
    <3> QED BY <1>1, <1>3, <3>1, GrantMays
  <2>3. /\ TemplatesOf(e)' = {t} /\ StoresAre(e, c.stores)' /\ Granted(t)' = Granted(t)
    BY <1>1, <2>1 DEF TemplatesOf, RolesOf, StoresAre, Granted, IsActive
  <2>4. X = c.explicit \cup Everywhere(Granted(t)') BY <1>4, <2>1, <2>3 DEF X
  <2>5. HasExactly(e, c.explicit \cup Everywhere(Granted(t)))'
    BY <1>1, <2>2, <2>4 DEF HasExactly, Mays
  <2> QED BY <1>1, <1>2, <1>4, <2>2, <2>3, <2>5 DEF Achieved, Is
<1>9. Done(r) => Done(r)' BY <1>1, <1>2, <1>7, <1>8 DEF Done, HireDone, Is, InFlight, Ended
<1> QED BY <1>1, <1>2, <1>6, <1>9, DoneByOne

\* A statement of an edit is over.
LEMMA AdvanceDone ==
    ASSUME TypeInv, RaceInv, DoneInv, NEW r \in Requests, NEW w \in Work, Advance(r, w), Is(r, "edit"),
           InFlight(r), UNCHANGED <<db, call, raced, torn>>, w.user = work[r].user,
           w.plan = work[r].plan, work[r].held \subseteq w.held,
           EditDone(r) =>
              /\ call[r].changes /\ First(w.plan) = "roles" => RolesOf(w.user) \subseteq w.held
              /\ (call[r].changes \/ call[r].explicit # None) =>
                    /\ First(w.plan) = "rights" => RightsOf(w.user) \subseteq w.held
                    /\ "draw" \notin w.plan \ {First(w.plan)} =>
                          \E t \in call[r].templates : w.grants = Granted(t)
              /\ call[r].stores # None /\ First(w.plan) = "stores" => MembersOf(w.user) \subseteq w.held
    PROVE  DoneInv' /\ DoneNext
<1> DEFINE c == call[r]
           P == w.plan \ {First(w.plan)}
           v == [w EXCEPT !.plan = P]
<1>1. Goto(r, First(P), v) BY DEF Advance, After, Ahead
<1>2. P \subseteq Stages BY DEF Work
<1>3. v.plan = P /\ v.user = w.user /\ v.held = w.held /\ v.grants = w.grants BY <1>2 DEF Work
<1>4. First(P) \in Stages BY FirstIsStage
<1>5. \A s : s \notin P => s \notin w.plan \/ s = First(w.plan) OBVIOUS
<1> HIDE DEF P, v
<1>6. pc'[r] = First(P) /\ work'[r] = v /\ pc'[r] \notin {"take", "next", "idle", "ok", "retire"}
  BY <1>1, <1>4, GoesOn DEF Stages, Ended
<1>7. /\ \A u : RolesOf(u)' = RolesOf(u) /\ RightsOf(u)' = RightsOf(u) /\ MembersOf(u)' = MembersOf(u)
      /\ \A u : TemplatesOf(u)' = TemplatesOf(u)
      /\ \A t : Granted(t)' = Granted(t)
  BY DEF RolesOf, RightsOf, MembersOf, TemplatesOf, Granted, IsActive, db
<1>8. ASSUME EditDone(r) PROVE EditDone(r)'
  <2>1. c.changes => /\ \A t \in c.templates : templates'[t].active
                     /\ "roles" \notin P => RolesOf(w.user) \subseteq w.held
    BY <1>5, <1>8 DEF EditDone, Cleared, db
  <2>2. ~ c.changes => TemplatesOf(w.user) \subseteq c.templates BY <1>8 DEF EditDone
  <2>3. c.changes \/ c.explicit # None =>
           /\ "rights" \notin P => RightsOf(w.user) \subseteq w.held
           /\ "draw" \notin P => \E t \in c.templates : w.grants = Granted(t)
    BY <1>5, <1>8 DEF EditDone, Cleared, P
  <2>4. c.stores # None => ("stores" \notin P => MembersOf(w.user) \subseteq w.held)
    BY <1>5, <1>8 DEF EditDone, Cleared
  <2>5. /\ call'[r] = c /\ work'[r].plan = P /\ work'[r].user = w.user /\ work'[r].held = w.held
        /\ work'[r].grants = w.grants /\ pc'[r] # "take"
    BY <1>3, <1>6
  <2>6. \A s, X : (s \notin P => X \subseteq w.held) => Cleared(r, s, X)' BY <2>5 DEF Cleared
  <2> QED BY <1>7, <2>1, <2>2, <2>3, <2>4, <2>5, <2>6 DEF EditDone
<1>9. Done(r) => Done(r)' BY <1>6, <1>8 DEF Done, Is, InFlight, Ended
<1> QED BY <1>1, <1>4, <1>9, QuietDone DEF Stages

\* Where an edit is.
LEMMA EditIsAt ==
    ASSUME TypeInv, LockInv, NEW r \in Requests, Is(r, "edit"), pc[r] \notin Ended \cup {"idle"}
    PROVE  /\ pc[r] \in Stages => pc[r] = First(work[r].plan)
           /\ pc[r] = "take" => First(work[r].plan) \in {"roles", "rights", "stores"}
           /\ call[r].users = {work[r].user} /\ work[r].user \in Emails
           /\ work[r].snap \cup work[r].held \subseteq RowsOf(work[r].user)
           /\ InFlight(r) /\ (Done(r) => EditDone(r))
<1>1. Holds(call[r], pc[r], work[r], OwnRoles(work[r].user)) BY DEF LockInv
<1>2. Fits(call[r], pc[r], work[r], users) /\ call[r].users \subseteq Emails BY AtWork
<1> QED BY <1>1, <1>2 DEF Holds, Fits, Is, InFlight, Done

LEMMA DrawDone ==
    ASSUME TypeInv, RaceInv, LockInv, DoneInv, NEW r \in Requests, Draw(r)
    PROVE  DoneInv' /\ DoneNext
<1>1. pc[r] = "draw" /\ UNCHANGED <<db, call, raced, torn>> BY DEF Draw
<1>2. PICK t \in Source(r) : Advance(r, [work[r] EXCEPT !.grants = Granted(t)]) BY DEF Draw
<1> DEFINE c == call[r]
           w == [work[r] EXCEPT !.grants = Granted(t)]
<1>3. work[r] \in Work /\ Fits(c, pc[r], work[r], users) /\ c.op \in {"hire", "invite", "edit"} /\ InFlight(r)
  BY <1>1, AtWork DEF Runs, InFlight, Ended
<1>4. Granted(t) \subseteq Actions BY DEF TypeInv, RowsFit, Template, Granted, IsActive
<1>5. /\ w \in Work /\ w.user = work[r].user /\ w.held = work[r].held /\ w.snap = work[r].snap
      /\ w.plan = work[r].plan /\ w.grants = Granted(t)
  BY <1>3, <1>4 DEF Work
<1>6. Advance(r, w) BY <1>2
<1> HIDE DEF w
<1>7. CASE Is(r, "edit")
  <2>1. First(w.plan) = "draw" BY <1>1, <1>5, <1>7, EditIsAt DEF Stages, Ended
  <2>2. EditDone(r) => t \in c.templates BY <1>7 DEF EditDone, Source
  <2> QED BY <1>1, <1>3, <1>5, <1>6, <1>7, <2>1, <2>2, AdvanceDone
<1>8. CASE ~ Is(r, "edit")
  <2> DEFINE p == IF Is(r, "hire") THEN "commit" ELSE "insert"
  <2>1. Goto(r, p, w) BY <1>6, <1>8 DEF Advance, After
  <2>2. p \in {"commit", "insert"} /\ (Is(r, "hire") <=> p = "commit") OBVIOUS
  <2> HIDE DEF p
  <2>3. pc'[r] = p /\ work'[r] = w BY <2>1, <2>2, GoesOn DEF Ended
  <2>4. PICK x : c.templates = {x} BY <1>3, <1>8, OneTemplate DEF Is
  <2>5. t = x BY <1>8, <2>4 DEF Source
  <2>6. (\A u : SameUser(u)) /\ (\A s : SameTemplate(s)) BY <1>1, QuietLeaves DEF db
  <2>7. Granted(x)' = Granted(x) BY <2>6, SameGrants
  <2>8. \A u : /\ TemplatesOf(u)' = TemplatesOf(u) /\ RightsOf(u)' = RightsOf(u)
               /\ \A S : StoresAre(u, S)' <=> StoresAre(u, S)
    BY <2>6, SameReads DEF SameUser
  <2>9. ASSUME HireDone(r) PROVE HireDone(r)'
    <3>1. \A s \in c.templates : work'[r].grants = Granted(s)' BY <1>5, <2>3, <2>4, <2>5, <2>7
    <3>2. p = "insert" => \A u \in c.users : /\ \A s \in c.templates : TemplatesOf(u) = {s}
                                             /\ StoresAre(u, c.stores) /\ RightsOf(u) = {}
      BY <1>1, <1>3, <1>8, <2>2, <2>9 DEF HireDone, Is
    <3>3. p = "insert" => \A u \in c.users : /\ \A s \in c.templates : TemplatesOf(u)' = {s}
                                             /\ StoresAre(u, c.stores)' /\ RightsOf(u)' = {}
      BY <1>1, <2>8, <3>2
    <3>4. call'[r] = c BY <1>1
    <3> QED BY <1>1, <2>2, <2>3, <3>1, <3>3, <3>4 DEF HireDone, Is
  <2>10. Done(r) => Done(r)'
    BY <1>1, <1>3, <1>8, <2>2, <2>3, <2>9 DEF Done, Is, InFlight, Ended
  <2> QED BY <1>1, <1>3, <2>1, <2>2, <2>10, QuietDone
<1> QED BY <1>7, <1>8

LEMMA LockUserDone ==
    ASSUME TypeInv, RaceInv, LockInv, DoneInv, NEW r \in Requests, LockUser(r)
    PROVE  DoneInv' /\ DoneNext
<1> DEFINE row == {<<work[r].user>>}
           w == [work[r] EXCEPT !.held = @ \cup row]
<1>1. pc[r] = "user" /\ Advance(r, w) /\ UNCHANGED <<db, call, raced, torn>> BY DEF LockUser
<1>2. work[r] \in Work /\ Is(r, "edit") BY <1>1, AtWork DEF Runs, Is
<1>3. pc[r] = First(work[r].plan) /\ InFlight(r) /\ work[r].user \in Emails
  BY <1>1, <1>2, EditIsAt DEF Stages, Ended
<1>4. row \subseteq RowsOf(work[r].user) BY DEF RowsOf
<1>5. work[r].held \cup row \in SUBSET UNION {RowsOf(u) : u \in Emails}
  BY <1>2, <1>3, <1>4 DEF Work
<1> HIDE DEF row
<1>6. /\ w \in Work /\ w.user = work[r].user /\ w.held = work[r].held \cup row
      /\ w.plan = work[r].plan /\ w.grants = work[r].grants
  BY <1>2, <1>5 DEF Work
<1> HIDE DEF w
<1>7. EditDone(r) /\ (call[r].changes \/ call[r].explicit # None) =>
         ("draw" \notin w.plan \ {First(w.plan)} => \E t \in call[r].templates : w.grants = Granted(t))
  BY <1>1, <1>3, <1>6 DEF EditDone
<1> QED BY <1>1, <1>2, <1>3, <1>6, <1>7, AdvanceDone

LEMMA LookDone ==
    ASSUME TypeInv, RaceInv, LockInv, DoneInv, NEW r \in Requests, Look(r)
    PROVE  DoneInv' /\ DoneNext
<1> DEFINE u == work[r].user
           S == CASE pc[r] = "roles" -> RolesOf(u)
                  [] pc[r] = "rights" -> RightsOf(u)
                  [] OTHER -> {p \in members : p[1] = u}
           w == [work[r] EXCEPT !.snap = S]
           c == call[r]
<1>1. pc[r] \in {"roles", "rights", "stores"} /\ Goto(r, "take", w) /\ UNCHANGED <<db, call, raced, torn>>
  BY DEF Look
<1>2. /\ pc[r] = "roles" => S = RolesOf(u)
      /\ pc[r] = "rights" => S = RightsOf(u)
      /\ pc[r] = "stores" => S = MembersOf(u)
  BY DEF MembersOf
<1>3. work[r] \in Work /\ c.op \in {"edit", "setStores"} /\ InFlight(r)
  BY <1>1, AtWork DEF Runs, InFlight, Ended
<1> HIDE DEF S
<1>4. w.user = u /\ w.held = work[r].held /\ w.snap = S /\ w.plan = work[r].plan /\ w.grants = work[r].grants
  BY <1>3 DEF Work
<1> HIDE DEF w
<1>5. pc'[r] = "take" /\ work'[r] = w /\ call'[r] = c BY <1>1, GoesOn DEF Ended
<1>6. (\A x : SameUser(x)) /\ (\A t : SameTemplate(t)) BY <1>1, QuietLeaves DEF db
<1>7. \A x : /\ TemplatesOf(x)' = TemplatesOf(x) /\ RightsOf(x)' = RightsOf(x)
             /\ RolesOf(x)' = RolesOf(x) /\ MembersOf(x)' = MembersOf(x)
  BY <1>6, SameReads DEF SameUser
<1>8. \A t : Granted(t)' = Granted(t) BY <1>6, SameGrants
<1>9. CASE Is(r, "edit")
  <2>1. pc[r] = First(work[r].plan) BY <1>1, <1>9, EditIsAt DEF Stages, Ended
  <2>2. ASSUME NEW s, NEW X, Cleared(r, s, X), pc[r] = s => X = S
        PROVE  /\ s \notin w.plan => X \subseteq w.held
               /\ First(w.plan) = s => X \subseteq w.snap
    BY <1>4, <2>1, <2>2 DEF Cleared
  <2>3. ASSUME EditDone(r) PROVE EditDone(r)'
    <3>1. c.changes => /\ \A t \in c.templates : templates'[t].active
                       /\ "roles" \notin w.plan => RolesOf(u) \subseteq w.held
                       /\ First(w.plan) = "roles" => RolesOf(u) \subseteq w.snap
      BY <1>1, <1>2, <2>2, <2>3 DEF EditDone, db
    <3>2. ~ c.changes => TemplatesOf(u) \subseteq c.templates BY <2>3 DEF EditDone
    <3>3. c.changes \/ c.explicit # None =>
             /\ "rights" \notin w.plan => RightsOf(u) \subseteq w.held
             /\ First(w.plan) = "rights" => RightsOf(u) \subseteq w.snap
             /\ "draw" \notin w.plan => \E t \in c.templates : w.grants = Granted(t)
      BY <1>2, <1>4, <2>2, <2>3 DEF EditDone
    <3>4. c.stores # None =>
             /\ "stores" \notin w.plan => MembersOf(u) \subseteq w.held
             /\ First(w.plan) = "stores" => MembersOf(u) \subseteq w.snap
      BY <1>2, <2>2, <2>3 DEF EditDone
    <3>5. \A s, X : ((s \notin w.plan => X \subseteq w.held) /\ (First(w.plan) = s => X \subseteq w.snap))
                     => Cleared(r, s, X)'
      BY <1>5 DEF Cleared
    <3> QED BY <1>4, <1>5, <1>7, <1>8, <3>1, <3>2, <3>3, <3>4, <3>5 DEF EditDone
  <2>4. Done(r) => Done(r)' BY <1>3, <1>5, <1>9, <2>3 DEF Done, Is, InFlight, Ended
  <2> QED BY <1>1, <1>3, <2>4, QuietDone
<1>10. CASE ~ Is(r, "edit")
  <2>1. pc[r] = "stores" BY <1>1, <1>3, <1>10, AtWork DEF Runs, Is
  <2>2. StoresDone(r)' BY <1>2, <1>4, <1>5, <1>7, <2>1 DEF StoresDone
  <2>3. Done(r) => Done(r)' BY <1>3, <1>5, <1>10, <2>2 DEF Done, Is, InFlight, Ended
  <2> QED BY <1>1, <1>3, <2>3, QuietDone
<1> QED BY <1>9, <1>10

LEMMA TakeDone ==
    ASSUME TypeInv, RaceInv, LockInv, DoneInv, NEW r \in Requests, Take(r)
    PROVE  DoneInv' /\ DoneNext
<1> DEFINE u == work[r].user
           left == work[r].snap \cap (DOMAIN roles \cup DOMAIN rights \cup members)
           w == [work[r] EXCEPT !.held = @ \cup left, !.snap = {}]
           c == call[r]
<1>1. pc[r] = "take" /\ Is(r, "edit") /\ Advance(r, w) /\ UNCHANGED <<db, call, raced, torn>>
  BY DEF Take
<1>2. work[r] \in Work BY AtWork
<1>3. First(work[r].plan) \in {"roles", "rights", "stores"} /\ InFlight(r)
  BY <1>1, EditIsAt DEF Ended
<1>4. left \subseteq work[r].snap OBVIOUS
<1>5. /\ RolesOf(u) \subseteq work[r].snap => RolesOf(u) \subseteq left
      /\ RightsOf(u) \subseteq work[r].snap => RightsOf(u) \subseteq left
      /\ MembersOf(u) \subseteq work[r].snap => MembersOf(u) \subseteq left
  BY DEF RolesOf, RightsOf, MembersOf
<1> HIDE DEF left
<1>6. /\ w \in Work /\ w.user = u /\ w.held = work[r].held \cup left
      /\ w.plan = work[r].plan /\ w.grants = work[r].grants
  BY <1>2, <1>4 DEF Work
<1> HIDE DEF w
<1>7. ASSUME EditDone(r)
      PROVE  /\ c.changes /\ First(w.plan) = "roles" => RolesOf(w.user) \subseteq w.held
             /\ (c.changes \/ c.explicit # None) =>
                  /\ First(w.plan) = "rights" => RightsOf(w.user) \subseteq w.held
                  /\ "draw" \notin w.plan \ {First(w.plan)} => \E t \in c.templates : w.grants = Granted(t)
             /\ c.stores # None /\ First(w.plan) = "stores" => MembersOf(w.user) \subseteq w.held
  BY <1>1, <1>3, <1>5, <1>6, <1>7 DEF EditDone, Cleared
<1> QED BY <1>1, <1>3, <1>6, <1>7, AdvanceDone

\* The stores of a user are no rows of another.
LEMMA RowsOfMembers == \A x \in Emails \X Stores : \A u \in Emails : x \in RowsOf(u) => x[1] = u
<1> SUFFICES ASSUME NEW v \in Emails, NEW s \in Stores, NEW u \in Emails, <<v, s>> \in RowsOf(u), v # u
             PROVE  FALSE
  OBVIOUS
<1>1. <<v, s>> \in Makers \X {u} BY DEF RowsOf
<1>2. v \in Makers BY <1>1
<1> QED BY <1>2, AccessAssumption DEF Makers

LEMMA CommitEditDone ==
    ASSUME TypeInv, RaceInv, LockInv, DoneInv, NEW r \in Requests, CommitEdit(r)
    PROVE  DoneInv' /\ DoneNext
<1>0. PICK u, t : u = work[r].user /\ t = Chosen(r) OBVIOUS
<1> DEFINE w == work[r]  c == call[r]
           X == Everywhere(w.grants) \cup IF c.explicit = None THEN {} ELSE c.explicit
           x == [user |-> u, template |-> t, store |-> None]
           f == Drop(rights, w.held)
<1>1. /\ pc[r] = "commit" /\ Is(r, "edit")
      /\ roles' = IF c.changes THEN Put(Drop(roles, w.held), <<r, u>>, x) ELSE roles
      /\ rights' = Grant(f, r, u, X)
      /\ members' = IF c.stores = None THEN members ELSE (members \ w.held) \cup ({u} \X c.stores)
      /\ Goto(r, "ok", w) /\ UNCHANGED <<templates, users, call, raced, torn>>
  BY <1>0 DEF CommitEdit
<1>2. /\ c.users = {u} /\ u \in Emails /\ w.held \subseteq RowsOf(u) /\ InFlight(r)
      /\ First(w.plan) = "commit" /\ (Done(r) => EditDone(r))
  BY <1>0, <1>1, EditIsAt DEF Stages, Ended
<1>3. /\ c.explicit # None => c.explicit \subseteq Places \X Actions
      /\ w.grants \subseteq Actions /\ c.changes \in BOOLEAN
  BY <1>1, AtWork DEF Asks, Is, Work
<1>4. X \subseteq Places \X Actions /\ r \in Makers BY <1>3 DEF Everywhere, Places, Makers
<1>5. c.changes => c.templates = {t} BY <1>0, <1>1, OneTemplate
<1>6. x.user = u /\ x.template = t OBVIOUS
<1>7. /\ DOMAIN f = (DOMAIN rights) \ w.held
      /\ \A i \in DOMAIN f : f[i] = rights[i]
  BY DEF Drop
<1> HIDE DEF x, X, f
<1>8. TypeInv' BY CommitEditTyped
<1>9. /\ \A i \in DOMAIN roles : i \in w.held => i[2] = u
      /\ \A i \in DOMAIN rights : i \in w.held => i[2] = u
      /\ \A y \in members : y \in w.held => y[1] = u
  <2>1. members \subseteq Emails \X Stores BY DEF TypeInv, RowsFit
  <2> QED BY <1>2, <2>1, RowsOfRoles, RowsOfRights, RowsOfMembers DEF TypeInv, RowsFit
<1>10. c.changes =>
         \A i : /\ i \in DOMAIN roles' <=> (i = <<r, u>> \/ (i \in DOMAIN roles /\ i \notin w.held))
                /\ i = <<r, u>> => roles'[i] = x
                /\ i \in DOMAIN roles /\ i \notin w.held /\ i # <<r, u>> => roles'[i] = roles[i]
  BY <1>1 DEF Put, Drop
<1>11. /\ DOMAIN f \subseteq DOMAIN rights'
       /\ \A i \in DOMAIN rights' : i[2] = u \/ (i \in DOMAIN f /\ rights'[i] = f[i])
  BY <1>1, <1>2, <1>4, GrantGives
<1>12. Leaves(r)
  <2>1. \A i \in (DOMAIN rights) \cup DOMAIN rights' :
           \/ i[2] = u
           \/ i \in DOMAIN rights /\ i \in DOMAIN rights' /\ rights'[i] = rights[i]
    BY <1>7, <1>9, <1>11
  <2>2. \A i \in (DOMAIN roles) \cup DOMAIN roles' :
           \/ i[2] = u
           \/ i \in DOMAIN roles /\ i \in DOMAIN roles' /\ roles'[i] = roles[i]
    BY <1>1, <1>3, <1>9, <1>10
  <2>3. \A i \in DOMAIN roles' :
           roles'[i].template \in c.templates \/ (i \in DOMAIN roles /\ roles'[i] = roles[i])
    BY <1>1, <1>3, <1>5, <1>6, <1>10
  <2>4. \A y \in members \cup members' : y[1] = u \/ (y \in members /\ y \in members')
    BY <1>1, <1>9
  <2> QED BY <1>1, <1>2, <1>8, <2>1, <2>2, <2>3, <2>4, RowsLeave DEF TypeInv
<1>13. ASSUME EditDone(r), c.changes
       PROVE  /\ TemplatesOf(u)' = {t} /\ \A s \in c.templates : templates'[s].active
  <2>1. RolesOf(u) \subseteq w.held /\ \A s \in c.templates : templates[s].active
    BY <1>0, <1>2, <1>13 DEF EditDone, Cleared, First
  <2>2. RolesOf(u)' = {<<r, u>>} BY <1>6, <1>10, <1>13, <2>1 DEF RolesOf
  <2>3. TemplatesOf(u)' = {t} BY <1>6, <1>10, <1>13, <2>2 DEF TemplatesOf
  <2> QED BY <1>1, <2>1, <2>3
<1>14. ASSUME EditDone(r), c.changes \/ c.explicit # None
       PROVE  \E s \in c.templates : Mays(u)' = Everywhere(Granted(s)')
                                       \cup IF c.explicit = None THEN {} ELSE c.explicit
  <2>1. RightsOf(u) \subseteq w.held /\ \E s \in c.templates : w.grants = Granted(s)
    <3>1. "rights" \notin w.plan /\ "draw" \notin w.plan BY <1>2 DEF First
    <3> QED BY <1>0, <1>14, <3>1 DEF EditDone, Cleared
  <2>2. \A i \in DOMAIN f : f[i].user # u BY <1>7, <2>1 DEF RightsOf
  <2>3. Mays(u)' = X BY <1>1, <1>4, <2>2, GrantMays
  <2>4. \A s : Granted(s)' = Granted(s) BY <1>1 DEF Granted, IsActive
  <2> QED BY <2>1, <2>3, <2>4 DEF X
<1>15. ASSUME EditDone(r), c.stores # None
       PROVE  StoresAre(u, c.stores)'
  <2>1. "stores" \notin w.plan BY <1>2 DEF First
  <2>2. MembersOf(u) \subseteq w.held BY <1>0, <1>15, <2>1 DEF EditDone, Cleared
  <2>3. members' = (members \ w.held) \cup ({u} \X c.stores) BY <1>1, <1>15
  <2> QED BY <1>1, <2>2, <2>3 DEF MembersOf, StoresAre
<1>16. ASSUME EditDone(r) PROVE Achieved(r)'
  <2>1. (c.changes \/ c.explicit # None) => \E s \in c.templates :
           HasExactly(u, Everywhere(Granted(s)) \cup IF c.explicit = None THEN {} ELSE c.explicit)'
    BY <1>1, <1>14, <1>16 DEF HasExactly, Mays
  <2> QED BY <1>1, <1>2, <1>5, <1>13, <1>15, <1>16, <2>1 DEF Achieved, Is
<1>17. Done(r) => Done(r)'
  <2>1. pc'[r] = "ok" BY <1>1, GoesOn
  <2> QED BY <1>2, <1>16, <2>1 DEF Done, InFlight, Ended
<1> QED BY <1>1, <1>2, <1>12, <1>17, DoneByOne

LEMMA ClearStoresDone ==
    ASSUME TypeInv, RaceInv, DoneInv, NEW r \in Requests, ClearStores(r)
    PROVE  DoneInv' /\ DoneNext
<1>0. PICK u : u = work[r].user OBVIOUS
<1> DEFINE c == call[r]
           w == [work[r] EXCEPT !.todo = c.stores]
           p == IF c.stores = {} THEN "ok" ELSE "add"
<1>1. /\ pc[r] = "take" /\ Is(r, "setStores") /\ members' = members \ work[r].snap
      /\ Goto(r, p, w) /\ UNCHANGED <<templates, users, roles, rights, call, raced, torn>>
  BY DEF ClearStores
<1>2. /\ c.users = {u} /\ u \in Emails /\ work[r].snap \subseteq RowsOf(u) /\ InFlight(r)
      /\ work[r] \in Work
  BY <1>0, <1>1, AtWork DEF Fits, Is, Ended, InFlight
<1>3. w.user = u /\ w.todo = c.stores BY <1>0, <1>2 DEF Work
<1>4. p \in {"ok", "add"} /\ (p = "ok" <=> c.stores = {}) OBVIOUS
<1> HIDE DEF w, p
<1>5. Leaves(r)
  <2>1. members \subseteq Emails \X Stores BY DEF TypeInv, RowsFit
  <2> QED BY <1>1, <1>2, <2>1, RowsOfMembers, MembersLeave
<1>6. pc'[r] = p /\ (p = "add" => work'[r] = w) BY <1>1, <1>4, GoesOn DEF Ended
<1>7. ASSUME Done(r) PROVE MembersOf(u)' = {}
  <2>1. MembersOf(u) \subseteq work[r].snap BY <1>0, <1>1, <1>2, <1>7 DEF Done, StoresDone
  <2> QED BY <1>1, <2>1 DEF MembersOf
<1>8. ASSUME Done(r), p = "ok" PROVE Done(r)'
  <2>1. StoresAre(u, c.stores)' BY <1>1, <1>4, <1>7, <1>8 DEF StoresAre, MembersOf
  <2>2. Achieved(r)' BY <1>1, <1>2, <2>1 DEF Achieved, Is
  <2> QED BY <1>6, <1>8, <2>2 DEF Done, InFlight, Ended
<1>9. ASSUME Done(r), p = "add" PROVE Done(r)'
  <2>1. StoresDone(r)' BY <1>1, <1>3, <1>6, <1>7, <1>9 DEF StoresDone
  <2> QED BY <1>1, <1>6, <1>9, <2>1 DEF Done, Is, InFlight, Ended
<1> QED BY <1>1, <1>2, <1>4, <1>5, <1>8, <1>9, DoneByOne

LEMMA AddStoreDone ==
    ASSUME TypeInv, RaceInv, DoneInv, NEW r \in Requests, AddStore(r)
    PROVE  DoneInv' /\ DoneNext
<1>0. PICK s \in work[r].todo : /\ members' = members \cup {<<work[r].user, s>>}
                               /\ AfterStore(r, s)
  BY DEF AddStore
<1>1. PICK u : /\ u = work[r].user /\ s \in work[r].todo
               /\ members' = members \cup {<<u, s>>} /\ AfterStore(r, s)
  BY <1>0
<1> DEFINE c == call[r]
           p == IF work[r].todo = {s} THEN "ok" ELSE "add"
           w == [work[r] EXCEPT !.todo = @ \ {s}]
<1>2. pc[r] = "add" /\ UNCHANGED <<templates, users, roles, rights, call, raced, torn>>
  BY DEF AddStore
<1>3. /\ c.op = "setStores" /\ c.users = {u} /\ work[r].todo \subseteq c.stores /\ InFlight(r)
      /\ work[r] \in Work
  BY <1>1, <1>2, AtWork DEF Fits, Runs, Ended, InFlight
<1>4. Goto(r, p, w) BY <1>1 DEF AfterStore
<1>5. w.user = u /\ w.todo = work[r].todo \ {s} BY <1>1, <1>3 DEF Work
<1>6. p \in {"ok", "add"} /\ (p = "ok" => work[r].todo = {s}) OBVIOUS
<1> HIDE DEF w, p
<1>7. Leaves(r)
  <2>1. <<u, s>>[1] = u OBVIOUS
  <2> QED BY <1>1, <1>2, <1>3, <2>1, MembersLeave
<1>8. pc'[r] = p /\ (p = "add" => work'[r] = w) BY <1>4, <1>6, GoesOn DEF Ended
<1>9. ASSUME Done(r) PROVE MembersOf(u)' = {u} \X (c.stores \ (work[r].todo \ {s}))
  <2>1. MembersOf(u) = {u} \X (c.stores \ work[r].todo)
    BY <1>1, <1>2, <1>3, <1>9 DEF Done, StoresDone, Is
  <2>2. MembersOf(u)' = MembersOf(u) \cup {<<u, s>>} BY <1>1 DEF MembersOf
  <2>3. s \in c.stores BY <1>1, <1>3
  <2> QED BY <1>1, <2>1, <2>2, <2>3
<1>10. ASSUME Done(r), p = "ok" PROVE Done(r)'
  <2>1. c.stores \ (work[r].todo \ {s}) = c.stores BY <1>6, <1>10
  <2>2. MembersOf(u)' = {u} \X c.stores BY <1>9, <1>10, <2>1
  <2>3. StoresAre(u, c.stores)' BY <1>2, <2>2 DEF StoresAre, MembersOf
  <2>4. Achieved(r)' BY <1>2, <1>3, <2>3 DEF Achieved, Is
  <2> QED BY <1>8, <1>10, <2>4 DEF Done, InFlight, Ended
<1>11. ASSUME Done(r), p = "add" PROVE Done(r)'
  <2>1. StoresDone(r)' BY <1>2, <1>5, <1>8, <1>9, <1>11 DEF StoresDone
  <2> QED BY <1>2, <1>3, <1>8, <1>11, <2>1 DEF Done, Is, InFlight, Ended
<1> QED BY <1>2, <1>3, <1>4, <1>6, <1>7, <1>10, <1>11, DoneByOne

LEMMA AssignTemplateDone ==
    ASSUME TypeInv, RaceInv, DoneInv, NEW r \in Requests, AssignTemplate(r)
    PROVE  DoneInv' /\ DoneNext
<1>0. PICK t : t = Chosen(r) OBVIOUS
<1> DEFINE c == call[r]
           s == c.store
           same(u) == {i \in RolesOf(u) : /\ roles[i].template \in c.templates
                                          /\ s # None /\ roles[i].store = s}
           fresh == {x \in c.users : same(x) = {}}
           new == {<<r, u>> : u \in fresh}
<1>1. /\ pc[r] = "assign" /\ Goto(r, "ok", work[r])
      /\ roles' = [i \in (DOMAIN roles) \cup new |->
                     IF i \in new THEN [user |-> i[2], template |-> t, store |-> s]
                     ELSE roles[i]]
      /\ UNCHANGED <<templates, users, rights, members, call, raced, torn>>
  BY <1>0 DEF AssignTemplate
<1>2. c.op = "assignTemplate" /\ InFlight(r) BY <1>1, AtWork DEF Runs, InFlight, Ended
<1>3. c.templates = {t} BY <1>0, <1>2, OneTemplate
<1>4. \A i \in new : i[2] \in c.users OBVIOUS
<1>5. \A u \in c.users : <<r, u>> \in new \/ \E i \in RolesOf(u) : roles[i].template = t
  BY <1>3
<1> HIDE DEF new
<1>6. \A i \in new : i \in DOMAIN roles' /\ roles'[i].user = i[2] /\ roles'[i].template = t
  <2> TAKE i \in new
  <2>1. i \in DOMAIN roles' /\ roles'[i] = [user |-> i[2], template |-> t, store |-> s]
    BY <1>1
  <2> QED BY <2>1
<1>7. /\ DOMAIN roles' = (DOMAIN roles) \cup new
      /\ \A i \in DOMAIN roles : i \notin new => roles'[i] = roles[i]
  BY <1>1
<1>8. TypeInv' BY AssignTemplateTyped
<1>9. Leaves(r) BY <1>1, <1>3, <1>4, <1>6, <1>7, <1>8, RowsLeave DEF TypeInv
<1>10. \A u \in c.users : t \in TemplatesOf(u)'
  <2> TAKE u \in c.users
  <2>1. CASE <<r, u>> \in new
    <3>1. <<r, u>> \in RolesOf(u)' /\ roles'[<<r, u>>].template = t BY <1>6, <2>1 DEF RolesOf
    <3> QED BY <3>1 DEF TemplatesOf
  <2>2. CASE \E i \in RolesOf(u) : roles[i].template = t
    <3>1. PICK i \in RolesOf(u) : roles[i].template = t BY <2>2
    <3>2. i \in DOMAIN roles /\ roles[i].user = u /\ i[2] = u BY DEF RolesOf, TypeInv, RowsFit
    <3>3. i \in RolesOf(u)' /\ roles'[i].template = t BY <1>6, <1>7, <3>1, <3>2 DEF RolesOf
    <3> QED BY <3>3 DEF TemplatesOf
  <2> QED BY <1>5, <2>1, <2>2
<1>11. Achieved(r)' BY <1>1, <1>2, <1>3, <1>10 DEF Achieved, Is
<1>12. Done(r)' BY <1>1, <1>11, GoesOn DEF Done, InFlight, Ended
<1> QED BY <1>1, <1>2, <1>9, <1>12, DoneByOne

LEMMA WriteTemplateDone ==
    ASSUME TypeInv, RaceInv, DoneInv, NEW r \in Requests, WriteTemplate(r)
    PROVE  DoneInv' /\ DoneNext
<1> DEFINE c == call[r]
<1>1. /\ pc[r] = "template"
      /\ \/ Goto(r, "failed", Rest) /\ UNCHANGED templates
         \/ templates' = Put(templates, Chosen(r), c.row) /\ Goto(r, "ok", work[r])
      /\ UNCHANGED <<users, roles, rights, members, call, raced, torn>>
  BY DEF WriteTemplate
<1>2. c.op \in {"createTemplate", "updateTemplate"} /\ InFlight(r)
  BY <1>1, AtWork DEF Runs, InFlight, Ended
<1>3. \A u : SameUser(u) BY <1>1, QuietLeaves
<1>4. CASE Goto(r, "failed", Rest) /\ UNCHANGED templates
  <2>1. Leaves(r) BY <1>1, <1>4, QuietLeaves DEF Leaves
  <2>2. Done(r)' BY <1>4, GoesOn, EndDone
  <2> QED BY <1>1, <1>2, <1>4, <2>1, <2>2, DoneByOne
<1>5. CASE templates' = Put(templates, Chosen(r), c.row) /\ Goto(r, "ok", work[r])
  <2>1. Chosen(r) \in c.templates BY <1>2, AtWork DEF Asks, Chosen
  <2>2. \A t : t \notin c.templates => SameTemplate(t)
    BY <1>1, <1>5, <2>1 DEF SameTemplate, Put
  <2>3. Leaves(r) BY <1>3, <2>2 DEF Leaves
  <2>4. pc'[r] = "ok" BY <1>5, GoesOn
  <2>5. Achieved(r)' BY <1>1, <1>2 DEF Achieved, Is
  <2>6. Done(r)' BY <2>4, <2>5 DEF Done, InFlight, Ended
  <2> QED BY <1>1, <1>2, <1>5, <2>3, <2>6, DoneByOne
<1> QED BY <1>1, <1>4, <1>5

LEMMA RetireTemplateDone ==
    ASSUME TypeInv, RaceInv, DoneInv, NEW r \in Requests, RetireTemplate(r)
    PROVE  DoneInv' /\ DoneNext
<1> DEFINE c == call[r]
<1>1. /\ pc[r] = "retire" /\ Goto(r, "ok", work[r])
      /\ templates' = [t \in DOMAIN templates |->
                        [templates[t] EXCEPT !.active = @ /\ t \notin c.templates]]
      /\ UNCHANGED <<users, roles, rights, members, call, raced, torn>>
  BY DEF RetireTemplate
<1>2. c.op = "deleteTemplate" /\ InFlight(r) /\ c.templates \subseteq DOMAIN templates
  BY <1>1, AtWork DEF Runs, InFlight, Ended, Asks
<1>3. ASSUME NEW t \in DOMAIN templates
      PROVE  /\ t \in DOMAIN templates'
             /\ t \notin c.templates => templates'[t] = templates[t]
             /\ t \in c.templates => ~ templates'[t].active
  <2>1. templates[t] \in Template /\ templates'[t] = [templates[t] EXCEPT !.active = @ /\ t \notin c.templates]
    BY <1>1 DEF TypeInv, RowsFit
  <2>2. templates[t].active \in BOOLEAN BY <2>1 DEF Template
  <2>3. CASE t \in c.templates
    <3>1. templates'[t].active = (templates[t].active /\ FALSE) BY <2>1, <2>3 DEF Template
    <3> QED BY <1>1, <2>3, <3>1
  <2>4. CASE t \notin c.templates
    <3>1. (templates[t].active /\ t \notin c.templates) = templates[t].active BY <2>2, <2>4
    <3>2. templates'[t] = [templates[t] EXCEPT !.active = templates[t].active] BY <2>1, <3>1
    <3>3. templates'[t] = templates[t] BY <2>1, <3>2 DEF Template
    <3> QED BY <1>1, <2>4, <3>3
  <2> QED BY <2>3, <2>4
<1>4. Leaves(r)
  <2>1. \A u : SameUser(u) BY <1>1, QuietLeaves
  <2>2. DOMAIN templates' = DOMAIN templates BY <1>1
  <2>3. \A t : t \notin c.templates => SameTemplate(t) BY <1>1, <1>3, <2>2 DEF SameTemplate
  <2> QED BY <2>1, <2>3 DEF Leaves
<1>5. ASSUME Done(r) PROVE Done(r)'
  <2>1. \A i \in DOMAIN roles : roles[i].template \notin c.templates
    BY <1>1, <1>2, <1>5 DEF Done
  <2>2. \A t \in c.templates : ~ templates'[t].active /\ \A u : t \notin TemplatesOf(u)'
    <3>1. \A t \in c.templates : ~ templates'[t].active BY <1>2, <1>3
    <3>2. \A t \in c.templates : \A u : t \notin TemplatesOf(u)'
      BY <1>1, <2>1 DEF TemplatesOf, RolesOf
    <3> QED BY <3>1, <3>2
  <2>3. Achieved(r)' BY <1>1, <1>2, <2>2 DEF Achieved, Is
  <2> QED BY <1>1, <2>3, GoesOn DEF Done, InFlight, Ended
<1> QED BY <1>1, <1>2, <1>4, <1>5, DoneByOne

LEMMA StepDone ==
    ASSUME TypeInv, RaceInv, LockInv, DoneInv, NEW r \in Requests, Step(r)
    PROVE  DoneInv' /\ DoneNext
  BY NextUserDone, JoinDone, FindRightDone, WriteRightDone, RevokeRightDone, DrawDone, CommitHireDone,
     InsertRightsDone, MailDone, LockUserDone, LookDone, TakeDone, CommitEditDone, ClearStoresDone,
     AddStoreDone, AssignTemplateDone, WriteTemplateDone, CountRolesDone, RetireTemplateDone,
     NoConnectionDone, FailuresDone DEF Step

LEMMA CrashDone ==
    ASSUME TypeInv, DoneInv, Crash
    PROVE  DoneInv' /\ DoneNext
<1>1. /\ UNCHANGED call
      /\ \A q \in Requests : pc'[q] = IF InFlight(q) THEN "failed" ELSE pc[q]
  BY DEF Crash
<1>2. \A q \in Requests : CallFits(q)' BY <1>1 DEF DoneInv, CallFits, Is, InFlight, Ended
<1>3. \A q \in Requests : ~ InFlight(q)' BY <1>1 DEF InFlight, Ended
<1>4. \A q \in Requests : InFlight(q) => Done(q)' BY <1>1, EndDone
<1>5. \A q \in Requests : pc'[q] = "ok" => pc[q] = "ok" BY <1>1
<1> QED BY <1>2, <1>3, <1>4, <1>5 DEF DoneInv, DoneNext

\* The requests stay where they are.
LEMMA StillDone ==
    ASSUME TypeInv, DoneInv, UNCHANGED <<pc, call, work, raced, torn>>,
           \A u : SameUser(u), \A t : SameTemplate(t)
    PROVE  DoneInv' /\ DoneNext
<1>1. \A q \in Requests : CallFits(q)' BY DEF DoneInv, CallFits, Is
<1>2. \A q \in Requests : Conflicts(q)' = Conflicts(q) BY DEF Conflicts, Together
<1>3. \A q \in Requests : InFlight(q) /\ Done(q) => Done(q)' BY DoneKept
<1>4. \A q \in Requests : InFlight(q)' <=> InFlight(q) BY DEF InFlight
<1> QED BY <1>1, <1>2, <1>3, <1>4 DEF DoneInv, DoneNext

LEMMA ExpireDone ==
    ASSUME TypeInv, DoneInv, Expire
    PROVE  DoneInv' /\ DoneNext
<1>1. PICK k \in DOMAIN rights : rights[k].grant = "timed" /\ rights' = [rights EXCEPT ![k].grant = "expired"]
  BY DEF Expire
<1>2. UNCHANGED <<templates, users, roles, members, pc, call, work, raced, torn>>
  BY DEF Expire
<1>3. /\ DOMAIN rights' = DOMAIN rights
      /\ \A i \in DOMAIN rights : i # k => rights'[i] = rights[i]
  BY <1>1
<1>4. /\ rights'[k].user = rights[k].user /\ rights'[k].store = rights[k].store
      /\ rights'[k].actions = rights[k].actions
  <2>1. rights[k] \in Right /\ rights'[k] = [rights[k] EXCEPT !.grant = "expired"]
    BY <1>1 DEF TypeInv, RowsFit
  <2> QED BY <2>1 DEF Right
<1>5. \A u : RightsOf(u)' = RightsOf(u) BY <1>3, <1>4 DEF RightsOf
<1>6. \A i \in DOMAIN rights :
         /\ rights'[i].store = rights[i].store /\ rights'[i].actions = rights[i].actions
         /\ rights'[i].grant = rights[i].grant \/ rights[i].grant = "timed"
  BY <1>1, <1>3, <1>4
<1>7. \A u : SameUser(u) BY <1>2, <1>5, <1>6 DEF SameUser, RolesOf, RightsOf, MembersOf
<1>8. \A t : SameTemplate(t) BY <1>2 DEF SameTemplate
<1> QED BY <1>2, <1>7, <1>8, StillDone

\* A request that is received has met those at work, and changes no rows.
LEMMA BeginDone ==
    ASSUME TypeInv, RaceInv, DoneInv, NEW r \in Requests, NEW c, NEW p, NEW w, Begin(r, c, p, w),
           p # "idle",
           p # "refused" =>
              /\ (\/ c.op \in {"hire", "invite", "assignTemplate"}
                  \/ c.op = "edit" /\ c.changes) => \E t \in Templates : c.templates = {t}
              /\ c.op = "assign" => /\ c.grant # "lasting" => \E u \in Emails : c.users = {u}
                                    /\ p = "next" => w.todo # {}
              /\ c.op = "invite" => c.explicit = {},
           p # "refused" /\ call'[r] = c /\ pc'[r] = p /\ (p \notin Ended => work'[r] = w) => Done(r)'
    PROVE  DoneInv' /\ DoneNext
<1>1. /\ pc[r] = "idle" /\ Goto(r, p, w) /\ UNCHANGED <<db, torn>> /\ raced \subseteq raced'
      /\ call' = IF p = "refused" THEN call ELSE [call EXCEPT ![r] = c]
  BY DEF Begin
<1>2. /\ pc'[r] = p /\ (p \notin Ended => work'[r] = w)
      /\ \A q \in Requests \ {r} : pc'[q] = pc[q] /\ work'[q] = work[q]
  BY <1>1, GoesOn
<1>3. /\ call'[r] = IF p = "refused" THEN call[r] ELSE c
      /\ \A q \in Requests \ {r} : call'[q] = call[q]
  BY <1>1 DEF TypeInv, RequestsFit
<1>4. call[r].op = "none" /\ call[r].users = {} /\ call[r].templates = {}
  BY <1>1, AtWork DEF Runs, DoneInv, CallFits
<1>5. CallFits(r)'
  <2>1. CASE p = "refused" BY <1>2, <1>3, <1>4, <2>1 DEF CallFits, Is
  <2>2. CASE p # "refused"
    <3>1. p = "next" => p \notin Ended BY DEF Ended
    <3> QED BY <1>2, <1>3, <2>2, <3>1 DEF CallFits, Is
  <2> QED BY <2>1, <2>2
<1>6. \A q \in Requests : CallFits(q)' BY <1>2, <1>3, <1>5 DEF DoneInv, CallFits, Is
<1>7. (\A u : SameUser(u)) /\ (\A t : SameTemplate(t)) BY <1>1, QuietLeaves DEF db
<1>8. ASSUME NEW q \in Requests \ {r}, InFlight(q), Done(q) PROVE Done(q)'
  BY <1>2, <1>3, <1>7, <1>8, DoneKept
<1>9. ASSUME NEW q \in Requests \ {r}, Conflicts(q) # {} PROVE Conflicts(q)' # {}
  <2>1. PICK k \in Requests : /\ Together(k, q)
                              /\ \/ call[k].users \cap call[q].users # {}
                                 \/ call[k].templates \cap call[q].templates # {}
    BY <1>9 DEF Conflicts
  <2>2. k # r BY <1>4, <2>1
  <2>3. k \in Conflicts(q)' BY <1>1, <1>3, <2>1, <2>2 DEF Conflicts, Together
  <2> QED BY <2>3
<1>10. \A q \in Requests \ {r} : InFlight(q)' <=> InFlight(q) BY <1>2 DEF InFlight
<1>11. p # "refused" => Done(r)' BY <1>2, <1>3
<1>12. ~ InFlight(r) /\ (p = "refused" => ~ InFlight(r)') BY <1>1, <1>2 DEF InFlight, Ended
<1>13. ASSUME NEW q \in Requests, InFlight(q) \/ InFlight(q)' \/ (pc[q] # "ok" /\ pc'[q] = "ok")
       PROVE  Done(q)' \/ q \in torn' \/ Conflicts(q)' # {}
  <2>1. CASE q = r BY <1>2, <1>11, <1>12, <1>13, <2>1
  <2>2. CASE q # r
    <3>1. InFlight(q) BY <1>2, <1>10, <1>13, <2>2
    <3> QED BY <1>1, <1>8, <1>9, <2>2, <3>1 DEF DoneInv
  <2> QED BY <2>1, <2>2
<1> QED BY <1>6, <1>13 DEF DoneInv, DoneNext

\* What a request that is received has to do.
LEMMA NothingDone ==
    ASSUME NEW r, pc'[r] \in {"draw", "commit", "assign", "template", "count", "stores", "next"},
           call'[r].op \in {"assign", "hire", "invite", "setStores", "assignTemplate", "createTemplate",
                            "updateTemplate", "deleteTemplate"},
           pc'[r] = "draw" => call'[r].op = "hire",
           pc'[r] = "commit" => call'[r].op = "invite",
           call'[r].op = "assign" => pc'[r] = "next" /\ call'[r].users \subseteq work'[r].todo
    PROVE  Done(r)'
<1>1. call'[r].op = "assign" => AssignDone(r)' BY DEF AssignDone
<1>2. call'[r].op \in {"hire", "invite"} => HireDone(r)' BY DEF HireDone, Is
<1>3. call'[r].op = "setStores" => StoresDone(r)' BY DEF StoresDone
<1> QED BY <1>1, <1>2, <1>3 DEF Done, Is, InFlight, Ended

LEMMA BeginRightsDone ==
    ASSUME TypeInv, RaceInv, DoneInv, NEW r \in Requests, NEW s \in Places, NEW A \in Choices(Actions),
           \/ \E U \in Choices(users), g \in {"lasting", "timed", "denied"} :
                BeginAssign(r, U, s, A, g)
           \/ \E u \in users : BeginRevoke(r, u, s, A)
    PROVE  DoneInv' /\ DoneNext
<1>1. users \subseteq Emails BY DEF TypeInv, RowsFit
<1>2. ASSUME NEW U \in Choices(users), NEW g \in {"lasting", "timed", "denied"},
             BeginAssign(r, U, s, A, g)
      PROVE  DoneInv' /\ DoneNext
  <2> DEFINE c == [op |-> "assign", users |-> U, templates |-> {}, store |-> s,
                   actions |-> A, grant |-> g]
             w == [Rest EXCEPT !.todo = U]
  <2>1. Begin(r, c, "next", w) /\ ((\E u, v \in U : u # v) => g = "lasting")
    BY <1>2 DEF BeginAssign
  <2>2. U \subseteq Emails /\ U # {} BY <1>1 DEF Choices
  <2>3. w.todo = U BY DEF Rest
  <2>4. c.op = "assign" /\ c.users = U /\ c.grant = g OBVIOUS
  <2> HIDE DEF c, w
  <2>5. g # "lasting" => \E u \in Emails : U = {u}
    <3> SUFFICES ASSUME g # "lasting" PROVE \E u \in Emails : U = {u} OBVIOUS
    <3>1. PICK u \in U : TRUE BY <2>2
    <3> QED BY <2>1, <2>2, <3>1
  <2>6. call'[r] = c /\ pc'[r] = "next" /\ work'[r] = w => Done(r)' BY <2>3, <2>4, NothingDone
  <2> QED BY <2>1, <2>2, <2>3, <2>4, <2>5, <2>6, BeginDone DEF Ended
<1>3. ASSUME NEW u \in users, BeginRevoke(r, u, s, A)
      PROVE  DoneInv' /\ DoneNext
  <2> DEFINE c == [op |-> "revoke", users |-> {u}, templates |-> {}, store |-> s, actions |-> A,
                   single |-> \A i, j \in RightsAt(u, s) : i = j]
             w == [Rest EXCEPT !.user = u]
  <2>1. Begin(r, c, "find", w) /\ UNCHANGED rights BY <1>3 DEF BeginRevoke, Begin, db
  <2>2. w.user = u BY DEF Rest
  <2>3. c.op = "revoke" /\ c.store = s /\ (c.single <=> \A i, j \in RightsAt(u, s) : i = j)
    OBVIOUS
  <2> HIDE DEF c, w
  <2>4. RightsAt(u, s)' = RightsAt(u, s) BY <2>1 DEF RightsAt, RightsOf
  <2>5. ASSUME call'[r] = c, pc'[r] = "find", work'[r] = w PROVE Done(r)'
    <3>1. call'[r].store = s /\ work'[r].user = u BY <2>2, <2>3, <2>5
    <3>2. RevokeDone(r)' BY <2>3, <2>4, <2>5, <3>1 DEF RevokeDone
    <3> QED BY <2>3, <2>5, <3>2 DEF Done, Is, InFlight, Ended
  <2> QED BY <2>1, <2>3, <2>5, BeginDone DEF Ended
<1> QED BY <1>2, <1>3

LEMMA BeginHireDone ==
    ASSUME TypeInv, RaceInv, DoneInv, NEW r \in Requests, NEW e, NEW t, NEW X, NEW S,
           BeginHire(r, e, t, X, S)
    PROVE  DoneInv' /\ DoneNext
<1> DEFINE c == [op |-> "hire", users |-> {e}, templates |-> {t}, explicit |-> X, stores |-> S]
           w == [Rest EXCEPT !.user = e]
           p == IF IsActive(t) /\ e \notin users THEN "draw" ELSE "refused"
<1>1. Begin(r, c, p, w) BY DEF BeginHire
<1>2. p \in {"draw", "refused"} /\ (p = "draw" => t \in Templates)
  BY DEF IsActive, TypeInv, RowsFit
<1>3. c.op = "hire" /\ c.templates = {t} OBVIOUS
<1> HIDE DEF c, w, p
<1>4. p = "draw" /\ call'[r] = c /\ pc'[r] = p => Done(r)' BY <1>3, NothingDone
<1> QED BY <1>1, <1>2, <1>3, <1>4, BeginDone

LEMMA BeginInviteDone ==
    ASSUME TypeInv, RaceInv, DoneInv, NEW r \in Requests, NEW e, NEW t, NEW S, BeginInvite(r, e, t, S)
    PROVE  DoneInv' /\ DoneNext
<1> DEFINE defaults == {d \in DOMAIN templates : templates[d].default}
           D == IF t # None THEN {t} ELSE IF defaults = {} THEN {None} ELSE defaults
           w == [Rest EXCEPT !.user = e]
<1>1. PICK d \in D :
        Begin(r, [op |-> "invite", users |-> {e}, templates |-> {d}, explicit |-> {}, stores |-> S],
              IF (t = None \/ IsActive(t)) /\ d # None /\ e \notin users
              THEN "commit" ELSE "refused", w)
  BY DEF BeginInvite
<1> DEFINE c == [op |-> "invite", users |-> {e}, templates |-> {d}, explicit |-> {}, stores |-> S]
           p == IF (t = None \/ IsActive(t)) /\ d # None /\ e \notin users
                THEN "commit" ELSE "refused"
<1>2. p \in {"commit", "refused"} /\ (p = "commit" => d \in Templates)
  BY DEF IsActive, TypeInv, RowsFit
<1>3. c.op = "invite" /\ c.templates = {d} /\ c.explicit = {} OBVIOUS
<1>4. Begin(r, c, p, w) BY <1>1
<1> HIDE DEF c, w, p
<1>5. p = "commit" /\ call'[r] = c /\ pc'[r] = p => Done(r)' BY <1>3, NothingDone
<1> QED BY <1>2, <1>3, <1>4, <1>5, BeginDone

LEMMA BeginEditDone ==
    ASSUME TypeInv, RaceInv, DoneInv, NEW r \in Requests, NEW u, NEW t \in (DOMAIN templates) \cup {None},
           NEW X, NEW S, NEW data, BeginEdit(r, u, t, X, S, data)
    PROVE  DoneInv' /\ DoneNext
<1>1. PICK k \in TemplatesOf(u) :
        LET changes == t \notin {None, k}
            plan == Plan(data, changes, X, S)
        IN Begin(r, [op |-> "edit", users |-> {u}, changes |-> changes, explicit |-> X,
                     stores |-> S, templates |-> IF changes THEN {t} ELSE TemplatesOf(u)],
                 IF changes /\ ~ IsActive(t) THEN "refused" ELSE First(plan),
                 [Rest EXCEPT !.user = u, !.plan = plan])
  BY DEF BeginEdit
<1> DEFINE changes == t \notin {None, k}
           plan == Plan(data, changes, X, S)
           c == [op |-> "edit", users |-> {u}, changes |-> changes, explicit |-> X,
                 stores |-> S, templates |-> IF changes THEN {t} ELSE TemplatesOf(u)]
           p == IF changes /\ ~ IsActive(t) THEN "refused" ELSE First(plan)
           w == [Rest EXCEPT !.user = u, !.plan = plan]
<1>2. Begin(r, c, p, w) BY <1>1
<1>3. /\ c.op = "edit" /\ c.changes = changes /\ c.explicit = X /\ c.stores = S
      /\ changes => c.templates = {t}
      /\ ~ changes => c.templates = TemplatesOf(u)
  OBVIOUS
<1>4. w.user = u /\ w.plan = plan BY DEF Rest
<1>5. /\ changes => {"roles", "rights", "draw"} \subseteq plan
      /\ X # None => {"rights", "draw"} \subseteq plan
      /\ S # None => "stores" \in plan
  BY DEF Plan
<1>6. (p = "refused" \/ p \in Stages) /\ (p # "refused" /\ changes => IsActive(t) /\ t \in Templates)
  <2>1. changes => t \in Templates BY DEF TypeInv, RowsFit
  <2> QED BY <2>1, FirstIsStage
<1> HIDE DEF c, p, w, plan, changes
<1>7. UNCHANGED db BY <1>2 DEF Begin
<1>8. ASSUME p # "refused", call'[r] = c, pc'[r] = p, p \notin Ended => work'[r] = w
      PROVE  Done(r)'
  <2>1. p \in Stages /\ work'[r] = w /\ pc'[r] \notin {"take", "ok", "retire"}
    BY <1>6, <1>8 DEF Stages, Ended
  <2>2. TemplatesOf(u)' = TemplatesOf(u) BY <1>7 DEF TemplatesOf, RolesOf, db
  <2>3. \A s, Y : s \in plan => Cleared(r, s, Y)' BY <1>4, <2>1 DEF Cleared
  <2>4. changes => \A x \in c.templates : templates'[x].active
    BY <1>3, <1>6, <1>7, <1>8 DEF IsActive, db
  <2>5. /\ call'[r].changes = changes /\ call'[r].explicit = X /\ call'[r].stores = S
        /\ call'[r].templates = c.templates /\ work'[r].user = u /\ work'[r].plan = plan
    BY <1>3, <1>4, <1>8, <2>1
  <2>6. EditDone(r)' BY <1>3, <1>5, <2>2, <2>3, <2>4, <2>5 DEF EditDone
  <2> QED BY <1>3, <1>8, <2>1, <2>6 DEF Done, Is, InFlight
<1>9. p # "idle" BY <1>6 DEF Stages
<1> QED BY <1>2, <1>3, <1>6, <1>8, <1>9, BeginDone

LEMMA BeginOtherDone ==
    ASSUME TypeInv, RaceInv, DoneInv, NEW r \in Requests,
           \/ \E u, S : BeginSetStores(r, u, S)
           \/ \E u : BeginSetRights(r, u)
           \/ \E U, s : \E t \in Templates : BeginAssignTemplate(r, U, t, s)
           \/ \E t, row : \/ BeginTemplate(r, "createTemplate", t, row)
                          \/ BeginTemplate(r, "updateTemplate", t, row)
                          \/ BeginTemplate(r, "deleteTemplate", t, row)
    PROVE  DoneInv' /\ DoneNext
<1>1. ASSUME NEW u, NEW S, BeginSetStores(r, u, S)
      PROVE  DoneInv' /\ DoneNext
  <2> DEFINE c == [op |-> "setStores", users |-> {u}, templates |-> {}, stores |-> S]
             w == [Rest EXCEPT !.user = u]
  <2>1. Begin(r, c, "stores", w) /\ c.op = "setStores" BY <1>1 DEF BeginSetStores
  <2> HIDE DEF c, w
  <2>2. call'[r] = c /\ pc'[r] = "stores" => Done(r)' BY <2>1, NothingDone
  <2> QED BY <2>1, <2>2, BeginDone
<1>2. ASSUME NEW u, BeginSetRights(r, u)
      PROVE  DoneInv' /\ DoneNext
  <2> DEFINE c == [op |-> "setRights", users |-> {u}, templates |-> {}]
  <2>1. Begin(r, c, "ok", Rest) /\ c.op = "setRights" BY <1>2 DEF BeginSetRights
  <2> HIDE DEF c
  <2>2. call'[r] = c => Achieved(r)' BY <2>1 DEF Achieved, Is
  <2>3. call'[r] = c /\ pc'[r] = "ok" => Done(r)' BY <2>2 DEF Done, InFlight, Ended
  <2> QED BY <2>1, <2>3, BeginDone
<1>3. ASSUME NEW U, NEW s, NEW t \in Templates, BeginAssignTemplate(r, U, t, s)
      PROVE  DoneInv' /\ DoneNext
  <2> DEFINE c == [op |-> "assignTemplate", users |-> U, templates |-> {t}, store |-> s]
  <2>1. Begin(r, c, "assign", Rest) /\ c.op = "assignTemplate" /\ c.templates = {t}
    BY <1>3 DEF BeginAssignTemplate
  <2> HIDE DEF c
  <2>2. call'[r] = c /\ pc'[r] = "assign" => Done(r)' BY <2>1, NothingDone
  <2> QED BY <2>1, <2>2, BeginDone
<1>4. ASSUME NEW op \in {"createTemplate", "updateTemplate", "deleteTemplate"}, NEW t, NEW row,
             BeginTemplate(r, op, t, row)
      PROVE  DoneInv' /\ DoneNext
  <2> DEFINE c == [op |-> op, users |-> {}, templates |-> {t}, row |-> row]
             p == IF op # "createTemplate" /\ t \notin DOMAIN templates THEN "refused"
                  ELSE IF op = "deleteTemplate" THEN "count" ELSE "template"
  <2>1. Begin(r, c, p, Rest) /\ c.op = op /\ p \in {"refused", "count", "template"}
    BY <1>4 DEF BeginTemplate
  <2> HIDE DEF c, p
  <2>2. p # "refused" /\ call'[r] = c /\ pc'[r] = p => Done(r)' BY <2>1, NothingDone
  <2> QED BY <2>1, <2>2, BeginDone
<1> QED BY <1>1, <1>2, <1>3, <1>4

LEMMA ReceiveDone ==
    ASSUME TypeInv, RaceInv, DoneInv, NEW r \in Requests, Receive(r)
    PROVE  DoneInv' /\ DoneNext
<1> DEFINE Good == DoneInv' /\ DoneNext
<1>1. ASSUME NEW s \in Places, NEW A \in Choices(Actions),
             \/ \E U \in Choices(users), g \in {"lasting", "timed", "denied"} :
                  BeginAssign(r, U, s, A, g)
             \/ \E u \in users : BeginRevoke(r, u, s, A)
      PROVE  Good
  BY <1>1, BeginRightsDone
<1>2. \A e, t, X, S : BeginHire(r, e, t, X, S) => Good BY BeginHireDone
<1>3. \A e, t, S : BeginInvite(r, e, t, S) => Good BY BeginInviteDone
<1>4. \A u, X, S, data : \A t \in (DOMAIN templates) \cup {None} : BeginEdit(r, u, t, X, S, data) => Good
  BY BeginEditDone
<1>5. /\ \A u, S : BeginSetStores(r, u, S) => Good
      /\ \A u : BeginSetRights(r, u) => Good
      /\ \A t, row : BeginTemplate(r, "createTemplate", t, row) => Good
      /\ \A t, row : BeginTemplate(r, "updateTemplate", t, row) => Good
      /\ \A t, row : BeginTemplate(r, "deleteTemplate", t, row) => Good
  BY BeginOtherDone
<1>6. \A U, s : \A t \in DOMAIN templates : BeginAssignTemplate(r, U, t, s) => Good
  <2>1. DOMAIN templates \subseteq Templates BY DEF TypeInv, RowsFit
  <2> QED BY <2>1, BeginOtherDone
<1> HIDE DEF Good
<1>7. Good BY <1>1, <1>2, <1>3, <1>4, <1>5, <1>6, Zenon DEF Receive
<1> QED BY <1>7 DEF Good

LEMMA NextDone == TypeInv /\ RaceInv /\ LockInv /\ DoneInv /\ [Next]_vars => DoneInv' /\ DoneNext
<1> SUFFICES ASSUME TypeInv, RaceInv, LockInv, DoneInv, [Next]_vars PROVE DoneInv' /\ DoneNext
  OBVIOUS
<1>1. CASE Next
  <2>1. ASSUME NEW r \in Requests, Receive(r) PROVE DoneInv' /\ DoneNext BY <2>1, ReceiveDone
  <2>2. ASSUME NEW r \in Requests, Step(r) PROVE DoneInv' /\ DoneNext BY <2>2, StepDone
  <2> QED BY <1>1, <2>1, <2>2, CrashDone, ExpireDone DEF Next
<1>2. CASE UNCHANGED vars
  <2>1. UNCHANGED <<db, roles, rights, members, templates, pc, call, work, raced, torn>>
    BY <1>2 DEF vars, db
  <2> QED BY <2>1, QuietLeaves, StillDone
<1> QED BY <1>1, <1>2

LEMMA InitDone == Init => DoneInv
<1> SUFFICES ASSUME Init, NEW r \in Requests PROVE CallFits(r) /\ ~ InFlight(r) BY DEF DoneInv
<1>1. pc[r] = "idle" /\ call[r] = NoCall BY DEF Init
<1>2. call[r].op = "none" /\ call[r].users = {} /\ call[r].templates = {} BY <1>1 DEF NoCall
<1> QED BY <1>1, <1>2 DEF CallFits, Is, InFlight

\* A request that answers with success has done what it was asked, unless an error was
\* swallowed or another one met it on a user or a template: what it has done at each of
\* its statements no other request undoes.
THEOREM SuccessIsCompleteHolds == Spec => SuccessIsComplete
<1> DEFINE Complete ==
             [\A r \in Requests :
                (pc[r] # "ok" /\ pc'[r] = "ok") =>
                    (Achieved(r) \/ r \in torn \/ Conflicts(r) # {})']_vars
<1>1. TypeInv /\ RaceInv /\ LockInv /\ DoneInv /\ [Next]_vars => Complete
  <2> SUFFICES ASSUME TypeInv, RaceInv, LockInv, DoneInv, [Next]_vars, NEW r \in Requests,
                      pc[r] # "ok", pc'[r] = "ok"
               PROVE  (Achieved(r) \/ r \in torn \/ Conflicts(r) # {})'
    OBVIOUS
  <2>1. (Done(r) \/ r \in torn \/ Conflicts(r) # {})' BY NextDone DEF DoneNext
  <2>2. Done(r)' => Achieved(r)' BY DEF Done
  <2> QED BY <2>1, <2>2
<1>2. Spec => []TypeInv BY InitTyped, NextTyped, PTL DEF Spec
<1>3. Spec => []RaceInv BY <1>2, InitRaces, NextRaces, PTL DEF Spec
<1>4. Spec => []LockInv BY <1>2, InitLocks, NextLocks, PTL DEF Spec
<1>5. TypeInv /\ RaceInv /\ LockInv /\ DoneInv /\ [Next]_vars => DoneInv' BY NextDone
<1>6. Spec => []DoneInv BY <1>2, <1>3, <1>4, <1>5, InitDone, PTL DEF Spec
<1> QED BY <1>1, <1>2, <1>3, <1>4, <1>6, PTL DEF Spec, SuccessIsComplete

===============================================================================
