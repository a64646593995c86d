---------------------------- MODULE Accounts_proofs ----------------------------
(***************************************************************************)
(* Theorems about Accounts, for any emails, companies, templates and requests. *)
(***************************************************************************)
EXTENDS Accounts, TLAPS

(* How requests go on *)

\* A request of kind op goes from the statement p to q.
Goes(p, q, op) ==
    /\ p \in Pcs \ (Ended \cup {"idle"})
    /\ q \in Pcs \ {"idle", "refused", "client", "invite", "void", "renew", "use", "password"}
    /\ q = "user" => p = "client"
    /\ q = "token" => p = "void"
    /\ Runs(q, op)

\* What every step does that receives no request.
Onward ==
    /\ UNCHANGED <<call, who, raced>>
    /\ pc' = [q \in Requests |-> pc'[q]]
    /\ \A q \in Requests : pc'[q] = pc[q] \/ Goes(pc[q], pc'[q], call[q].op)
    /\ mailed' \subseteq Requests

LEMMA AtWork ==
    ASSUME RequestsFit, NEW r \in Requests
    PROVE  pc[r] \in Pcs /\ Runs(pc[r], call[r].op) /\ Asks(r) /\ call[r].op \in Kinds
  BY DEF RequestsFit, Asks

LEMMA GotoGoes ==
    ASSUME RequestsFit, NEW r \in Requests, NEW p, Goto(r, p), Goes(pc[r], p, call[r].op),
           UNCHANGED <<call, who, raced>>, mailed' \subseteq Requests
    PROVE  Onward
  BY DEF RequestsFit, Goto, Onward

LEMMA AfterRolesGoes ==
    ASSUME RequestsFit, NEW r \in Requests, pc[r] \in {"perms", "templates"}
    PROVE  Goes(pc[r], AfterRoles(r), call[r].op)
<1>1. call[r].op \in {"signup", "createClient", "fix"} BY AtWork DEF Runs
<1>2. /\ Is(r, "signup") => AfterRoles(r) = "audit"
      /\ Is(r, "createClient") => AfterRoles(r) = "mail"
      /\ Is(r, "fix") => AfterRoles(r) = "ok"
  BY DEF AfterRoles, Is
<1> QED BY <1>1, <1>2 DEF Goes, Pcs, Ended, Runs, Kinds, Is

\* Where a throw leads.
LEMMA FailureIs ==
    ASSUME RequestsFit, NEW r \in Requests, InFlight(r)
    PROVE  /\ Is(r, "forgot") => Failure(r) = "ok"
           /\ pc[r] \in {"perms", "templates"} => Failure(r) = AfterRoles(r)
           /\ Is(r, "createClient") /\ pc[r] \notin {"client", "perms", "templates"} =>
                 Failure(r) = IF pc[r] = "user" THEN "undoClient" ELSE "undoUser"
           /\ (/\ ~ Is(r, "forgot") /\ pc[r] \notin {"perms", "templates"}
               /\ Is(r, "createClient") => pc[r] = "client") => Failure(r) = "failed"
<1>1. pc[r] \in {"perms", "templates"} => ~ Is(r, "forgot") BY AtWork DEF Runs, Is
<1>2. Is(r, "forgot") => ~ Is(r, "createClient") BY DEF Is
<1> QED BY <1>1, <1>2 DEF Failure

LEMMA FailureGoes ==
    ASSUME RequestsFit, NEW r \in Requests, InFlight(r)
    PROVE  Goes(pc[r], Failure(r), call[r].op)
<1>1. pc[r] \in Pcs \ (Ended \cup {"idle"}) /\ call[r].op \in Kinds \ {"none"}
  BY AtWork DEF InFlight, Runs, Ended
<1>2. CASE pc[r] \in {"perms", "templates"} BY <1>2, AfterRolesGoes, FailureIs
<1>3. CASE pc[r] \notin {"perms", "templates"}
  <2>1. \/ Is(r, "forgot") /\ Failure(r) = "ok"
        \/ Is(r, "createClient") /\ Failure(r) \in {"undoClient", "undoUser"}
        \/ Failure(r) = "failed"
    BY <1>3, FailureIs
  <2> QED BY <1>1, <2>1 DEF Goes, Pcs, Ended, Runs, Kinds, Is
<1> QED BY <1>2, <1>3

LEMMA ThrowsGoes ==
    ASSUME RequestsFit, NEW r \in Requests, InFlight(r), Throws(r)
    PROVE  Onward /\ UNCHANGED <<db, torn>>
<1>1. Goto(r, Failure(r)) /\ UNCHANGED <<db, mailed, call, who, raced, torn>> BY DEF Throws
<1>2. mailed' \subseteq Requests BY <1>1 DEF RequestsFit
<1> QED BY <1>1, <1>2, FailureGoes, GotoGoes

LEMMA StepOnward ==
    ASSUME RequestsFit, NEW r \in Requests, Step(r)
    PROVE  Onward /\ InFlight(r)
<1> USE DEF Is
<1>1. Runs(pc[r], call[r].op) /\ call[r].op \in Kinds /\ pc[r] \in Pcs /\ mailed \subseteq Requests
  BY AtWork DEF RequestsFit
<1>2. ASSUME NEW p \in Pcs \ {"idle", "refused", "client", "invite", "void", "renew", "use", "password"},
             pc[r] \in Pcs \ (Ended \cup {"idle"}), Goto(r, p), p = "user" => pc[r] = "client",
             p = "token" => pc[r] = "void", Runs(p, call[r].op),
             UNCHANGED <<call, who, raced>>, mailed' \subseteq Requests
      PROVE  Onward /\ InFlight(r)
  BY <1>2, GotoGoes DEF Goes, InFlight
<1> DEFINE Quiet == UNCHANGED <<call, who, raced>> /\ mailed' \subseteq Requests
<1>3. CASE CreateClient(r)
  <2>1. pc[r] = "client" /\ Goto(r, "user") /\ Quiet BY <1>1, <1>3 DEF CreateClient
  <2>2. Runs("user", call[r].op) BY <1>1, <2>1 DEF Runs
  <2> QED BY <1>2, <2>1, <2>2 DEF Pcs, Ended
<1>4. CASE CreateClientThrows(r) \/ CreateUserThrows(r) \/ UserIsGone(r)
  <2>1. Throws(r) /\ pc[r] \in {"client", "user", "use", "renew", "password", "audit", "token"}
    BY <1>4 DEF CreateClientThrows, CreateUserThrows, UserIsGone, UpdatesUser
  <2>2. InFlight(r) BY <2>1 DEF InFlight, Ended
  <2> QED BY <2>1, <2>2, ThrowsGoes
<1>5. CASE CreateUser(r)
  <2>1. pc[r] = "user" /\ Goto(r, AfterUser(r)) /\ Quiet BY <1>1, <1>5 DEF CreateUser
  <2>2. call[r].op \in {"signup", "accept", "createClient"} BY <1>1, <2>1 DEF Runs
  <2>3. \/ AfterUser(r) = "mail" /\ call[r].op = "signup"
        \/ AfterUser(r) = "store" /\ call[r].op = "accept"
        \/ AfterUser(r) = "perms" /\ call[r].op = "createClient"
    BY <2>2 DEF AfterUser
  <2> QED BY <1>2, <2>1, <2>3 DEF Pcs, Ended, Runs
<1>6. CASE FindRole(r) \/ MakeTemplate(r)
  <2>1. pc[r] \in {"perms", "templates"} /\ Quiet BY <1>1, <1>6 DEF FindRole, MakeTemplate, db
  <2>2. Goto(r, AfterRoles(r)) \/ Goto(r, "templates") \/ Goto(r, pc[r])
    BY <1>6, <2>1 DEF FindRole, MakeTemplate, Goto, RequestsFit
  <2>3. CASE Goto(r, AfterRoles(r))
    BY <2>1, <2>3, AfterRolesGoes, GotoGoes DEF InFlight, Ended
  <2>4. CASE Goto(r, "templates") \/ Goto(r, pc[r])
    <3>1. Runs("templates", call[r].op) BY <1>1, <2>1 DEF Runs
    <3> QED BY <1>1, <1>2, <2>1, <2>4, <3>1 DEF Pcs, Ended
  <2> QED BY <2>2, <2>3, <2>4
<1>7. CASE Mail(r) \/ MailFails(r)
  <2>1. pc[r] = "mail" /\ Quiet BY <1>1, <1>7 DEF Mail, MailFails, db
  <2>2. call[r].op \in {"signup", "createClient", "resend", "forgot", "invite"}
    BY <1>1, <2>1 DEF Runs
  <2>3. \/ Goto(r, AfterMail(r)) \/ (call[r].op = "invite" /\ Goto(r, "uninvite"))
        \/ Goto(r, Failure(r))
    BY <1>7 DEF Mail, MailFails
  <2>4. CASE Goto(r, AfterMail(r))
    <3>1. \/ call[r].op = "signup" /\ AfterMail(r) = "perms"
          \/ call[r].op = "createClient" /\ AfterMail(r) = "activate"
          \/ call[r].op \in {"resend", "forgot", "invite"} /\ AfterMail(r) = "audit"
      BY <2>2 DEF AfterMail
    <3> QED BY <1>2, <2>1, <2>4, <3>1 DEF Pcs, Ended, Runs, Kinds
  <2>5. CASE call[r].op = "invite" /\ Goto(r, "uninvite")
    BY <1>2, <2>1, <2>5 DEF Pcs, Ended, Runs
  <2>6. CASE Goto(r, Failure(r))
    <3>1. InFlight(r) BY <2>1 DEF InFlight, Ended
    <3> QED BY <2>1, <2>6, <3>1, FailureGoes, GotoGoes
  <2> QED BY <2>3, <2>4, <2>5, <2>6
<1>8. CASE Activate(r) \/ Audit(r)
  <2>1. pc[r] \in {"activate", "audit"} /\ Goto(r, "ok") /\ Quiet
    BY <1>1, <1>8 DEF Activate, Audit
  <2>2. Runs("ok", call[r].op) BY <1>1, <2>1 DEF Runs
  <2> QED BY <1>2, <2>1, <2>2 DEF Pcs, Ended
<1>9. CASE WriteUser(r)
  <2>1. pc[r] \in {"use", "renew", "password"} /\ Quiet
    BY <1>1, <1>9 DEF WriteUser, UpdatesUser
  <2>2. call[r].op \in {"verify", "resend", "reset", "change"} BY <1>1, <2>1 DEF Runs
  <2>3. \/ Goto(r, "mail") /\ call[r].op = "resend"
        \/ Goto(r, "spend") /\ call[r].op = "reset"
        \/ Goto(r, "audit") /\ call[r].op \in {"verify", "change"}
    BY <1>9, <2>2 DEF WriteUser
  <2> QED BY <1>2, <2>1, <2>3 DEF Pcs, Ended, Runs, Kinds
<1>10. CASE VoidTokens(r) \/ CreateToken(r)
  <2>1. /\ pc[r] \in {"void", "token"} /\ Quiet
        /\ (pc[r] = "void" /\ Goto(r, "token")) \/ Goto(r, "mail")
    BY <1>1, <1>10 DEF VoidTokens, CreateToken
  <2>2. call[r].op = "forgot" BY <1>1, <2>1 DEF Runs
  <2> QED BY <1>2, <2>1, <2>2 DEF Pcs, Ended, Runs
<1>11. CASE SpendToken(r) \/ CloseInvite(r)
  <2>1. pc[r] \in {"spend", "close"} /\ Quiet /\ (Goto(r, "audit") \/ Goto(r, Failure(r)))
    BY <1>1, <1>11 DEF SpendToken, CloseInvite
  <2>2. InFlight(r) /\ call[r].op \in {"reset", "accept"}
    BY <1>1, <2>1 DEF Runs, InFlight, Ended
  <2>3. CASE Goto(r, "audit") BY <1>2, <2>1, <2>2, <2>3 DEF Pcs, Ended, Runs, Kinds
  <2>4. CASE Goto(r, Failure(r)) BY <2>1, <2>2, <2>4, FailureGoes, GotoGoes
  <2> QED BY <2>1, <2>3, <2>4
<1>12. CASE CreateInvite(r) \/ DeleteInvite(r)
  <2>1. pc[r] \in {"invite", "uninvite"} /\ Quiet /\ (Goto(r, "mail") \/ Goto(r, "failed"))
    BY <1>1, <1>12 DEF CreateInvite, DeleteInvite
  <2>2. call[r].op = "invite" BY <1>1, <2>1 DEF Runs
  <2> QED BY <1>2, <2>1, <2>2 DEF Pcs, Ended, Runs
<1>13. CASE AddMember(r)
  <2>1. pc[r] = "store" /\ Quiet /\ Goto(r, "close") BY <1>1, <1>13 DEF AddMember
  <2>2. call[r].op = "accept" BY <1>1, <2>1 DEF Runs
  <2> QED BY <1>2, <2>1, <2>2 DEF Pcs, Ended, Runs
<1>14. CASE UndoUser(r) \/ UndoClient(r)
  <2>1. pc[r] \in {"undoUser", "undoClient"} /\ Quiet /\ (Goto(r, "undoClient") \/ Goto(r, "failed"))
    BY <1>1, <1>14 DEF UndoUser, UndoClient
  <2>2. call[r].op = "createClient" BY <1>1, <2>1 DEF Runs
  <2> QED BY <1>2, <2>1, <2>2 DEF Pcs, Ended, Runs
<1>15. CASE NoConnection(r)
  <2>1. InFlight(r) /\ Quiet BY <1>1, <1>15 DEF NoConnection, db
  <2>2. \/ pc[r] = "undoUser" /\ Goto(r, "undoClient")
        \/ pc[r] = "undoClient" /\ Goto(r, "failed")
        \/ Goto(r, Failure(r))
    BY <1>15 DEF NoConnection
  <2>3. CASE pc[r] \in {"undoUser", "undoClient"} /\ (Goto(r, "undoClient") \/ Goto(r, "failed"))
    <3>1. call[r].op = "createClient" BY <1>1, <2>3 DEF Runs
    <3> QED BY <1>2, <2>1, <2>3, <3>1 DEF Pcs, Ended, Runs
  <2>4. CASE Goto(r, Failure(r)) BY <2>1, <2>4, FailureGoes, GotoGoes
  <2> QED BY <2>2, <2>3, <2>4
<1> QED
  BY <1>3, <1>4, <1>5, <1>6, <1>7, <1>8, <1>9, <1>10, <1>11, <1>12, <1>13, <1>14, <1>15 DEF Step

LEMMA Moves ==
    ASSUME RequestsFit, Onward, NEW q \in Requests
    PROVE  /\ pc'[q] \in Pcs /\ Runs(pc'[q], call[q].op)
           /\ pc[q] \in Ended => pc'[q] = pc[q]
           /\ pc[q] \notin {"idle", "client", "user"} => pc'[q] \notin {"idle", "client", "user"}
           /\ pc[q] \notin {"idle", "client"} => pc'[q] \notin {"idle", "client"}
           /\ pc[q] \notin {"idle", "invite"} => pc'[q] \notin {"idle", "invite"}
           /\ pc[q] \notin {"idle", "void", "token"} => pc'[q] \notin {"idle", "void", "token"}
           /\ pc[q] \notin {"idle", "client", "user", "renew"} =>
                 pc'[q] \notin {"idle", "client", "user", "renew"}
           /\ pc'[q] \in {"idle", "client", "invite", "void", "renew", "use"} => pc'[q] = pc[q]
           /\ pc'[q] \notin Ended \cup {"idle"} => pc[q] \notin Ended \cup {"idle"}
  BY DEF RequestsFit, Onward, Goes, Ended

\* Clients that stay do, and requests keep asking for what there is.
LEMMA RequestsGo ==
    ASSUME RequestsFit, Onward, \A c : Stable(c) => c \in DOMAIN clients'
    PROVE  RequestsFit' /\ \A c : Stable(c) => Stable(c)'
<1>1. \A c : Stable(c) => Stable(c)' BY Moves DEF Stable, Ended
<1>2. \A q \in Requests : Coded(q) => Coded(q)' BY Moves DEF Coded
<1>3. \A q \in Requests : Made(q) => Made(q)' BY Moves DEF Made
<1>4. call' = call /\ who' = who BY DEF Onward
<1>5. \A q \in Requests : Asks(q)'
  <2> TAKE q \in Requests
  <2>1. Asks(q) BY DEF RequestsFit
  <2> QED BY <1>1, <1>2, <1>3, <1>4, <2>1 DEF Asks, Is, Enrols
<1>6. \A q \in Requests : Runs(pc[q], call[q].op)' BY <1>4, Moves DEF Runs
<1>7. pc' \in [Requests -> Pcs]
  <2>1. pc' = [q \in Requests |-> pc'[q]] BY DEF Onward
  <2> QED BY <2>1, Moves
<1> QED BY <1>1, <1>4, <1>5, <1>6, <1>7 DEF RequestsFit, Onward

----------------------------------------------------------------------------
(* Rows that a step leaves in place *)

\* Users keep their client and their email, and stay active.
UsersStay ==
    \A u \in DOMAIN users :
        /\ u \in DOMAIN users'
        /\ users'[u].client = users[u].client /\ users'[u].email = users[u].email
        /\ users[u].status = "active" => users'[u].status = "active"

\* What is new is made by requests in flight.
RowsStay ==
    /\ UsersStay
    /\ \A u \in DOMAIN users' : u \in DOMAIN users \/ (u \in Requests /\ InFlight(u)')
    /\ \A c \in DOMAIN clients : c \in DOMAIN clients'
    /\ \A c \in DOMAIN clients' : c \in DOMAIN clients \/ (c \in Requests /\ InFlight(c)')
    /\ members \subseteq members' /\ torn \subseteq torn'

\* A user that is kept, with a new code at most.
LEMMA UserKept ==
    ASSUME RowsInv, Onward, \A c : Stable(c) => c \in DOMAIN clients',
           NEW u \in DOMAIN users, u \in DOMAIN users', users'[u] \in User,
           users'[u].client = users[u].client, users[u].client \in DOMAIN clients',
           users'[u].email = users[u].email,
           users'[u].status = users[u].status \/ (u \in Requests => pc'[u] = "ok"),
           \/ users'[u].otp \in {users[u].otp, None}
           \/ \E q \in Requests : users'[u].otp = q /\ who[q] = u /\ Coded(q)'
    PROVE  UserFits(u)'
<1>1. /\ call' = call /\ who' = who
      /\ RequestsFit' /\ \A c : Stable(c) => Stable(c)'
  BY RequestsGo DEF RowsInv, Onward
<1>2. \A q \in Requests : Coded(q) => Coded(q)' BY Moves DEF Coded, RowsInv
<1>3. u \in DOMAIN users /\ UserFits(u) BY DEF RowsInv, UsersFit
<1>4. /\ u \in Ids /\ users'[u] \in User /\ users'[u].client \in DOMAIN clients'
      /\ users'[u].client = u \/ Stable(users[u].client)
  BY <1>3 DEF UserFits
<1>5. \/ users'[u].client = u
      \/ /\ users'[u].client \in DOMAIN clients'
         /\ users'[u].client \in Requests => pc'[users'[u].client] = "ok"
  <2>1. users'[u].client = users[u].client OBVIOUS
  <2>2. Stable(users[u].client) => /\ users[u].client \in DOMAIN clients'
                                   /\ users[u].client \in Requests => pc'[users[u].client] = "ok"
    BY <1>1 DEF Stable
  <2> QED BY <1>4, <2>1, <2>2
<1>6. users'[u].otp # None =>
        /\ users'[u].otp \in Requests /\ who[users'[u].otp] = u
        /\ pc'[users'[u].otp] \notin {"idle", "client", "user", "renew"}
  <2>1. CASE users'[u].otp = users[u].otp
    <3>1. users[u].otp # None =>
            /\ users[u].otp \in Requests /\ who[users[u].otp] = u
            /\ pc'[users[u].otp] \notin {"idle", "client", "user", "renew"}
      BY <1>2, <1>3 DEF UserFits, Coded
    <3> QED BY <2>1, <3>1
  <2>2. CASE users'[u].otp = None BY <2>2
  <2>3. CASE \E q \in Requests : users'[u].otp = q /\ who[q] = u /\ Coded(q)'
    BY <2>3 DEF Coded
  <2> QED BY <2>1, <2>2, <2>3
<1>7. u # Seed => /\ Enrols(u) /\ pc'[u] \notin {"idle", "client", "user"}
                  /\ users'[u].email = call[u].email
                  /\ Is(u, "createClient") =>
                       users'[u].client = u /\ (users'[u].status = "active" => pc'[u] = "ok")
  <2> SUFFICES ASSUME u # Seed PROVE u \in Requests /\ <1>7!2 OBVIOUS
  <2>1. u \in Requests BY <1>4 DEF Ids
  <2>2. pc'[u] \notin {"idle", "client", "user"} /\ (pc[u] = "ok" => pc'[u] = "ok")
    BY <1>3, <2>1, Moves DEF UserFits, Ended, RowsInv
  <2> QED BY <1>3, <2>1, <2>2 DEF UserFits
<1> QED BY <1>1, <1>4, <1>5, <1>6, <1>7 DEF UserFits, Enrols, Is, Stable, Coded

LEMMA UsersKept ==
    ASSUME RowsInv, Onward, \A c : Stable(c) => c \in DOMAIN clients',
           \A u \in DOMAIN users' :
              /\ u \in DOMAIN users /\ users'[u] \in User
              /\ users'[u].client = users[u].client /\ users[u].client \in DOMAIN clients'
              /\ users'[u].email = users[u].email
              /\ users'[u].status = users[u].status \/ (u \in Requests => pc'[u] = "ok")
              /\ \/ users'[u].otp \in {users[u].otp, None}
                 \/ \E q \in Requests : users'[u].otp = q /\ who[q] = u /\ Coded(q)'
    PROVE  UsersFit'
<1>1. \A u \in DOMAIN users' : UserFits(u)' BY UserKept
<1>2. \A u, v \in DOMAIN users' : users'[u].email = users'[v].email => u = v
  BY DEF RowsInv, UsersFit
<1> QED BY <1>1, <1>2 DEF UsersFit

LEMMA UsersSame ==
    ASSUME RowsInv, Onward, UNCHANGED users, \A c : Stable(c) => c \in DOMAIN clients',
           \A u \in DOMAIN users : users[u].client \in DOMAIN clients'
    PROVE  UsersFit'
<1>1. \A u \in DOMAIN users' : u \in DOMAIN users /\ users'[u] \in User /\ users'[u] = users[u]
  BY DEF RowsInv, UsersFit, UserFits
<1> QED BY <1>1, UsersKept

LEMMA ClientsSame ==
    ASSUME RowsInv, Onward, \A c \in DOMAIN clients' : c \in DOMAIN clients /\ clients'[c] = clients[c]
    PROVE  ClientsFit'
<1> SUFFICES ASSUME NEW c \in DOMAIN clients'
             PROVE  /\ c \in Ids /\ clients'[c] \in Companies
                    /\ c # Seed => Is(c, "createClient")' /\ pc'[c] \notin {"idle", "client"}
  BY DEF ClientsFit
<1>1. /\ c \in Ids /\ clients'[c] \in Companies
      /\ c # Seed => Is(c, "createClient") /\ pc[c] \notin {"idle", "client"}
  BY DEF RowsInv, ClientsFit
<1>2. c # Seed => c \in Requests BY <1>1 DEF Ids
<1> QED BY <1>1, <1>2, Moves DEF RowsInv, Is, Onward

LEMMA RolesSame ==
    ASSUME RowsInv, UsersStay, UNCHANGED <<templates, members, audited>>
    PROVE  RolesFit'
  BY DEF RowsInv, RolesFit, UsersStay

LEMMA InvitesSame ==
    ASSUME RowsInv, Onward, UsersStay, members \subseteq members', members \subseteq DOMAIN users,
           \A i \in DOMAIN invites' : i \in DOMAIN invites /\ invites'[i] = invites[i]
    PROVE  InvitesFit'
<1> SUFFICES ASSUME NEW i \in DOMAIN invites'
             PROVE  /\ i \in Requests /\ invites'[i] \in Invite
                    /\ Is(i, "invite")' /\ pc'[i] \notin {"idle", "invite"}
                    /\ invites'[i].email = call'[i].email /\ invites'[i].by = who'[i]
                    /\ invites'[i].by \in DOMAIN users'
                    /\ users'[invites'[i].by].status = "active"
                    /\ invites'[i].status = "active" =>
                          \E u \in members' : users'[u].email = invites'[i].email
  BY DEF InvitesFit
<1>1. /\ i \in DOMAIN invites /\ invites'[i] = invites[i] /\ i \in Requests /\ invites[i] \in Invite
      /\ Is(i, "invite") /\ pc[i] \notin {"idle", "invite"}
      /\ invites[i].email = call[i].email /\ invites[i].by = who[i]
      /\ invites[i].by \in DOMAIN users /\ users[invites[i].by].status = "active"
      /\ invites[i].status = "active" => \E u \in members : users[u].email = invites[i].email
  BY DEF RowsInv, InvitesFit
<1>2. pc'[i] \notin {"idle", "invite"} BY <1>1, Moves DEF RowsInv
<1>3. invites[i].by \in DOMAIN users' /\ users'[invites[i].by].status = "active"
  BY <1>1 DEF UsersStay
<1>4. invites[i].status = "active" => \E u \in members' : users'[u].email = invites[i].email
  BY <1>1 DEF UsersStay
<1> QED BY <1>1, <1>2, <1>3, <1>4 DEF Is, Onward

LEMMA TokensSame ==
    ASSUME RowsInv, Onward,
           \A t \in DOMAIN tokens' :
              /\ t \in DOMAIN tokens /\ tokens'[t] \in Token /\ tokens'[t].user = tokens[t].user
              /\ tokens[t].user \in DOMAIN users'
    PROVE  TokensFit'
<1> SUFFICES ASSUME NEW t \in DOMAIN tokens'
             PROVE  /\ t \in Requests /\ tokens'[t] \in Token
                    /\ Is(t, "forgot")' /\ Made(t)'
                    /\ tokens'[t].user = who'[t] /\ tokens'[t].user \in DOMAIN users'
  BY DEF TokensFit
<1>1. t \in Requests /\ Is(t, "forgot") /\ Made(t) /\ tokens[t].user = who[t]
  BY DEF RowsInv, TokensFit
<1>2. Made(t)' BY <1>1, Moves DEF Made, RowsInv
<1> QED BY <1>1, <1>2 DEF Is, Onward, Made

\* The rows that are there when a request is at p.
WithUser == {"perms", "templates", "mail", "audit", "store", "close", "activate", "undoUser", "ok"}
WithClient == {"user", "perms", "templates", "mail", "activate", "undoUser", "undoClient", "ok"}
WithStore == {"close", "audit", "ok"}

\* Going from p to q needs no row of its own that was not there.
Needs(r, p, q) ==
    /\ Enrols(r) /\ q \in WithUser => p \in WithUser
    /\ Is(r, "createClient") /\ q \in WithClient => p \in WithClient
    /\ Is(r, "accept") /\ q \in WithStore => p \in WithStore
    /\ Is(r, "createClient") /\ q = "failed" => p \in {"client", "failed"} \/ r \in torn'

\* What the progress of q depends on is kept.
StaysFor(q) ==
    /\ q \in DOMAIN users => q \in DOMAIN users'
    /\ q \in DOMAIN clients => q \in DOMAIN clients'
    /\ \A u \in DOMAIN users :
          users[u].status = "active" => u \in DOMAIN users' /\ users'[u].status = "active"
    /\ q \in DOMAIN users' => q \in DOMAIN users \/ InFlight(q)'
    /\ q \in DOMAIN clients' => q \in DOMAIN clients \/ InFlight(q)'
    /\ members \subseteq members' /\ torn \subseteq torn'

LEMMA AllStay ==
    ASSUME RowsStay, NEW q \in Requests
    PROVE  StaysFor(q)
  BY DEF RowsStay, UsersStay, StaysFor

LEMMA DidKept ==
    ASSUME RowsInv, Onward, NEW q \in Requests, StaysFor(q), Needs(q, pc[q], pc'[q])
    PROVE  Did(q, pc[q])'
<1>1. Did(q, pc[q]) BY DEF RowsInv
<1>2. call' = call /\ who' = who BY DEF Onward
<1>3. Enrols(q) /\ pc'[q] \in WithUser => q \in DOMAIN users'
  BY <1>1 DEF Needs, Did, WithUser, StaysFor
<1>4. Is(q, "createClient") /\ pc'[q] \in WithClient => q \in DOMAIN clients'
  BY <1>1 DEF Needs, Did, WithClient, StaysFor
<1>5. Is(q, "accept") /\ pc'[q] \in WithStore => q \in members'
  BY <1>1 DEF Needs, Did, WithStore, StaysFor
<1>6. pc'[q] = "invite" => who[q] \in DOMAIN users' /\ users'[who[q]].status = "active"
  <2>1. pc'[q] = "invite" => pc[q] = "invite" BY Moves DEF RowsInv
  <2> QED BY <1>1, <2>1 DEF Did, StaysFor
<1>7. ASSUME Is(q, "createClient"), pc'[q] = "failed", q \notin torn'
      PROVE  q \in DOMAIN clients' <=> q \in DOMAIN users'
  <2>1. q \in DOMAIN clients <=> q \in DOMAIN users
    <3>1. CASE pc[q] = "failed" BY <1>1, <1>7, <3>1 DEF Did, StaysFor
    <3>2. CASE pc[q] = "client"
      <4>1. q # Seed BY AccountsAssumption
      <4> QED BY <3>2, <4>1 DEF RowsInv, ClientsFit, UsersFit, UserFits
    <3> QED BY <1>7, <3>1, <3>2 DEF Needs
  <2>2. ~ InFlight(q)' BY <1>7 DEF InFlight, Ended
  <2> QED BY <2>1, <2>2 DEF StaysFor
<1> QED BY <1>2, <1>3, <1>4, <1>5, <1>6, <1>7 DEF Did, Is, Enrols, WithUser, WithClient, WithStore

----------------------------------------------------------------------------
(* Rows: steps of requests *)

\* Everything but the progress of the requests, when no user and no client is written.
LEMMA RowsGo ==
    ASSUME RowsInv, Onward, UNCHANGED <<users, clients>>, torn \subseteq torn',
           members \subseteq members', RolesFit', InvitesFit', TokensFit',
           \A q \in Requests : Needs(q, pc[q], pc'[q]) \/ Did(q, pc[q])'
    PROVE  RowsInv'
<1>1. RowsStay BY DEF RowsStay, UsersStay
<1>2. \A c : Stable(c) => c \in DOMAIN clients' BY DEF Stable
<1>3. RequestsFit' BY <1>2, RequestsGo DEF RowsInv
<1>4. UsersFit' BY <1>2, UsersSame DEF RowsInv, UsersFit, UserFits
<1>5. ClientsFit' BY ClientsSame
<1>6. \A q \in Requests : Did(q, pc[q])' BY <1>1, AllStay, DidKept
<1> QED BY <1>3, <1>4, <1>5, <1>6 DEF RowsInv

LEMMA NeedsNothing ==
    ASSUME RequestsFit, NEW r \in Requests, NEW p, Goto(r, p), NEW q \in Requests \ {r}
    PROVE  Needs(q, pc[q], pc'[q])
<1>1. pc'[q] = pc[q] BY DEF Goto, RequestsFit
<1> QED BY <1>1 DEF Needs, WithUser

LEMMA QuietRows ==
    ASSUME RowsInv, NEW r \in Requests, NEW p, Goto(r, p), Onward, UNCHANGED db,
           torn \subseteq torn', Needs(r, pc[r], p)
    PROVE  RowsInv'
<1>1. UsersStay /\ members \subseteq DOMAIN users BY DEF db, UsersStay, RowsInv, RolesFit
<1>2. RolesFit' BY <1>1, RolesSame DEF db
<1>3. InvitesFit' BY <1>1, InvitesSame DEF db
<1>4. TokensFit'
  <2>1. \A t \in DOMAIN tokens : tokens[t] \in Token /\ tokens[t].user \in DOMAIN users
    BY DEF RowsInv, TokensFit
  <2> QED BY <2>1, TokensSame DEF db
<1>5. pc'[r] = p BY DEF Goto, RowsInv, RequestsFit
<1>6. \A q \in Requests : Needs(q, pc[q], pc'[q]) BY <1>5, NeedsNothing DEF RowsInv
<1> QED BY <1>2, <1>3, <1>4, <1>6, RowsGo DEF db

LEMMA AfterRolesNeeds ==
    ASSUME RequestsFit, NEW r \in Requests, pc[r] \in {"perms", "templates"}
    PROVE  Needs(r, pc[r], AfterRoles(r))
<1>2. /\ Is(r, "signup") => AfterRoles(r) = "audit"
      /\ Is(r, "createClient") => AfterRoles(r) = "mail"
      /\ ~ Is(r, "signup") /\ ~ Is(r, "createClient") => AfterRoles(r) = "ok"
  BY DEF AfterRoles, Is
<1>3. call[r].op \in {"signup", "createClient", "fix"} BY AtWork DEF Runs
<1> QED BY <1>2, <1>3 DEF Needs, Is, Enrols, WithUser, WithClient

LEMMA FailureNeeds ==
    ASSUME RequestsFit, NEW r \in Requests, InFlight(r), pc[r] \notin {"undoUser", "undoClient"}
    PROVE  Needs(r, pc[r], Failure(r))
<1>1. CASE pc[r] \in {"perms", "templates"} BY <1>1, FailureIs, AfterRolesNeeds
<1>2. CASE pc[r] \notin {"perms", "templates"}
  <2>1. Runs(pc[r], call[r].op) /\ pc[r] \in Pcs BY AtWork
  <2>2. CASE Is(r, "createClient")
    <3>1. pc[r] \in {"client", "user", "mail", "activate"}
      BY <1>2, <2>1, <2>2 DEF Runs, Pcs, Ended, InFlight, Is
    <3>2. Failure(r) = IF pc[r] = "client" THEN "failed"
                       ELSE IF pc[r] = "user" THEN "undoClient" ELSE "undoUser"
      BY <2>2, <3>1, FailureIs DEF Is
    <3> QED BY <2>2, <3>1, <3>2 DEF Needs, Is, WithUser, WithClient
  <2>3. CASE ~ Is(r, "createClient")
    <3>1. Enrols(r) => Failure(r) = "failed" BY <1>2, <2>3, FailureIs DEF Enrols, Is
    <3> QED BY <2>3, <3>1 DEF Needs, WithUser, WithClient, WithStore, Is, Enrols
  <2> QED BY <2>2, <2>3
<1> QED BY <1>1, <1>2

\* Steps that write no rows.
LEMMA QuietStepRows ==
    ASSUME RowsInv, NEW r \in Requests,
           \/ CreateClientThrows(r) \/ CreateUserThrows(r) \/ UserIsGone(r)
           \/ FindRole(r) \/ Mail(r) \/ MailFails(r) \/ NoConnection(r)
    PROVE  RowsInv'
<1>1. RequestsFit /\ Runs(pc[r], call[r].op) BY AtWork DEF RowsInv
<1>2. Onward /\ InFlight(r) BY <1>1, StepOnward DEF Step
<1>3. CASE CreateClientThrows(r) \/ CreateUserThrows(r) \/ UserIsGone(r)
  <2>1. /\ pc[r] \in {"client", "user", "use", "renew", "password", "audit", "token"}
        /\ Goto(r, Failure(r)) /\ UNCHANGED <<db, torn>>
    BY <1>3 DEF CreateClientThrows, CreateUserThrows, UserIsGone, UpdatesUser, Throws
  <2> QED BY <1>1, <1>2, <2>1, FailureNeeds, QuietRows
<1>4. CASE FindRole(r)
  <2>1. pc[r] = "perms" /\ UNCHANGED <<db, torn>> /\ (Goto(r, "templates") \/ Goto(r, AfterRoles(r)))
    BY <1>4 DEF FindRole
  <2>2. Needs(r, pc[r], "templates") BY <2>1 DEF Needs, WithUser, WithClient, WithStore
  <2> QED BY <1>1, <1>2, <2>1, <2>2, AfterRolesNeeds, QuietRows
<1>5. CASE Mail(r) \/ MailFails(r)
  <2>1. pc[r] = "mail" /\ UNCHANGED <<db, torn>> BY <1>5 DEF Mail, MailFails
  <2>2. Goto(r, AfterMail(r)) \/ (Is(r, "invite") /\ Goto(r, "uninvite")) \/ Goto(r, Failure(r))
    BY <1>5 DEF Mail, MailFails
  <2>3. Needs(r, pc[r], AfterMail(r))
    <3>1. /\ Is(r, "signup") => AfterMail(r) = "perms"
          /\ Is(r, "createClient") => AfterMail(r) = "activate"
          /\ ~ Is(r, "signup") /\ ~ Is(r, "createClient") => AfterMail(r) = "audit"
      BY DEF AfterMail, Is
    <3>2. ~ Is(r, "accept") BY <1>1, <2>1 DEF Runs, Is
    <3> QED BY <2>1, <3>1, <3>2 DEF Needs, Is, Enrols, WithUser, WithClient
  <2>4. Needs(r, pc[r], "uninvite") BY DEF Needs, WithUser, WithClient, WithStore
  <2>5. Needs(r, pc[r], Failure(r)) BY <1>1, <1>2, <2>1, FailureNeeds
  <2> QED BY <1>2, <2>1, <2>2, <2>3, <2>4, <2>5, QuietRows
<1>6. CASE NoConnection(r)
  <2>1. UNCHANGED db /\ torn' = IF Undoing(r) THEN torn \cup {r} ELSE torn
    BY <1>6 DEF NoConnection
  <2>2. CASE pc[r] = "undoUser"
    <3>1. Goto(r, "undoClient") BY <1>6, <2>2 DEF NoConnection
    <3>2. Needs(r, pc[r], "undoClient") BY <2>2 DEF Needs, WithUser, WithClient, WithStore
    <3> QED BY <1>2, <2>1, <3>1, <3>2, QuietRows
  <2>3. CASE pc[r] = "undoClient"
    <3>1. Goto(r, "failed") /\ r \in torn' BY <1>6, <2>1, <2>3 DEF NoConnection, Undoing
    <3>2. Needs(r, pc[r], "failed") BY <3>1 DEF Needs, WithUser, WithClient, WithStore
    <3> QED BY <1>2, <2>1, <3>1, <3>2, QuietRows
  <2>4. CASE pc[r] \notin {"undoUser", "undoClient"}
    <3>1. Goto(r, Failure(r)) BY <1>6, <2>4 DEF NoConnection
    <3> QED BY <1>1, <1>2, <2>1, <2>4, <3>1, FailureNeeds, QuietRows
  <2> QED BY <2>2, <2>3, <2>4
<1> QED BY <1>3, <1>4, <1>5, <1>6

\* Steps that write roles, members or the audit.
LEMMA RoleRows ==
    ASSUME RowsInv, NEW r \in Requests, MakeTemplate(r) \/ Audit(r) \/ AddMember(r)
    PROVE  RowsInv'
<1>1. /\ RequestsFit /\ Runs(pc[r], call[r].op) /\ Did(r, pc[r])
      /\ DOMAIN pc = Requests
  BY AtWork DEF RowsInv, RequestsFit
<1>2. Onward /\ InFlight(r) BY <1>1, StepOnward DEF Step
<1>3. UNCHANGED <<users, clients, invites, tokens, torn>>
  BY DEF MakeTemplate, Audit, AddMember
<1>4. UsersStay /\ members \subseteq DOMAIN users BY <1>3 DEF UsersStay, RowsInv, RolesFit
<1>5. members \subseteq members' BY DEF MakeTemplate, Audit, AddMember
<1>6. InvitesFit' BY <1>2, <1>3, <1>4, <1>5, InvitesSame
<1>7. TokensFit'
  <2>1. \A t \in DOMAIN tokens : tokens[t] \in Token /\ tokens[t].user \in DOMAIN users
    BY DEF RowsInv, TokensFit
  <2> QED BY <1>2, <1>3, <2>1, TokensSame
<1>8. CASE MakeTemplate(r)
  <2>1. pc[r] = "templates" /\ UNCHANGED <<members, audited>> BY <1>8 DEF MakeTemplate
  <2>2. RolesFit'
    <3>1. CASE UNCHANGED templates BY <1>4, <2>1, <3>1, RolesSame
    <3>2. CASE ~ UNCHANGED templates
      <4>1. PICK n \in Missing(users[who[r]].client) :
              /\ who[r] \in DOMAIN users
              /\ templates' = templates \cup
                   {[name |-> n, client |-> users[who[r]].client, creator |-> who[r]]}
        BY <1>8, <3>2 DEF MakeTemplate
      <4>2. n \in 1..Templates /\ users[who[r]].client \in Ids /\ who[r] \in Ids
        BY <4>1 DEF Missing, RowsInv, UsersFit, UserFits, ClientsFit
      <4>3. [name |-> n, client |-> users[who[r]].client, creator |-> who[r]] \in Template
        BY <4>2 DEF Template
      <4> QED BY <1>3, <2>1, <4>1, <4>3 DEF RowsInv, RolesFit
    <3> QED BY <3>1, <3>2
  <2>3. \A q \in Requests : Needs(q, pc[q], pc'[q])
    <3>1. CASE UNCHANGED pc BY <3>1 DEF Needs
    <3>2. CASE Goto(r, AfterRoles(r))
      <4>1. pc'[r] = AfterRoles(r) BY <1>1, <3>2 DEF Goto
      <4> QED BY <1>1, <2>1, <3>2, <4>1, AfterRolesNeeds, NeedsNothing
    <3> QED BY <1>8, <3>1, <3>2 DEF MakeTemplate
  <2> QED BY <1>2, <1>3, <1>5, <1>6, <1>7, <2>2, <2>3, RowsGo
<1>9. CASE Audit(r)
  <2>1. /\ pc[r] = "audit" /\ who[r] \in DOMAIN users /\ audited' = audited \cup {who[r]}
        /\ Goto(r, "ok") /\ UNCHANGED <<templates, members>>
    BY <1>9 DEF Audit
  <2>2. RolesFit' BY <1>3, <2>1 DEF RowsInv, RolesFit
  <2>3. Needs(r, pc[r], "ok") /\ pc'[r] = "ok"
    <3>1. ~ Is(r, "createClient") BY <1>1, <2>1 DEF Runs, Is
    <3> QED BY <1>1, <2>1, <3>1 DEF Needs, WithUser, WithStore, Goto
  <2>4. \A q \in Requests : Needs(q, pc[q], pc'[q]) BY <1>1, <2>1, <2>3, NeedsNothing
  <2> QED BY <1>2, <1>3, <1>5, <1>6, <1>7, <2>2, <2>4, RowsGo
<1>10. CASE AddMember(r)
  <2>1. /\ pc[r] = "store" /\ members' = members \cup {r} /\ Goto(r, "close")
        /\ UNCHANGED <<templates, audited>>
    BY <1>10 DEF AddMember
  <2>2. call[r].op = "accept" BY <1>1, <2>1 DEF Runs
  <2>3. r \in DOMAIN users BY <1>1, <2>1, <2>2 DEF Did, Enrols, Is
  <2>4. RolesFit' BY <1>3, <2>1, <2>3 DEF RowsInv, RolesFit
  <2>5. Did(r, pc[r])'
    <3>1. pc'[r] = "close" /\ call' = call BY <1>1, <1>2, <2>1 DEF Goto, Onward
    <3> QED BY <1>3, <2>1, <2>2, <2>3, <3>1 DEF Did, Enrols, Is
  <2>6. \A q \in Requests : Needs(q, pc[q], pc'[q]) \/ Did(q, pc[q])'
    BY <1>1, <2>1, <2>5, NeedsNothing
  <2> QED BY <1>2, <1>3, <1>5, <1>6, <1>7, <2>4, <2>6, RowsGo
<1> QED BY <1>8, <1>9, <1>10

\* Steps that write tokens.
LEMMA TokenRows ==
    ASSUME RowsInv, NEW r \in Requests, VoidTokens(r) \/ CreateToken(r) \/ SpendToken(r)
    PROVE  RowsInv'
<1>1. RequestsFit /\ Runs(pc[r], call[r].op) /\ Asks(r) BY AtWork DEF RowsInv
<1>2. Onward /\ InFlight(r) BY <1>1, StepOnward DEF Step
<1>3. UNCHANGED <<users, clients, templates, members, invites, audited, torn, call, who>>
  BY DEF VoidTokens, CreateToken, SpendToken
<1>4. UsersStay /\ members \subseteq DOMAIN users BY <1>3 DEF UsersStay, RowsInv, RolesFit
<1>5. RolesFit' /\ InvitesFit' BY <1>2, <1>3, <1>4, RolesSame, InvitesSame
<1>6. \A t \in DOMAIN tokens : tokens[t] \in Token /\ tokens[t].user \in DOMAIN users
  BY DEF RowsInv, TokensFit
<1>7. PICK p : Goto(r, p) /\ p \in {"token", "mail", "audit", Failure(r)}
  BY DEF VoidTokens, CreateToken, SpendToken
<1>8. \A q \in Requests : Needs(q, pc[q], pc'[q])
  <2>1. pc[r] \in {"void", "token", "spend"} BY DEF VoidTokens, CreateToken, SpendToken
  <2>2. call[r].op \in {"forgot", "reset"} BY <1>1, <2>1 DEF Runs
  <2>3. Needs(r, pc[r], p) BY <2>2 DEF Needs, Enrols, Is
  <2>4. pc'[r] = p BY <1>1, <1>7 DEF Goto, RequestsFit
  <2> QED BY <1>1, <1>7, <2>3, <2>4, NeedsNothing
<1>9. TokensFit'
  <2>1. CASE VoidTokens(r)
    <3>1. \A t \in DOMAIN tokens' :
            t \in DOMAIN tokens /\ tokens'[t] = [tokens[t] EXCEPT !.open = @ /\ tokens[t].user # who[r]]
      BY <2>1 DEF VoidTokens
    <3>2. ASSUME NEW t \in DOMAIN tokens'
          PROVE  tokens'[t] \in Token /\ tokens'[t].user = tokens[t].user
      <4>1. tokens'[t] = [tokens[t] EXCEPT !.open = tokens[t].open /\ tokens[t].user # who[r]]
        BY <3>1, <3>2
      <4>2. (tokens[t].open /\ tokens[t].user # who[r]) \in BOOLEAN OBVIOUS
      <4>3. tokens[t] \in [user : Ids, open : BOOLEAN, fresh : BOOLEAN]
        BY <1>6, <3>1, <3>2 DEF Token
      <4>4. \A b \in BOOLEAN : [tokens[t] EXCEPT !.open = b] \in [user : Ids, open : BOOLEAN, fresh : BOOLEAN]
                                /\ [tokens[t] EXCEPT !.open = b].user = tokens[t].user
        BY <4>3
      <4> QED BY <4>1, <4>2, <4>4 DEF Token
    <3> QED BY <1>2, <1>3, <1>6, <3>1, <3>2, TokensSame
  <2>2. CASE SpendToken(r)
    <3>1. /\ DOMAIN tokens' = DOMAIN tokens
          /\ \A t \in DOMAIN tokens :
                tokens'[t] = tokens[t] \/ tokens'[t] = [tokens[t] EXCEPT !.open = FALSE]
      BY <2>2 DEF SpendToken
    <3>2. \A t \in DOMAIN tokens' : tokens'[t] \in Token /\ tokens'[t].user = tokens[t].user
      <4> SUFFICES ASSUME NEW t \in DOMAIN tokens'
                   PROVE  tokens'[t] \in Token /\ tokens'[t].user = tokens[t].user
        OBVIOUS
      <4>1. tokens[t] \in Token BY <1>6, <3>1
      <4>2. CASE tokens'[t] = tokens[t] BY <4>1, <4>2
      <4>3. CASE tokens'[t] = [tokens[t] EXCEPT !.open = FALSE] BY <4>1, <4>3 DEF Token
      <4> QED BY <3>1, <4>2, <4>3
    <3> QED BY <1>2, <1>3, <1>6, <3>1, <3>2, TokensSame
  <2>3. CASE CreateToken(r)
    <3>1. /\ pc[r] = "token" /\ who[r] \in DOMAIN users /\ pc'[r] = "mail"
          /\ tokens' = Put(tokens, r, [user |-> who[r], open |-> TRUE, fresh |-> TRUE])
      BY <1>1, <2>3 DEF CreateToken, Goto, RequestsFit
    <3>2. call[r].op = "forgot" /\ who[r] \in Ids
      BY <1>1, <3>1 DEF Runs, RowsInv, UsersFit, UserFits
    <3>3. SUFFICES ASSUME NEW t \in DOMAIN tokens'
                   PROVE  /\ t \in Requests /\ tokens'[t] \in Token
                          /\ call'[t].op = "forgot" /\ pc'[t] \notin {"idle", "void", "token"}
                          /\ tokens'[t].user = who'[t] /\ tokens'[t].user \in DOMAIN users'
      BY DEF TokensFit, Is, Made
    <3>4. CASE t = r
      <4>1. tokens'[r] = [user |-> who[r], open |-> TRUE, fresh |-> TRUE] BY <3>1 DEF Put
      <4>2. tokens'[r] \in Token /\ tokens'[r].user = who[r] BY <3>2, <4>1 DEF Token
      <4> QED BY <1>3, <3>1, <3>2, <3>4, <4>2
    <3>5. CASE t # r
      <4>1. t \in DOMAIN tokens /\ tokens'[t] = tokens[t] BY <3>1, <3>5 DEF Put
      <4>2. /\ t \in Requests /\ tokens[t] \in Token /\ call[t].op = "forgot"
            /\ pc[t] \notin {"idle", "void", "token"}
            /\ tokens[t].user = who[t] /\ tokens[t].user \in DOMAIN users
        BY <4>1 DEF RowsInv, TokensFit, Is, Made
      <4>3. pc'[t] \notin {"idle", "void", "token"} BY <1>1, <1>2, <4>2, Moves
      <4> QED BY <1>3, <4>1, <4>2, <4>3
    <3> QED BY <3>4, <3>5
  <2> QED BY <2>1, <2>2, <2>3
<1> QED BY <1>2, <1>3, <1>5, <1>8, <1>9, RowsGo

\* Steps that write invitations.
LEMMA InviteRows ==
    ASSUME RowsInv, NEW r \in Requests, CreateInvite(r) \/ DeleteInvite(r) \/ CloseInvite(r)
    PROVE  RowsInv'
<1>1. RequestsFit /\ Runs(pc[r], call[r].op) /\ Asks(r) /\ Did(r, pc[r]) BY AtWork DEF RowsInv
<1>2. Onward /\ InFlight(r) BY <1>1, StepOnward DEF Step
<1>3. UNCHANGED <<users, clients, templates, members, tokens, audited, torn, call, who>>
  BY DEF CreateInvite, DeleteInvite, CloseInvite
<1>4. UsersStay /\ members \subseteq DOMAIN users BY <1>3 DEF UsersStay, RowsInv, RolesFit
<1>5. RolesFit' BY <1>3, <1>4, RolesSame
<1>6. TokensFit'
  <2>1. \A t \in DOMAIN tokens : tokens[t] \in Token /\ tokens[t].user \in DOMAIN users
    BY DEF RowsInv, TokensFit
  <2> QED BY <1>2, <1>3, <2>1, TokensSame
<1>7. PICK p : Goto(r, p) /\ p \in {"mail", "failed", "audit", Failure(r)}
  BY DEF CreateInvite, DeleteInvite, CloseInvite
<1>8. pc'[r] = p BY <1>1, <1>7 DEF Goto, RequestsFit
<1>9. \A q \in Requests : Needs(q, pc[q], pc'[q])
  <2>1. \/ pc[r] \in {"invite", "uninvite"} /\ p \in {"mail", "failed"}
        \/ pc[r] = "close" /\ p \in {"audit", Failure(r)}
    <3>1. DOMAIN pc = Requests BY <1>1 DEF RequestsFit
    <3>2. CASE CreateInvite(r) \/ DeleteInvite(r)
      BY <1>8, <3>1, <3>2 DEF CreateInvite, DeleteInvite, Goto
    <3>3. CASE CloseInvite(r) BY <1>8, <3>1, <3>3 DEF CloseInvite, Goto
    <3> QED BY <3>2, <3>3
  <2>2. CASE pc[r] \in {"invite", "uninvite"}
    <3>1. call[r].op = "invite" BY <1>1, <2>2 DEF Runs
    <3> QED BY <1>1, <1>7, <1>8, <3>1, NeedsNothing DEF Needs, Enrols, Is
  <2>3. CASE pc[r] = "close"
    <3>1. call[r].op = "accept" BY <1>1, <2>3 DEF Runs
    <3>2. Needs(r, pc[r], "audit") BY <2>3, <3>1 DEF Needs, Enrols, Is, WithUser, WithStore
    <3>3. Needs(r, pc[r], Failure(r)) BY <1>1, <1>2, <2>3, FailureNeeds
    <3> QED BY <1>1, <1>7, <1>8, <2>1, <2>3, <3>2, <3>3, NeedsNothing
  <2> QED BY <2>1, <2>2, <2>3
<1>10. InvitesFit'
  <2>1. \A i \in DOMAIN invites :
          /\ i \in Requests /\ invites[i] \in Invite
          /\ call[i].op = "invite" /\ pc[i] \notin {"idle", "invite"}
          /\ invites[i].email = call[i].email /\ invites[i].by = who[i]
          /\ invites[i].by \in DOMAIN users /\ users[invites[i].by].status = "active"
          /\ invites[i].status = "active" => \E u \in members : users[u].email = invites[i].email
    BY DEF RowsInv, InvitesFit, Is
  <2>2. CASE CreateInvite(r)
    <3>1. /\ pc[r] = "invite" /\ pc'[r] = "mail"
          /\ invites' = Put(invites, r, [email |-> call[r].email, by |-> who[r], status |-> "pending"])
      BY <1>1, <2>2 DEF CreateInvite, Goto, RequestsFit
    <3>2. /\ call[r].op = "invite" /\ call[r].email \in Emails
          /\ who[r] \in DOMAIN users /\ users[who[r]].status = "active" /\ who[r] \in Ids
      BY <1>1, <3>1 DEF Runs, Asks, Did, RowsInv, UsersFit, UserFits
    <3>3. SUFFICES ASSUME NEW i \in DOMAIN invites'
             PROVE  /\ i \in Requests /\ invites'[i] \in Invite
                    /\ call'[i].op = "invite" /\ pc'[i] \notin {"idle", "invite"}
                    /\ invites'[i].email = call'[i].email /\ invites'[i].by = who'[i]
                    /\ invites'[i].by \in DOMAIN users'
                    /\ users'[invites'[i].by].status = "active"
                    /\ invites'[i].status = "active" =>
                          \E u \in members' : users'[u].email = invites'[i].email
      BY DEF InvitesFit, Is
    <3>4. CASE i = r
      <4>1. invites'[r] = [email |-> call[r].email, by |-> who[r], status |-> "pending"]
        BY <3>1 DEF Put
      <4> QED BY <1>3, <3>1, <3>2, <3>4, <4>1 DEF Invite
    <3>5. CASE i # r
      <4>1. i \in DOMAIN invites /\ invites'[i] = invites[i] BY <3>1, <3>5 DEF Put
      <4>2. pc'[i] \notin {"idle", "invite"} BY <1>1, <1>2, <2>1, <4>1, Moves
      <4> QED BY <1>3, <2>1, <4>1, <4>2
    <3> QED BY <3>4, <3>5
  <2>3. CASE DeleteInvite(r)
    <3>1. \A i \in DOMAIN invites' : i \in DOMAIN invites /\ invites'[i] = invites[i]
      BY <2>3 DEF DeleteInvite, Drop
    <3> QED BY <1>2, <1>3, <1>4, <3>1, InvitesSame
  <2>4. CASE CloseInvite(r)
    <3>1. CASE UNCHANGED invites BY <1>2, <1>3, <1>4, <3>1, InvitesSame
    <3>2. CASE ~ UNCHANGED invites
      <4> DEFINE k == call[r].invite
      <4>1. /\ pc[r] = "close" /\ k \in DOMAIN invites
            /\ invites' = [invites EXCEPT ![k].status = "active"]
        BY <2>4, <3>2 DEF CloseInvite
      <4>2. call[r].op = "accept" BY <1>1, <4>1 DEF Runs
      <4>3. r \in members /\ r \in DOMAIN users /\ users[r].email = call[r].email
        <5>1. r \in members /\ r \in DOMAIN users BY <1>1, <4>1, <4>2 DEF Did, Is, Enrols
        <5> QED BY <5>1, AccountsAssumption DEF RowsInv, UsersFit, UserFits
      <4>4. call[r].email = call[k].email BY <1>1, <4>2 DEF Asks, Is
      <4>5. SUFFICES ASSUME NEW i \in DOMAIN invites'
             PROVE  /\ i \in Requests /\ invites'[i] \in Invite
                    /\ call'[i].op = "invite" /\ pc'[i] \notin {"idle", "invite"}
                    /\ invites'[i].email = call'[i].email /\ invites'[i].by = who'[i]
                    /\ invites'[i].by \in DOMAIN users'
                    /\ users'[invites'[i].by].status = "active"
                    /\ invites'[i].status = "active" =>
                          \E u \in members' : users'[u].email = invites'[i].email
        BY DEF InvitesFit, Is
      <4>6. i \in DOMAIN invites BY <4>1
      <4>7. pc'[i] \notin {"idle", "invite"} BY <1>1, <1>2, <2>1, <4>6, Moves
      <4>8. CASE i = k
        <5>1. invites'[i] = [invites[i] EXCEPT !.status = "active"] BY <4>1, <4>8
        <5>2. /\ invites'[i] \in Invite /\ invites'[i].email = invites[i].email
              /\ invites'[i].by = invites[i].by
          BY <2>1, <4>6, <5>1 DEF Invite
        <5>3. \E u \in members' : users'[u].email = invites'[i].email
          BY <1>3, <2>1, <4>3, <4>4, <4>6, <4>8, <5>2
        <5> QED BY <1>3, <2>1, <4>6, <4>7, <5>2, <5>3
      <4>9. CASE i # k
        <5>1. invites'[i] = invites[i] BY <4>1, <4>6, <4>9
        <5> QED BY <1>3, <2>1, <4>6, <4>7, <5>1
      <4> QED BY <4>8, <4>9
    <3> QED BY <3>1, <3>2
  <2> QED BY <2>2, <2>3, <2>4
<1> QED BY <1>2, <1>3, <1>5, <1>6, <1>9, <1>10, RowsGo

\* Steps that write a user or add a client: the other tables stay as they are.
LEMMA RowsWritten ==
    ASSUME RowsInv, Onward, RowsStay, UsersFit', ClientsFit',
           UNCHANGED <<templates, members, invites, tokens, audited>>,
           \A q \in Requests : Needs(q, pc[q], pc'[q]) \/ Did(q, pc[q])'
    PROVE  RowsInv'
<1>1. UsersStay /\ members \subseteq DOMAIN users BY DEF RowsStay, RowsInv, RolesFit
<1>2. RolesFit' /\ InvitesFit' BY <1>1, RolesSame, InvitesSame
<1>3. TokensFit'
  <2>1. \A t \in DOMAIN tokens : tokens[t] \in Token /\ tokens[t].user \in DOMAIN users'
    BY <1>1 DEF RowsInv, TokensFit, UsersStay
  <2> QED BY <2>1, TokensSame
<1>4. RequestsFit'
  <2>1. \A c : Stable(c) => c \in DOMAIN clients' BY DEF Stable, RowsStay
  <2> QED BY <2>1, RequestsGo DEF RowsInv
<1>5. \A q \in Requests : Did(q, pc[q])' BY AllStay, DidKept
<1> QED BY <1>2, <1>3, <1>4, <1>5 DEF RowsInv

LEMMA CreateClientRows ==
    ASSUME RowsInv, NEW r \in Requests, CreateClient(r)
    PROVE  RowsInv'
<1>1. RequestsFit /\ Runs(pc[r], call[r].op) /\ Asks(r) BY AtWork DEF RowsInv
<1>2. Onward /\ InFlight(r) BY <1>1, StepOnward DEF Step
<1>3. /\ pc[r] = "client" /\ pc'[r] = "user" /\ Goto(r, "user")
      /\ clients' = Put(clients, r, call[r].company)
      /\ UNCHANGED <<users, templates, members, invites, tokens, audited, torn, call, who>>
  BY <1>1 DEF CreateClient, Goto, RequestsFit
<1>4. call[r].op = "createClient" /\ call[r].company \in Companies
  BY <1>1, <1>3 DEF Runs, Asks, Is
<1>5. /\ DOMAIN clients' = (DOMAIN clients) \cup {r} /\ clients'[r] = call[r].company
      /\ \A c \in (DOMAIN clients) \ {r} : clients'[c] = clients[c]
  BY <1>3 DEF Put
<1>6. RowsStay BY <1>3, <1>5 DEF RowsStay, UsersStay, InFlight, Ended
<1>7. UsersFit'
  <2>1. \A u \in DOMAIN users : users[u].client \in DOMAIN clients'
    BY <1>5 DEF RowsInv, UsersFit, UserFits
  <2> QED BY <1>2, <1>3, <1>5, <2>1, UsersSame DEF Stable
<1>8. ClientsFit'
  <2> SUFFICES ASSUME NEW c \in DOMAIN clients'
               PROVE  /\ c \in Ids /\ clients'[c] \in Companies
                      /\ c # Seed => call'[c].op = "createClient" /\ pc'[c] \notin {"idle", "client"}
    BY DEF ClientsFit, Is
  <2>1. CASE c = r BY <1>3, <1>4, <1>5, <2>1 DEF Ids
  <2>2. CASE c # r
    <3>1. /\ c \in Ids /\ clients'[c] \in Companies
          /\ c # Seed => call[c].op = "createClient" /\ pc[c] \notin {"idle", "client"}
      BY <1>5, <2>2 DEF RowsInv, ClientsFit, Is
    <3>2. c # Seed => c \in Requests BY <3>1 DEF Ids
    <3> QED BY <1>1, <1>2, <1>3, <3>1, <3>2, Moves
  <2> QED BY <2>1, <2>2
<1>9. Did(r, pc[r])' BY <1>3, <1>4, <1>5 DEF Did, Is
<1> QED BY <1>1, <1>2, <1>3, <1>6, <1>7, <1>8, <1>9, NeedsNothing, RowsWritten

LEMMA CreateUserRows ==
    ASSUME RowsInv, NEW r \in Requests, CreateUser(r)
    PROVE  RowsInv'
<1>1. RequestsFit /\ Runs(pc[r], call[r].op) /\ Asks(r) /\ Did(r, pc[r]) BY AtWork DEF RowsInv
<1>2. Onward /\ InFlight(r) BY <1>1, StepOnward DEF Step
<1>3. /\ pc[r] = "user" /\ pc'[r] = AfterUser(r) /\ Goto(r, AfterUser(r))
      /\ users' = Put(users, r, NewUser(r)) /\ ~ HasEmail(call[r].email)
      /\ UNCHANGED <<clients, templates, members, invites, tokens, audited, torn, call, who>>
  BY <1>1 DEF CreateUser, Goto, RequestsFit
<1>4. /\ call[r].op \in {"signup", "createClient", "accept"} /\ who[r] = r
      /\ call[r].email \in Emails
  BY <1>1, <1>3 DEF Runs, Asks, Enrols
<1>5. r \notin DOMAIN users
  <2>1. r # Seed BY AccountsAssumption
  <2> QED BY <1>3, <2>1 DEF RowsInv, UsersFit, UserFits
<1>6. /\ DOMAIN users' = (DOMAIN users) \cup {r} /\ users'[r] = NewUser(r)
      /\ \A u \in DOMAIN users : users'[u] = users[u]
  BY <1>3, <1>5 DEF Put
<1>7. /\ call[r].op = "signup" => AfterUser(r) = "mail"
      /\ call[r].op = "accept" => AfterUser(r) = "store"
      /\ call[r].op = "createClient" => AfterUser(r) = "perms"
  BY DEF AfterUser, Is
<1>8. RowsStay BY <1>3, <1>4, <1>6, <1>7 DEF RowsStay, UsersStay, InFlight, Ended
<1>9. ClientsFit' BY <1>2, <1>3, ClientsSame
<1>10. UsersFit'
  <2>1. ASSUME NEW u \in DOMAIN users
        PROVE  UserFits(u)'
    <3>1. users'[u] = users[u] /\ users[u] \in User /\ users[u].client \in DOMAIN clients
      BY <1>6 DEF RowsInv, UsersFit, UserFits
    <3> QED BY <1>2, <1>3, <1>6, <3>1, UserKept DEF Stable
  <2>2. UserFits(r)'
    <3>1. /\ NewUser(r) \in User /\ NewUser(r).email = call[r].email
          /\ NewUser(r).otp \in {None, r}
          /\ call[r].op = "createClient" => NewUser(r).client = r /\ NewUser(r).status = "pending"
          /\ call[r].op # "createClient" => NewUser(r).client = call[r].client
      <4>1. /\ r \in Ids
            /\ call[r].op # "createClient" => call[r].client \in Ids
        <5>1. call[r].op # "createClient" => call[r].client \in DOMAIN clients
          BY <1>1, <1>4 DEF Asks, Stable
        <5> QED BY <5>1 DEF RowsInv, ClientsFit, Ids
      <4>2. CASE call[r].op = "createClient" BY <1>4, <4>1, <4>2 DEF NewUser, Is, User
      <4>3. CASE call[r].op = "signup" BY <1>4, <4>1, <4>3 DEF NewUser, Is, User
      <4>4. CASE call[r].op = "accept" BY <1>4, <4>1, <4>4 DEF NewUser, Is, User
      <4> QED BY <1>4, <4>2, <4>3, <4>4
    <3>2. NewUser(r).client = r \/ Stable(NewUser(r).client)'
      <4>1. call[r].op # "createClient" => Stable(call[r].client) BY <1>1, <1>4 DEF Asks
      <4>2. \A c : Stable(c) => Stable(c)' BY <1>1, <1>2, <1>3, RequestsGo DEF Stable
      <4>3. call'[r] = call[r] BY <1>3
      <4>4. call[r].op # "createClient" =>
               /\ call[r].client \in DOMAIN clients'
               /\ call[r].client \in Requests => pc'[call[r].client] = "ok"
        BY <4>1, <4>2 DEF Stable
      <4>5. NewUser(r)' = NewUser(r) BY <1>3 DEF NewUser, Is
      <4> QED BY <3>1, <4>4, <4>5 DEF Stable
    <3>3. NewUser(r)' = NewUser(r) BY <1>3 DEF NewUser, Is
    <3>4. NewUser(r).client = r \/ /\ NewUser(r).client \in DOMAIN clients'
                                   /\ NewUser(r).client \in Requests => pc'[NewUser(r).client] = "ok"
      BY <3>2, <3>3 DEF Stable
    <3>5. NewUser(r).client \in DOMAIN clients'
      <4>1. call[r].op = "createClient" => r \in DOMAIN clients BY <1>1, <1>3 DEF Did, Is
      <4>2. call[r].op # "createClient" => call[r].client \in DOMAIN clients
        BY <1>1, <1>4 DEF Asks, Stable
      <4> QED BY <1>3, <3>1, <4>1, <4>2
    <3>6. pc'[r] \notin {"idle", "client", "user", "renew"} /\ call'[r].op = call[r].op
          /\ r \in Ids /\ r \in Requests /\ who'[r] = r
      BY <1>3, <1>4, <1>7 DEF Ids
    <3>7. SUFFICES
          /\ r \in Ids /\ users'[r] \in User /\ users'[r].client \in DOMAIN clients'
          /\ users'[r].client = r \/ /\ users'[r].client \in DOMAIN clients'
                                     /\ users'[r].client \in Requests => pc'[users'[r].client] = "ok"
          /\ users'[r].otp # None =>
                /\ users'[r].otp \in Requests /\ who'[users'[r].otp] = r
                /\ pc'[users'[r].otp] \notin {"idle", "client", "user", "renew"}
          /\ r # Seed => /\ call'[r].op \in {"signup", "createClient", "accept"}
                         /\ pc'[r] \notin {"idle", "client", "user"}
                         /\ users'[r].email = call'[r].email
                         /\ call'[r].op = "createClient" =>
                              users'[r].client = r /\ (users'[r].status = "active" => pc'[r] = "ok")
      BY DEF UserFits, Stable, Coded, Enrols, Is
    <3> QED BY <1>3, <1>4, <1>6, <3>1, <3>4, <3>5, <3>6
  <2>3. \A u, v \in DOMAIN users' : users'[u].email = users'[v].email => u = v
    <3>1. users'[r].email = call[r].email BY <1>6 DEF NewUser
    <3>2. \A u \in DOMAIN users : users'[u].email # call[r].email BY <1>3, <1>6 DEF HasEmail
    <3>3. \A u, v \in DOMAIN users : users'[u].email = users'[v].email => u = v
      BY <1>6 DEF RowsInv, UsersFit
    <3> QED BY <1>6, <3>1, <3>2, <3>3
  <2> QED BY <1>6, <2>1, <2>2, <2>3 DEF UsersFit
<1>11. Did(r, pc[r])'
  <2>1. call[r].op = "createClient" => r \in DOMAIN clients BY <1>1, <1>3 DEF Did, Is
  <2> QED BY <1>3, <1>4, <1>6, <1>7, <2>1 DEF Did, Is, Enrols
<1> QED BY <1>1, <1>2, <1>3, <1>8, <1>9, <1>10, <1>11, NeedsNothing, RowsWritten

\* What the statements make of a user.
Used(x) == [x EXCEPT !.verified = TRUE, !.otp = None, !.fresh = FALSE]
Renewed(x, r) == [x EXCEPT !.verified = FALSE, !.otp = r, !.fresh = TRUE]
Resets(x, r) == [x EXCEPT !.password = r]

LEMMA Written ==
    ASSUME NEW x \in User, NEW r \in Ids, NEW y \in {Used(x), Renewed(x, r), Resets(x, r)}
    PROVE  /\ y \in User /\ y.client = x.client /\ y.email = x.email /\ y.status = x.status
           /\ y.otp \in {x.otp, None, r}
<1>1. CASE y = Used(x) BY <1>1 DEF User, Used
<1>2. CASE y = Renewed(x, r) BY <1>2 DEF User, Renewed
<1>3. CASE y = Resets(x, r) BY <1>3 DEF User, Resets
<1> QED BY <1>1, <1>2, <1>3

LEMMA WrittenCodes ==
    ASSUME NEW x \in User, NEW r \in Ids
    PROVE  /\ Used(x).otp = None /\ Used(x).verified = TRUE
           /\ Renewed(x, r).otp = r /\ Renewed(x, r).verified = FALSE
           /\ Resets(x, r).otp = x.otp /\ Resets(x, r).verified = x.verified
  BY DEF User, Used, Renewed, Resets

\* Users are written in place.
LEMMA WriteUserRows ==
    ASSUME RowsInv, NEW r \in Requests, WriteUser(r) \/ Activate(r)
    PROVE  RowsInv'
<1>1. RequestsFit /\ Runs(pc[r], call[r].op) /\ Asks(r) /\ Did(r, pc[r]) BY AtWork DEF RowsInv
<1>2. Onward /\ InFlight(r) BY <1>1, StepOnward DEF Step
<1>3. UNCHANGED <<clients, templates, members, invites, tokens, audited, torn, call, who>>
  BY DEF WriteUser, Activate
<1>4. ClientsFit' BY <1>2, <1>3, ClientsSame
<1>5. CASE WriteUser(r)
  <2> DEFINE e == who[r]
             x == users[e]
  <2>1. /\ pc[r] \in {"use", "renew", "password"} /\ e \in DOMAIN users
        /\ \E y \in {Used(x), Renewed(x, r), Resets(x, r)} : users' = [users EXCEPT ![e] = y]
    BY <1>5 DEF WriteUser, UpdatesUser, Used, Renewed, Resets
  <2>2. call[r].op \in {"verify", "resend", "reset", "change"} BY <1>1, <2>1 DEF Runs
  <2>3. /\ pc'[r] \in {"mail", "spend", "audit"}
        /\ \E p \in {"mail", "spend", "audit"} : Goto(r, p)
    <3>1. \E p \in {"mail", "spend", "audit"} : Goto(r, p) BY <1>5, <2>2 DEF WriteUser
    <3> QED BY <1>1, <3>1 DEF Goto, RequestsFit
  <2>4. x \in User /\ r \in Ids BY <2>1 DEF RowsInv, UsersFit, UserFits, Ids
  <2>5. /\ DOMAIN users' = DOMAIN users
        /\ \A u \in (DOMAIN users) \ {e} : users'[u] = users[u]
    BY <2>1
  <2>6. /\ users'[e] \in User /\ users'[e].client = x.client /\ users'[e].email = x.email
        /\ users'[e].status = x.status /\ users'[e].otp \in {x.otp, None, r}
    <3>1. users'[e] \in {Used(x), Renewed(x, r), Resets(x, r)} BY <2>1
    <3> HIDE DEF x
    <3> QED BY <2>4, <3>1, Written
  <2>7. users'[e].otp # r \/ users'[e].otp = x.otp \/ Coded(r)' BY <2>3 DEF Coded
  <2>8. \A u \in DOMAIN users :
           users[u] \in User /\ users[u].client \in DOMAIN clients
    BY DEF RowsInv, UsersFit, UserFits
  <2>9. UsersFit'
    <3>1. ASSUME NEW u \in DOMAIN users'
          PROVE  /\ u \in DOMAIN users /\ users'[u] \in User
                 /\ users'[u].client = users[u].client /\ users[u].client \in DOMAIN clients'
                 /\ users'[u].email = users[u].email
                 /\ users'[u].status = users[u].status \/ (u \in Requests => pc'[u] = "ok")
                 /\ \/ users'[u].otp \in {users[u].otp, None}
                    \/ \E q \in Requests : users'[u].otp = q /\ who[q] = u /\ Coded(q)'
      BY <1>3, <2>5, <2>6, <2>7, <2>8
    <3> QED BY <1>2, <1>3, <3>1, UsersKept DEF Stable
  <2>10. RowsStay BY <1>3, <2>5, <2>6 DEF RowsStay, UsersStay
  <2>11. Needs(r, pc[r], pc'[r]) BY <2>2, <2>3 DEF Needs, Enrols, Is
  <2>12. \A q \in Requests : Needs(q, pc[q], pc'[q]) BY <1>1, <2>3, <2>11, NeedsNothing
  <2> QED BY <1>2, <1>3, <1>4, <2>9, <2>10, <2>12, RowsWritten
<1>6. CASE Activate(r)
  <2>1. /\ pc[r] = "activate" /\ pc'[r] = "ok" /\ Goto(r, "ok")
        /\ users' = [users EXCEPT ![r].status = "active"]
    BY <1>1, <1>6 DEF Activate, Goto, RequestsFit
  <2>2. call[r].op = "createClient" BY <1>1, <2>1 DEF Runs
  <2>3. /\ DOMAIN users' = DOMAIN users
        /\ \A u \in (DOMAIN users) \ {r} : users'[u] = users[u]
        /\ r \in DOMAIN users => users'[r] = [users[r] EXCEPT !.status = "active"]
    BY <2>1
  <2>4. \A u \in DOMAIN users : users[u] \in User /\ users[u].client \in DOMAIN clients
    BY DEF RowsInv, UsersFit, UserFits
  <2>5. \A u \in DOMAIN users :
          /\ users'[u] \in User /\ users'[u].client = users[u].client
          /\ users'[u].email = users[u].email /\ users'[u].otp = users[u].otp
          /\ users'[u].status = users[u].status \/ (u = r /\ users'[u].status = "active")
    BY <2>3, <2>4 DEF User
  <2>6. UsersFit' BY <1>2, <1>3, <2>1, <2>3, <2>4, <2>5, UsersKept DEF Stable
  <2>7. RowsStay BY <1>3, <2>3, <2>5 DEF RowsStay, UsersStay
  <2>8. Needs(r, pc[r], pc'[r]) BY <2>1, <2>2 DEF Needs, Is, WithUser, WithClient
  <2>9. \A q \in Requests : Needs(q, pc[q], pc'[q]) BY <1>1, <2>1, <2>8, NeedsNothing
  <2> QED BY <1>2, <1>3, <1>4, <2>6, <2>7, <2>9, RowsWritten
<1> QED BY <1>5, <1>6

\* The client is undone unless a row refers to it; then its user is there as well.
LEMMA UndoClientRows ==
    ASSUME RowsInv, NEW r \in Requests, UndoClient(r)
    PROVE  RowsInv'
<1>1. RequestsFit /\ Runs(pc[r], call[r].op) /\ Did(r, pc[r]) BY AtWork DEF RowsInv
<1>2. Onward /\ InFlight(r) BY <1>1, StepOnward DEF Step
<1>3. /\ pc[r] = "undoClient" /\ pc'[r] = "failed" /\ Goto(r, "failed")
      /\ clients' = IF ClientIsTied(r) THEN clients ELSE Drop(clients, {r})
      /\ UNCHANGED <<users, templates, members, invites, tokens, audited, torn, call, who>>
  BY <1>1 DEF UndoClient, Goto, RequestsFit
<1>4. call[r].op = "createClient" /\ r \in DOMAIN clients BY <1>1, <1>3 DEF Runs, Did, Is
<1>5. /\ \A c \in DOMAIN clients' : c \in DOMAIN clients /\ clients'[c] = clients[c]
      /\ \A c \in DOMAIN clients : c \in DOMAIN clients' \/ (c = r /\ ~ ClientIsTied(r))
  BY <1>3 DEF Drop
<1>6. UsersStay /\ members \subseteq DOMAIN users BY <1>3 DEF UsersStay, RowsInv, RolesFit
<1>7. RolesFit' /\ InvitesFit' BY <1>2, <1>3, <1>6, RolesSame, InvitesSame
<1>8. TokensFit'
  <2>1. \A t \in DOMAIN tokens : tokens[t] \in Token /\ tokens[t].user \in DOMAIN users
    BY DEF RowsInv, TokensFit
  <2> QED BY <1>2, <1>3, <2>1, TokensSame
<1>9. ClientsFit' BY <1>2, <1>5, ClientsSame
<1>10. \A c : Stable(c) => c \in DOMAIN clients' BY <1>3, <1>5 DEF Stable
<1>11. RequestsFit' BY <1>1, <1>2, <1>10, RequestsGo
<1>12. UsersFit'
  <2>1. \A u \in DOMAIN users : users[u].client \in DOMAIN clients'
    BY <1>5 DEF RowsInv, UsersFit, UserFits, ClientIsTied
  <2> QED BY <1>2, <1>3, <1>10, <2>1, UsersSame
<1>13. r \in DOMAIN users <=> ClientIsTied(r)
  <2>1. \A u \in DOMAIN users : users[u].client = r => u = r
    BY <1>3 DEF RowsInv, UsersFit, UserFits, Stable
  <2>2. r \in DOMAIN users => users[r].client = r
    BY <1>4, AccountsAssumption DEF RowsInv, UsersFit, UserFits, Is
  <2>3. \A t \in templates : t.creator \in DOMAIN users /\ t.client = users[t.creator].client
    BY DEF RowsInv, RolesFit
  <2> QED BY <2>1, <2>2, <2>3 DEF ClientIsTied
<1>14. Did(r, pc[r])'
  <2>1. r \in DOMAIN clients' <=> r \in DOMAIN users BY <1>3, <1>4, <1>13 DEF Drop
  <2> QED BY <1>3, <1>4, <2>1 DEF Did, Enrols, Is
<1>15. ASSUME NEW q \in Requests, q # r
       PROVE  Did(q, pc[q])'
  <2>1. StaysFor(q) BY <1>3, <1>5, <1>15 DEF StaysFor
  <2> QED BY <1>1, <1>2, <1>3, <1>15, <2>1, NeedsNothing, DidKept
<1> QED BY <1>7, <1>8, <1>9, <1>11, <1>12, <1>14, <1>15 DEF RowsInv

\* The user is undone unless a row refers to it; nobody active is.
LEMMA UndoUserRows ==
    ASSUME RowsInv, NEW r \in Requests, UndoUser(r)
    PROVE  RowsInv'
<1>1. RequestsFit /\ Runs(pc[r], call[r].op) /\ Did(r, pc[r]) BY AtWork DEF RowsInv
<1>2. Onward /\ InFlight(r) BY <1>1, StepOnward DEF Step
<1>3. /\ pc[r] = "undoUser" /\ pc'[r] = "undoClient" /\ Goto(r, "undoClient")
      /\ IF UserIsTied(r) THEN UNCHANGED <<users, tokens>> ELSE DeleteUser(r)
      /\ UNCHANGED <<clients, templates, members, invites, audited, torn, call, who>>
  BY <1>1 DEF UndoUser, Goto, RequestsFit
<1>4. call[r].op = "createClient" /\ r \in DOMAIN clients BY <1>1, <1>3 DEF Runs, Did, Is
<1>5. CASE UserIsTied(r)
  <2>1. UNCHANGED db BY <1>3, <1>5 DEF db
  <2>2. Needs(r, pc[r], "undoClient") BY <1>3 DEF Needs, WithUser, WithClient, WithStore
  <2> QED BY <1>2, <1>3, <2>1, <2>2, QuietRows
<1>6. CASE ~ UserIsTied(r)
  <2>1. /\ DOMAIN users' = (DOMAIN users) \ {r}
        /\ \A u \in DOMAIN users' : users'[u] = users[u]
        /\ \A t \in DOMAIN tokens' : t \in DOMAIN tokens /\ tokens'[t] = tokens[t]
                                     /\ tokens[t].user # r
    BY <1>3, <1>6 DEF DeleteUser, Drop
  <2>2. /\ \A t \in templates : t.creator # r
        /\ r \notin audited \cup members
        /\ \A i \in DOMAIN invites : invites[i].by # r
    BY <1>6 DEF UserIsTied
  <2>3. ~ (r \in DOMAIN users /\ users[r].status = "active")
    BY <1>3, <1>4, AccountsAssumption DEF RowsInv, UsersFit, UserFits, Is
  <2>4. \A c : Stable(c) => c \in DOMAIN clients' BY <1>3 DEF Stable
  <2>5. RequestsFit' /\ ClientsFit' BY <1>1, <1>2, <1>3, <2>4, RequestsGo, ClientsSame
  <2>6. UsersFit'
    <3>1. \A u \in DOMAIN users : users[u] \in User /\ users[u].client \in DOMAIN clients
      BY DEF RowsInv, UsersFit, UserFits
    <3> QED BY <1>2, <1>3, <2>1, <2>4, <3>1, UsersKept
  <2>7. RolesFit'
    <3>1. /\ templates \subseteq Template
          /\ \A t \in templates : t.creator \in DOMAIN users /\ t.client = users[t.creator].client
          /\ members \cup audited \subseteq DOMAIN users
      BY DEF RowsInv, RolesFit
    <3> QED BY <1>3, <2>1, <2>2, <3>1 DEF RolesFit
  <2>8. TokensFit'
    <3>1. \A t \in DOMAIN tokens : tokens[t] \in Token /\ tokens[t].user \in DOMAIN users
      BY DEF RowsInv, TokensFit
    <3> QED BY <1>2, <2>1, <3>1, TokensSame
  <2>9. InvitesFit'
    <3> SUFFICES ASSUME NEW i \in DOMAIN invites
                 PROVE  /\ i \in Requests /\ invites[i] \in Invite
                        /\ call[i].op = "invite" /\ pc'[i] \notin {"idle", "invite"}
                        /\ invites[i].email = call[i].email /\ invites[i].by = who[i]
                        /\ invites[i].by \in DOMAIN users'
                        /\ users'[invites[i].by].status = "active"
                        /\ invites[i].status = "active" =>
                              \E u \in members : users'[u].email = invites[i].email
      BY <1>3 DEF InvitesFit, Is
    <3>1. /\ i \in Requests /\ invites[i] \in Invite
          /\ call[i].op = "invite" /\ pc[i] \notin {"idle", "invite"}
          /\ invites[i].email = call[i].email /\ invites[i].by = who[i]
          /\ invites[i].by \in DOMAIN users /\ users[invites[i].by].status = "active"
          /\ invites[i].status = "active" => \E u \in members : users[u].email = invites[i].email
      BY DEF RowsInv, InvitesFit, Is
    <3>2. pc'[i] \notin {"idle", "invite"} BY <1>1, <1>2, <3>1, Moves
    <3>3. members \subseteq DOMAIN users' BY <2>1, <2>2 DEF RowsInv, RolesFit
    <3> QED BY <2>1, <2>2, <3>1, <3>2, <3>3
  <2>10. Did(r, pc[r])' BY <1>3, <1>4 DEF Did, Enrols, Is
  <2>11. ASSUME NEW q \in Requests, q # r
         PROVE  Did(q, pc[q])'
    <3>1. StaysFor(q) BY <1>3, <2>1, <2>3, <2>11 DEF StaysFor
    <3> QED BY <1>1, <1>2, <1>3, <2>11, <3>1, NeedsNothing, DidKept
  <2> QED BY <2>5, <2>6, <2>7, <2>8, <2>9, <2>10, <2>11 DEF RowsInv
<1> QED BY <1>5, <1>6

----------------------------------------------------------------------------
(* Rows: requests that are received, crashes, time *)

\* What a request that is received asks for exists; no row refers to it yet.
LEMMA ReceivedRows ==
    ASSUME RowsInv, NEW r \in Requests, pc[r] = "idle", UNCHANGED <<db, mailed, torn>>,
           NEW c, NEW u, NEW to, call'[r] = c, who'[r] = u, pc'[r] = to,
           DOMAIN call' = Requests, who' \in [Requests -> Ids \cup {None}],
           pc' \in [Requests -> Pcs],
           \A q \in Requests \ {r} : call'[q] = call[q] /\ who'[q] = who[q] /\ pc'[q] = pc[q],
           to \in {"refused", "client", "user", "use", "renew", "perms", "void", "password", "invite"},
           Runs(to, c.op), c.op \in Kinds,
           c.op \in {"signup", "createClient", "invite", "accept"} => c.email \in Emails,
           c.op = "createClient" => c.company \in Companies /\ to = "client",
           c.op \in {"signup", "createClient", "accept"} => u = r /\ to # "perms",
           c.op \in {"signup", "accept"} => Stable(c.client),
           c.op = "accept" => /\ c.invite \in Requests /\ Is(c.invite, "invite")
                              /\ c.email = call[c.invite].email,
           c.op = "verify" => c.otp \in Requests /\ who[c.otp] = u /\ Coded(c.otp),
           c.op = "reset" => c.token \in Requests /\ Is(c.token, "forgot") /\ Made(c.token),
           to = "invite" => u \in DOMAIN users /\ users[u].status = "active"
    PROVE  RowsInv'
<1>1. RequestsFit /\ Runs(pc[r], call[r].op) /\ r # Seed
  BY AtWork, AccountsAssumption DEF RowsInv
<1>2. call[r].op = "none" BY <1>1 DEF Runs
<1>3. UNCHANGED <<users, clients, templates, members, invites, tokens, audited>> BY DEF db
<1>4. \A x : Stable(x) => x # r /\ Stable(x)' BY <1>3 DEF Stable
<1>5. \A q \in Requests : Coded(q) => q # r /\ Coded(q)' BY DEF Coded
<1>6. \A q \in Requests : Made(q) => q # r /\ Made(q)' BY DEF Made
<1>7. \A q \in Requests : call[q].op # "none" => q # r /\ call'[q] = call[q] BY <1>2
<1>8. \A q \in Requests : Enrols(q) => q # r /\ Enrols(q)' BY <1>2 DEF Enrols
<1>9. RequestsFit'
  <2>1. ASSUME NEW q \in Requests
        PROVE  Runs(pc[q], call[q].op)'
    <3>1. CASE q = r BY <3>1 DEF Runs
    <3>2. CASE q # r
      <4>1. Runs(pc[q], call[q].op) BY <1>1 DEF RequestsFit
      <4> QED BY <3>2, <4>1 DEF Runs
    <3> QED BY <3>1, <3>2
  <2>2. Asks(r)'
    <3>1. c.op \in {"signup", "accept"} =>
            /\ c.client \in DOMAIN clients'
            /\ c.client \in Requests => pc'[c.client] = "ok"
      BY <1>4 DEF Stable
    <3>2. c.op = "accept" => call'[c.invite].op = "invite" /\ c.email = call'[c.invite].email
      BY <1>7 DEF Is
    <3>3. c.op = "verify" => who'[c.otp] = u /\ pc'[c.otp] \notin {"idle", "client", "user", "renew"}
      BY <1>5 DEF Coded
    <3>4. c.op = "reset" => call'[c.token].op = "forgot" /\ pc'[c.token] \notin {"idle", "void", "token"}
      BY <1>6, <1>7 DEF Is, Made
    <3> QED BY <3>1, <3>2, <3>3, <3>4 DEF Asks, Is, Enrols, Stable, Coded, Made
  <2>3. ASSUME NEW q \in Requests, q # r
        PROVE  Asks(q)'
    <3>1. Asks(q) BY <1>1 DEF RequestsFit
    <3>2. call'[q] = call[q] /\ who'[q] = who[q] BY <2>3
    <3>3. call[q].op \in {"signup", "accept"} =>
            /\ call[q].client \in DOMAIN clients'
            /\ call[q].client \in Requests => pc'[call[q].client] = "ok"
      BY <1>4, <3>1 DEF Asks, Stable
    <3>4. call[q].op = "accept" =>
            /\ call[q].invite \in Requests /\ call'[call[q].invite].op = "invite"
            /\ call[q].email = call'[call[q].invite].email
      BY <1>7, <3>1 DEF Asks, Is
    <3>5. call[q].op = "verify" =>
            /\ call[q].otp \in Requests /\ who'[call[q].otp] = who[q]
            /\ pc'[call[q].otp] \notin {"idle", "client", "user", "renew"}
      BY <1>5, <3>1 DEF Asks, Is, Coded
    <3>6. call[q].op = "reset" =>
            /\ call[q].token \in Requests /\ call'[call[q].token].op = "forgot"
            /\ pc'[call[q].token] \notin {"idle", "void", "token"}
      BY <1>6, <1>7, <3>1 DEF Asks, Is, Made
    <3>7. /\ call[q].op \in Kinds
          /\ call[q].op \in {"signup", "createClient", "invite", "accept"} => call[q].email \in Emails
          /\ call[q].op = "createClient" => call[q].company \in Companies
          /\ call[q].op \in {"signup", "createClient", "accept"} => who[q] = q
      BY <3>1 DEF Asks, Is, Enrols
    <3> QED BY <3>2, <3>3, <3>4, <3>5, <3>6, <3>7 DEF Asks, Is, Enrols, Stable, Coded, Made
  <2>4. Stable(Seed)' BY <1>1, <1>4 DEF RequestsFit
  <2> QED BY <1>1, <2>1, <2>2, <2>3, <2>4 DEF RequestsFit
<1>10. \A v \in DOMAIN users : UserFits(v) /\ v # r
  BY <1>1, <1>8 DEF RowsInv, UsersFit, UserFits
<1>11. UsersFit'
  <2>1. ASSUME NEW v \in DOMAIN users
        PROVE  UserFits(v)'
    <3>1. /\ v \in Ids /\ users[v] \in User /\ users[v].client \in DOMAIN clients
          /\ users[v].client = v \/ Stable(users[v].client)
          /\ users[v].otp # None =>
                users[v].otp \in Requests /\ who[users[v].otp] = v /\ Coded(users[v].otp)
          /\ v # Seed => /\ Enrols(v) /\ pc[v] \notin {"idle", "client", "user"}
                         /\ users[v].email = call[v].email
                         /\ Is(v, "createClient") =>
                              users[v].client = v /\ (users[v].status = "active" => pc[v] = "ok")
      BY <1>10 DEF UserFits
    <3>2. users[v].client = v \/ /\ users[v].client \in DOMAIN clients
                                 /\ users[v].client \in Requests => pc'[users[v].client] = "ok"
      BY <1>3, <1>4, <3>1 DEF Stable
    <3>3. users[v].otp # None => /\ who'[users[v].otp] = v
                                 /\ pc'[users[v].otp] \notin {"idle", "client", "user", "renew"}
      BY <1>5, <3>1 DEF Coded
    <3>4. v # Seed => call'[v] = call[v] /\ pc'[v] = pc[v] BY <1>10, <3>1 DEF Ids
    <3> QED BY <1>3, <3>1, <3>2, <3>3, <3>4 DEF UserFits, Enrols, Is, Stable, Coded
  <2> QED BY <1>3, <2>1 DEF RowsInv, UsersFit
<1>12. ClientsFit'
  <2>1. \A x \in DOMAIN clients :
          /\ x \in Ids /\ clients[x] \in Companies
          /\ x # Seed => Is(x, "createClient") /\ pc[x] \notin {"idle", "client"}
    BY DEF RowsInv, ClientsFit
  <2>2. \A x \in DOMAIN clients : x # Seed => x \in Requests /\ x # r BY <2>1 DEF Ids
  <2> QED BY <1>3, <2>1, <2>2 DEF ClientsFit, Is
<1>13. RolesFit' BY <1>3 DEF RowsInv, RolesFit
<1>14. InvitesFit'
  <2>1. \A i \in DOMAIN invites :
          /\ i \in Requests /\ invites[i] \in Invite
          /\ call[i].op = "invite" /\ pc[i] \notin {"idle", "invite"}
          /\ invites[i].email = call[i].email /\ invites[i].by = who[i]
          /\ invites[i].by \in DOMAIN users /\ users[invites[i].by].status = "active"
          /\ invites[i].status = "active" => \E v \in members : users[v].email = invites[i].email
    BY DEF RowsInv, InvitesFit, Is
  <2> QED BY <1>2, <1>3, <2>1 DEF InvitesFit, Is
<1>15. TokensFit'
  <2>1. \A t \in DOMAIN tokens :
          /\ t \in Requests /\ tokens[t] \in Token
          /\ call[t].op = "forgot" /\ pc[t] \notin {"idle", "void", "token"}
          /\ tokens[t].user = who[t] /\ tokens[t].user \in DOMAIN users
    BY DEF RowsInv, TokensFit, Is, Made
  <2> QED BY <1>2, <1>3, <2>1 DEF TokensFit, Is, Made
<1>16. ASSUME NEW q \in Requests
       PROVE  Did(q, pc[q])'
  <2>1. CASE q = r
    <3>1. Runs(to, c.op) OBVIOUS
    <3> QED BY <1>3, <2>1, <3>1 DEF Did, Is, Enrols, Runs
  <2>2. CASE q # r
    <3>1. Did(q, pc[q]) /\ call'[q] = call[q] /\ who'[q] = who[q] /\ pc'[q] = pc[q]
      BY <2>2 DEF RowsInv
    <3> QED BY <1>3, <3>1 DEF Did, Is, Enrols
  <2> QED BY <2>1, <2>2
<1> QED BY <1>9, <1>11, <1>12, <1>13, <1>14, <1>15, <1>16 DEF RowsInv

LEMMA BeginRows ==
    ASSUME RowsInv, NEW r \in Requests, NEW c, NEW u \in Ids,
           NEW to \in {"client", "user", "use", "renew", "perms", "void", "password", "invite"},
           Begin(r, c, u, to), Runs(to, c.op), c.op \in Kinds,
           c.op \in {"signup", "createClient", "invite", "accept"} => c.email \in Emails,
           c.op = "createClient" => c.company \in Companies /\ to = "client",
           c.op \in {"signup", "createClient", "accept"} => u = r /\ to # "perms",
           c.op \in {"signup", "accept"} => Stable(c.client),
           c.op = "accept" => /\ c.invite \in Requests /\ Is(c.invite, "invite")
                              /\ c.email = call[c.invite].email,
           c.op = "verify" => c.otp \in Requests /\ who[c.otp] = u /\ Coded(c.otp),
           c.op = "reset" => c.token \in Requests /\ Is(c.token, "forgot") /\ Made(c.token),
           to = "invite" => u \in DOMAIN users /\ users[u].status = "active"
    PROVE  RowsInv'
<1>1. /\ pc \in [Requests -> Pcs] /\ DOMAIN call = Requests
      /\ who \in [Requests -> Ids \cup {None}] /\ to \in Pcs
  BY DEF RowsInv, RequestsFit, Pcs
<1>2. /\ pc[r] = "idle" /\ UNCHANGED <<db, mailed, torn>>
      /\ call' = [call EXCEPT ![r] = c] /\ who' = [who EXCEPT ![r] = u]
      /\ pc' = [pc EXCEPT ![r] = to]
  BY DEF Begin, Goto
<1>3. /\ call'[r] = c /\ who'[r] = u /\ pc'[r] = to
      /\ DOMAIN call' = Requests /\ who' \in [Requests -> Ids \cup {None}]
      /\ pc' \in [Requests -> Pcs]
      /\ \A q \in Requests \ {r} : call'[q] = call[q] /\ who'[q] = who[q] /\ pc'[q] = pc[q]
  BY <1>1, <1>2
<1> QED BY <1>2, <1>3, ReceivedRows

LEMMA RefuseRows ==
    ASSUME RowsInv, NEW r \in Requests, Refuse(r)
    PROVE  RowsInv'
<1>1. /\ pc \in [Requests -> Pcs] /\ DOMAIN call = Requests
      /\ who \in [Requests -> Ids \cup {None}] /\ "refused" \in Pcs
  BY DEF RowsInv, RequestsFit, Pcs, Ended
<1>2. /\ pc[r] = "idle" /\ UNCHANGED <<db, mailed, torn, call, who>>
      /\ pc' = [pc EXCEPT ![r] = "refused"]
  BY DEF Refuse, Goto
<1>3. pc'[r] = "refused" /\ pc' \in [Requests -> Pcs] /\ \A q \in Requests \ {r} : pc'[q] = pc[q]
  BY <1>1, <1>2
<1>4. call[r].op = "none" BY <1>2, AtWork DEF Runs, RowsInv
<1>5. Runs("refused", call[r].op) /\ call[r].op \in Kinds BY <1>4 DEF Runs, Kinds
<1> QED BY <1>1, <1>2, <1>3, <1>4, <1>5, ReceivedRows

\* A user that is found by its email.
LEMMA Found ==
    ASSUME RowsInv, NEW e, HasEmail(e)
    PROVE  Of(e) \in DOMAIN users /\ Of(e) \in Ids
  BY DEF HasEmail, Of, RowsInv, UsersFit, UserFits

LEMMA ReceiveRows ==
    ASSUME RowsInv, NEW r \in Requests, Receive(r)
    PROVE  RowsInv'
<1>1. CASE Refuse(r) BY <1>1, RefuseRows
<1> SUFFICES ASSUME ~ Refuse(r)
             PROVE  RowsInv'
  BY <1>1
<1>2. r \in Ids /\ \A u \in DOMAIN users : u \in Ids BY DEF Ids, RowsInv, UsersFit, UserFits
<1>3. ASSUME NEW e \in Emails, BeginResend(r, e)
      PROVE  RowsInv'
  <2> DEFINE c == [op |-> "resend", email |-> e]
  <2>1. HasEmail(e) /\ Begin(r, c, Of(e), "renew") BY <1>3 DEF BeginResend
  <2>2. Runs("renew", c.op) /\ c.op \in Kinds BY DEF Runs, Kinds
  <2> QED BY <2>1, <2>2, Found, BeginRows
<1>4. ASSUME NEW e \in Emails, BeginForgot(r, e)
      PROVE  RowsInv'
  <2> DEFINE c == [op |-> "forgot", email |-> e]
  <2>1. HasEmail(e) /\ Begin(r, c, Of(e), "void") BY <1>4 DEF BeginForgot
  <2>2. Runs("void", c.op) /\ c.op \in Kinds BY DEF Runs, Kinds
  <2> QED BY <2>1, <2>2, Found, BeginRows
<1>5. ASSUME NEW e \in Emails, BeginFix(r, e)
      PROVE  RowsInv'
  <2> DEFINE c == [op |-> "fix", email |-> e]
  <2>1. HasEmail(e) /\ Begin(r, c, Of(e), "perms") BY <1>5 DEF BeginFix
  <2>2. Runs("perms", c.op) /\ c.op \in Kinds BY DEF Runs, Kinds
  <2> QED BY <2>1, <2>2, Found, BeginRows
<1>6. ASSUME NEW e \in Emails, NEW k \in KnownClients, BeginSignup(r, e, k)
      PROVE  RowsInv'
  <2> DEFINE c == [op |-> "signup", email |-> e, client |-> k]
  <2>1. Begin(r, c, r, "user") BY <1>6 DEF BeginSignup
  <2>2. Runs("user", c.op) /\ c.op \in Kinds BY DEF Runs, Kinds
  <2>3. Stable(k) BY <1>6 DEF KnownClients, Stable, RowsInv, RequestsFit
  <2> QED BY <1>2, <2>1, <2>2, <2>3, BeginRows
<1>7. ASSUME NEW e \in Emails, NEW k \in Companies, BeginCreateClient(r, e, k)
      PROVE  RowsInv'
  <2> DEFINE c == [op |-> "createClient", email |-> e, company |-> k]
  <2>1. Begin(r, c, r, "client") BY <1>7 DEF BeginCreateClient
  <2>2. Runs("client", c.op) /\ c.op \in Kinds BY DEF Runs, Kinds
  <2> QED BY <1>2, <2>1, <2>2, BeginRows
<1>8. ASSUME NEW e \in Emails, NEW code \in Codes, BeginVerify(r, e, code)
      PROVE  RowsInv'
  <2> DEFINE c == [op |-> "verify", email |-> e, otp |-> code]
  <2>1. HasEmail(e) /\ Matches(Of(e), code) /\ Begin(r, c, Of(e), "use")
    BY <1>8 DEF BeginVerify
  <2>2. Runs("use", c.op) /\ c.op \in Kinds BY DEF Runs, Kinds
  <2>3. code \in Requests /\ who[code] = Of(e) /\ Coded(code)
    <3>1. code \in Requests /\ code # None
      BY <1>8, AccountsAssumption DEF Codes, RowsInv, RequestsFit
    <3> QED BY <2>1, <3>1, Found DEF Matches, RowsInv, UsersFit, UserFits
  <2> QED BY <2>1, <2>2, <2>3, Found, BeginRows
<1>9. ASSUME NEW e \in Emails, NEW u \in DOMAIN users, users[u].status = "active", BeginInvite(r, u, e)
      PROVE  RowsInv'
  <2> DEFINE c == [op |-> "invite", email |-> e]
  <2>1. Begin(r, c, u, "invite") BY <1>9 DEF BeginInvite
  <2>2. Runs("invite", c.op) /\ c.op \in Kinds BY DEF Runs, Kinds
  <2> QED BY <1>2, <1>9, <2>1, <2>2, BeginRows
<1>10. ASSUME NEW t \in (DOMAIN tokens) \cap mailed, BeginReset(r, t)
       PROVE  RowsInv'
  <2> DEFINE c == [op |-> "reset", token |-> t]
  <2>1. Begin(r, c, tokens[t].user, "password") BY <1>10 DEF BeginReset
  <2>2. Runs("password", c.op) /\ c.op \in Kinds BY DEF Runs, Kinds
  <2>3. /\ t \in Requests /\ Is(t, "forgot") /\ Made(t) /\ tokens[t].user \in Ids
    BY <1>2, <1>10 DEF RowsInv, TokensFit
  <2> QED BY <2>1, <2>2, <2>3, BeginRows
<1>11. ASSUME NEW u \in DOMAIN users, NEW w \in Ids, BeginChange(r, u, w)
       PROVE  RowsInv'
  <2> DEFINE c == [op |-> "change", current |-> w]
  <2>1. Begin(r, c, u, "password") BY <1>11 DEF BeginChange
  <2>2. Runs("password", c.op) /\ c.op \in Kinds BY DEF Runs, Kinds
  <2> QED BY <1>2, <2>1, <2>2, BeginRows
<1>12. ASSUME NEW i \in (DOMAIN invites) \cap mailed, BeginAccept(r, i)
       PROVE  RowsInv'
  <2> DEFINE b == invites[i].by
             c == [op |-> "accept", invite |-> i, email |-> invites[i].email,
                   client |-> users[b].client]
  <2>1. Begin(r, c, r, "user") BY <1>12 DEF BeginAccept
  <2>2. Runs("user", c.op) /\ c.op \in Kinds BY DEF Runs, Kinds
  <2>3. /\ i \in Requests /\ Is(i, "invite") /\ invites[i].email = call[i].email
        /\ invites[i].email \in Emails /\ b \in DOMAIN users /\ users[b].status = "active"
    BY <1>12 DEF RowsInv, InvitesFit, Invite
  <2>4. Stable(users[b].client)
    <3>1. UserFits(b) BY <2>3 DEF RowsInv, UsersFit
    <3>2. CASE users[b].client = b
      <4>1. b \in DOMAIN clients /\ b \in Ids BY <3>1, <3>2 DEF UserFits
      <4>2. b # Seed => Is(b, "createClient") BY <4>1 DEF RowsInv, ClientsFit
      <4>3. b # Seed => pc[b] = "ok" BY <2>3, <3>1, <4>2 DEF UserFits
      <4> QED BY <3>2, <4>1, <4>3, AccountsAssumption DEF Stable
    <3> QED BY <3>1, <3>2 DEF UserFits
  <2> QED BY <1>2, <2>1, <2>2, <2>3, <2>4, BeginRows
<1> QED BY <1>3, <1>4, <1>5, <1>6, <1>7, <1>8, <1>9, <1>10, <1>11, <1>12 DEF Receive

\* Processes die; time passes.
LEMMA CrashOnward ==
    ASSUME RequestsFit, Crash
    PROVE  /\ Onward /\ UNCHANGED db
           /\ \A q \in Requests : pc'[q] = IF InFlight(q) THEN "failed" ELSE pc[q]
           /\ torn' = torn \cup {q \in Requests : InFlight(q) /\ Is(q, "createClient")}
<1>1. /\ UNCHANGED <<db, mailed, call, who, raced>>
      /\ pc' = [q \in Requests |-> IF InFlight(q) THEN "failed" ELSE pc[q]]
      /\ torn' = torn \cup {q \in Requests : InFlight(q) /\ Is(q, "createClient")}
  BY DEF Crash
<1>2. pc' = [q \in Requests |-> pc'[q]] BY <1>1
<1>3. ASSUME NEW q \in Requests, InFlight(q)
      PROVE  Goes(pc[q], "failed", call[q].op)
  <2>1. pc[q] \in Pcs \ (Ended \cup {"idle"}) /\ Runs(pc[q], call[q].op) /\ call[q].op \in Kinds
    BY <1>3, AtWork DEF InFlight
  <2>2. call[q].op # "none" BY <2>1 DEF Runs, Ended
  <2> QED BY <2>1, <2>2 DEF Goes, Runs, Pcs, Ended
<1> QED BY <1>1, <1>2, <1>3 DEF Onward, RequestsFit

LEMMA CrashRows ==
    ASSUME RowsInv, Crash
    PROVE  RowsInv'
<1>1. /\ Onward /\ UNCHANGED db
      /\ \A q \in Requests : pc'[q] = IF InFlight(q) THEN "failed" ELSE pc[q]
      /\ torn' = torn \cup {q \in Requests : InFlight(q) /\ Is(q, "createClient")}
  BY CrashOnward DEF RowsInv
<1>2. UsersStay /\ members \subseteq DOMAIN users BY <1>1 DEF db, UsersStay, RowsInv, RolesFit
<1>3. RolesFit' /\ InvitesFit' BY <1>1, <1>2, RolesSame, InvitesSame DEF db
<1>4. TokensFit'
  <2>1. \A t \in DOMAIN tokens : tokens[t] \in Token /\ tokens[t].user \in DOMAIN users
    BY DEF RowsInv, TokensFit
  <2> QED BY <1>1, <2>1, TokensSame DEF db
<1>5. ASSUME NEW q \in Requests
      PROVE  Needs(q, pc[q], pc'[q])
  <2>1. CASE InFlight(q) BY <1>1, <2>1 DEF Needs, WithUser, WithClient, WithStore
  <2>2. CASE ~ InFlight(q) BY <1>1, <2>2 DEF Needs
  <2> QED BY <2>1, <2>2
<1> QED BY <1>1, <1>3, <1>4, <1>5, RowsGo DEF db

LEMMA ExpireOnward ==
    ASSUME RequestsFit, Expire
    PROVE  Onward /\ UNCHANGED pc
  BY DEF RequestsFit, Expire, Onward

LEMMA ExpireRows ==
    ASSUME RowsInv, Expire
    PROVE  RowsInv'
<1>1. Onward /\ UNCHANGED <<clients, templates, members, invites, audited, pc, torn>>
  BY ExpireOnward DEF RowsInv, Expire
<1>2. \A q \in Requests : Needs(q, pc[q], pc'[q]) BY <1>1 DEF Needs
<1>3. ASSUME NEW u \in DOMAIN users, users' = [users EXCEPT ![u].fresh = FALSE], UNCHANGED tokens
      PROVE  RowsInv'
  <2>1. \A v \in DOMAIN users : users[v] \in User /\ users[v].client \in DOMAIN clients
    BY DEF RowsInv, UsersFit, UserFits
  <2>2. /\ DOMAIN users' = DOMAIN users
        /\ \A v \in DOMAIN users :
              users'[v] = users[v] \/ users'[v] = [users[v] EXCEPT !.fresh = FALSE]
    BY <1>3
  <2>3. ASSUME NEW v \in DOMAIN users
        PROVE  /\ users'[v] \in User /\ users'[v].client = users[v].client
               /\ users'[v].email = users[v].email /\ users'[v].otp = users[v].otp
               /\ users'[v].status = users[v].status
    <3>1. CASE users'[v] = users[v] BY <2>1, <3>1
    <3>2. CASE users'[v] = [users[v] EXCEPT !.fresh = FALSE] BY <2>1, <3>2 DEF User
    <3> QED BY <2>2, <3>1, <3>2
  <2>4. UsersFit' BY <1>1, <2>1, <2>2, <2>3, UsersKept DEF Stable
  <2>5. RowsStay BY <1>1, <2>2, <2>3 DEF RowsStay, UsersStay
  <2>6. ClientsFit' BY <1>1, ClientsSame
  <2> QED BY <1>1, <1>2, <1>3, <2>4, <2>5, <2>6, RowsWritten
<1>4. ASSUME NEW t \in DOMAIN tokens, tokens' = [tokens EXCEPT ![t].fresh = FALSE], UNCHANGED users
      PROVE  RowsInv'
  <2>1. \A s \in DOMAIN tokens : tokens[s] \in Token /\ tokens[s].user \in DOMAIN users
    BY DEF RowsInv, TokensFit
  <2>2. /\ DOMAIN tokens' = DOMAIN tokens
        /\ \A s \in DOMAIN tokens :
              tokens'[s] = tokens[s] \/ tokens'[s] = [tokens[s] EXCEPT !.fresh = FALSE]
    BY <1>4
  <2>3. ASSUME NEW s \in DOMAIN tokens
        PROVE  tokens'[s] \in Token /\ tokens'[s].user = tokens[s].user
    <3>1. CASE tokens'[s] = tokens[s] BY <2>1, <3>1
    <3>2. CASE tokens'[s] = [tokens[s] EXCEPT !.fresh = FALSE] BY <2>1, <3>2 DEF Token
    <3> QED BY <2>2, <3>1, <3>2
  <2>4. TokensFit' BY <1>1, <1>4, <2>1, <2>2, <2>3, TokensSame
  <2>5. UsersStay /\ members \subseteq DOMAIN users BY <1>4 DEF UsersStay, RowsInv, RolesFit
  <2>6. RolesFit' /\ InvitesFit' BY <1>1, <2>5, RolesSame, InvitesSame
  <2> QED BY <1>1, <1>2, <1>4, <2>4, <2>6, RowsGo
<1> QED BY <1>3, <1>4 DEF Expire

LEMMA InitRows ==
    ASSUME Init
    PROVE  RowsInv
<1> USE AccountsAssumption
<1>1. /\ pc = [r \in Requests |-> "idle"] /\ call = [r \in Requests |-> NoCall]
      /\ who = [r \in Requests |-> None] /\ mailed = {} /\ templates = {} /\ members = {}
      /\ audited = {} /\ DOMAIN invites = {} /\ DOMAIN tokens = {}
      /\ clients = [c \in {Seed} |-> SeedCompany]
      /\ users = [u \in {Seed} |->
                    [email |-> SeedEmail, client |-> Seed, super |-> TRUE, status |-> "active",
                     otp |-> None, fresh |-> FALSE, verified |-> TRUE, password |-> Seed]]
  BY DEF Init
<1>2. Stable(Seed) BY <1>1 DEF Stable
<1>3. RequestsFit BY <1>1, <1>2 DEF RequestsFit, Pcs, Runs, Asks, Is, Enrols, NoCall, Kinds
<1>4. UsersFit
  <2>1. DOMAIN users = {Seed} /\ users[Seed] \in User /\ Seed \in Ids
        /\ users[Seed].client = Seed /\ users[Seed].otp = None
    BY <1>1 DEF User, Ids
  <2> QED BY <1>1, <2>1 DEF UsersFit, UserFits
<1>5. ClientsFit /\ RolesFit /\ InvitesFit /\ TokensFit
  BY <1>1 DEF ClientsFit, RolesFit, InvitesFit, TokensFit, Ids
<1>6. \A r \in Requests : Did(r, pc[r]) BY <1>1 DEF Did, Enrols, Is, NoCall
<1> QED BY <1>3, <1>4, <1>5, <1>6 DEF RowsInv

LEMMA NextRows ==
    ASSUME RowsInv, [Next]_vars
    PROVE  RowsInv'
<1>1. ASSUME NEW r \in Requests, Receive(r)
      PROVE  RowsInv'
  BY <1>1, ReceiveRows
<1>2. ASSUME NEW r \in Requests, Step(r)
      PROVE  RowsInv'
  BY <1>2, QuietStepRows, RoleRows, TokenRows, InviteRows, CreateClientRows, CreateUserRows,
     WriteUserRows, UndoClientRows, UndoUserRows DEF Step
<1>3. CASE UNCHANGED vars
  BY <1>3 DEF vars, db, RowsInv, RequestsFit, UsersFit, UserFits, ClientsFit, RolesFit,
     InvitesFit, TokensFit, Runs, Asks, Is, Enrols, Stable, Coded, Made, Did
<1> QED BY <1>1, <1>2, <1>3, CrashRows, ExpireRows DEF Next

LEMMA RowsHold == Spec => []RowsInv
<1>1. Init => RowsInv BY InitRows
<1>2. RowsInv /\ [Next]_vars => RowsInv' BY NextRows
<1> QED BY <1>1, <1>2, PTL DEF Spec

----------------------------------------------------------------------------
(* What the rows show *)

\* Rows have their types, and no row refers to one that is gone, whatever is
\* undone: the users, clients, invitations and tokens of AuthService.
THEOREM TypesHold == Spec => []TypeOK
<1>1. RowsInv => TypeOK
  <2> SUFFICES ASSUME RowsInv
               PROVE  TypeOK
    OBVIOUS
  <2>1. \A u \in DOMAIN users : u \in Ids /\ users[u] \in User /\ users[u].client \in DOMAIN clients
    BY DEF RowsInv, UsersFit, UserFits
  <2>2. \A c \in DOMAIN clients : c \in Ids /\ clients[c] \in Companies
    BY DEF RowsInv, ClientsFit
  <2>3. /\ templates \subseteq Template /\ members \cup audited \subseteq DOMAIN users
        /\ \A t \in templates : t.creator \in DOMAIN users /\ t.client = users[t.creator].client
    BY DEF RowsInv, RolesFit
  <2>4. \A i \in DOMAIN invites :
           i \in Requests /\ invites[i] \in Invite /\ invites[i].by \in DOMAIN users
    BY DEF RowsInv, InvitesFit
  <2>5. \A t \in DOMAIN tokens :
           t \in Requests /\ tokens[t] \in Token /\ tokens[t].user \in DOMAIN users
    BY DEF RowsInv, TokensFit
  <2>6. pc \in [Requests -> Pcs] /\ mailed \subseteq Requests BY DEF RowsInv, RequestsFit
  <2> QED BY <2>1, <2>2, <2>3, <2>4, <2>5, <2>6 DEF TypeOK
<1> QED BY <1>1, RowsHold, PTL

\* The creation of a client leaves both the client and its user or neither, unless
\* the process died or could not undo (createClientWithSuperAdmin).
THEOREM ClientAndUserTogetherHolds == Spec => []ClientAndUserTogether
<1>1. RowsInv => ClientAndUserTogether
  <2> SUFFICES ASSUME RowsInv, NEW r \in Requests \ torn, Is(r, "createClient"), pc[r] \in Ended
               PROVE  r \in DOMAIN clients <=> r \in DOMAIN users
    BY DEF ClientAndUserTogether
  <2>1. Runs(pc[r], call[r].op) /\ Did(r, pc[r]) BY AtWork DEF RowsInv
  <2>2. pc[r] \in {"ok", "failed"} BY <2>1 DEF Runs, Ended, Is
  <2> QED BY <2>1, <2>2 DEF Did, Is, Enrols
<1> QED BY <1>1, RowsHold, PTL

----------------------------------------------------------------------------
(* Offers and proofs that met *)

\* Invitations and tokens are closed, or made by a request at the statement for it.
OffersGo ==
    /\ \A i \in DOMAIN invites' :
          \/ i \in DOMAIN invites /\ (invites'[i].status = "pending" => invites'[i] = invites[i])
          \/ i \in Requests /\ pc[i] = "invite" /\ invites'[i].by = who[i] /\ invites'[i].email = call[i].email
    /\ \A t \in DOMAIN tokens' :
          \/ t \in DOMAIN tokens /\ tokens'[t].user = tokens[t].user /\ (tokens'[t].open => tokens[t].open)
          \/ t \in Requests /\ pc[t] = "token" /\ tokens'[t].user = who[t]
    /\ \A q \in Requests :
          pc'[q] = "token" =>
             pc[q] = "token" \/ \A t \in DOMAIN tokens' : tokens'[t].user = who[q] => ~ tokens'[t].open

\* Codes are voided, or written by the request whose code it is; a user is verified
\* by a request at the statement for it.
CodesGo ==
    \A u \in DOMAIN users' :
       /\ \/ u \in DOMAIN users /\ users'[u].otp = users[u].otp
          \/ users'[u].otp = None
          \/ pc[users'[u].otp] \in {"user", "renew"}
       /\ users'[u].verified => \/ u \in DOMAIN users /\ users[u].verified
                                \/ \E q \in Requests : pc[q] = "use"

ProofsGo ==
    \A q \in Requests :
       call[q].op \in {"verify", "reset"} /\ pc'[q] \in {"audit", "ok"} =>
          pc[q] \in {"audit", "ok"} \/ Void(q)'

\* Requests that are in flight after a step were so before and have met.
LEMMA Meeting ==
    ASSUME RowsInv, MeetInv, Onward
    PROVE  /\ call' = call /\ who' = who /\ raced' = raced
           /\ \A q, r \in Requests : q # r /\ InFlight(q) /\ InFlight(r) => {q, r} \in raced
           /\ \A q, r \in Requests : q # r /\ InFlight(q)' /\ InFlight(r)' => {q, r} \in raced
<1>1. call' = call /\ who' = who /\ raced' = raced BY DEF Onward
<1>2. \A q \in Requests : InFlight(q)' => InFlight(q) BY Moves DEF InFlight, RowsInv
<1>3. \A q, r \in Requests : q # r /\ InFlight(q) /\ InFlight(r) => {q, r} \in raced
  BY DEF MeetInv, Together
<1> QED BY <1>1, <1>2, <1>3

LEMMA OffersStayMet ==
    ASSUME RowsInv, RowsInv', MeetInv, Onward, OffersGo
    PROVE  OffersMet'
<1>1. /\ call' = call /\ who' = who /\ raced' = raced
      /\ \A q, r \in Requests : q # r /\ InFlight(q) /\ InFlight(r) => {q, r} \in raced
  BY Meeting
<1>2. \A q \in Requests : pc[q] \in {"invite", "token"} => InFlight(q) BY DEF InFlight, Ended
<1>3. \A q \in Requests : pc'[q] = "invite" => pc[q] = "invite" BY Moves DEF RowsInv
<1>4. \A i \in DOMAIN invites : i \in Requests /\ pc[i] # "invite" BY DEF RowsInv, InvitesFit
<1>5. \A t \in DOMAIN tokens : t \in Requests /\ pc[t] # "token"
  BY DEF RowsInv, TokensFit, Made
<1>6. /\ \A i, j \in DOMAIN invites :
           (/\ i # j /\ invites[i].status = "pending" /\ invites[j].status = "pending"
            /\ invites[i].by = invites[j].by /\ invites[i].email = invites[j].email)
           => {i, j} \in raced
      /\ \A r \in Requests, i \in DOMAIN invites :
           (/\ pc[r] = "invite" /\ invites[i].status = "pending"
            /\ invites[i].by = who[r] /\ invites[i].email = call[r].email)
           => {i, r} \in raced
      /\ \A s, t \in DOMAIN tokens :
           (s # t /\ tokens[s].open /\ tokens[t].open /\ tokens[s].user = tokens[t].user)
           => {s, t} \in raced
      /\ \A r \in Requests, t \in DOMAIN tokens :
           (pc[r] = "token" /\ tokens[t].open /\ tokens[t].user = who[r]) => {t, r} \in raced
  <2>1. \A i \in DOMAIN invites : invites[i].by \in Ids /\ invites[i].email \in Emails
    BY DEF RowsInv, InvitesFit, Invite
  <2>2. \A t \in DOMAIN tokens : tokens[t].user \in Ids BY DEF RowsInv, TokensFit, Token
  <2> QED BY <2>1, <2>2 DEF MeetInv, OffersMet, Pending, Opened, Together
<1>7. ASSUME NEW i \in DOMAIN invites', NEW j \in DOMAIN invites', i # j,
             invites'[i].status = "pending", invites'[j].status = "pending",
             invites'[i].by = invites'[j].by, invites'[i].email = invites'[j].email
      PROVE  {i, j} \in raced
  <2>1. CASE i \in DOMAIN invites /\ j \in DOMAIN invites
    BY <1>4, <1>6, <1>7, <2>1 DEF OffersGo
  <2>2. CASE i \in DOMAIN invites /\ j \notin DOMAIN invites
    BY <1>4, <1>6, <1>7, <2>2 DEF OffersGo
  <2>3. CASE i \notin DOMAIN invites /\ j \in DOMAIN invites
    <3>1. {j, i} \in raced BY <1>4, <1>6, <1>7, <2>3 DEF OffersGo
    <3> QED BY <3>1
  <2>4. CASE i \notin DOMAIN invites /\ j \notin DOMAIN invites
    BY <1>1, <1>2, <1>7, <2>4 DEF OffersGo
  <2> QED BY <2>1, <2>2, <2>3, <2>4
<1>8. ASSUME NEW r \in Requests, NEW i \in DOMAIN invites', pc'[r] = "invite",
             invites'[i].status = "pending", invites'[i].by = who[r], invites'[i].email = call[r].email
      PROVE  {i, r} \in raced
  <2>1. pc[r] = "invite" /\ InFlight(r) BY <1>2, <1>3, <1>8
  <2>2. CASE i \in DOMAIN invites /\ invites'[i] = invites[i] BY <1>6, <1>8, <2>1, <2>2
  <2>3. CASE i \in Requests /\ pc[i] = "invite"
    <3>1. pc'[i] # "invite" BY <1>8 DEF RowsInv, InvitesFit
    <3> QED BY <1>1, <1>2, <1>8, <2>1, <2>3, <3>1
  <2> QED BY <1>8, <2>2, <2>3 DEF OffersGo
<1>9. ASSUME NEW s \in DOMAIN tokens', NEW t \in DOMAIN tokens', s # t,
             tokens'[s].open, tokens'[t].open, tokens'[s].user = tokens'[t].user
      PROVE  {s, t} \in raced
  <2>1. CASE s \in DOMAIN tokens /\ t \in DOMAIN tokens BY <1>5, <1>6, <1>9, <2>1 DEF OffersGo
  <2>2. CASE s \in DOMAIN tokens /\ t \notin DOMAIN tokens
    BY <1>5, <1>6, <1>9, <2>2 DEF OffersGo
  <2>3. CASE s \notin DOMAIN tokens /\ t \in DOMAIN tokens
    <3>1. {t, s} \in raced BY <1>5, <1>6, <1>9, <2>3 DEF OffersGo
    <3> QED BY <3>1
  <2>4. CASE s \notin DOMAIN tokens /\ t \notin DOMAIN tokens
    BY <1>1, <1>2, <1>9, <2>4 DEF OffersGo
  <2> QED BY <2>1, <2>2, <2>3, <2>4
<1>10. ASSUME NEW r \in Requests, NEW t \in DOMAIN tokens', pc'[r] = "token",
              tokens'[t].open, tokens'[t].user = who[r]
       PROVE  {t, r} \in raced
  <2>1. pc[r] = "token" /\ InFlight(r) BY <1>2, <1>10 DEF OffersGo
  <2>2. CASE t \in DOMAIN tokens /\ tokens'[t].user = tokens[t].user /\ tokens[t].open
    BY <1>6, <1>10, <2>1, <2>2
  <2>3. CASE t \in Requests /\ pc[t] = "token"
    <3>1. pc'[t] # "token" BY <1>10 DEF RowsInv, TokensFit, Made
    <3> QED BY <1>1, <1>2, <1>10, <2>1, <2>3, <3>1
  <2> QED BY <1>10, <2>2, <2>3 DEF OffersGo
<1> QED BY <1>1, <1>7, <1>8, <1>9, <1>10 DEF OffersMet, Pending, Opened, Together

LEMMA ProofsStayMet ==
    ASSUME RowsInv, MeetInv, Onward, OffersGo, CodesGo, ProofsGo
    PROVE  ProofsMet'
<1>1. call' = call /\ who' = who /\ raced' = raced BY Meeting
<1>2. ASSUME NEW q \in Requests
      PROVE  Void(q)'
  <2>1. CASE pc'[q] \notin {"audit", "ok"} BY <2>1 DEF Void
  <2>2. CASE pc[q] \in {"audit", "ok"}
    <3>1. Void(q) /\ Asks(q) BY AtWork DEF RowsInv, MeetInv, ProofsMet
    <3>2. ASSUME call[q].op = "verify", who[q] \in DOMAIN users'
          PROVE  users'[who[q]].otp # call[q].otp
      <4>1. /\ call[q].otp \in Requests /\ call[q].otp # None
            /\ pc[call[q].otp] \notin {"user", "renew"}
        BY <3>1, <3>2, AccountsAssumption DEF Asks, Is, Coded
      <4>2. who[q] \in DOMAIN users => users[who[q]].otp # call[q].otp
        BY <2>2, <3>1, <3>2 DEF Void, Is
      <4> QED BY <3>2, <4>1, <4>2 DEF CodesGo
    <3>3. ASSUME call[q].op = "reset", call[q].token \in DOMAIN tokens'
          PROVE  ~ tokens'[call[q].token].open
      <4>1. pc[call[q].token] # "token" BY <3>1, <3>3 DEF Asks, Is, Made
      <4>2. call[q].token \in DOMAIN tokens => ~ tokens[call[q].token].open
        BY <2>2, <3>1, <3>3 DEF Void, Is
      <4> QED BY <3>3, <4>1, <4>2 DEF OffersGo
    <3> QED BY <1>1, <3>2, <3>3 DEF Void, Is
  <2>3. CASE pc'[q] \in {"audit", "ok"} /\ pc[q] \notin {"audit", "ok"}
    <3>1. CASE call[q].op \in {"verify", "reset"} BY <2>3, <3>1 DEF ProofsGo
    <3>2. CASE call[q].op \notin {"verify", "reset"} BY <1>1, <3>2 DEF Void, Is
    <3> QED BY <3>1, <3>2
  <2> QED BY <2>1, <2>2, <2>3
<1>3. ASSUME NEW q \in Requests, NEW r \in Requests, SameProof(q, r)'
      PROVE  {q, r} \in raced
  <2>1. \A x \in Requests : pc'[x] # "failed" => pc[x] # "failed" BY Moves DEF RowsInv, Ended
  <2>2. SameProof(q, r) BY <1>1, <1>3, <2>1 DEF SameProof, Proof, Is
  <2> QED BY <2>2 DEF MeetInv, ProofsMet, Together
<1> QED BY <1>1, <1>2, <1>3 DEF ProofsMet, Together

LEMMA RenewalsStayMet ==
    ASSUME RowsInv, MeetInv, Onward, CodesGo
    PROVE  RenewalsMet'
<1>1. /\ call' = call /\ who' = who /\ raced' = raced
      /\ \A q, r \in Requests : q # r /\ InFlight(q) /\ InFlight(r) => {q, r} \in raced
  BY Meeting
<1>2. ASSUME NEW r \in Requests, pc'[r] = "renew", who[r] \in DOMAIN users', users'[who[r]].verified
      PROVE  \E q \in Requests : call[q].op = "verify" /\ {q, r} \in raced
  <2>1. pc[r] = "renew" BY <1>2, Moves DEF RowsInv
  <2>2. CASE who[r] \in DOMAIN users /\ users[who[r]].verified
    BY <2>1, <2>2 DEF MeetInv, RenewalsMet, Is, Together
  <2>3. CASE \E q \in Requests : pc[q] = "use"
    <3>1. PICK q \in Requests : pc[q] = "use" BY <2>3
    <3>2. call[q].op = "verify" BY <3>1, AtWork DEF Runs, RowsInv
    <3>3. q # r /\ InFlight(q) /\ InFlight(r) BY <2>1, <3>1 DEF InFlight, Ended
    <3> QED BY <1>1, <3>2, <3>3
  <2> QED BY <1>2, <2>2, <2>3 DEF CodesGo
<1> QED BY <1>1, <1>2 DEF RenewalsMet, Is, Together

LEMMA MeetKept ==
    ASSUME RowsInv, RowsInv', MeetInv, Onward, OffersGo, CodesGo, ProofsGo
    PROVE  MeetInv'
<1>1. \A q, r \in Requests : q # r /\ InFlight(q)' /\ InFlight(r)' => Together(q, r)'
  BY Meeting DEF Together
<1>2. \A q, r \in Requests : (q # r /\ InFlight(q) /\ InFlight(r) => Together(q, r))' BY <1>1
<1> QED BY <1>2, OffersStayMet, ProofsStayMet, RenewalsStayMet DEF MeetInv

\* A request goes to p: the others stay where they are.
LEMMA OneGoes ==
    ASSUME RowsInv, NEW r \in Requests, NEW p, Goto(r, p), Onward,
           p = "token" => \A t \in DOMAIN tokens' : tokens'[t].user = who[r] => ~ tokens'[t].open,
           call[r].op \in {"verify", "reset"} /\ p \in {"audit", "ok"} => pc[r] = "audit" \/ Void(r)'
    PROVE  /\ ProofsGo
           /\ \A q \in Requests :
                pc'[q] = "token" =>
                   pc[q] = "token" \/ \A t \in DOMAIN tokens' : tokens'[t].user = who[q] => ~ tokens'[t].open
<1>1. /\ pc'[r] = p
      /\ \A q \in Requests \ {r} : pc'[q] = pc[q]
  BY DEF Goto, RowsInv, RequestsFit
<1> QED BY <1>1 DEF ProofsGo

\* Where a throw takes a request that uses a proof.
LEMMA FailureVoids ==
    ASSUME RowsInv, NEW r \in Requests, InFlight(r)
    PROVE  /\ Failure(r) # "token"
           /\ call[r].op \in {"verify", "reset"} => Failure(r) = "failed"
<1>1. RequestsFit /\ Runs(pc[r], call[r].op) BY AtWork DEF RowsInv
<1>2. Goes(pc[r], Failure(r), call[r].op) BY <1>1, FailureGoes
<1>3. call[r].op \in {"verify", "reset"} => Failure(r) = "failed"
  <2>1. call[r].op \in {"verify", "reset"} => /\ ~ Is(r, "forgot") /\ ~ Is(r, "createClient")
                                               /\ pc[r] \notin {"perms", "templates"}
    BY <1>1 DEF Runs, Is
  <2> QED BY <1>1, <2>1, FailureIs
<1>4. Failure(r) # "token"
  <2>1. CASE Is(r, "forgot") BY <1>1, <2>1, FailureIs
  <2>2. CASE ~ Is(r, "forgot") BY <1>2, <2>2 DEF Goes, Runs, Is
  <2> QED BY <2>1, <2>2
<1> QED BY <1>3, <1>4

LEMMA SameOffers ==
    ASSUME RowsInv, UNCHANGED <<invites, tokens>>,
           \A q \in Requests :
              pc'[q] = "token" =>
                 pc[q] = "token" \/ \A t \in DOMAIN tokens' : tokens'[t].user = who[q] => ~ tokens'[t].open
    PROVE  OffersGo
  BY DEF OffersGo

LEMMA SameCodes ==
    ASSUME UNCHANGED users
    PROVE  CodesGo
  BY DEF CodesGo

\* Steps that write no user, invitation or token.
LEMMA QuietMeet ==
    ASSUME RowsInv, RowsInv', MeetInv, NEW r \in Requests,
           \/ CreateClient(r) \/ CreateClientThrows(r) \/ CreateUserThrows(r) \/ UserIsGone(r)
           \/ FindRole(r) \/ MakeTemplate(r) \/ Mail(r) \/ MailFails(r) \/ Audit(r) \/ AddMember(r)
           \/ UndoClient(r) \/ NoConnection(r)
    PROVE  MeetInv'
<1>1. /\ RequestsFit /\ Runs(pc[r], call[r].op) /\ Onward /\ InFlight(r)
      /\ pc \in [Requests -> Pcs]
  BY AtWork, StepOnward DEF RowsInv, Step, RequestsFit
<1>2. UNCHANGED <<users, invites, tokens>>
  BY DEF CreateClient, CreateClientThrows, CreateUserThrows, UserIsGone, Throws, FindRole,
     MakeTemplate, Mail, MailFails, Audit, AddMember, UndoClient, NoConnection, db
<1>3. CASE Goto(r, Failure(r))
  BY <1>1, <1>2, <1>3, FailureVoids, OneGoes, SameOffers, SameCodes, MeetKept
<1>4. CASE Audit(r) BY <1>1, <1>2, <1>4, OneGoes, SameOffers, SameCodes, MeetKept DEF Audit
<1>5. CASE ~ Goto(r, Failure(r)) /\ ~ Audit(r)
  <2>1. pc[r] \in {"client", "perms", "templates", "mail", "store", "undoUser", "undoClient"}
    BY <1>5 DEF CreateClient, CreateClientThrows, CreateUserThrows, UserIsGone, Throws, FindRole,
       MakeTemplate, Mail, MailFails, AddMember, UndoClient, NoConnection
  <2>2. call[r].op \notin {"verify", "reset"} BY <1>1, <2>1 DEF Runs
  <2>3. /\ pc'[r] # "token"
        /\ Goto(r, pc'[r])
    <3>1. pc'[r] = pc[r] \/ Goes(pc[r], pc'[r], call[r].op) BY <1>1 DEF Onward
    <3>2. pc'[r] # "token" BY <2>1, <3>1 DEF Goes
    <3>3. \/ UNCHANGED pc
          \/ \E p : Goto(r, p)
      BY <1>5 DEF CreateClient, CreateClientThrows, CreateUserThrows, UserIsGone, Throws, FindRole,
         MakeTemplate, Mail, MailFails, AddMember, UndoClient, NoConnection
    <3>4. Goto(r, pc'[r]) BY <1>1, <3>3 DEF Goto
    <3> QED BY <3>2, <3>4
  <2>4. ProofsGo /\ OffersGo BY <1>1, <1>2, <2>2, <2>3, OneGoes, SameOffers
  <2> QED BY <1>1, <1>2, <2>4, SameCodes, MeetKept
<1> QED BY <1>3, <1>4, <1>5

\* Steps that write users.
LEMMA UserMeet ==
    ASSUME RowsInv, RowsInv', MeetInv, NEW r \in Requests, CreateUser(r) \/ Activate(r) \/ WriteUser(r)
    PROVE  MeetInv'
<1>1. /\ RequestsFit /\ Runs(pc[r], call[r].op) /\ Asks(r) /\ Onward /\ InFlight(r)
  BY AtWork, StepOnward DEF RowsInv, Step
<1>2. UNCHANGED <<invites, tokens, call, who>> BY DEF CreateUser, Activate, WriteUser
<1>3. CASE CreateUser(r)
  <2>1. /\ pc[r] = "user" /\ Goto(r, AfterUser(r)) /\ users' = Put(users, r, NewUser(r))
    BY <1>3 DEF CreateUser
  <2>2. /\ call[r].op \notin {"verify", "reset"} /\ AfterUser(r) # "token"
    BY <1>1, <2>1 DEF Runs, AfterUser, Is
  <2>3. NewUser(r).otp \in {r, None} /\ NewUser(r).verified = FALSE BY DEF NewUser
  <2>4. CodesGo BY <2>1, <2>3 DEF CodesGo, Put
  <2> QED BY <1>1, <1>2, <2>1, <2>2, <2>4, OneGoes, SameOffers, MeetKept
<1>4. CASE Activate(r)
  <2>1. /\ pc[r] = "activate" /\ Goto(r, "ok") /\ users' = [users EXCEPT ![r].status = "active"]
    BY <1>4 DEF Activate
  <2>2. call[r].op \notin {"verify", "reset"} BY <1>1, <2>1 DEF Runs
  <2>3. CodesGo
    <3>1. \A u \in DOMAIN users : users[u] \in User BY DEF RowsInv, UsersFit, UserFits
    <3>2. /\ DOMAIN users' = DOMAIN users
          /\ \A u \in DOMAIN users :
                users'[u] = users[u] \/ users'[u] = [users[u] EXCEPT !.status = "active"]
      BY <2>1
    <3>3. \A u \in DOMAIN users : users'[u].otp = users[u].otp /\ users'[u].verified = users[u].verified
      BY <3>1, <3>2 DEF User
    <3> QED BY <3>2, <3>3 DEF CodesGo
  <2> QED BY <1>1, <1>2, <2>1, <2>2, <2>3, OneGoes, SameOffers, MeetKept
<1>5. CASE WriteUser(r)
  <2> DEFINE e == who[r]
             x == users[e]
  <2>1. /\ pc[r] \in {"use", "renew", "password"} /\ e \in DOMAIN users
        /\ pc[r] = "use" => users' = [users EXCEPT ![e] = Used(x)]
        /\ pc[r] = "renew" => users' = [users EXCEPT ![e] = Renewed(x, r)]
        /\ pc[r] = "password" => users' = [users EXCEPT ![e] = Resets(x, r)]
    BY <1>5 DEF WriteUser, UpdatesUser, Used, Renewed, Resets
  <2>2. x \in User /\ r \in Ids BY <2>1 DEF RowsInv, UsersFit, UserFits, Ids
  <2>3. /\ Used(x).otp = None /\ Used(x).verified = TRUE
        /\ Renewed(x, r).otp = r /\ Renewed(x, r).verified = FALSE
        /\ Resets(x, r).otp = x.otp /\ Resets(x, r).verified = x.verified
    BY <2>2, WrittenCodes
  <2>4. CodesGo
    <3>1. /\ DOMAIN users' = DOMAIN users
          /\ \A u \in (DOMAIN users) \ {e} : users'[u] = users[u]
          /\ pc[r] = "use" => users'[e] = Used(x)
          /\ pc[r] = "renew" => users'[e] = Renewed(x, r)
          /\ pc[r] = "password" => users'[e] = Resets(x, r)
      BY <2>1
    <3>2. /\ \/ users'[e].otp = users[e].otp
             \/ users'[e].otp = None
             \/ users'[e].otp = r /\ pc[r] = "renew"
          /\ users'[e].verified => users[e].verified \/ pc[r] = "use"
      BY <2>1, <2>3, <3>1
    <3> QED BY <2>1, <3>1, <3>2 DEF CodesGo
  <2>5. PICK p : Goto(r, p) /\ p \in {"mail", "spend", "audit"} /\ (call[r].op = "reset" => p = "spend")
    <3>1. call[r].op \in {"verify", "resend", "reset", "change"} BY <1>1, <2>1 DEF Runs
    <3> QED BY <1>5, <3>1 DEF WriteUser, Is
  <2>6. call[r].op = "verify" => Void(r)'
    <3> SUFFICES ASSUME call[r].op = "verify"
                 PROVE  users'[e].otp # call[r].otp
      BY <1>2 DEF Void, Is
    <3>1. pc[r] = "use" BY <1>1, <2>1 DEF Runs
    <3>2. users'[e] = Used(x) BY <2>1, <3>1
    <3>3. call[r].otp \in Requests BY <1>1 DEF Asks, Is
    <3> QED BY <2>3, <3>2, <3>3, AccountsAssumption
  <2>7. ProofsGo /\ OffersGo BY <1>1, <1>2, <2>5, <2>6, OneGoes, SameOffers
  <2> QED BY <1>1, <2>4, <2>7, MeetKept
<1> QED BY <1>3, <1>4, <1>5

\* Steps that write invitations or tokens, or take a user back.
LEMMA OfferMeet ==
    ASSUME RowsInv, RowsInv', MeetInv, NEW r \in Requests,
           \/ VoidTokens(r) \/ CreateToken(r) \/ SpendToken(r) \/ UndoUser(r)
           \/ CreateInvite(r) \/ DeleteInvite(r) \/ CloseInvite(r)
    PROVE  MeetInv'
<1>1. /\ RequestsFit /\ Runs(pc[r], call[r].op) /\ Asks(r) /\ Onward /\ InFlight(r)
  BY AtWork, StepOnward DEF RowsInv, Step
<1>2. \A t \in DOMAIN tokens : tokens[t] \in Token BY DEF RowsInv, TokensFit
<1>3. UNCHANGED <<call, who>> BY <1>1 DEF Onward
<1>4. CASE VoidTokens(r)
  <2>1. /\ pc[r] = "void" /\ Goto(r, "token") /\ UNCHANGED <<users, invites>>
        /\ DOMAIN tokens' = DOMAIN tokens
        /\ \A t \in DOMAIN tokens :
              tokens'[t] = [tokens[t] EXCEPT !.open = tokens[t].open /\ tokens[t].user # who[r]]
    BY <1>4 DEF VoidTokens
  <2>2. ASSUME NEW t \in DOMAIN tokens
        PROVE  /\ tokens'[t].user = tokens[t].user
               /\ tokens'[t].open => tokens[t].open /\ tokens[t].user # who[r]
    <3>1. tokens[t] \in [user : Ids, open : BOOLEAN, fresh : BOOLEAN] BY <1>2 DEF Token
    <3>2. \A b : /\ [tokens[t] EXCEPT !.open = b].user = tokens[t].user
                 /\ [tokens[t] EXCEPT !.open = b].open = b
      BY <3>1
    <3>3. PICK b : b = (tokens[t].open /\ tokens[t].user # who[r]) OBVIOUS
    <3>4. tokens'[t] = [tokens[t] EXCEPT !.open = b] BY <2>1, <3>3
    <3>5. tokens'[t].user = tokens[t].user /\ tokens'[t].open = b BY <3>2, <3>4
    <3> QED BY <3>3, <3>5
  <2>3. \A t \in DOMAIN tokens' : tokens'[t].user = who[r] => ~ tokens'[t].open BY <2>1, <2>2
  <2>4. /\ ProofsGo
        /\ \A q \in Requests :
              pc'[q] = "token" =>
                 pc[q] = "token" \/ \A t \in DOMAIN tokens' : tokens'[t].user = who[q] => ~ tokens'[t].open
    BY <1>1, <2>1, <2>3, OneGoes
  <2>5. OffersGo BY <2>1, <2>2, <2>4 DEF OffersGo
  <2> QED BY <1>1, <2>1, <2>4, <2>5, SameCodes, MeetKept
<1>5. CASE CreateToken(r)
  <2>1. /\ pc[r] = "token" /\ Goto(r, "mail") /\ UNCHANGED <<users, invites>>
        /\ tokens' = Put(tokens, r, [user |-> who[r], open |-> TRUE, fresh |-> TRUE])
    BY <1>5 DEF CreateToken
  <2>2. /\ ProofsGo
        /\ \A q \in Requests :
              pc'[q] = "token" =>
                 pc[q] = "token" \/ \A t \in DOMAIN tokens' : tokens'[t].user = who[q] => ~ tokens'[t].open
    BY <1>1, <2>1, OneGoes
  <2>3. /\ DOMAIN tokens' = (DOMAIN tokens) \cup {r} /\ tokens'[r].user = who[r]
        /\ \A t \in (DOMAIN tokens) \ {r} : tokens'[t] = tokens[t]
    BY <2>1 DEF Put
  <2>4. OffersGo BY <2>1, <2>2, <2>3 DEF OffersGo
  <2> QED BY <1>1, <2>1, <2>2, <2>4, SameCodes, MeetKept
<1>6. CASE SpendToken(r)
  <2>1. pc[r] = "spend" /\ UNCHANGED <<users, invites>> BY <1>6 DEF SpendToken
  <2>2. CASE call[r].token \notin DOMAIN tokens
    <3>1. Goto(r, Failure(r)) /\ UNCHANGED tokens BY <1>6, <2>2 DEF SpendToken
    <3> QED BY <1>1, <2>1, <3>1, FailureVoids, OneGoes, SameOffers, SameCodes, MeetKept
  <2>3. CASE call[r].token \in DOMAIN tokens
    <3> DEFINE k == call[r].token
    <3>1. Goto(r, "audit") /\ tokens' = [tokens EXCEPT ![k].open = FALSE]
      BY <1>6, <2>3 DEF SpendToken
    <3>2. /\ DOMAIN tokens' = DOMAIN tokens /\ tokens'[k] = [tokens[k] EXCEPT !.open = FALSE]
          /\ \A t \in (DOMAIN tokens) \ {k} : tokens'[t] = tokens[t]
      BY <2>3, <3>1
    <3>3. tokens'[k].user = tokens[k].user /\ tokens'[k].open = FALSE
      BY <1>2, <2>3, <3>2 DEF Token
    <3>4. Void(r)'
      <4>1. call[r].op = "reset" BY <1>1, <2>1 DEF Runs
      <4> QED BY <1>3, <3>3, <4>1 DEF Void, Is
    <3>5. /\ ProofsGo
          /\ \A q \in Requests :
              pc'[q] = "token" =>
                 pc[q] = "token" \/ \A t \in DOMAIN tokens' : tokens'[t].user = who[q] => ~ tokens'[t].open
      BY <1>1, <3>1, <3>4, OneGoes
    <3>6. OffersGo BY <2>1, <3>2, <3>3, <3>5 DEF OffersGo
    <3> QED BY <1>1, <2>1, <3>5, <3>6, SameCodes, MeetKept
  <2> QED BY <2>2, <2>3
<1>7. CASE UndoUser(r)
  <2>1. /\ pc[r] = "undoUser" /\ Goto(r, "undoClient") /\ UNCHANGED invites
        /\ \A t \in DOMAIN tokens' : t \in DOMAIN tokens /\ tokens'[t] = tokens[t]
        /\ \A u \in DOMAIN users' : u \in DOMAIN users /\ users'[u] = users[u]
    BY <1>7 DEF UndoUser, DeleteUser, Drop
  <2>2. /\ ProofsGo
        /\ \A q \in Requests :
              pc'[q] = "token" =>
                 pc[q] = "token" \/ \A t \in DOMAIN tokens' : tokens'[t].user = who[q] => ~ tokens'[t].open
    BY <1>1, <2>1, OneGoes
  <2>3. OffersGo /\ CodesGo BY <2>1, <2>2 DEF OffersGo, CodesGo
  <2> QED BY <1>1, <2>2, <2>3, MeetKept
<1>8. CASE CreateInvite(r)
  <2>1. /\ pc[r] = "invite" /\ Goto(r, "mail") /\ UNCHANGED <<users, tokens>>
        /\ invites' = Put(invites, r, [email |-> call[r].email, by |-> who[r], status |-> "pending"])
    BY <1>8 DEF CreateInvite
  <2>2. /\ ProofsGo
        /\ \A q \in Requests :
              pc'[q] = "token" =>
                 pc[q] = "token" \/ \A t \in DOMAIN tokens' : tokens'[t].user = who[q] => ~ tokens'[t].open
    BY <1>1, <2>1, OneGoes
  <2>3. /\ DOMAIN invites' = (DOMAIN invites) \cup {r}
        /\ invites'[r].by = who[r] /\ invites'[r].email = call[r].email
        /\ \A i \in (DOMAIN invites) \ {r} : invites'[i] = invites[i]
    BY <2>1 DEF Put
  <2>4. OffersGo BY <2>1, <2>2, <2>3 DEF OffersGo
  <2> QED BY <1>1, <2>1, <2>2, <2>4, SameCodes, MeetKept
<1>9. CASE DeleteInvite(r)
  <2>1. /\ Goto(r, "failed") /\ UNCHANGED <<users, tokens>>
        /\ \A i \in DOMAIN invites' : i \in DOMAIN invites /\ invites'[i] = invites[i]
    BY <1>9 DEF DeleteInvite, Drop
  <2>2. /\ ProofsGo
        /\ \A q \in Requests :
              pc'[q] = "token" =>
                 pc[q] = "token" \/ \A t \in DOMAIN tokens' : tokens'[t].user = who[q] => ~ tokens'[t].open
    BY <1>1, <2>1, OneGoes
  <2>3. OffersGo BY <2>1, <2>2 DEF OffersGo
  <2> QED BY <1>1, <2>1, <2>2, <2>3, SameCodes, MeetKept
<1>10. CASE CloseInvite(r)
  <2>1. pc[r] = "close" /\ UNCHANGED <<users, tokens>> BY <1>10 DEF CloseInvite
  <2>2. call[r].op = "accept" BY <1>1, <2>1 DEF Runs
  <2>3. PICK p : Goto(r, p) /\ p \in {"audit", Failure(r)} BY <1>10 DEF CloseInvite
  <2>4. p # "token" BY <1>1, <2>3, FailureVoids
  <2>5. /\ ProofsGo
        /\ \A q \in Requests :
              pc'[q] = "token" =>
                 pc[q] = "token" \/ \A t \in DOMAIN tokens' : tokens'[t].user = who[q] => ~ tokens'[t].open
    BY <1>1, <2>2, <2>3, <2>4, OneGoes
  <2>6. \A i \in DOMAIN invites' : /\ i \in DOMAIN invites
                                   /\ invites'[i].status = "pending" => invites'[i] = invites[i]
    <3>1. CASE UNCHANGED invites BY <3>1
    <3>2. CASE ~ UNCHANGED invites
      <4> DEFINE k == call[r].invite
      <4>1. k \in DOMAIN invites /\ invites' = [invites EXCEPT ![k].status = "active"]
        BY <1>10, <3>2 DEF CloseInvite
      <4>2. /\ DOMAIN invites' = DOMAIN invites
            /\ invites'[k] = [invites[k] EXCEPT !.status = "active"]
            /\ \A i \in (DOMAIN invites) \ {k} : invites'[i] = invites[i]
        BY <4>1
      <4>3. invites[k] \in Invite BY <4>1 DEF RowsInv, InvitesFit
      <4>4. invites'[k].status = "active" BY <4>2, <4>3 DEF Invite
      <4> QED BY <4>2, <4>4
    <3> QED BY <3>1, <3>2
  <2>7. OffersGo BY <2>1, <2>5, <2>6 DEF OffersGo
  <2> QED BY <1>1, <2>1, <2>5, <2>7, SameCodes, MeetKept
<1> QED BY <1>4, <1>5, <1>6, <1>7, <1>8, <1>9, <1>10

LEMMA CrashMeet ==
    ASSUME RowsInv, RowsInv', MeetInv, Crash
    PROVE  MeetInv'
<1>1. /\ Onward /\ UNCHANGED <<users, invites, tokens>>
      /\ \A q \in Requests : pc'[q] = IF InFlight(q) THEN "failed" ELSE pc[q]
  BY CrashOnward DEF RowsInv, db
<1>2. ProofsGo /\ OffersGo BY <1>1 DEF ProofsGo, OffersGo
<1> QED BY <1>1, <1>2, SameCodes, MeetKept

LEMMA ExpireMeet ==
    ASSUME RowsInv, RowsInv', MeetInv, Expire
    PROVE  MeetInv'
<1>1. Onward /\ UNCHANGED <<pc, invites>> BY ExpireOnward DEF RowsInv, Expire
<1>2. ProofsGo BY <1>1 DEF ProofsGo
<1>3. ASSUME NEW u \in DOMAIN users, users' = [users EXCEPT ![u].fresh = FALSE], UNCHANGED tokens
      PROVE  MeetInv'
  <2>1. /\ DOMAIN users' = DOMAIN users
        /\ \A v \in DOMAIN users :
              users'[v] = users[v] \/ users'[v] = [users[v] EXCEPT !.fresh = FALSE]
    BY <1>3
  <2>2. \A v \in DOMAIN users : users[v] \in User BY DEF RowsInv, UsersFit, UserFits
  <2>3. \A v \in DOMAIN users : users'[v].otp = users[v].otp /\ users'[v].verified = users[v].verified
    BY <2>1, <2>2 DEF User
  <2>4. CodesGo /\ OffersGo BY <1>1, <1>3, <2>1, <2>3 DEF CodesGo, OffersGo
  <2> QED BY <1>1, <1>2, <2>4, MeetKept
<1>4. ASSUME NEW t \in DOMAIN tokens, tokens' = [tokens EXCEPT ![t].fresh = FALSE], UNCHANGED users
      PROVE  MeetInv'
  <2>1. /\ DOMAIN tokens' = DOMAIN tokens
        /\ \A s \in DOMAIN tokens :
              tokens'[s] = tokens[s] \/ tokens'[s] = [tokens[s] EXCEPT !.fresh = FALSE]
    BY <1>4
  <2>2. \A s \in DOMAIN tokens : tokens[s] \in Token BY DEF RowsInv, TokensFit
  <2>3. \A s \in DOMAIN tokens : tokens'[s].open = tokens[s].open /\ tokens'[s].user = tokens[s].user
    BY <2>1, <2>2 DEF Token
  <2>4. OffersGo BY <1>1, <2>1, <2>3 DEF OffersGo
  <2> QED BY <1>1, <1>2, <1>4, <2>4, SameCodes, MeetKept
<1> QED BY <1>3, <1>4 DEF Expire

\* A request that is received meets all that are in flight.
LEMMA BeginMeet ==
    ASSUME RowsInv, MeetInv, NEW r \in Requests, NEW c, NEW u,
           NEW to \in {"client", "user", "use", "renew", "perms", "void", "password", "invite"},
           Begin(r, c, u, to),
           to = "invite" => \A i \in DOMAIN invites : ~ Pending(i, u, c.email),
           to = "renew" => ~ users[u].verified,
           c.op = "verify" => \A q \in Requests :
              call[q].op = "verify" /\ call[q].otp = c.otp /\ pc[q] # "failed" => InFlight(q),
           c.op = "reset" => \A q \in Requests :
              call[q].op = "reset" /\ call[q].token = c.token /\ pc[q] # "failed" => InFlight(q)
    PROVE  MeetInv'
<1>1. /\ pc[r] = "idle" /\ UNCHANGED <<users, invites, tokens>>
      /\ call' = [call EXCEPT ![r] = c] /\ who' = [who EXCEPT ![r] = u]
      /\ pc' = [pc EXCEPT ![r] = to]
      /\ raced' = raced \cup {{q, r} : q \in {x \in Requests : InFlight(x)}}
  BY DEF Begin, Goto, db
<1>2. /\ call'[r] = c /\ who'[r] = u /\ pc'[r] = to
      /\ \A q \in Requests \ {r} : call'[q] = call[q] /\ who'[q] = who[q] /\ pc'[q] = pc[q]
  BY <1>1 DEF RowsInv, RequestsFit
<1>3. /\ raced \subseteq raced'
      /\ \A q \in Requests : InFlight(q) => {q, r} \in raced' /\ {r, q} \in raced'
  <2>1. \A q \in Requests : {q, r} = {r, q} OBVIOUS
  <2> QED BY <1>1, <2>1
<1>4. \A q \in Requests \ {r} : InFlight(q)' <=> InFlight(q) BY <1>2 DEF InFlight
<1>5. \A q, x \in Requests : q # x /\ InFlight(q)' /\ InFlight(x)' => {q, x} \in raced'
  BY <1>3, <1>4 DEF MeetInv, Together
<1>6. OffersMet'
  <2>1. \A i, j \in DOMAIN invites, v \in Ids, e \in Emails :
           (i # j /\ Pending(i, v, e) /\ Pending(j, v, e)) => {i, j} \in raced'
    BY <1>3 DEF MeetInv, OffersMet, Together
  <2>2. ASSUME NEW q \in Requests, NEW i \in DOMAIN invites, pc'[q] = "invite",
               Pending(i, who'[q], call'[q].email)
        PROVE  {i, q} \in raced'
    <3>1. q # r BY <1>2, <2>2
    <3> QED BY <1>2, <1>3, <2>2, <3>1 DEF MeetInv, OffersMet, Together
  <2>3. \A s, t \in DOMAIN tokens, v \in Ids :
           (s # t /\ Opened(s, v) /\ Opened(t, v)) => {s, t} \in raced'
    BY <1>3 DEF MeetInv, OffersMet, Together
  <2>4. ASSUME NEW q \in Requests, NEW t \in DOMAIN tokens, pc'[q] = "token", Opened(t, who'[q])
        PROVE  {t, q} \in raced'
    <3>1. q # r BY <1>2, <2>4
    <3> QED BY <1>2, <1>3, <2>4, <3>1 DEF MeetInv, OffersMet, Together
  <2> QED BY ZenonT(120), <1>1, <2>1, <2>2, <2>3, <2>4 DEF OffersMet, Pending, Opened, Together
<1>7. ProofsMet'
  <2>1. ASSUME NEW q \in Requests
        PROVE  Void(q)'
    <3>1. CASE q = r BY <1>2, <3>1 DEF Void
    <3>2. CASE q # r BY <1>1, <1>2, <3>2 DEF MeetInv, ProofsMet, Void, Is
    <3> QED BY <3>1, <3>2
  <2>2. ASSUME NEW q \in Requests \ {r}, SameProof(q, r)' \/ SameProof(r, q)'
        PROVE  InFlight(q)
    BY <1>2, <2>2 DEF SameProof, Proof, Is
  <2>3. ASSUME NEW q \in Requests, NEW x \in Requests, SameProof(q, x)'
        PROVE  {q, x} \in raced'
    <3>1. CASE q = r \/ x = r
      <4>1. q # x BY <2>3 DEF SameProof
      <4> QED BY <1>3, <2>2, <2>3, <3>1, <4>1
    <3>2. CASE q # r /\ x # r
      <4>1. SameProof(q, x) BY <1>2, <2>3, <3>2 DEF SameProof, Proof, Is
      <4> QED BY <1>3, <4>1 DEF MeetInv, ProofsMet, Together
    <3> QED BY <3>1, <3>2
  <2> QED BY <2>1, <2>3 DEF ProofsMet, Together
<1>8. RenewalsMet'
  <2>1. ASSUME NEW q \in Requests, pc'[q] = "renew", who'[q] \in DOMAIN users, users[who'[q]].verified
        PROVE  \E x \in Requests : call'[x].op = "verify" /\ {x, q} \in raced'
    <3>1. q # r BY <1>2, <2>1
    <3>2. PICK x \in Requests : call[x].op = "verify" /\ {x, q} \in raced
      BY <1>2, <2>1, <3>1 DEF MeetInv, RenewalsMet, Is, Together
    <3>3. call[r].op = "none" BY <1>1, AtWork DEF RowsInv, Runs
    <3> QED BY <1>2, <1>3, <3>2, <3>3
  <2> QED BY <1>1, <2>1 DEF RenewalsMet, Is, Together
<1> QED BY <1>5, <1>6, <1>7, <1>8 DEF MeetInv, Together

LEMMA RefuseMeet ==
    ASSUME RowsInv, MeetInv, NEW r \in Requests, Refuse(r)
    PROVE  MeetInv'
<1>1. /\ pc[r] = "idle" /\ UNCHANGED <<users, invites, tokens, call, who, raced>>
      /\ pc'[r] = "refused" /\ \A q \in Requests \ {r} : pc'[q] = pc[q]
  BY DEF Refuse, Goto, db, RowsInv, RequestsFit
<1>2. \A q \in Requests : InFlight(q)' => InFlight(q) BY <1>1 DEF InFlight, Ended
<1>3. OffersMet' BY <1>1 DEF MeetInv, OffersMet, Pending, Opened, Together
<1>4. ProofsMet'
  <2>1. \A q \in Requests : Void(q)' BY <1>1 DEF MeetInv, ProofsMet, Void, Is
  <2>2. \A q, x \in Requests : SameProof(q, x)' => SameProof(q, x)
    BY <1>1 DEF SameProof, Proof, Is
  <2> QED BY <1>1, <2>1, <2>2 DEF MeetInv, ProofsMet, Together
<1>5. RenewalsMet' BY <1>1 DEF MeetInv, RenewalsMet, Is, Together
<1> QED BY <1>1, <1>2, <1>3, <1>4, <1>5 DEF MeetInv, Together

LEMMA ReceiveMeet ==
    ASSUME RowsInv, MeetInv, NEW r \in Requests, Receive(r)
    PROVE  MeetInv'
<1>1. CASE Refuse(r) BY <1>1, RefuseMeet
<1> SUFFICES ASSUME ~ Refuse(r)
             PROVE  MeetInv'
  BY <1>1
<1>2. ASSUME NEW e, NEW k,
             BeginForgot(r, e) \/ BeginFix(r, e) \/ BeginSignup(r, e, k) \/ BeginCreateClient(r, e, k)
      PROVE  MeetInv'
  <2>1. PICK c, u, to : /\ to \in {"void", "perms", "user", "client"}
                        /\ c.op \in {"forgot", "fix", "signup", "createClient"}
                        /\ Begin(r, c, u, to)
    <3>1. CASE BeginForgot(r, e)
      <4> DEFINE c == [op |-> "forgot", email |-> e]
      <4>1. Begin(r, c, Of(e), "void") /\ c.op = "forgot" BY <3>1 DEF BeginForgot
      <4> QED BY <4>1
    <3>2. CASE BeginFix(r, e)
      <4> DEFINE c == [op |-> "fix", email |-> e]
      <4>1. Begin(r, c, Of(e), "perms") /\ c.op = "fix" BY <3>2 DEF BeginFix
      <4> QED BY <4>1
    <3>3. CASE BeginSignup(r, e, k)
      <4> DEFINE c == [op |-> "signup", email |-> e, client |-> k]
      <4>1. Begin(r, c, r, "user") /\ c.op = "signup" BY <3>3 DEF BeginSignup
      <4> QED BY <4>1
    <3>4. CASE BeginCreateClient(r, e, k)
      <4> DEFINE c == [op |-> "createClient", email |-> e, company |-> k]
      <4>1. Begin(r, c, r, "client") /\ c.op = "createClient" BY <3>4 DEF BeginCreateClient
      <4> QED BY <4>1
    <3> QED BY <1>2, <3>1, <3>2, <3>3, <3>4
  <2> QED BY <2>1, BeginMeet
<1>3. ASSUME NEW e \in Emails, BeginResend(r, e)
      PROVE  MeetInv'
  <2> DEFINE c == [op |-> "resend", email |-> e]
  <2>1. Begin(r, c, Of(e), "renew") /\ ~ users[Of(e)].verified BY <1>3 DEF BeginResend
  <2> QED BY <2>1, BeginMeet
<1>4. ASSUME NEW e \in Emails, NEW code \in Codes, BeginVerify(r, e, code)
      PROVE  MeetInv'
  <2> DEFINE c == [op |-> "verify", email |-> e, otp |-> code]
  <2>1. HasEmail(e) /\ users[Of(e)].otp = code /\ Begin(r, c, Of(e), "use")
    BY <1>4 DEF BeginVerify, Matches
  <2>2. who[code] = Of(e) /\ Of(e) \in DOMAIN users
    <3>1. code \in Requests /\ code # None
      BY <1>4, AccountsAssumption DEF Codes, RowsInv, RequestsFit
    <3> QED BY <2>1, <3>1, Found DEF RowsInv, UsersFit, UserFits
  <2>3. ASSUME NEW q \in Requests, call[q].op = "verify", call[q].otp = code, pc[q] # "failed"
        PROVE  InFlight(q)
    <3>1. Asks(q) /\ Void(q) /\ Runs(pc[q], call[q].op)
      BY AtWork DEF RowsInv, MeetInv, ProofsMet
    <3>2. who[q] = Of(e) BY <2>2, <2>3, <3>1 DEF Asks, Is
    <3>3. pc[q] # "ok" BY <2>1, <2>2, <2>3, <3>1, <3>2 DEF Void, Is
    <3> QED BY <2>3, <3>1, <3>3 DEF InFlight, Ended, Runs
  <2> QED BY <2>1, <2>3, BeginMeet
<1>5. ASSUME NEW u \in DOMAIN users, NEW e \in Emails, BeginInvite(r, u, e)
      PROVE  MeetInv'
  <2> DEFINE c == [op |-> "invite", email |-> e]
  <2>1. Begin(r, c, u, "invite") /\ PendingInvites(u, e) = {} BY <1>5 DEF BeginInvite
  <2>2. \A i \in DOMAIN invites : ~ Pending(i, u, e) BY <2>1 DEF PendingInvites, Pending
  <2> QED BY <2>1, <2>2, BeginMeet
<1>6. ASSUME NEW t \in (DOMAIN tokens) \cap mailed, BeginReset(r, t)
      PROVE  MeetInv'
  <2> DEFINE c == [op |-> "reset", token |-> t]
  <2>1. Begin(r, c, tokens[t].user, "password") /\ tokens[t].open BY <1>6 DEF BeginReset
  <2>2. ASSUME NEW q \in Requests, call[q].op = "reset", call[q].token = t, pc[q] # "failed"
        PROVE  InFlight(q)
    <3>1. Void(q) /\ Runs(pc[q], call[q].op) BY AtWork DEF RowsInv, MeetInv, ProofsMet
    <3>2. pc[q] # "ok" BY <1>6, <2>1, <2>2, <3>1 DEF Void, Is
    <3> QED BY <2>2, <3>1, <3>2 DEF InFlight, Ended, Runs
  <2> QED BY <2>1, <2>2, BeginMeet
<1>7. ASSUME NEW u \in DOMAIN users, NEW w \in Ids, BeginChange(r, u, w)
      PROVE  MeetInv'
  <2> DEFINE c == [op |-> "change", current |-> w]
  <2>1. Begin(r, c, u, "password") BY <1>7 DEF BeginChange
  <2> QED BY <2>1, BeginMeet
<1>8. ASSUME NEW i \in (DOMAIN invites) \cap mailed, BeginAccept(r, i)
      PROVE  MeetInv'
  <2> DEFINE c == [op |-> "accept", invite |-> i, email |-> invites[i].email,
                   client |-> users[invites[i].by].client]
  <2>1. Begin(r, c, r, "user") BY <1>8 DEF BeginAccept
  <2> QED BY <2>1, BeginMeet
<1> QED BY <1>2, <1>3, <1>4, <1>5, <1>6, <1>7, <1>8 DEF Receive

LEMMA NextMeet ==
    ASSUME RowsInv, RowsInv', MeetInv, [Next]_vars
    PROVE  MeetInv'
<1>1. ASSUME NEW r \in Requests, Receive(r)
      PROVE  MeetInv'
  BY <1>1, ReceiveMeet
<1>2. ASSUME NEW r \in Requests, Step(r)
      PROVE  MeetInv'
  BY <1>2, QuietMeet, UserMeet, OfferMeet DEF Step
<1>3. CASE UNCHANGED vars
  <2>1. UNCHANGED <<users, invites, tokens, pc, call, who, raced>> BY <1>3 DEF vars, db
  <2>2. OffersMet' BY <2>1 DEF MeetInv, OffersMet, Pending, Opened, Together
  <2>3. ProofsMet' BY <2>1 DEF MeetInv, ProofsMet, Void, SameProof, Proof, Is, Together
  <2>4. RenewalsMet' BY <2>1 DEF MeetInv, RenewalsMet, Is, Together
  <2> QED BY <2>1, <2>2, <2>3, <2>4 DEF MeetInv, InFlight, Together
<1> QED BY <1>1, <1>2, <1>3, CrashMeet, ExpireMeet DEF Next

LEMMA MeetingsHold == Spec => [](RowsInv /\ MeetInv)
<1>1. Init => RowsInv /\ MeetInv
  <2> SUFFICES ASSUME Init
               PROVE  MeetInv
    BY InitRows
  <2>1. /\ \A q \in Requests : pc[q] = "idle" /\ call[q].op = "none"
        /\ DOMAIN invites = {} /\ DOMAIN tokens = {}
    BY DEF Init, NoCall
  <2> QED BY <2>1 DEF MeetInv, OffersMet, ProofsMet, RenewalsMet, Void, SameProof, InFlight
<1>2. (RowsInv /\ MeetInv) /\ [Next]_vars => (RowsInv /\ MeetInv)' BY NextRows, NextMeet
<1> QED BY <1>1, <1>2, PTL DEF Spec

\* What was offered once works once: invitations, codes and tokens, unless two
\* requests were under way at a time (acceptInvite, verifyOTP, resetPassword).
THEOREM OffersWorkOnceHolds == Spec => []OffersWorkOnce
<1>1. RowsInv /\ MeetInv => OffersWorkOnce
  <2> SUFFICES ASSUME RowsInv, MeetInv
               PROVE  AcceptedOnce /\ OneOpenOffer /\ ProofsWorkOnce
    BY DEF OffersWorkOnce
  <2>1. AcceptedOnce
    <3>1. ASSUME NEW q \in Requests, pc[q] = "ok", Is(q, "accept")
          PROVE  q \in DOMAIN users /\ users[q].email = call[call[q].invite].email
      <4>1. q \in DOMAIN users /\ q # Seed
        BY <3>1, AccountsAssumption DEF RowsInv, Did, Is, Enrols
      <4>2. users[q].email = call[q].email BY <4>1 DEF RowsInv, UsersFit, UserFits
      <4>3. Asks(q) BY AtWork DEF RowsInv
      <4> QED BY <3>1, <4>1, <4>2, <4>3 DEF Asks
    <3>2. \A u, v \in DOMAIN users : users[u].email = users[v].email => u = v
      BY DEF RowsInv, UsersFit
    <3>3. \A i \in DOMAIN invites :
             invites[i].status = "active" => \E u \in members : users[u].email = invites[i].email
      BY DEF RowsInv, InvitesFit
    <3>4. members \subseteq DOMAIN users BY DEF RowsInv, RolesFit
    <3> QED BY <3>1, <3>2, <3>3, <3>4 DEF AcceptedOnce
  <2>2. OneOpenOffer
    <3>1. \A i \in DOMAIN invites : invites[i].by \in Ids /\ invites[i].email \in Emails
      BY DEF RowsInv, InvitesFit, Invite
    <3>2. \A t \in DOMAIN tokens : tokens[t].user \in Ids BY DEF RowsInv, TokensFit, Token
    <3> QED BY <3>1, <3>2 DEF MeetInv, OffersMet, Pending, Opened, OneOpenOffer
  <2>3. ProofsWorkOnce BY DEF MeetInv, ProofsMet, SameProof, ProofsWorkOnce
  <2> QED BY <2>1, <2>2, <2>3
<1> QED BY <1>1, MeetingsHold, PTL

\* Only a new code takes a verification back.
LEMMA VerificationLost ==
    ASSUME RowsInv, MeetInv, [Next]_vars, NEW u \in DOMAIN users, u \in DOMAIN users',
           users[u].verified, ~ users'[u].verified
    PROVE  \E q, r \in Requests : Is(q, "verify") /\ Is(r, "resend") /\ Together(q, r)
<1>1. users' # users /\ users[u] \in User BY DEF RowsInv, UsersFit, UserFits
<1>2. ASSUME NEW r \in Requests, Receive(r)
      PROVE  FALSE
  <2>1. Refuse(r) \/ \E c, x, to : Begin(r, c, x, to)
    BY <1>2 DEF Receive, BeginSignup, BeginCreateClient, BeginVerify, BeginResend, BeginFix,
       BeginForgot, BeginReset, BeginChange, BeginInvite, BeginAccept
  <2> QED BY <1>1, <2>1 DEF Refuse, Begin, db
<1>3. ~ Crash /\ ~ UNCHANGED vars BY <1>1 DEF Crash, vars, db
<1>4. CASE Expire
  <2>1. users'[u] = users[u] \/ users'[u] = [users[u] EXCEPT !.fresh = FALSE]
    BY <1>1, <1>4 DEF Expire
  <2>2. users'[u].verified = users[u].verified BY <1>1, <2>1 DEF User
  <2> QED BY <2>2
<1>5. ASSUME NEW r \in Requests, Step(r)
      PROVE  \E q, x \in Requests : Is(q, "verify") /\ Is(x, "resend") /\ Together(q, x)
  <2>1. CreateUser(r) \/ Activate(r) \/ WriteUser(r) \/ UndoUser(r)
    BY <1>1, <1>5 DEF Step, CreateClient, CreateClientThrows, CreateUserThrows, UserIsGone, Throws,
       FindRole, MakeTemplate, Mail, MailFails, Audit, VoidTokens, CreateToken, SpendToken,
       CreateInvite, DeleteInvite, AddMember, CloseInvite, UndoClient, NoConnection, db
  <2>2. CASE CreateUser(r)
    <3>1. pc[r] = "user" /\ users' = Put(users, r, NewUser(r)) BY <2>2 DEF CreateUser
    <3>2. r \notin DOMAIN users BY <3>1, AccountsAssumption DEF RowsInv, UsersFit, UserFits
    <3>3. users'[u] = users[u] BY <3>1, <3>2 DEF Put
    <3> QED BY <3>3
  <2>3. CASE Activate(r)
    <3>1. users'[u] = users[u] \/ users'[u] = [users[u] EXCEPT !.status = "active"]
      BY <2>3 DEF Activate
    <3>2. users'[u].verified = users[u].verified BY <1>1, <3>1 DEF User
    <3> QED BY <3>2
  <2>4. CASE UndoUser(r) BY <2>4 DEF UndoUser, DeleteUser, Drop
  <2>5. CASE WriteUser(r)
    <3> DEFINE e == who[r]
               x == users[e]
    <3>1. /\ pc[r] \in {"use", "renew", "password"} /\ e \in DOMAIN users
          /\ pc[r] = "use" => users' = [users EXCEPT ![e] = Used(x)]
          /\ pc[r] = "password" => users' = [users EXCEPT ![e] = Resets(x, r)]
          /\ pc[r] = "renew" => users' = [users EXCEPT ![e] = Renewed(x, r)]
      BY <2>5 DEF WriteUser, UpdatesUser, Used, Renewed, Resets
    <3>2. u = e BY <3>1
    <3>3. r \in Ids BY DEF Ids
    <3>4. pc[r] = "renew"
      <4>1. Used(x).verified = TRUE /\ Resets(x, r).verified = x.verified
        BY <1>1, <3>2, <3>3, WrittenCodes
      <4>2. pc[r] # "renew" => users'[u] \in {Used(x), Resets(x, r)} BY <3>1, <3>2
      <4> QED BY <3>2, <4>1, <4>2
    <3>5. Is(r, "resend") BY <3>4, AtWork DEF RowsInv, Runs, Is
    <3>6. \E q \in Requests : Is(q, "verify") /\ Together(q, r)
      BY <3>1, <3>2, <3>4 DEF MeetInv, RenewalsMet
    <3> QED BY <3>5, <3>6
  <2> QED BY <2>1, <2>2, <2>3, <2>4, <2>5
<1> QED BY <1>2, <1>3, <1>4, <1>5 DEF Next

\* An account that was verified stays so, unless a new code was asked for while it
\* was being verified (verifyOTP, resendOtp).
THEOREM VerifiedStaysVerifiedHolds == Spec => VerifiedStaysVerified
<1> DEFINE Loses == \A u \in (DOMAIN users) \cap (DOMAIN users') :
                       (users[u].verified /\ ~ users'[u].verified) =>
                          \E q, r \in Requests : Is(q, "verify") /\ Is(r, "resend") /\ Together(q, r)
<1>1. RowsInv /\ MeetInv /\ [Next]_vars => [Loses]_vars BY VerificationLost
<1> QED BY <1>1, MeetingsHold, PTL DEF Spec, VerifiedStaysVerified

----------------------------------------------------------------------------
(* What success means *)

\* Only a request that works on a user takes it away or writes its code, its password
\* or whether it is verified; a closed token stays closed, or goes with its user.
UsersGo ==
    \A u \in DOMAIN users :
       \/ /\ u \in DOMAIN users' /\ users'[u].client = users[u].client
          /\ users'[u].otp = users[u].otp /\ users'[u].verified = users[u].verified
          /\ users'[u].password = users[u].password
       \/ \E q \in Requests : who[q] = u /\ InFlight(q) /\ pc'[q] # pc[q]

TokensGo ==
    \A t \in DOMAIN tokens :
       \/ t \in DOMAIN tokens' /\ (tokens'[t].open => tokens[t].open)
       \/ \E q \in Requests : who[q] = tokens[t].user /\ InFlight(q) /\ pc'[q] # pc[q]

\* An invitation goes at the hands of who made it, and stays accepted.
InvitesGo ==
    /\ \A i \in DOMAIN invites : i \in DOMAIN invites' \/ pc[i] = "uninvite"
    /\ \A i \in DOMAIN invites' :
          \/ pc[i] = "invite"
          \/ i \in DOMAIN invites /\ (invites[i].status = "active" => invites'[i].status = "active")

TablesGo == UsersGo /\ TokensGo /\ InvitesGo /\ mailed \subseteq mailed'

\* What a request has done, it has done after the step, or another met it.
DoneNext ==
    \A r \in Requests : InFlight(r) => Done(r, pc[r])' \/ Others(r)' # {}

LEMMA SameRows ==
    ASSUME RowsInv
    PROVE  /\ UNCHANGED users => UsersGo
           /\ UNCHANGED tokens => TokensGo
           /\ UNCHANGED invites => InvitesGo
  BY DEF UsersGo, TokensGo, InvitesGo

\* Others have met the request, or leave its rows.
LEMMA DoneKept ==
    ASSUME RowsInv, MeetInv, OthersFit, Onward, TablesGo, NEW r \in Requests, InFlight(r),
           pc'[r] = pc[r], Done(r, pc[r])
    PROVE  Done(r, pc[r])' \/ Others(r)' # {}
<1>1. /\ call' = call /\ who' = who /\ raced' = raced /\ pc'[r] = pc[r]
      /\ \A q \in Requests : q # r /\ InFlight(q) => {q, r} \in raced
  BY Meeting
<1>2. ASSUME NEW q \in Requests, who[q] = who[r], InFlight(q), pc'[q] # pc[q]
      PROVE  Others(r)' # {}
  <2>1. q # r BY <1>1, <1>2
  <2> QED BY <1>1, <1>2, <2>1 DEF Others, Together
<1> SUFFICES ASSUME Others(r)' = {}
             PROVE  Done(r, pc[r])'
  OBVIOUS
<1> DEFINE u == who[r]
           p == pc[r]
<1>3. u \in DOMAIN users =>
         /\ u \in DOMAIN users' /\ users'[u].client = users[u].client
         /\ users'[u].otp = users[u].otp /\ users'[u].verified = users[u].verified
         /\ users'[u].password = users[u].password
  BY <1>2 DEF TablesGo, UsersGo
<1>4. ASSUME Is(r, "reset"), call[r].token \in DOMAIN tokens, ~ tokens[call[r].token].open
      PROVE  call[r].token \in DOMAIN tokens' /\ ~ tokens'[call[r].token].open
  <2>1. tokens[call[r].token].user = who[r] BY <1>4 DEF RowsInv, TokensFit, OthersFit
  <2> QED BY <1>2, <1>4, <2>1 DEF TablesGo, TokensGo
<1>5. p \in {"mail", "audit"} /\ r \in DOMAIN invites => r \in DOMAIN invites'
  BY DEF TablesGo, InvitesGo
<1>6. ASSUME Is(r, "accept"), call[r].invite \in DOMAIN invites', 
             call[r].invite \in DOMAIN invites => invites[call[r].invite].status = "active"
      PROVE  invites'[call[r].invite].status = "active"
  BY <1>6 DEF TablesGo, InvitesGo, OthersFit
<1>7. p # "ok" BY DEF InFlight, Ended
<1>8. mailed \subseteq mailed' BY DEF TablesGo
<1> QED BY <1>1, <1>3, <1>4, <1>5, <1>6, <1>7, <1>8 DEF Done, Is

\* A step of r: the others stay where they are.
LEMMA DoneByOne ==
    ASSUME RowsInv, MeetInv, DoneInv, Onward, TablesGo, NEW r \in Requests, NEW p, Goto(r, p),
           Done(r, pc[r]) => Done(r, pc[r])'
    PROVE  DoneNext
<1>1. /\ call' = call /\ who' = who /\ raced' = raced BY Meeting
<1>2. \A q \in Requests \ {r} : pc'[q] = pc[q] BY DEF Goto, RowsInv, RequestsFit
<1>3. ASSUME NEW q \in Requests, InFlight(q)
      PROVE  Done(q, pc[q])' \/ Others(q)' # {}
  <2>1. Done(q, pc[q]) \/ Others(q) # {} BY <1>3 DEF DoneInv
  <2>2. Others(q)' = Others(q) BY <1>1 DEF Others, Together
  <2>3. q # r /\ Done(q, pc[q]) => Done(q, pc[q])' \/ Others(q)' # {}
    BY <1>2, <1>3, DoneKept DEF DoneInv
  <2> QED BY <2>1, <2>2, <2>3
<1> QED BY <1>3 DEF DoneNext

\* The statements at which a request has done something.
Marks == {"mail", "perms", "templates", "audit", "ok", "activate", "spend"}

LEMMA NothingDone ==
    ASSUME NEW r \in Requests, pc'[r] \notin Marks \/ call'[r].op \in {"forgot", "fix"}
    PROVE  Done(r, pc[r])'
  BY DEF Done, Marks, Is

\* No row changes: where the request goes, nothing more is asked of it.
LEMMA DoneQuietly ==
    ASSUME RowsInv, NEW r \in Requests, NEW p, Goto(r, p), UNCHANGED <<users, tokens, invites, call, who>>,
           mailed \subseteq mailed', Done(r, p)
    PROVE  Done(r, pc[r])'
<1>1. pc'[r] = p BY DEF Goto, RowsInv, RequestsFit
<1> QED BY <1>1 DEF Done, Is

LEMMA AfterRolesDone ==
    ASSUME RowsInv, NEW r \in Requests, pc[r] \in {"perms", "templates"}, Done(r, pc[r])
    PROVE  Done(r, AfterRoles(r)) /\ Done(r, "templates")
<1>1. call[r].op \in {"signup", "createClient", "fix"} BY AtWork DEF RowsInv, Runs
<1>2. /\ Is(r, "signup") => AfterRoles(r) = "audit"
      /\ Is(r, "createClient") => AfterRoles(r) = "mail"
  BY DEF AfterRoles, Is
<1> QED BY <1>1, <1>2 DEF Done, Is

LEMMA FailureDone ==
    ASSUME RowsInv, NEW r \in Requests, InFlight(r), Done(r, pc[r])
    PROVE  Done(r, Failure(r))
<1>1. RequestsFit BY DEF RowsInv
<1>2. CASE pc[r] \in {"perms", "templates"} BY <1>1, <1>2, AfterRolesDone, FailureIs
<1>3. CASE pc[r] \notin {"perms", "templates"}
  <2>1. \/ Is(r, "forgot")
        \/ Failure(r) \in {"failed", "undoClient", "undoUser"}
    BY <1>1, <1>3, FailureIs
  <2> QED BY <2>1 DEF Done, Is
<1> QED BY <1>2, <1>3

\* Steps that write neither users, tokens nor invitations.
LEMMA QuietDone ==
    ASSUME RowsInv, MeetInv, DoneInv, NEW r \in Requests,
           \/ CreateClient(r) \/ CreateClientThrows(r) \/ CreateUserThrows(r) \/ UserIsGone(r)
           \/ FindRole(r) \/ MakeTemplate(r) \/ Mail(r) \/ MailFails(r) \/ Audit(r)
           \/ AddMember(r) \/ UndoClient(r) \/ NoConnection(r)
    PROVE  DoneNext
<1>1. /\ RequestsFit /\ Runs(pc[r], call[r].op) /\ Onward /\ InFlight(r)
  BY AtWork, StepOnward DEF RowsInv, Step
<1>2. UNCHANGED <<users, tokens, invites, call, who>> /\ mailed \subseteq mailed'
  BY DEF CreateClient, CreateClientThrows, CreateUserThrows, UserIsGone, Throws, FindRole,
     MakeTemplate, Mail, MailFails, Audit, AddMember, UndoClient, NoConnection, db
<1>3. TablesGo BY <1>2, SameRows DEF TablesGo
<1>4. ASSUME NEW p, Goto(r, p), Done(r, pc[r]) => Done(r, p)
      PROVE  DoneNext
  BY <1>1, <1>2, <1>3, <1>4, DoneQuietly, DoneByOne
<1>5. ASSUME NEW p, Goto(r, p), p \notin Marks
      PROVE  DoneNext
  BY <1>4, <1>5 DEF Done, Marks
<1>6. CASE CreateClient(r) \/ AddMember(r) \/ UndoClient(r)
  <2>1. Goto(r, "user") \/ Goto(r, "close") \/ Goto(r, "failed")
    BY <1>6 DEF CreateClient, AddMember, UndoClient
  <2> QED BY <1>5, <2>1 DEF Marks
<1>7. CASE CreateClientThrows(r) \/ CreateUserThrows(r) \/ UserIsGone(r)
  <2>1. Goto(r, Failure(r))
    BY <1>7 DEF CreateClientThrows, CreateUserThrows, UserIsGone, Throws
  <2> QED BY <1>1, <1>4, <2>1, FailureDone
<1>8. CASE FindRole(r)
  <2>1. pc[r] = "perms" /\ (Goto(r, "templates") \/ Goto(r, AfterRoles(r)))
    BY <1>8 DEF FindRole
  <2> QED BY <1>4, <2>1, AfterRolesDone
<1>9. CASE MakeTemplate(r)
  <2>1. pc[r] = "templates" /\ (Goto(r, AfterRoles(r)) \/ UNCHANGED pc)
    BY <1>9 DEF MakeTemplate
  <2>2. CASE Goto(r, AfterRoles(r)) BY <1>4, <2>1, <2>2, AfterRolesDone
  <2>3. CASE UNCHANGED pc
    <3>1. Goto(r, pc[r]) BY <1>1, <2>3 DEF Goto, RequestsFit
    <3> QED BY <1>4, <3>1
  <2> QED BY <2>1, <2>2, <2>3
<1>10. CASE Mail(r)
  <2>1. pc[r] = "mail" /\ Goto(r, AfterMail(r)) /\ mailed' = mailed \cup {r} BY <1>10 DEF Mail
  <2>2. call[r].op \in {"signup", "createClient", "resend", "forgot", "invite"}
    BY <1>1, <2>1 DEF Runs
  <2>3. /\ Is(r, "signup") => AfterMail(r) = "perms"
        /\ Is(r, "createClient") => AfterMail(r) = "activate"
        /\ ~ Is(r, "signup") /\ ~ Is(r, "createClient") => AfterMail(r) = "audit"
    BY DEF AfterMail, Is
  <2>4. pc'[r] = AfterMail(r) BY <1>1, <2>1 DEF Goto, RequestsFit
  <2>5. Done(r, pc[r]) => Done(r, pc[r])' BY <1>2, <2>1, <2>2, <2>3, <2>4 DEF Done, Is
  <2> QED BY <1>1, <1>3, <2>1, <2>5, DoneByOne
<1>11. CASE MailFails(r)
  <2>1. Goto(r, "uninvite") \/ Goto(r, Failure(r)) BY <1>11 DEF MailFails
  <2> QED BY <1>1, <1>4, <1>5, <2>1, FailureDone DEF Marks
<1>12. CASE Audit(r)
  <2>1. pc[r] = "audit" /\ Goto(r, "ok") /\ call[r].op # "createClient"
    BY <1>1, <1>12 DEF Audit, Runs
  <2>2. Done(r, "audit") => Done(r, "ok") BY <2>1 DEF Done, Is
  <2> QED BY <1>4, <2>1, <2>2
<1>13. CASE NoConnection(r)
  <2>1. Goto(r, "undoClient") \/ Goto(r, "failed") \/ Goto(r, Failure(r))
    BY <1>13 DEF NoConnection
  <2> QED BY <1>1, <1>4, <1>5, <2>1, FailureDone DEF Marks
<1> QED BY <1>6, <1>7, <1>8, <1>9, <1>10, <1>11, <1>12, <1>13

\* Steps that write a user, or take one back with its tokens.
LEMMA UserDone ==
    ASSUME RowsInv, MeetInv, DoneInv, NEW r \in Requests,
           CreateUser(r) \/ Activate(r) \/ WriteUser(r) \/ UndoUser(r)
    PROVE  DoneNext
<1>1. /\ RequestsFit /\ Runs(pc[r], call[r].op) /\ Asks(r) /\ Onward /\ InFlight(r)
  BY AtWork, StepOnward DEF RowsInv, Step
<1>2. UNCHANGED <<invites, call, who, mailed>>
  BY DEF CreateUser, Activate, WriteUser, UndoUser
<1>3. ASSUME NEW p, Goto(r, p)
      PROVE  pc'[r] = p
  BY <1>1, <1>3 DEF Goto, RequestsFit
<1>4. \A u \in DOMAIN users : users[u] \in User BY DEF RowsInv, UsersFit, UserFits
<1>5. CASE CreateUser(r)
  <2>1. /\ pc[r] = "user" /\ Goto(r, AfterUser(r)) /\ users' = Put(users, r, NewUser(r)) /\ tokens' = tokens
    BY <1>5 DEF CreateUser
  <2>2. r \notin DOMAIN users BY <2>1, AccountsAssumption DEF RowsInv, UsersFit, UserFits
  <2>3. DOMAIN users' = DOMAIN users \cup {r} /\ users'[r] = NewUser(r)
        /\ \A u \in DOMAIN users : users'[u] = users[u]
    BY <2>1, <2>2 DEF Put
  <2>4. TablesGo BY <1>2, <2>1, <2>3, SameRows DEF TablesGo, UsersGo
  <2>5. call[r].op \in {"signup", "createClient", "accept"} /\ who[r] = r
    BY <1>1, <2>1 DEF Runs, Asks, Enrols
  <2>6. /\ Is(r, "signup") => AfterUser(r) = "mail"
        /\ Is(r, "accept") => AfterUser(r) = "store"
        /\ Is(r, "createClient") => AfterUser(r) = "perms"
    BY <2>5 DEF AfterUser, Is
  <2>7. Is(r, "signup") => NewUser(r).client = call[r].client BY DEF NewUser, Is
  <2>8. pc'[r] = AfterUser(r) BY <1>3, <2>1
  <2>9. Done(r, pc[r])' BY <1>2, <2>3, <2>5, <2>6, <2>7, <2>8 DEF Done, Is
  <2> QED BY <1>1, <2>1, <2>4, <2>9, DoneByOne
<1>6. CASE Activate(r)
  <2>1. /\ pc[r] = "activate" /\ Goto(r, "ok") /\ users' = [users EXCEPT ![r].status = "active"]
        /\ tokens' = tokens
    BY <1>6 DEF Activate
  <2>2. call[r].op = "createClient" /\ r \in DOMAIN users
    BY <1>1, <2>1 DEF Runs, RowsInv, Did, Enrols, Is
  <2>3. DOMAIN users' = DOMAIN users /\ users'[r] = [users[r] EXCEPT !.status = "active"]
        /\ \A u \in DOMAIN users \ {r} : users'[u] = users[u]
    BY <2>1, <2>2
  <2>4. users'[r].status = "active" /\ users'[r].client = users[r].client
        /\ users'[r].otp = users[r].otp /\ users'[r].verified = users[r].verified
        /\ users'[r].password = users[r].password
    BY <1>4, <2>2, <2>3 DEF User
  <2>5. TablesGo BY <1>2, <2>1, <2>3, <2>4, SameRows DEF TablesGo, UsersGo
  <2>6. pc'[r] = "ok" BY <1>3, <2>1
  <2>7. Done(r, pc[r]) => Done(r, pc[r])' BY <1>2, <2>1, <2>2, <2>3, <2>4, <2>6 DEF Done, Is
  <2> QED BY <1>1, <2>1, <2>5, <2>7, DoneByOne
<1>7. CASE WriteUser(r)
  <2> DEFINE e == who[r]
             x == users[e]
  <2>1. /\ pc[r] \in {"use", "renew", "password"} /\ e \in DOMAIN users /\ tokens' = tokens
        /\ pc[r] = "use" => users' = [users EXCEPT ![e] = Used(x)]
        /\ pc[r] = "renew" => users' = [users EXCEPT ![e] = Renewed(x, r)]
        /\ pc[r] = "password" => users' = [users EXCEPT ![e] = Resets(x, r)]
    BY <1>7 DEF WriteUser, UpdatesUser, Used, Renewed, Resets
  <2>2. x \in User /\ r \in Ids BY <1>4, <2>1 DEF Ids
  <2>3. /\ Used(x).otp = None /\ Used(x).verified = TRUE
        /\ Renewed(x, r).otp = r /\ Renewed(x, r).verified = FALSE
        /\ Resets(x, r).otp = x.otp /\ Resets(x, r).verified = x.verified
    BY <2>2, WrittenCodes
  <2>4. Resets(x, r).password = r BY <2>2 DEF Resets, User
  <2>5. /\ pc[r] = "use" => call[r].op = "verify"
        /\ pc[r] = "renew" => call[r].op = "resend"
        /\ pc[r] = "password" => call[r].op \in {"reset", "change"}
    BY <1>1 DEF Runs
  <2>6. PICK p : /\ Goto(r, p)
                 /\ p = CASE Is(r, "resend") -> "mail" [] Is(r, "reset") -> "spend" [] OTHER -> "audit"
    BY <1>7 DEF WriteUser
  <2>7. /\ Is(r, "resend") => p = "mail"
        /\ Is(r, "reset") => p = "spend"
        /\ call[r].op \in {"verify", "change"} => p = "audit"
    BY <2>6 DEF Is
  <2>8. pc'[r] = p /\ p # pc[r] BY <1>3, <2>1, <2>5, <2>6, <2>7 DEF Is
  <2>9. /\ DOMAIN users' = DOMAIN users
        /\ \A u \in (DOMAIN users) \ {e} : users'[u] = users[u]
        /\ pc[r] = "use" => users'[e] = Used(x)
        /\ pc[r] = "renew" => users'[e] = Renewed(x, r)
        /\ pc[r] = "password" => users'[e] = Resets(x, r)
    BY <2>1
  <2>10. TablesGo
    <3>1. UsersGo BY <1>1, <2>8, <2>9 DEF UsersGo
    <3> QED BY <1>2, <2>1, <3>1, SameRows DEF TablesGo
  <2>11. Done(r, pc[r])'
    <3>1. CASE pc[r] = "use" BY <1>2, <2>1, <2>3, <2>5, <2>7, <2>8, <2>9, <3>1 DEF Done, Is
    <3>2. CASE pc[r] = "renew" BY <1>2, <2>1, <2>3, <2>5, <2>7, <2>8, <2>9, <3>2 DEF Done, Is
    <3>3. CASE pc[r] = "password"
      BY <1>2, <2>1, <2>4, <2>5, <2>7, <2>8, <2>9, <3>3 DEF Done, Is
    <3> QED BY <2>1, <3>1, <3>2, <3>3
  <2> QED BY <1>1, <2>6, <2>10, <2>11, DoneByOne
<1>8. CASE UndoUser(r)
  <2>1. /\ pc[r] = "undoUser" /\ Goto(r, "undoClient")
        /\ \/ UNCHANGED <<users, tokens>>
           \/ /\ users' = Drop(users, {r})
              /\ tokens' = Drop(tokens, {t \in DOMAIN tokens : tokens[t].user = r})
    BY <1>8 DEF UndoUser, DeleteUser
  <2>2. pc'[r] = "undoClient" /\ who[r] = r BY <1>1, <1>3, <2>1 DEF Runs, Asks, Enrols
  <2>3. UsersGo BY <1>1, <2>1, <2>2 DEF UsersGo, Drop
  <2>4. TokensGo BY <1>1, <2>1, <2>2 DEF TokensGo, Drop
  <2>5. TablesGo BY <1>2, <2>3, <2>4, SameRows DEF TablesGo
  <2>6. Done(r, pc[r])' BY <2>2, NothingDone DEF Marks
  <2> QED BY <1>1, <2>1, <2>5, <2>6, DoneByOne
<1> QED BY <1>5, <1>6, <1>7, <1>8

\* Steps that write tokens or invitations.
LEMMA OfferDone ==
    ASSUME RowsInv, MeetInv, DoneInv, NEW r \in Requests,
           \/ VoidTokens(r) \/ CreateToken(r) \/ SpendToken(r)
           \/ CreateInvite(r) \/ DeleteInvite(r) \/ CloseInvite(r)
    PROVE  DoneNext
<1>1. /\ RequestsFit /\ Runs(pc[r], call[r].op) /\ Asks(r) /\ Onward /\ InFlight(r)
  BY AtWork, StepOnward DEF RowsInv, Step
<1>2. UNCHANGED <<users, call, who, mailed>>
  BY DEF VoidTokens, CreateToken, SpendToken, CreateInvite, DeleteInvite, CloseInvite
<1>3. ASSUME NEW p, Goto(r, p)
      PROVE  pc'[r] = p
  BY <1>1, <1>3 DEF Goto, RequestsFit
<1>4. \A t \in DOMAIN tokens : tokens[t] \in Token BY DEF RowsInv, TokensFit
<1>5. \A i \in DOMAIN invites : invites[i] \in Invite BY DEF RowsInv, InvitesFit
<1>6. CASE VoidTokens(r)
  <2>1. /\ Goto(r, "token") /\ invites' = invites
        /\ tokens' = [t \in DOMAIN tokens |->
                        [tokens[t] EXCEPT !.open = tokens[t].open /\ tokens[t].user # who[r]]]
    BY <1>6 DEF VoidTokens
  <2>2. ASSUME NEW t \in DOMAIN tokens
        PROVE  tokens'[t].open => tokens[t].open
    BY <1>4, <2>1, <2>2 DEF Token
  <2>3. TablesGo BY <1>2, <2>1, <2>2, SameRows DEF TablesGo, TokensGo
  <2>4. Done(r, pc[r])' BY <1>3, <2>1, NothingDone DEF Marks
  <2> QED BY <1>1, <2>1, <2>3, <2>4, DoneByOne
<1>7. CASE CreateToken(r)
  <2>1. /\ pc[r] = "token" /\ Goto(r, "mail") /\ invites' = invites
        /\ tokens' = Put(tokens, r, [user |-> who[r], open |-> TRUE, fresh |-> TRUE])
    BY <1>7 DEF CreateToken
  <2>2. r \notin DOMAIN tokens /\ call[r].op = "forgot"
    BY <1>1, <2>1 DEF RowsInv, TokensFit, Made, Runs
  <2>3. TablesGo BY <1>2, <2>1, <2>2, SameRows DEF TablesGo, TokensGo, Put
  <2>4. Done(r, pc[r])' BY <1>2, <2>2, NothingDone
  <2> QED BY <1>1, <2>1, <2>3, <2>4, DoneByOne
<1>8. CASE SpendToken(r)
  <2> DEFINE s == call[r].token
  <2>1. pc[r] = "spend" /\ invites' = invites /\ call[r].op = "reset"
    BY <1>1, <1>8 DEF SpendToken, Runs
  <2>2. CASE s \in DOMAIN tokens
    <3>1. Goto(r, "audit") /\ tokens' = [tokens EXCEPT ![s].open = FALSE]
      BY <1>8, <2>2 DEF SpendToken
    <3>2. /\ DOMAIN tokens' = DOMAIN tokens
          /\ \A t \in DOMAIN tokens \ {s} : tokens'[t] = tokens[t]
          /\ tokens'[s] = [tokens[s] EXCEPT !.open = FALSE]
      BY <2>2, <3>1
    <3>3. tokens'[s].open = FALSE BY <1>4, <2>2, <3>2 DEF Token
    <3>4. TablesGo BY <1>2, <2>1, <3>2, <3>3, SameRows DEF TablesGo, TokensGo
    <3>5. pc'[r] = "audit" BY <1>3, <3>1
    <3>6. Done(r, pc[r]) => Done(r, pc[r])' BY <1>2, <2>1, <2>2, <3>2, <3>3, <3>5 DEF Done, Is
    <3> QED BY <1>1, <3>1, <3>4, <3>6, DoneByOne
  <2>3. CASE s \notin DOMAIN tokens
    <3>1. Goto(r, Failure(r)) /\ tokens' = tokens BY <1>8, <2>3 DEF SpendToken
    <3>2. TablesGo BY <1>2, <2>1, <3>1, SameRows DEF TablesGo
    <3>3. Done(r, pc[r]) => Done(r, pc[r])'
      BY <1>1, <1>2, <2>1, <3>1, FailureDone, DoneQuietly
    <3> QED BY <1>1, <3>1, <3>2, <3>3, DoneByOne
  <2> QED BY <2>2, <2>3
<1>9. CASE CreateInvite(r)
  <2> DEFINE row == [email |-> call[r].email, by |-> who[r], status |-> "pending"]
  <2>1. /\ pc[r] = "invite" /\ Goto(r, "mail") /\ tokens' = tokens /\ invites' = Put(invites, r, row)
    BY <1>9 DEF CreateInvite
  <2>2. r \notin DOMAIN invites /\ call[r].op = "invite"
    BY <1>1, <2>1 DEF RowsInv, InvitesFit, Runs
  <2>3. /\ DOMAIN invites' = DOMAIN invites \cup {r}
        /\ \A i \in DOMAIN invites : invites'[i] = invites[i]
    BY <2>1, <2>2 DEF Put
  <2>4. TablesGo BY <1>2, <2>1, <2>3, SameRows DEF TablesGo, InvitesGo
  <2>5. pc'[r] = "mail" BY <1>3, <2>1
  <2>6. Done(r, pc[r])' BY <1>2, <2>2, <2>3, <2>5 DEF Done, Is
  <2> QED BY <1>1, <2>1, <2>4, <2>6, DoneByOne
<1>10. CASE DeleteInvite(r)
  <2>1. /\ pc[r] = "uninvite" /\ Goto(r, "failed") /\ tokens' = tokens /\ invites' = Drop(invites, {r})
    BY <1>10 DEF DeleteInvite
  <2>2. InvitesGo BY <2>1 DEF InvitesGo, Drop
  <2>3. TablesGo BY <1>2, <2>1, <2>2, SameRows DEF TablesGo
  <2>4. Done(r, pc[r])' BY <1>3, <2>1, NothingDone DEF Marks
  <2> QED BY <1>1, <2>1, <2>3, <2>4, DoneByOne
<1>11. CASE CloseInvite(r)
  <2> DEFINE i == call[r].invite
  <2>1. pc[r] = "close" /\ tokens' = tokens /\ call[r].op = "accept"
    BY <1>1, <1>11 DEF CloseInvite, Runs
  <2>2. CASE i \in DOMAIN invites
    <3>1. Goto(r, "audit") /\ invites' = [invites EXCEPT ![i].status = "active"]
      BY <1>11, <2>2 DEF CloseInvite
    <3>2. /\ DOMAIN invites' = DOMAIN invites
          /\ \A j \in DOMAIN invites \ {i} : invites'[j] = invites[j]
          /\ invites'[i] = [invites[i] EXCEPT !.status = "active"]
      BY <2>2, <3>1
    <3>3. invites'[i].status = "active" BY <1>5, <2>2, <3>2 DEF Invite
    <3>4. TablesGo BY <1>2, <2>1, <3>2, <3>3, SameRows DEF TablesGo, InvitesGo
    <3>5. pc'[r] = "audit" BY <1>3, <3>1
    <3>6. Done(r, pc[r])' BY <1>2, <2>1, <3>3, <3>5 DEF Done, Is
    <3> QED BY <1>1, <3>1, <3>4, <3>6, DoneByOne
  <2>3. CASE i \notin DOMAIN invites
    <3>1. Goto(r, Failure(r)) /\ invites' = invites BY <1>11, <2>3 DEF CloseInvite
    <3>2. TablesGo BY <1>2, <2>1, <3>1, SameRows DEF TablesGo
    <3>3. Done(r, pc[r]) => Done(r, pc[r])'
      BY <1>1, <1>2, <2>1, <3>1, FailureDone, DoneQuietly
    <3> QED BY <1>1, <3>1, <3>2, <3>3, DoneByOne
  <2> QED BY <2>2, <2>3
<1> QED BY <1>6, <1>7, <1>8, <1>9, <1>10, <1>11

LEMMA StepDone ==
    ASSUME RowsInv, MeetInv, DoneInv, NEW r \in Requests, Step(r)
    PROVE  DoneNext
  BY QuietDone, UserDone, OfferDone DEF Step

LEMMA OthersGo ==
    ASSUME RowsInv, MeetInv, OthersFit, Onward
    PROVE  OthersFit'
<1>1. call' = call /\ who' = who /\ raced' = raced /\ RequestsFit BY Meeting DEF RowsInv
<1>2. ASSUME NEW q \in Requests
      PROVE  /\ pc[q] \notin {"idle", "invite"} => pc'[q] \notin {"idle", "invite"}
             /\ pc'[q] = "idle" => pc[q] = "idle"
  BY <1>1, <1>2, Moves
<1>3. ASSUME NEW q \in Requests, Is(q, "accept")
      PROVE  call[q].invite \in Requests
  BY <1>1, <1>3, AtWork DEF Asks
<1> QED BY <1>1, <1>2, <1>3 DEF OthersFit, Is, Together

\* A step that receives no request.
LEMMA OnwardDone ==
    ASSUME RowsInv, MeetInv, DoneInv, Onward, DoneNext
    PROVE  DoneInv'
<1>1. OthersFit' BY OthersGo DEF DoneInv
<1>2. \A q \in Requests : InFlight(q)' => InFlight(q) BY Moves DEF InFlight, RowsInv
<1> QED BY <1>1, <1>2 DEF DoneInv, DoneNext

LEMMA CrashDone ==
    ASSUME RowsInv, MeetInv, DoneInv, Crash
    PROVE  DoneNext
<1>1. \A q \in Requests : pc'[q] = IF InFlight(q) THEN "failed" ELSE pc[q]
  BY CrashOnward DEF RowsInv
<1> QED BY <1>1, NothingDone DEF DoneNext, Marks

LEMMA ExpireDone ==
    ASSUME RowsInv, MeetInv, DoneInv, Expire
    PROVE  DoneNext
<1>1. Onward /\ UNCHANGED <<pc, invites, mailed, call, who, raced>>
  BY ExpireOnward DEF RowsInv, Expire
<1>2. UsersGo
  <2>1. \A v \in DOMAIN users : users[v] \in User BY DEF RowsInv, UsersFit, UserFits
  <2>2. ASSUME NEW u \in DOMAIN users, users' = [users EXCEPT ![u].fresh = FALSE]
        PROVE  UsersGo
    <3>1. /\ DOMAIN users' = DOMAIN users
          /\ \A v \in DOMAIN users :
                users'[v] = users[v] \/ users'[v] = [users[v] EXCEPT !.fresh = FALSE]
      BY <2>2
    <3> QED BY <2>1, <3>1 DEF UsersGo, User
  <2> QED BY <2>2, SameRows DEF Expire
<1>3. TokensGo
  <2>1. \A t \in DOMAIN tokens : tokens[t] \in Token BY DEF RowsInv, TokensFit
  <2>2. ASSUME NEW t \in DOMAIN tokens, tokens' = [tokens EXCEPT ![t].fresh = FALSE]
        PROVE  TokensGo
    <3>1. /\ DOMAIN tokens' = DOMAIN tokens
          /\ \A s \in DOMAIN tokens :
                tokens'[s] = tokens[s] \/ tokens'[s] = [tokens[s] EXCEPT !.fresh = FALSE]
      BY <2>2
    <3> QED BY <2>1, <3>1 DEF TokensGo, Token
  <2> QED BY <2>2, SameRows DEF Expire
<1>4. TablesGo BY <1>1, <1>2, <1>3, SameRows DEF TablesGo
<1>5. ASSUME NEW q \in Requests, InFlight(q)
      PROVE  Done(q, pc[q])' \/ Others(q)' # {}
  <2>1. Others(q)' = Others(q) /\ pc'[q] = pc[q] BY <1>1 DEF Others, Together
  <2> QED BY <1>1, <1>4, <1>5, <2>1, DoneKept DEF DoneInv
<1> QED BY <1>5 DEF DoneNext

\* How a request begins that works on u.
Opens(c, u, to) ==
    /\ to \in {"client", "user", "use", "renew", "perms", "void", "password", "invite"}
    /\ to = "perms" => c.op = "fix"
    /\ c.op = "reset" => c.token \in Requests /\ pc[c.token] # "idle" /\ who[c.token] = u
    /\ c.op = "accept" => c.invite \in Requests /\ pc[c.invite] \notin {"idle", "invite"}

LEMMA Received ==
    ASSUME RowsInv, NEW r \in Requests, Receive(r), ~ Refuse(r)
    PROVE  \E c, u, to : Begin(r, c, u, to) /\ Opens(c, u, to)
<1>1. ASSUME NEW e \in Emails, BeginResend(r, e)
      PROVE  \E c, u, to : Begin(r, c, u, to) /\ Opens(c, u, to)
  <2> DEFINE c == [op |-> "resend", email |-> e]
  <2>1. Begin(r, c, Of(e), "renew") BY <1>1 DEF BeginResend
  <2>2. Opens(c, Of(e), "renew") BY DEF Opens
  <2> QED BY <2>1, <2>2
<1>2. ASSUME NEW e \in Emails, BeginForgot(r, e)
      PROVE  \E c, u, to : Begin(r, c, u, to) /\ Opens(c, u, to)
  <2> DEFINE c == [op |-> "forgot", email |-> e]
  <2>1. Begin(r, c, Of(e), "void") BY <1>2 DEF BeginForgot
  <2>2. Opens(c, Of(e), "void") BY DEF Opens
  <2> QED BY <2>1, <2>2
<1>3. ASSUME NEW e \in Emails, BeginFix(r, e)
      PROVE  \E c, u, to : Begin(r, c, u, to) /\ Opens(c, u, to)
  <2> DEFINE c == [op |-> "fix", email |-> e]
  <2>1. Begin(r, c, Of(e), "perms") BY <1>3 DEF BeginFix
  <2>2. Opens(c, Of(e), "perms") BY DEF Opens
  <2> QED BY <2>1, <2>2
<1>4. ASSUME NEW e \in Emails, NEW k \in KnownClients, BeginSignup(r, e, k)
      PROVE  \E c, u, to : Begin(r, c, u, to) /\ Opens(c, u, to)
  <2> DEFINE c == [op |-> "signup", email |-> e, client |-> k]
  <2>1. Begin(r, c, r, "user") BY <1>4 DEF BeginSignup
  <2>2. Opens(c, r, "user") BY DEF Opens
  <2> QED BY <2>1, <2>2
<1>5. ASSUME NEW e \in Emails, NEW k \in Companies, BeginCreateClient(r, e, k)
      PROVE  \E c, u, to : Begin(r, c, u, to) /\ Opens(c, u, to)
  <2> DEFINE c == [op |-> "createClient", email |-> e, company |-> k]
  <2>1. Begin(r, c, r, "client") BY <1>5 DEF BeginCreateClient
  <2>2. Opens(c, r, "client") BY DEF Opens
  <2> QED BY <2>1, <2>2
<1>6. ASSUME NEW e \in Emails, NEW code \in Codes, BeginVerify(r, e, code)
      PROVE  \E c, u, to : Begin(r, c, u, to) /\ Opens(c, u, to)
  <2> DEFINE c == [op |-> "verify", email |-> e, otp |-> code]
  <2>1. Begin(r, c, Of(e), "use") BY <1>6 DEF BeginVerify
  <2>2. Opens(c, Of(e), "use") BY DEF Opens
  <2> QED BY <2>1, <2>2
<1>7. ASSUME NEW u \in DOMAIN users, NEW e \in Emails, BeginInvite(r, u, e)
      PROVE  \E c, x, to : Begin(r, c, x, to) /\ Opens(c, x, to)
  <2> DEFINE c == [op |-> "invite", email |-> e]
  <2>1. Begin(r, c, u, "invite") BY <1>7 DEF BeginInvite
  <2>2. Opens(c, u, "invite") BY DEF Opens
  <2> QED BY <2>1, <2>2
<1>8. ASSUME NEW t \in (DOMAIN tokens) \cap mailed, BeginReset(r, t)
      PROVE  \E c, u, to : Begin(r, c, u, to) /\ Opens(c, u, to)
  <2> DEFINE c == [op |-> "reset", token |-> t]
  <2>1. Begin(r, c, tokens[t].user, "password") BY <1>8 DEF BeginReset
  <2>2. t \in Requests /\ pc[t] # "idle" /\ who[t] = tokens[t].user
    BY <1>8 DEF RowsInv, TokensFit, Made
  <2>3. Opens(c, tokens[t].user, "password") BY <2>2 DEF Opens
  <2> QED BY <2>1, <2>3
<1>9. ASSUME NEW u \in DOMAIN users, NEW w \in Ids, BeginChange(r, u, w)
      PROVE  \E c, x, to : Begin(r, c, x, to) /\ Opens(c, x, to)
  <2> DEFINE c == [op |-> "change", current |-> w]
  <2>1. Begin(r, c, u, "password") BY <1>9 DEF BeginChange
  <2>2. Opens(c, u, "password") BY DEF Opens
  <2> QED BY <2>1, <2>2
<1>10. ASSUME NEW i \in (DOMAIN invites) \cap mailed, BeginAccept(r, i)
       PROVE  \E c, u, to : Begin(r, c, u, to) /\ Opens(c, u, to)
  <2> DEFINE c == [op |-> "accept", invite |-> i, email |-> invites[i].email,
                   client |-> users[invites[i].by].client]
  <2>1. Begin(r, c, r, "user") BY <1>10 DEF BeginAccept
  <2>2. i \in Requests /\ pc[i] \notin {"idle", "invite"} BY <1>10 DEF RowsInv, InvitesFit
  <2>3. Opens(c, r, "user") BY <2>2 DEF Opens
  <2> QED BY <2>1, <2>3
<1> QED BY <1>1, <1>2, <1>3, <1>4, <1>5, <1>6, <1>7, <1>8, <1>9, <1>10 DEF Receive

\* A request that is received has done nothing and met whom it finds at work.
LEMMA BeginDone ==
    ASSUME RowsInv, MeetInv, DoneInv, NEW r \in Requests, NEW c, NEW u, NEW to,
           Begin(r, c, u, to), Opens(c, u, to)
    PROVE  DoneInv'
<1>1. /\ pc[r] = "idle" /\ UNCHANGED <<users, invites, tokens, mailed>>
      /\ raced' = raced \cup {{q, r} : q \in {x \in Requests : InFlight(x)}}
  BY DEF Begin, db
<1>2. /\ call'[r] = c /\ who'[r] = u /\ pc'[r] = to
      /\ \A q \in Requests \ {r} : call'[q] = call[q] /\ who'[q] = who[q] /\ pc'[q] = pc[q]
  BY DEF Begin, Goto, RowsInv, RequestsFit
<1>3. \A q, x \in Requests : pc[x] = "idle" => {q, x} \notin raced /\ {x, q} \notin raced
  <2>1. \A q, x \in Requests : {q, x} = {x, q} OBVIOUS
  <2> QED BY <2>1 DEF DoneInv, OthersFit, Together
<1>4. OthersFit'
  <2>1. ASSUME NEW q \in Requests, call'[q].op = "reset"
        PROVE  who'[call'[q].token] = who'[q]
    <3>1. CASE q = r BY <1>1, <1>2, <2>1, <3>1 DEF Opens
    <3>2. CASE q # r
      <4>1. call[q].token \in Requests /\ Made(call[q].token) /\ who[call[q].token] = who[q]
        BY <1>2, <2>1, <3>2, AtWork DEF RowsInv, Asks, Is, DoneInv, OthersFit
      <4> QED BY <1>1, <1>2, <3>2, <4>1 DEF Made
    <3> QED BY <3>1, <3>2
  <2>2. ASSUME NEW q \in Requests, call'[q].op = "accept"
        PROVE  pc'[call'[q].invite] \notin {"idle", "invite"}
    <3>1. CASE q = r BY <1>1, <1>2, <2>2, <3>1 DEF Opens
    <3>2. CASE q # r
      <4>1. call[q].invite \in Requests /\ pc[call[q].invite] \notin {"idle", "invite"}
        BY <1>2, <2>2, <3>2, AtWork DEF RowsInv, Asks, Is, DoneInv, OthersFit
      <4> QED BY <1>1, <1>2, <3>2, <4>1
    <3> QED BY <3>1, <3>2
  <2>3. ASSUME NEW x \in Requests, pc'[x] = "idle", NEW q \in Requests
        PROVE  {q, x} \notin raced'
    <3>1. x # r /\ pc[x] = "idle" /\ ~ InFlight(x) BY <1>2, <2>3 DEF Opens, InFlight
    <3> QED BY <1>1, <1>3, <3>1
  <2> QED BY <2>1, <2>2, <2>3 DEF OthersFit, Is, Together
<1>5. Done(r, pc[r])' BY <1>2, NothingDone DEF Opens, Marks
<1>6. ASSUME NEW q \in Requests \ {r}, InFlight(q)'
      PROVE  Done(q, pc[q])' \/ Others(q)' # {}
  <2>1. InFlight(q) BY <1>2, <1>6 DEF InFlight
  <2>2. CASE Done(q, pc[q]) BY <1>1, <1>2, <2>2 DEF Done, Is
  <2>3. CASE Others(q) # {}
    <3>1. PICK x \in Requests \ {q} : who[x] = who[q] /\ {x, q} \in raced
      BY <2>3 DEF Others, Together
    <3>2. x # r BY <1>1, <1>3, <3>1
    <3> QED BY <1>1, <1>2, <3>1, <3>2 DEF Others, Together
  <2> QED BY <2>1, <2>2, <2>3 DEF DoneInv
<1> QED BY <1>4, <1>5, <1>6 DEF DoneInv

LEMMA RefuseDone ==
    ASSUME RowsInv, DoneInv, NEW r \in Requests, Refuse(r)
    PROVE  DoneInv'
<1>1. /\ pc[r] = "idle" /\ UNCHANGED <<users, invites, tokens, mailed, call, who, raced>>
      /\ pc'[r] = "refused" /\ \A q \in Requests \ {r} : pc'[q] = pc[q]
  BY DEF Refuse, Goto, db, RowsInv, RequestsFit
<1>2. \A q \in Requests : InFlight(q)' => InFlight(q) /\ pc'[q] = pc[q]
  BY <1>1 DEF InFlight, Ended
<1>3. OthersFit'
  <2>1. \A q \in Requests : Is(q, "accept") => call[q].invite \in Requests
    BY AtWork DEF RowsInv, Asks
  <2>2. \A q \in Requests : pc'[q] = "idle" => pc[q] = "idle" BY <1>1
  <2>3. \A q \in Requests : pc[q] \notin {"idle", "invite"} => pc'[q] \notin {"idle", "invite"}
    BY <1>1
  <2> QED BY <1>1, <2>1, <2>2, <2>3 DEF DoneInv, OthersFit, Is, Together
<1>4. ASSUME NEW q \in Requests, InFlight(q)'
      PROVE  Done(q, pc[q])' \/ Others(q)' # {}
  BY <1>1, <1>2, <1>4 DEF DoneInv, Done, Is, Others, Together
<1> QED BY <1>3, <1>4 DEF DoneInv

LEMMA NextDone ==
    ASSUME RowsInv, MeetInv, DoneInv, [Next]_vars
    PROVE  DoneInv'
<1>1. ASSUME NEW r \in Requests, Receive(r)
      PROVE  DoneInv'
  BY <1>1, Received, BeginDone, RefuseDone
<1>2. ASSUME NEW r \in Requests, Step(r)
      PROVE  DoneInv'
  <2>1. Onward BY <1>2, StepOnward DEF RowsInv
  <2> QED BY <1>2, <2>1, StepDone, OnwardDone
<1>3. CASE Crash BY <1>3, CrashOnward, CrashDone, OnwardDone DEF RowsInv
<1>4. CASE Expire BY <1>4, ExpireOnward, ExpireDone, OnwardDone DEF RowsInv
<1>5. CASE UNCHANGED vars
  <2>1. UNCHANGED <<users, invites, tokens, mailed, pc, call, who, raced>>
    BY <1>5 DEF vars, db
  <2>2. OthersFit' BY <2>1 DEF DoneInv, OthersFit, Is, Together
  <2>3. ASSUME NEW q \in Requests, InFlight(q)'
        PROVE  Done(q, pc[q])' \/ Others(q)' # {}
    BY <2>1, <2>3 DEF DoneInv, InFlight, Done, Is, Others, Together
  <2> QED BY <2>2, <2>3 DEF DoneInv
<1> QED BY <1>1, <1>2, <1>3, <1>4, <1>5 DEF Next

LEMMA DoneHolds == Spec => [](RowsInv /\ MeetInv /\ DoneInv)
<1>1. Init => RowsInv /\ MeetInv /\ DoneInv
  <2> SUFFICES ASSUME Init
               PROVE  MeetInv /\ DoneInv
    BY InitRows
  <2>1. /\ \A q \in Requests : pc[q] = "idle" /\ call[q].op = "none"
        /\ DOMAIN invites = {} /\ DOMAIN tokens = {} /\ raced = {}
    BY DEF Init, NoCall
  <2>2. MeetInv
    BY <2>1 DEF MeetInv, OffersMet, ProofsMet, RenewalsMet, Void, SameProof, InFlight
  <2> QED BY <2>1, <2>2 DEF DoneInv, OthersFit, Is, Together, InFlight
<1>2. (RowsInv /\ MeetInv /\ DoneInv) /\ [Next]_vars => (RowsInv /\ MeetInv /\ DoneInv)'
  BY NextRows, NextMeet, NextDone
<1> QED BY <1>1, <1>2, PTL DEF Spec

\* What the rows of a request that has ended add to what it did.
LEMMA DoneAchieves ==
    ASSUME RowsInv, NEW r \in Requests, pc[r] = "ok", Done(r, "ok")
    PROVE  Achieved(r)
<1>1. Runs("ok", call[r].op) /\ Asks(r) /\ Did(r, "ok") /\ call[r].op \in Kinds /\ r # Seed
  BY AtWork, AccountsAssumption DEF RowsInv
<1>2. CASE Is(r, "signup") BY <1>2 DEF Done, Achieved, Is
<1>3. CASE Is(r, "createClient")
  <2>1. r \in DOMAIN clients /\ r \in DOMAIN users /\ users[r].status = "active" /\ r \in mailed
    BY <1>1, <1>3 DEF Done, Did, Is
  <2>2. users[r].client = r BY <1>1, <1>3, <2>1 DEF RowsInv, UsersFit, UserFits
  <2> QED BY <1>3, <2>1, <2>2 DEF Achieved, Is
<1>4. CASE Is(r, "verify") BY <1>4 DEF Done, Achieved, Is
<1>5. CASE Is(r, "resend") BY <1>5 DEF Done, Achieved, Is
<1>6. CASE Is(r, "reset") BY <1>6 DEF Done, Achieved, Is
<1>7. CASE Is(r, "change") BY <1>7 DEF Done, Achieved, Is
<1>8. CASE Is(r, "invite") BY <1>8 DEF Done, Achieved, Is
<1>9. CASE Is(r, "accept")
  <2>1. who[r] \in members BY <1>1, <1>9 DEF Did, Asks, Enrols, Is
  <2> QED BY <1>9, <2>1 DEF Done, Achieved, Is
<1>10. CASE call[r].op \in {"none", "fix", "forgot"} BY <1>10 DEF Achieved, Is
<1> QED BY <1>1, <1>2, <1>3, <1>4, <1>5, <1>6, <1>7, <1>8, <1>9, <1>10 DEF Kinds, Is

\* A request comes to its success by a statement of its own.
LEMMA Succeeding ==
    ASSUME RowsInv, MeetInv, DoneInv, [Next]_vars, NEW r \in Requests, pc[r] # "ok", pc'[r] = "ok"
    PROVE  Done(r, pc[r])' \/ Others(r)' # {}
<1>1. ASSUME NEW q \in Requests, Receive(q)
      PROVE  FALSE
  <2>1. CASE Refuse(q) BY <2>1 DEF Refuse, Goto, RowsInv, RequestsFit
  <2>2. CASE ~ Refuse(q)
    <3>1. PICK c, u, to : Begin(q, c, u, to) /\ Opens(c, u, to) BY <1>1, <2>2, Received
    <3>2. pc' = [pc EXCEPT ![q] = to] /\ to # "ok" BY <3>1 DEF Begin, Goto, Opens
    <3> QED BY <3>2 DEF RowsInv, RequestsFit
  <2> QED BY <2>1, <2>2
<1>2. ASSUME NEW q \in Requests, Step(q)
      PROVE  Done(r, pc[r])' \/ Others(r)' # {}
  <2>1. Onward /\ DoneNext BY <1>2, StepOnward, StepDone DEF RowsInv
  <2>2. InFlight(r) BY <2>1 DEF Onward, Goes, InFlight
  <2> QED BY <2>1, <2>2 DEF DoneNext
<1>3. ~ Crash BY CrashOnward DEF RowsInv
<1>4. ~ Expire /\ ~ UNCHANGED vars BY DEF Expire, vars
<1> QED BY <1>1, <1>2, <1>3, <1>4 DEF Next

\* A request that answers with success has done what it was asked, unless another
\* worked on the same user meanwhile: sign-up, the creation of a client, codes,
\* passwords and invitations of AuthService.
THEOREM SuccessIsCompleteHolds == Spec => SuccessIsComplete
<1> DEFINE Completes == \A r \in Requests :
                           (pc[r] # "ok" /\ pc'[r] = "ok") => (Achieved(r) \/ Others(r) # {})'
       Achieves == \A r \in Requests : pc[r] = "ok" /\ Done(r, pc[r]) => Achieved(r)
<1>1. RowsInv => Achieves BY DoneAchieves
<1>2. RowsInv' => Achieves' BY <1>1, PTL
<1>3. RowsInv /\ MeetInv /\ DoneInv /\ [Next]_vars => [Completes]_vars
  <2> SUFFICES ASSUME RowsInv, MeetInv, DoneInv, [Next]_vars,
                      NEW r \in Requests, pc[r] # "ok", pc'[r] = "ok"
               PROVE  Achieved(r)' \/ Others(r)' # {}
    OBVIOUS
  <2>1. Achieves' BY <1>2, NextRows
  <2>2. Done(r, pc[r])' \/ Others(r)' # {} BY Succeeding
  <2> QED BY <2>1, <2>2
<1> QED BY <1>3, DoneHolds, PTL DEF Spec, SuccessIsComplete

===============================================================================
