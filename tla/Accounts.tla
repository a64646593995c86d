------------------------------- MODULE Accounts -------------------------------
(***************************************************************************)
(* Users and clients (AuthService): sign-up, the creation of a client with    *)
(* its first user, one-time passwords, resets and changes of passwords,       *)
(* invitations.                                                             *)
(*                                                                         *)
(* No handler opens a transaction: every statement commits on its own, and   *)
(* mails are sent between them.  The creation of a client undoes what it did  *)
(* when a step of it throws, as far as foreign keys let it.                   *)
(*                                                                         *)
(* What a request creates (a user, a client, an invitation, a token, a        *)
(* one-time password) has the request itself as its id.  Who may do what,     *)
(* which store a user is in, and the form of inputs are left out.            *)
(***************************************************************************)
EXTENDS Naturals, FiniteSets

CONSTANTS
    Requests,       \* HTTP writes; each is received at most once
    Seed,           \* the user and the client that are there at the start
    Emails,         \* of users
    SeedEmail,
    Companies,      \* emails of clients
    SeedCompany,
    Templates,      \* DEFAULT_ROLE_TEMPLATES: how many there are
    AtOnce,         \* bound: how many requests may be at work at a time
    MaxFaults,      \* bound: how many connections and processes are lost
    None            \* null

ASSUME AccountsAssumption ==
    /\ Seed \notin Requests
    /\ None \notin Requests \cup {Seed}
    /\ SeedEmail \in Emails
    /\ SeedCompany \in Companies
    /\ Templates \in Nat \ {0}
    /\ AtOnce \in Nat \ {0}
    /\ MaxFaults \in Nat

Ids == Requests \cup {Seed}

\* otp is the request whose code the user was given; fresh: not expired yet.
User == [email : Emails, client : Ids, super : BOOLEAN, status : {"pending", "active"},
         otp : Ids \cup {None}, fresh : BOOLEAN, verified : BOOLEAN, password : Ids]
Invite == [email : Emails, by : Ids, status : {"pending", "active"}]
Token == [user : Ids, open : BOOLEAN, fresh : BOOLEAN]
\* A row of RoleTemplate; (name, clientId) is unique.
Template == [name : 1..Templates, client : Ids, creator : Ids]

VARIABLES
    users,      \* the rows of Users, by id
    clients,    \* the company email of each row of Clients
    templates,  \* the rows of RoleTemplate
    members,    \* users with a row of UserStoreMap
    invites,    \* the rows of InviteLinks, by id
    tokens,     \* the rows of PasswordResetTokens, by id
    audited,    \* users with a row of AuditLogs
    mailed,     \* requests whose mail was delivered
    pc,         \* what each request awaits
    call,       \* what it asks for
    who,        \* the user it works on
    raced,      \* history: the pairs of requests that were at work together
    torn,       \* history: requests that died or could not try to undo
    faults      \* how many connections and processes were lost

db == <<users, clients, templates, members, invites, tokens, audited>>
vars == <<db, mailed, pc, call, who, raced, torn, faults>>

Ended == {"ok", "refused", "failed"}
InFlight(r) == pc[r] \notin Ended \cup {"idle"}

Is(r, op) == call[r].op = op
HasEmail(e) == \E u \in DOMAIN users : users[u].email = e
Of(e) == CHOOSE u \in DOMAIN users : users[u].email = e
HasCompany(k) == \E c \in DOMAIN clients : clients[c] = k
HasTemplate(n, c) == \E t \in templates : t.name = n /\ t.client = c
Put(f, x, y) == [z \in (DOMAIN f) \cup {x} |-> IF z = x THEN y ELSE f[z]]
Drop(f, S) == [z \in (DOMAIN f) \ S |-> f[z]]

NoCall == [op |-> "none"]

Init ==
    /\ users = [u \in {Seed} |->
                  [email |-> SeedEmail, client |-> Seed, super |-> TRUE, status |-> "active",
                   otp |-> None, fresh |-> FALSE, verified |-> TRUE, password |-> Seed]]
    /\ clients = [c \in {Seed} |-> SeedCompany]
    /\ templates = {}
    /\ members = {}
    /\ invites = [i \in {} |-> NoCall]
    /\ tokens = [t \in {} |-> NoCall]
    /\ audited = {}
    /\ mailed = {}
    /\ pc = [r \in Requests |-> "idle"]
    /\ call = [r \in Requests |-> NoCall]
    /\ who = [r \in Requests |-> None]
    /\ raced = {}
    /\ torn = {}
    /\ faults = 0

Goto(r, to) == pc' = [pc EXCEPT ![r] = to]

\* The request c, which works on user u, has passed its checks.
Begin(r, c, u, to) ==
    /\ pc[r] = "idle"
    /\ Cardinality({x \in Requests : InFlight(x)}) < AtOnce
    /\ call' = [call EXCEPT ![r] = c]
    /\ who' = [who EXCEPT ![r] = u]
    /\ raced' = raced \cup {{q, r} : q \in {x \in Requests : InFlight(x)}}
    /\ Goto(r, to)
    /\ UNCHANGED <<db, mailed, torn, faults>>

Refuse(r) ==
    /\ pc[r] = "idle"
    /\ Goto(r, "refused")
    /\ UNCHANGED <<db, mailed, call, who, raced, torn, faults>>

AfterRoles(r) ==
    CASE Is(r, "signup") -> "audit" [] Is(r, "createClient") -> "mail" [] OTHER -> "ok"

\* Where a throw takes the request: a request for a reset answers all the same,
\* the creation of a client starts to undo, default permissions do without.
Failure(r) ==
    CASE Is(r, "forgot") -> "ok"
      [] pc[r] \in {"perms", "templates"} -> AfterRoles(r)
      [] Is(r, "createClient") /\ pc[r] \notin {"client", "perms", "templates"} ->
           IF pc[r] = "user" THEN "undoClient" ELSE "undoUser"
      [] OTHER -> "failed"

Throws(r) ==
    /\ Goto(r, Failure(r))
    /\ UNCHANGED <<db, mailed, call, who, raced, torn, faults>>

----------------------------------------------------------------------------
(* Checks before the first write *)

BeginSignup(r, e, k) ==
    LET c == [op |-> "signup", email |-> e, client |-> k] IN
    IF HasEmail(e) THEN Refuse(r) ELSE Begin(r, c, r, "user")

BeginCreateClient(r, e, k) ==
    LET c == [op |-> "createClient", email |-> e, company |-> k] IN
    IF HasEmail(e) \/ HasCompany(k) THEN Refuse(r) ELSE Begin(r, c, r, "client")

\* Only a code that is neither expired nor used matches.
Matches(u, code) == users[u].otp = code /\ users[u].fresh /\ ~ users[u].verified

BeginVerify(r, e, code) ==
    LET c == [op |-> "verify", email |-> e, otp |-> code] IN
    IF HasEmail(e) /\ Matches(Of(e), code) THEN Begin(r, c, Of(e), "use")
    ELSE Refuse(r)

\* Mutant: nobody looks whether the account is verified.
BeginResendAnyway(r, e) ==
    LET c == [op |-> "resend", email |-> e] IN
    IF HasEmail(e) /\ users[Of(e)].status = "active"
    THEN Begin(r, c, Of(e), "renew")
    ELSE Refuse(r)

BeginResend(r, e) ==
    LET c == [op |-> "resend", email |-> e] IN
    IF HasEmail(e) /\ users[Of(e)].status = "active" /\ ~ users[Of(e)].verified
    THEN Begin(r, c, Of(e), "renew")
    ELSE Refuse(r)

\* Default permissions are assigned again, to a super admin.
BeginFix(r, e) ==
    LET c == [op |-> "fix", email |-> e] IN
    IF HasEmail(e) /\ users[Of(e)].super THEN Begin(r, c, Of(e), "perms") ELSE Refuse(r)

BeginForgot(r, e) ==
    LET c == [op |-> "forgot", email |-> e] IN
    IF HasEmail(e) THEN Begin(r, c, Of(e), "void") ELSE Refuse(r)

BeginReset(r, t) ==
    LET c == [op |-> "reset", token |-> t] IN
    IF t \in DOMAIN tokens /\ tokens[t].open /\ tokens[t].fresh
    THEN Begin(r, c, tokens[t].user, "password")
    ELSE Refuse(r)

BeginChange(r, u, current) ==
    LET c == [op |-> "change", current |-> current] IN
    IF users[u].status = "active" /\ users[u].password = current
    THEN Begin(r, c, u, "password")
    ELSE Refuse(r)

PendingInvites(u, e) ==
    {i \in DOMAIN invites :
        invites[i].by = u /\ invites[i].email = e /\ invites[i].status = "pending"}

BeginInvite(r, u, e) ==
    LET c == [op |-> "invite", email |-> e] IN
    IF PendingInvites(u, e) = {} THEN Begin(r, c, u, "invite") ELSE Refuse(r)

BeginAccept(r, i) ==
    LET c == [op |-> "accept", invite |-> i, email |-> invites[i].email,
              client |-> users[invites[i].by].client] IN
    IF invites[i].status = "pending" /\ ~ HasEmail(c.email)
    THEN Begin(r, c, r, "user")
    ELSE Refuse(r)

----------------------------------------------------------------------------
(* Statements *)

CreateClient(r) ==
    /\ pc[r] = "client" /\ ~ HasCompany(call[r].company)
    /\ clients' = Put(clients, r, call[r].company)
    /\ Goto(r, "user")
    /\ UNCHANGED <<users, templates, members, invites, tokens, audited, mailed, call, who,
                   raced, torn, faults>>

CreateClientThrows(r) ==
    /\ pc[r] = "client" /\ HasCompany(call[r].company)
    /\ Throws(r)

\* Signed up or invited, a user is active from the start.
NewUser(r) ==
    LET invited == Is(r, "accept") IN
    [email |-> call[r].email, super |-> ~ invited, verified |-> FALSE, password |-> r,
     client |-> IF Is(r, "createClient") THEN r ELSE call[r].client,
     status |-> IF Is(r, "createClient") THEN "pending" ELSE "active",
     otp |-> IF invited THEN None ELSE r, fresh |-> ~ invited]

AfterUser(r) ==
    CASE Is(r, "signup") -> "mail" [] Is(r, "accept") -> "store" [] OTHER -> "perms"

CreateUser(r) ==
    /\ pc[r] = "user" /\ ~ HasEmail(call[r].email)
    /\ users' = Put(users, r, NewUser(r))
    /\ Goto(r, AfterUser(r))
    /\ UNCHANGED <<clients, templates, members, invites, tokens, audited, mailed, call, who,
                   raced, torn, faults>>

CreateUserThrows(r) ==
    /\ pc[r] = "user" /\ HasEmail(call[r].email)
    /\ Throws(r)

\* assignDefaultPermissions.  Where the client has the template of super admins,
\* or after all were made, the role is assigned, which throws for lack of a
\* client and is swallowed: the request goes on as after any error here.
FindRole(r) ==
    LET u == who[r] IN
    /\ pc[r] = "perms"
    /\ Goto(r, IF u \in DOMAIN users /\ ~ HasTemplate(1, users[u].client)
               THEN "templates" ELSE AfterRoles(r))
    /\ UNCHANGED <<db, mailed, call, who, raced, torn, faults>>

Missing(c) == {n \in 1..Templates : ~ HasTemplate(n, c)}

MakeTemplate(r) ==
    LET u == who[r]
        c == users[u].client
    IN
    /\ pc[r] = "templates"
    /\ \/ /\ u \in DOMAIN users => Missing(c) = {}
          /\ Goto(r, AfterRoles(r))
          /\ UNCHANGED templates
       \/ /\ u \in DOMAIN users
          /\ \E n \in Missing(c) :
                /\ \A m \in Missing(c) : n <= m
                /\ templates' = templates \cup {[name |-> n, client |-> c, creator |-> u]}
          /\ UNCHANGED pc
    /\ UNCHANGED <<users, clients, members, invites, tokens, audited, mailed, call, who,
                   raced, torn, faults>>

AfterMail(r) ==
    CASE Is(r, "signup") -> "perms" [] Is(r, "createClient") -> "activate" [] OTHER -> "audit"

Mail(r) ==
    /\ pc[r] = "mail"
    /\ mailed' = mailed \cup {r}
    /\ Goto(r, AfterMail(r))
    /\ UNCHANGED <<db, call, who, raced, torn, faults>>

\* Mutant: an error of the mail server is swallowed.
MailFailsQuietly(r) ==
    /\ pc[r] = "mail"
    /\ Goto(r, AfterMail(r))
    /\ UNCHANGED <<db, mailed, call, who, raced, torn, faults>>

\* The mail server does not answer; the mail may be delivered all the same.
MailFails(r) ==
    /\ pc[r] = "mail"
    /\ \E M \in {mailed, mailed \cup {r}} : mailed' = M
    /\ Goto(r, IF Is(r, "invite") THEN "uninvite" ELSE Failure(r))
    /\ UNCHANGED <<db, call, who, raced, torn, faults>>

Activate(r) ==
    /\ pc[r] = "activate"
    /\ users' = [users EXCEPT ![r].status = "active"]
    /\ Goto(r, "ok")
    /\ UNCHANGED <<clients, templates, members, invites, tokens, audited, mailed, call, who,
                   raced, torn, faults>>

\* The last statement of most handlers.
Audit(r) ==
    /\ pc[r] = "audit" /\ who[r] \in DOMAIN users
    /\ audited' = audited \cup {who[r]}
    /\ Goto(r, "ok")
    /\ UNCHANGED <<users, clients, templates, members, invites, tokens, mailed, call, who,
                   raced, torn, faults>>

UpdatesUser(r) == pc[r] \in {"use", "renew", "password"}

WriteUser(r) ==
    /\ UpdatesUser(r) /\ who[r] \in DOMAIN users
    /\ users' = [users EXCEPT ![who[r]] =
                   CASE pc[r] = "use" -> [@ EXCEPT !.verified = TRUE, !.otp = None, !.fresh = FALSE]
                     [] pc[r] = "renew" -> [@ EXCEPT !.verified = FALSE, !.otp = r, !.fresh = TRUE]
                     [] OTHER -> [@ EXCEPT !.password = r]]
    /\ Goto(r, CASE Is(r, "resend") -> "mail" [] Is(r, "reset") -> "spend" [] OTHER -> "audit")
    /\ UNCHANGED <<clients, templates, members, invites, tokens, audited, mailed, call, who,
                   raced, torn, faults>>

\* The user was taken back meanwhile, by the creation of its client.
UserIsGone(r) ==
    /\ UpdatesUser(r) \/ pc[r] \in {"audit", "token"}
    /\ who[r] \notin DOMAIN users
    /\ Throws(r)

VoidTokens(r) ==
    /\ pc[r] = "void"
    /\ tokens' = [t \in DOMAIN tokens |->
                    [tokens[t] EXCEPT !.open = @ /\ tokens[t].user # who[r]]]
    /\ Goto(r, "token")
    /\ UNCHANGED <<users, clients, templates, members, invites, audited, mailed, call, who,
                   raced, torn, faults>>

CreateToken(r) ==
    /\ pc[r] = "token" /\ who[r] \in DOMAIN users
    /\ tokens' = Put(tokens, r, [user |-> who[r], open |-> TRUE, fresh |-> TRUE])
    /\ Goto(r, "mail")
    /\ UNCHANGED <<users, clients, templates, members, invites, audited, mailed, call, who,
                   raced, torn, faults>>

\* Mutant: the token stays as it is.
SpendNothing(r) ==
    /\ pc[r] = "spend"
    /\ Goto(r, "audit")
    /\ UNCHANGED <<db, mailed, call, who, raced, torn, faults>>

SpendToken(r) ==
    /\ pc[r] = "spend"
    /\ IF call[r].token \in DOMAIN tokens
       THEN /\ tokens' = [tokens EXCEPT ![call[r].token].open = FALSE]
            /\ Goto(r, "audit")
       ELSE /\ Goto(r, Failure(r))
            /\ UNCHANGED tokens
    /\ UNCHANGED <<users, clients, templates, members, invites, audited, mailed, call, who,
                   raced, torn, faults>>

CreateInvite(r) ==
    /\ pc[r] = "invite"
    /\ invites' = Put(invites, r, [email |-> call[r].email, by |-> who[r],
                                   status |-> "pending"])
    /\ Goto(r, "mail")
    /\ UNCHANGED <<users, clients, templates, members, tokens, audited, mailed, call, who,
                   raced, torn, faults>>

\* Its mail failed: the invitation is deleted, accepted or not.
DeleteInvite(r) ==
    /\ pc[r] = "uninvite"
    /\ invites' = Drop(invites, {r})
    /\ Goto(r, "failed")
    /\ UNCHANGED <<users, clients, templates, members, tokens, audited, mailed, call, who,
                   raced, torn, faults>>

AddMember(r) ==
    /\ pc[r] = "store"
    /\ members' = members \cup {r}
    /\ Goto(r, "close")
    /\ UNCHANGED <<users, clients, templates, invites, tokens, audited, mailed, call, who,
                   raced, torn, faults>>

CloseInvite(r) ==
    /\ pc[r] = "close"
    /\ IF call[r].invite \in DOMAIN invites
       THEN /\ invites' = [invites EXCEPT ![call[r].invite].status = "active"]
            /\ Goto(r, "audit")
       ELSE /\ Goto(r, Failure(r))
            /\ UNCHANGED invites
    /\ UNCHANGED <<users, clients, templates, members, tokens, audited, mailed, call, who,
                   raced, torn, faults>>

----------------------------------------------------------------------------
(* The creation of a client is undone, the user first *)

\* Rows that refer to a user keep it; its tokens go with it.
UserIsTied(u) ==
    \/ \E t \in templates : t.creator = u
    \/ u \in audited \cup members
    \/ \E i \in DOMAIN invites : invites[i].by = u

ClientIsTied(c) ==
    \/ \E u \in DOMAIN users : users[u].client = c
    \/ \E t \in templates : t.client = c

DeleteUser(r) ==
    /\ users' = Drop(users, {r})
    /\ tokens' = Drop(tokens, {t \in DOMAIN tokens : tokens[t].user = r})

\* Mutant: foreign keys do not keep a user.
UndoUserAnyway(r) ==
    /\ pc[r] = "undoUser"
    /\ DeleteUser(r)
    /\ Goto(r, "undoClient")
    /\ UNCHANGED <<clients, templates, members, invites, audited, mailed, call, who, raced, torn, faults>>

\* Mutant: the client is undone first, which its user prevents.
UndoClientFirst(r) ==
    /\ pc[r] = "undoUser"
    /\ IF UserIsTied(r) THEN UNCHANGED <<users, tokens>> ELSE DeleteUser(r)
    /\ Goto(r, "failed")
    /\ UNCHANGED <<clients, templates, members, invites, audited, mailed, call, who, raced, torn, faults>>

UndoUser(r) ==
    /\ pc[r] = "undoUser"
    /\ IF UserIsTied(r) THEN UNCHANGED <<users, tokens>> ELSE DeleteUser(r)
    /\ Goto(r, "undoClient")
    /\ UNCHANGED <<clients, templates, members, invites, audited, mailed, call, who, raced, torn, faults>>

UndoClient(r) ==
    /\ pc[r] = "undoClient"
    /\ clients' = IF ClientIsTied(r) THEN clients ELSE Drop(clients, {r})
    /\ Goto(r, "failed")
    /\ UNCHANGED <<users, templates, members, invites, tokens, audited, mailed, call, who,
                   raced, torn, faults>>

----------------------------------------------------------------------------
(* The specification *)

Undoing(r) == pc[r] \in {"undoUser", "undoClient"}

Fault == faults < MaxFaults /\ faults' = faults + 1

\* No connection for the next statement; an undo that fails is logged.
NoConnection(r) ==
    /\ InFlight(r) /\ pc[r] # "mail"
    /\ Goto(r, CASE pc[r] = "undoUser" -> "undoClient"
                 [] pc[r] = "undoClient" -> "failed"
                 [] OTHER -> Failure(r))
    /\ torn' = IF Undoing(r) THEN torn \cup {r} ELSE torn
    /\ Fault
    /\ UNCHANGED <<db, mailed, call, who, raced>>

Crash ==
    /\ \E r \in Requests : InFlight(r)
    /\ pc' = [r \in Requests |-> IF InFlight(r) THEN "failed" ELSE pc[r]]
    /\ torn' = torn \cup {r \in Requests : InFlight(r) /\ Is(r, "createClient")}
    /\ Fault
    /\ UNCHANGED <<db, mailed, call, who, raced>>

\* Ten minutes pass over a code, an hour over a token; it matters to requests to come.
Expire ==
    /\ \E r \in Requests : pc[r] = "idle"
    /\ \/ \E u \in DOMAIN users :
            users[u].fresh /\ users' = [users EXCEPT ![u].fresh = FALSE] /\ UNCHANGED tokens
       \/ \E t \in DOMAIN tokens :
            tokens[t].fresh /\ tokens' = [tokens EXCEPT ![t].fresh = FALSE] /\ UNCHANGED users
    /\ UNCHANGED <<clients, templates, members, invites, audited, mailed, pc, call, who, raced,
                   torn, faults>>

Step(r) ==
    \/ CreateClient(r) \/ CreateClientThrows(r) \/ CreateUser(r) \/ CreateUserThrows(r)
    \/ FindRole(r) \/ MakeTemplate(r) \/ Mail(r) \/ MailFails(r) \/ Activate(r) \/ Audit(r)
    \/ WriteUser(r) \/ UserIsGone(r)
    \/ VoidTokens(r) \/ CreateToken(r) \/ SpendToken(r)
    \/ CreateInvite(r) \/ DeleteInvite(r) \/ AddMember(r) \/ CloseInvite(r)
    \/ UndoUser(r) \/ UndoClient(r)
    \/ NoConnection(r)

\* Codes, tokens and invitations come with a mail.
Codes == {q \in mailed : call[q].op \in {"signup", "createClient", "resend"}}

\* A client learns its id when it was created.
KnownClients == {Seed} \cup {q \in (DOMAIN clients) \ {Seed} : pc[q] = "ok"}

Receive(r) ==
    /\ pc[r] = "idle"
    /\ \/ \E e \in Emails :
            \/ BeginResend(r, e) \/ BeginForgot(r, e) \/ BeginFix(r, e)
            \/ \E k \in KnownClients : BeginSignup(r, e, k)
            \/ \E k \in Companies : BeginCreateClient(r, e, k)
            \/ \E code \in Codes : BeginVerify(r, e, code)
            \/ \E u \in DOMAIN users : users[u].status = "active" /\ BeginInvite(r, u, e)
       \/ \E t \in (DOMAIN tokens) \cap mailed : BeginReset(r, t)
       \/ \E u \in DOMAIN users, w \in Ids : BeginChange(r, u, w)
       \/ \E i \in (DOMAIN invites) \cap mailed : BeginAccept(r, i)

Next ==
    \/ \E r \in Requests : Receive(r) \/ Step(r)
    \/ Crash
    \/ Expire

Spec == Init /\ [][Next]_vars

----------------------------------------------------------------------------
(* Properties *)

Pcs == Ended \cup {"idle", "client", "user", "perms", "templates", "mail", "activate", "audit",
                  "use", "renew", "password", "spend", "void", "token", "invite", "uninvite",
                  "store", "close", "undoUser", "undoClient"}

\* Rows have their types, and no row refers to one that is gone.
TypeOK ==
    /\ DOMAIN users \subseteq Ids
    /\ \A u \in DOMAIN users : users[u] \in User /\ users[u].client \in DOMAIN clients
    /\ DOMAIN clients \subseteq Ids
    /\ \A c \in DOMAIN clients : clients[c] \in Companies
    /\ templates \subseteq Template
    /\ \A t \in templates : t.creator \in DOMAIN users /\ t.client \in DOMAIN clients
    /\ members \cup audited \subseteq DOMAIN users
    /\ DOMAIN invites \subseteq Requests
    /\ \A i \in DOMAIN invites : invites[i] \in Invite /\ invites[i].by \in DOMAIN users
    /\ DOMAIN tokens \subseteq Requests
    /\ \A t \in DOMAIN tokens : tokens[t] \in Token /\ tokens[t].user \in DOMAIN users
    /\ pc \in [Requests -> Pcs]
    /\ mailed \subseteq Requests

Together(q, r) == {q, r} \in raced

\* An invitation makes one account at most, however often it is accepted, and
\* counts as accepted only when its account exists and has the store.
AcceptedOnce ==
    /\ \A q, r \in Requests :
         /\ pc[q] = "ok" /\ pc[r] = "ok"
         /\ Is(q, "accept") /\ Is(r, "accept") /\ call[q].invite = call[r].invite
         => q = r
    /\ \A i \in DOMAIN invites :
         invites[i].status = "active" =>
             \E u \in DOMAIN users : users[u].email = invites[i].email /\ u \in members

\* Of one user for one email one invitation is pending at most, and one token of a
\* user open, unless two were under way at a time.
OneOpenOffer ==
    /\ \A i, j \in DOMAIN invites :
         /\ i # j
         /\ invites[i].status = "pending" /\ invites[j].status = "pending"
         /\ invites[i].by = invites[j].by /\ invites[i].email = invites[j].email
         => Together(i, j)
    /\ \A s, t \in DOMAIN tokens :
         (s # t /\ tokens[s].open /\ tokens[t].open /\ tokens[s].user = tokens[t].user)
             => Together(s, t)

\* What proves that a client may write: a code for a user, a token.
Proof(r) == IF Is(r, "verify") THEN call[r].otp ELSE call[r].token

\* A code, or a token, works once, unless two requests use it at a time.
ProofsWorkOnce ==
    \A q, r \in Requests :
        /\ q # r /\ pc[q] = "ok" /\ pc[r] = "ok"
        /\ call[q].op = call[r].op /\ call[q].op \in {"verify", "reset"}
        /\ Proof(q) = Proof(r)
        => Together(q, r)

\* What was offered once works once: invitations, codes and tokens, unless two
\* requests were under way at a time (acceptInvite, verifyOTP, resetPassword).
OffersWorkOnce == AcceptedOnce /\ OneOpenOffer /\ ProofsWorkOnce

\* The creation of a client leaves both the client and its user or neither,
\* unless the process died or could not undo.
ClientAndUserTogether ==
    \A r \in Requests \ torn :
        (Is(r, "createClient") /\ pc[r] \in Ended) =>
            (r \in DOMAIN clients <=> r \in DOMAIN users)

\* An account that was verified stays so, unless a new code was asked for while
\* it was being verified.
VerifiedStaysVerified ==
    [][\A u \in (DOMAIN users) \cap (DOMAIN users') :
         (users[u].verified /\ ~ users'[u].verified) =>
             \E q, r \in Requests : Is(q, "verify") /\ Is(r, "resend") /\ Together(q, r)]_vars

Others(r) == {q \in Requests \ {r} : who[q] = who[r] /\ Together(q, r)}

Achieved(r) ==
    LET u == who[r] IN
    CASE Is(r, "signup") ->
           /\ u \in DOMAIN users /\ users[u].client = call[r].client
           /\ r \in mailed
      [] Is(r, "createClient") ->
           /\ r \in DOMAIN clients /\ users[r].client = r
           /\ users[r].status = "active" /\ r \in mailed
      [] Is(r, "verify") -> users[u].verified /\ users[u].otp = None
      [] Is(r, "resend") -> users[u].otp = r /\ ~ users[u].verified /\ r \in mailed
      [] Is(r, "reset") -> users[u].password = r /\ ~ tokens[call[r].token].open
      [] Is(r, "change") -> users[u].password = r
      [] Is(r, "invite") -> r \in DOMAIN invites /\ r \in mailed
      [] Is(r, "accept") -> /\ u \in members
           /\ call[r].invite \in DOMAIN invites => invites[call[r].invite].status = "active"
      [] OTHER -> TRUE

\* A request that answers with success has done what it was asked, unless another
\* worked on the same user meanwhile.
SuccessIsComplete ==
    [][\A r \in Requests :
         (pc[r] # "ok" /\ pc'[r] = "ok") => (Achieved(r) \/ Others(r) # {})']_vars

----------------------------------------------------------------------------
(* The inductive invariants that the proofs use *)

Kinds == {"none", "signup", "createClient", "verify", "resend", "fix", "forgot", "reset",
          "change", "invite", "accept"}

\* Requests that make a user, which has their id.
Enrols(r) == call[r].op \in {"signup", "createClient", "accept"}

\* A client that is there to stay.
Stable(c) == c \in DOMAIN clients /\ (c \in Requests => pc[c] = "ok")

\* The code of the request was written to its user, its token made.
Coded(r) == pc[r] \notin {"idle", "client", "user", "renew"}
Made(r) == pc[r] \notin {"idle", "void", "token"}

\* Which kinds of requests come to which statement.
Runs(p, op) ==
    /\ p \in {"idle", "refused"} <=> op = "none"
    /\ p \in {"client", "activate", "undoUser", "undoClient"} => op = "createClient"
    /\ p = "user" => op \in {"signup", "createClient", "accept"}
    /\ p \in {"perms", "templates"} => op \in {"signup", "createClient", "fix"}
    /\ p = "mail" => op \in {"signup", "createClient", "resend", "forgot", "invite"}
    /\ p = "audit" => op \in Kinds \ {"none", "createClient", "fix"}
    /\ p = "use" => op = "verify"
    /\ p = "renew" => op = "resend"
    /\ p = "password" => op \in {"reset", "change"}
    /\ p = "spend" => op = "reset"
    /\ p \in {"void", "token"} => op = "forgot"
    /\ p \in {"invite", "uninvite"} => op = "invite"
    /\ p \in {"store", "close"} => op = "accept"

\* What a request asks for, and whom it concerns.
Asks(r) ==
    LET c == call[r] IN
    /\ c.op \in Kinds
    /\ c.op \in {"signup", "createClient", "invite", "accept"} => c.email \in Emails
    /\ Is(r, "createClient") => c.company \in Companies
    /\ Enrols(r) => who[r] = r
    /\ c.op \in {"signup", "accept"} => Stable(c.client)
    /\ Is(r, "accept") => /\ c.invite \in Requests /\ Is(c.invite, "invite")
                          /\ c.email = call[c.invite].email
    /\ Is(r, "verify") => /\ c.otp \in Requests /\ who[c.otp] = who[r]
                          /\ Coded(c.otp)
    /\ Is(r, "reset") => /\ c.token \in Requests /\ Is(c.token, "forgot")
                         /\ Made(c.token)

RequestsFit ==
    /\ pc \in [Requests -> Pcs]
    /\ DOMAIN call = Requests
    /\ who \in [Requests -> Ids \cup {None}]
    /\ \A r \in Requests : Runs(pc[r], call[r].op) /\ Asks(r)
    /\ mailed \subseteq Requests
    /\ Stable(Seed)

\* A user belongs to the client it was made with, or to one that stays.
UserFits(u) ==
    LET x == users[u] IN
    /\ u \in Ids /\ x \in User /\ x.client \in DOMAIN clients
    /\ x.client = u \/ Stable(x.client)
    /\ x.otp # None => x.otp \in Requests /\ who[x.otp] = u /\ Coded(x.otp)
    /\ u # Seed => /\ Enrols(u) /\ pc[u] \notin {"idle", "client", "user"}
                   /\ x.email = call[u].email
                   /\ Is(u, "createClient") =>
                        x.client = u /\ (x.status = "active" => pc[u] = "ok")

UsersFit ==
    /\ \A u \in DOMAIN users : UserFits(u)
    /\ \A u, v \in DOMAIN users : users[u].email = users[v].email => u = v

ClientsFit ==
    \A c \in DOMAIN clients :
        /\ c \in Ids /\ clients[c] \in Companies
        /\ c # Seed => Is(c, "createClient") /\ pc[c] \notin {"idle", "client"}

RolesFit ==
    /\ templates \subseteq Template
    /\ \A t \in templates : t.creator \in DOMAIN users /\ t.client = users[t.creator].client
    /\ members \cup audited \subseteq DOMAIN users

InvitesFit ==
    \A i \in DOMAIN invites :
        LET x == invites[i] IN
        /\ i \in Requests /\ x \in Invite
        /\ Is(i, "invite") /\ pc[i] \notin {"idle", "invite"}
        /\ x.email = call[i].email /\ x.by = who[i]
        /\ x.by \in DOMAIN users /\ users[x.by].status = "active"
        /\ x.status = "active" => \E u \in members : users[u].email = x.email

TokensFit ==
    \A t \in DOMAIN tokens :
        /\ t \in Requests /\ tokens[t] \in Token
        /\ Is(t, "forgot") /\ Made(t)
        /\ tokens[t].user = who[t] /\ tokens[t].user \in DOMAIN users

\* What a request has done when it is at p.
Did(r, p) ==
    /\ Enrols(r) /\ p \in {"perms", "templates", "mail", "audit", "store", "close", "activate",
                           "undoUser", "ok"} => r \in DOMAIN users
    /\ Is(r, "createClient") /\ p \in {"user", "perms", "templates", "mail", "activate",
                                       "undoUser", "undoClient", "ok"} => r \in DOMAIN clients
    /\ Is(r, "accept") /\ p \in {"close", "audit", "ok"} => r \in members
    /\ p = "invite" => who[r] \in DOMAIN users /\ users[who[r]].status = "active"
    /\ Is(r, "createClient") /\ p = "failed" /\ r \notin torn =>
          (r \in DOMAIN clients <=> r \in DOMAIN users)

RowsInv ==
    /\ RequestsFit /\ UsersFit /\ ClientsFit /\ RolesFit /\ InvitesFit /\ TokensFit
    /\ \A r \in Requests : Did(r, pc[r])

\* A pending invitation, an open token.
Pending(i, u, e) == invites[i].status = "pending" /\ invites[i].by = u /\ invites[i].email = e
Opened(t, u) == tokens[t].open /\ tokens[t].user = u

\* Two offers of one kind, or an offer and a request that is about to make another.
OffersMet ==
    /\ \A i, j \in DOMAIN invites, u \in Ids, e \in Emails :
          (i # j /\ Pending(i, u, e) /\ Pending(j, u, e)) => Together(i, j)
    /\ \A r \in Requests, i \in DOMAIN invites :
          (pc[r] = "invite" /\ Pending(i, who[r], call[r].email)) => Together(i, r)
    /\ \A s, t \in DOMAIN tokens, u \in Ids :
          (s # t /\ Opened(s, u) /\ Opened(t, u)) => Together(s, t)
    /\ \A r \in Requests, t \in DOMAIN tokens :
          (pc[r] = "token" /\ Opened(t, who[r])) => Together(t, r)

\* A proof that was used is void.
Void(r) ==
    pc[r] \in {"audit", "ok"} =>
        /\ (Is(r, "verify") /\ who[r] \in DOMAIN users) => users[who[r]].otp # call[r].otp
        /\ (Is(r, "reset") /\ call[r].token \in DOMAIN tokens) => ~ tokens[call[r].token].open

SameProof(q, r) ==
    /\ q # r /\ pc[q] # "failed" /\ pc[r] # "failed"
    /\ call[q].op = call[r].op /\ call[q].op \in {"verify", "reset"} /\ Proof(q) = Proof(r)

ProofsMet ==
    /\ \A r \in Requests : Void(r)
    /\ \A q, r \in Requests : SameProof(q, r) => Together(q, r)

\* A code is renewed over a verification only when that came in between.
RenewalsMet ==
    \A r \in Requests :
        (pc[r] = "renew" /\ who[r] \in DOMAIN users /\ users[who[r]].verified) =>
            \E q \in Requests : Is(q, "verify") /\ Together(q, r)

MeetInv ==
    /\ \A q, r \in Requests : q # r /\ InFlight(q) /\ InFlight(r) => Together(q, r)
    /\ OffersMet /\ ProofsMet /\ RenewalsMet

\* What r has done for its user when it is at p.
Done(r, p) ==
    LET u == who[r] IN
    /\ Is(r, "signup") /\ p \in {"mail", "perms", "templates", "audit", "ok"} =>
          u \in DOMAIN users /\ users[u].client = call[r].client
    /\ \/ Is(r, "signup") /\ p \in {"perms", "templates", "audit", "ok"}
       \/ Is(r, "createClient") /\ p \in {"activate", "ok"}
       \/ call[r].op \in {"resend", "invite"} /\ p \in {"audit", "ok"}
       => r \in mailed
    /\ Is(r, "createClient") /\ p = "ok" => r \in DOMAIN users /\ users[r].status = "active"
    /\ Is(r, "verify") /\ p \in {"audit", "ok"} =>
          u \in DOMAIN users /\ users[u].verified /\ users[u].otp = None
    /\ Is(r, "resend") /\ p \in {"mail", "audit", "ok"} =>
          u \in DOMAIN users /\ users[u].otp = r /\ ~ users[u].verified
    /\ call[r].op \in {"reset", "change"} /\ p \in {"spend", "audit", "ok"} =>
          u \in DOMAIN users /\ users[u].password = r
    /\ Is(r, "reset") /\ p \in {"audit", "ok"} =>
          call[r].token \in DOMAIN tokens /\ ~ tokens[call[r].token].open
    /\ Is(r, "invite") /\ p \in {"mail", "audit", "ok"} => r \in DOMAIN invites
    /\ Is(r, "accept") /\ p \in {"audit", "ok"} /\ call[r].invite \in DOMAIN invites =>
          invites[call[r].invite].status = "active"

\* Who resets a password works on the user of its token, an invitation that is
\* accepted was made before, and whom nobody received has met nobody.
OthersFit ==
    \A r \in Requests :
        /\ Is(r, "reset") => who[call[r].token] = who[r]
        /\ Is(r, "accept") => pc[call[r].invite] \notin {"idle", "invite"}
        /\ pc[r] = "idle" => \A q \in Requests : ~ Together(q, r)

DoneInv ==
    /\ OthersFit
    /\ \A r \in Requests : InFlight(r) => Done(r, pc[r]) \/ Others(r) # {}
===============================================================================
