-------------------------------- MODULE Access --------------------------------
(***************************************************************************)
(* Who may do what (PermissionsService, EmployeeService): rights given and    *)
(* revoked, role templates and their assignment, employees hired, invited      *)
(* and edited.                                                              *)
(*                                                                         *)
(* An edit of an employee is one interactive transaction: rows it deletes are *)
(* locked until it ends, and what it inserts is seen at its commit.  A hire    *)
(* is one too, an invitation one that is followed by statements of their own.   *)
(* Everything else commits statement by statement.                            *)
(*                                                                         *)
(* The rights are those over one resource: no statement but the deletions of  *)
(* an edit looks at rows of two.  An employee is identified by its email,      *)
(* which an edit may change in the code; super admins, exclusions, conditions  *)
(* of rights and the status of an employee are left out.                      *)
(***************************************************************************)
EXTENDS Naturals, FiniteSets, Sequences

CONSTANTS
    Requests,       \* HTTP writes; each is received at most once
    Seed,           \* made the rows that are there at the start
    Emails,         \* of employees
    SeedEmail,
    Templates,      \* names of role templates
    SeedTemplate,
    Stores,
    Actions,        \* on the one resource
    SeedGrants,     \* what the first template grants
    Wishes,         \* the sets of explicit rights that requests ask for
    GrantSets,      \* the sets of actions of templates
    Pasts,          \* what requests before the start left to the first employee: its
                    \* rights beside those of its hire, its stores, other templates
    None            \* null

ASSUME AccessAssumption ==
    /\ Seed \notin Requests
    /\ Emails \cap (Requests \cup {Seed}) = {}
    /\ SeedEmail \in Emails
    /\ SeedTemplate \in Templates
    /\ SeedGrants \in GrantSets
    /\ GrantSets \subseteq SUBSET Actions
    /\ Wishes \subseteq SUBSET ((Stores \cup {None}) \X Actions)
    /\ None \notin Stores \cup Templates

Places == Stores \cup {None}
Makers == Requests \cup {Seed}

\* Rows of RoleTemplate, UserRole and Permission.
Template == [active : BOOLEAN, default : BOOLEAN, grants : SUBSET Actions]
Role == [user : Emails, template : Templates, store : Places]
Right == [user : Emails, store : Places, actions : (SUBSET Actions) \ {{}},
          grant : {"lasting", "timed", "expired", "denied"}]

ASSUME PastsAssumption ==
    \A past \in Pasts :
        /\ past.rights \subseteq Right
        /\ \A x \in past.rights : x.user = SeedEmail
        /\ past.stores \subseteq Stores
        /\ DOMAIN past.templates \subseteq Templates \ {SeedTemplate}
        /\ \A t \in DOMAIN past.templates : past.templates[t] \in Template

VARIABLES
    templates,  \* the rows of RoleTemplate, by name
    users,      \* the employees
    roles,      \* the rows of UserRole; an id is the request that made it and the user
    rights,     \* the rows of Permission; an id is the request, user, store and actions
    members,    \* the rows of UserStoreMap, <<user, store>>
    pc,         \* what each request awaits
    call,       \* what it asks for
    work,       \* its local state
    raced,      \* history: the pairs of requests that were at work together
    torn        \* history: requests that went on after an error they swallowed

db == <<templates, users, roles, rights, members>>
vars == <<db, pc, call, work, raced, torn>>

Ended == {"ok", "refused", "failed"}
InFlight(r) == pc[r] \notin Ended \cup {"idle"}
Is(r, op) == call[r].op = op
Put(f, x, y) == [z \in (DOMAIN f) \cup {x} |-> IF z = x THEN y ELSE f[z]]
Drop(f, S) == [z \in (DOMAIN f) \ S |-> f[z]]

RightsOf(u) == {i \in DOMAIN rights : rights[i].user = u}
RightsAt(u, s) == {i \in RightsOf(u) : rights[i].store = s}
RolesOf(u) == {i \in DOMAIN roles : roles[i].user = u}
TemplatesOf(u) == {roles[i].template : i \in RolesOf(u)}

\* createMany: a row for each store and action, whatever rows there are; the
\* unique key has resourceId, which is null, so that nothing is a duplicate.
Grant(f, r, u, X) ==
    LET new == {<<r, u, x[1], {x[2]}>> : x \in X} IN
    [i \in DOMAIN f \cup new |->
        IF i \in new THEN [user |-> u, store |-> i[3], actions |-> i[4], grant |-> "lasting"]
        ELSE f[i]]

Everywhere(A) == {None} \X A

NoCall == [op |-> "none", users |-> {}, templates |-> {}]
Rest == [user |-> None, todo |-> {}, found |-> None, snap |-> {}, held |-> {}, grants |-> {},
         plan |-> {}]

Init ==
    /\ \E past \in Pasts :
         /\ templates = [t \in {SeedTemplate} \cup DOMAIN past.templates |->
                           IF t = SeedTemplate
                           THEN [active |-> TRUE, default |-> TRUE, grants |-> SeedGrants]
                           ELSE past.templates[t]]
         /\ rights = LET id(x) == <<Seed, SeedEmail, x.store, x.actions>> IN
                     Grant([i \in {id(x) : x \in past.rights} |->
                              CHOOSE x \in past.rights : id(x) = i],
                           Seed, SeedEmail, Everywhere(SeedGrants))
         /\ members = {SeedEmail} \X past.stores
    /\ users = {SeedEmail}
    /\ roles = [i \in {<<Seed, SeedEmail>>} |->
                  [user |-> SeedEmail, template |-> SeedTemplate, store |-> None]]
    /\ pc = [r \in Requests |-> "idle"]
    /\ call = [r \in Requests |-> NoCall]
    /\ work = [r \in Requests |-> Rest]
    /\ raced = {}
    /\ torn = {}

\* The request goes on to "to" with local state w, or ends there.
Goto(r, to, w) ==
    /\ pc' = [pc EXCEPT ![r] = to]
    /\ work' = [work EXCEPT ![r] = IF to \in Ended THEN Rest ELSE w]

\* What a refused request asked for is of no more interest.
Begin(r, c, to, w) ==
    /\ pc[r] = "idle"
    /\ call' = IF to = "refused" THEN call ELSE [call EXCEPT ![r] = c]
    /\ raced' = raced \cup {{q, r} : q \in {x \in Requests : InFlight(x)}}
    /\ Goto(r, to, w)
    /\ UNCHANGED <<db, torn>>

Fail(r) == Goto(r, "failed", Rest) /\ UNCHANGED <<db, call, raced, torn>>

\* No open transaction of another request has deleted or updated one of the rows.
Free(r, rows) == \A q \in Requests \ {r} : work[q].held \cap rows = {}

----------------------------------------------------------------------------
(* Checks before the first write *)

\* Bulk assignments give lasting rights only.
BeginAssign(r, U, s, A, g) ==
    /\ (\E u, v \in U : u # v) => g = "lasting"
    /\ Begin(r, [op |-> "assign", users |-> U, templates |-> {}, store |-> s, actions |-> A,
                 grant |-> g],
             "next", [Rest EXCEPT !.todo = U])

\* History: whether the user has one row at most to revoke from.
BeginRevoke(r, u, s, A) ==
    Begin(r, [op |-> "revoke", users |-> {u}, templates |-> {}, store |-> s, actions |-> A,
              single |-> \A i, j \in RightsAt(u, s) : i = j],
          "find", [Rest EXCEPT !.user = u])

IsActive(t) == t \in DOMAIN templates /\ templates[t].active

BeginHire(r, e, t, X, S) ==
    Begin(r, [op |-> "hire", users |-> {e}, templates |-> {t}, explicit |-> X, stores |-> S],
          IF IsActive(t) /\ e \notin users THEN "draw" ELSE "refused",
          [Rest EXCEPT !.user = e])

\* Without a template in the request, a default one, deleted or not.
BeginInvite(r, e, t, S) ==
    LET defaults == {d \in DOMAIN templates : templates[d].default} IN
    \E d \in IF t # None THEN {t} ELSE IF defaults = {} THEN {None} ELSE defaults :
        Begin(r, [op |-> "invite", users |-> {e}, templates |-> {d}, explicit |-> {},
                  stores |-> S],
              IF (t = None \/ IsActive(t)) /\ d # None /\ e \notin users
              THEN "commit" ELSE "refused",
              [Rest EXCEPT !.user = e])

\* The statements of an edit: the row of the user, its roles when the template
\* changes, its rights when that or explicit rights ask for it, its stores.
Plan(data, changes, X, S) ==
    UNION {IF data \/ changes THEN {"user"} ELSE {},
           IF changes THEN {"roles"} ELSE {},
           IF changes \/ X # None THEN {"rights", "draw"} ELSE {},
           IF S # None THEN {"stores"} ELSE {},
           {"commit"}}

\* Their order.
First(plan) ==
    CASE "user" \in plan -> "user"
      [] "user" \notin plan /\ "roles" \in plan -> "roles"
      [] plan \cap {"user", "roles"} = {} /\ "rights" \in plan -> "rights"
      [] plan \cap {"user", "roles", "rights"} = {} /\ "draw" \in plan -> "draw"
      [] plan \cap {"user", "roles", "rights", "draw"} = {} /\ "stores" \in plan -> "stores"
      [] OTHER -> "commit"

\* One of the roles is compared with the template, in no order.
BeginEdit(r, u, t, X, S, data) ==
    \E current \in TemplatesOf(u) :
        LET changes == t \notin {None, current}
            plan == Plan(data, changes, X, S)
        IN Begin(r, [op |-> "edit", users |-> {u}, changes |-> changes, explicit |-> X,
                     stores |-> S,
                     templates |-> IF changes THEN {t} ELSE TemplatesOf(u)],
                 IF changes /\ ~ IsActive(t) THEN "refused" ELSE First(plan),
                 [Rest EXCEPT !.user = u, !.plan = plan])

BeginSetStores(r, u, S) ==
    Begin(r, [op |-> "setStores", users |-> {u}, templates |-> {}, stores |-> S],
          "stores", [Rest EXCEPT !.user = u])

\* Each row lacks its client, which throws and is swallowed: nothing is assigned.
BeginSetRights(r, u) ==
    Begin(r, [op |-> "setRights", users |-> {u}, templates |-> {}], "ok", Rest)

BeginAssignTemplate(r, U, t, s) ==
    Begin(r, [op |-> "assignTemplate", users |-> U, templates |-> {t}, store |-> s],
          "assign", Rest)

BeginTemplate(r, op, t, row) ==
    Begin(r, [op |-> op, users |-> {}, templates |-> {t}, row |-> row],
          IF op # "createTemplate" /\ t \notin DOMAIN templates THEN "refused"
          ELSE IF op = "deleteTemplate" THEN "count" ELSE "template",
          Rest)

----------------------------------------------------------------------------
(* Rights are given and revoked *)

\* The next user of the assignment; is it a member of the store already?
NextUser(r) ==
    /\ pc[r] = "next"
    /\ \E u \in work[r].todo :
         Goto(r, IF call[r].store = None \/ <<u, call[r].store>> \in members
                 THEN "find" ELSE "join",
              [work[r] EXCEPT !.user = u])
    /\ UNCHANGED <<db, call, raced, torn>>

Join(r) ==
    LET pair == <<work[r].user, call[r].store>> IN
    /\ pc[r] = "join" /\ pair \notin members
    /\ members' = members \cup {pair}
    /\ Goto(r, "find", work[r])
    /\ UNCHANGED <<templates, users, roles, rights, call, raced, torn>>

\* Another request made the row meanwhile; (userId, storeId) is unique.
JoinThrows(r) ==
    LET pair == <<work[r].user, call[r].store>> IN
    /\ pc[r] = "join" /\ pair \in members /\ Free(r, {pair})
    /\ Fail(r)

\* findFirst: any of the rows.
FindRight(r) ==
    LET rows == RightsAt(work[r].user, call[r].store) IN
    /\ pc[r] = "find"
    /\ \/ /\ rows = {}
          /\ Goto(r, IF Is(r, "revoke") THEN "ok" ELSE "write", [work[r] EXCEPT !.found = None])
       \/ \E i \in rows :
            Goto(r, "write",
                 [work[r] EXCEPT !.found = [id |-> i, actions |-> rights[i].actions]])
    /\ UNCHANGED <<db, call, raced, torn>>

\* Mutant: what was read is not merged.
OverwriteRight(r) ==
    LET w == work[r]  c == call[r] IN
    /\ pc[r] = "write" /\ Is(r, "assign")
    /\ w.found # None => w.found.id \in DOMAIN rights /\ Free(r, {w.found.id})
    /\ rights' = Put(rights, IF w.found = None THEN <<r, w.user, c.store, c.actions>>
                             ELSE w.found.id,
                     [user |-> w.user, store |-> c.store, grant |-> c.grant,
                      actions |-> c.actions])
    /\ Goto(r, IF w.todo = {w.user} THEN "ok" ELSE "next", [w EXCEPT !.todo = @ \ {w.user}])
    /\ UNCHANGED <<templates, users, roles, members, call, raced, torn>>

\* The whole row takes the kind of grant that is asked for.
WriteRight(r) ==
    LET w == work[r]  c == call[r] IN
    /\ pc[r] = "write" /\ Is(r, "assign")
    /\ w.found # None => w.found.id \in DOMAIN rights /\ Free(r, {w.found.id})
    /\ rights' = Put(rights, IF w.found = None THEN <<r, w.user, c.store, c.actions>>
                             ELSE w.found.id,
                     [user |-> w.user, store |-> c.store, grant |-> c.grant,
                      actions |-> c.actions \cup IF w.found = None THEN {}
                                                 ELSE w.found.actions])
    /\ Goto(r, IF w.todo = {w.user} THEN "ok" ELSE "next", [w EXCEPT !.todo = @ \ {w.user}])
    /\ UNCHANGED <<templates, users, roles, members, call, raced, torn>>

\* Mutant: a row without actions is kept.
EmptyRight(r) ==
    LET w == work[r]  rest == w.found.actions \ call[r].actions IN
    /\ pc[r] = "write" /\ Is(r, "revoke")
    /\ w.found.id \in DOMAIN rights /\ Free(r, {w.found.id})
    /\ rights' = [rights EXCEPT ![w.found.id].actions = rest]
    /\ Goto(r, "ok", w)
    /\ UNCHANGED <<templates, users, roles, members, call, raced, torn>>

\* Of several rows one is written; the others keep the action.
RevokeRight(r) ==
    LET w == work[r]  rest == w.found.actions \ call[r].actions IN
    /\ pc[r] = "write" /\ Is(r, "revoke")
    /\ w.found.id \in DOMAIN rights /\ Free(r, {w.found.id})
    /\ rights' = IF rest = {} THEN Drop(rights, {w.found.id})
                 ELSE [rights EXCEPT ![w.found.id].actions = rest]
    /\ Goto(r, "ok", w)
    /\ UNCHANGED <<templates, users, roles, members, call, raced, torn>>

\* The row was deleted meanwhile.
RightIsGone(r) ==
    /\ pc[r] = "write" /\ work[r].found # None
    /\ work[r].found.id \notin DOMAIN rights
    /\ Fail(r)

----------------------------------------------------------------------------
(* Employees *)

\* The template a request names.
Chosen(r) == CHOOSE t \in call[r].templates : TRUE

Granted(t) == IF IsActive(t) THEN templates[t].grants ELSE {}

\* The template whose rights are given: of an edit that does not change it, that
\* of any role left.
Source(r) ==
    IF Is(r, "edit") /\ ~ call[r].changes
    THEN TemplatesOf(work[r].user)
    ELSE call[r].templates

\* What is left of an edit when the statement it is at is over.
Ahead(r) == work[r].plan \ {First(work[r].plan)}

After(r) ==
    IF Is(r, "edit") THEN First(Ahead(r))
    ELSE IF Is(r, "hire") THEN "commit" ELSE "insert"

Advance(r, w) ==
    Goto(r, After(r), IF Is(r, "edit") THEN [w EXCEPT !.plan = Ahead(r)] ELSE w)

Draw(r) ==
    /\ pc[r] = "draw"
    /\ \E t \in Source(r) : Advance(r, [work[r] EXCEPT !.grants = Granted(t)])
    /\ UNCHANGED <<db, call, raced, torn>>

\* Hires and invitations: the user, its role, its stores, and a hire's rights.
CommitHire(r) ==
    LET w == work[r]  c == call[r]  e == w.user IN
    /\ pc[r] = "commit" /\ ~ Is(r, "edit") /\ e \notin users
    /\ users' = users \cup {e}
    /\ roles' = Put(roles, <<r, e>>, [user |-> e, template |-> Chosen(r), store |-> None])
    /\ rights' = IF Is(r, "hire")
                 THEN Grant(rights, r, e, Everywhere(w.grants) \cup c.explicit) ELSE rights
    /\ members' = members \cup ({e} \X c.stores)
    /\ Goto(r, IF Is(r, "hire") THEN "mail" ELSE "draw", w)
    /\ UNCHANGED <<templates, call, raced, torn>>

EmailIsTaken(r) ==
    /\ pc[r] = "commit" /\ ~ Is(r, "edit") /\ work[r].user \in users
    /\ Fail(r)

InsertRights(r) ==
    /\ pc[r] = "insert"
    /\ rights' = Grant(rights, r, work[r].user, Everywhere(work[r].grants))
    /\ Goto(r, "mail", work[r])
    /\ UNCHANGED <<templates, users, roles, members, call, raced, torn>>

Mail(r) ==
    /\ pc[r] = "mail"
    /\ Goto(r, "ok", work[r])
    /\ UNCHANGED <<db, call, raced, torn>>

\* The employee stays all the same, and the email is taken.
MailFails(r) ==
    /\ pc[r] = "mail"
    /\ Fail(r)

\* Mutant: the row of the user is not written first.
LockNobody(r) ==
    /\ pc[r] = "user"
    /\ Advance(r, work[r])
    /\ UNCHANGED <<db, call, raced, torn>>

\* The row of the user is updated, which other transactions wait for.
LockUser(r) ==
    LET row == {<<work[r].user>>} IN
    /\ pc[r] = "user" /\ Free(r, row)
    /\ Advance(r, [work[r] EXCEPT !.held = @ \cup row])
    /\ UNCHANGED <<db, call, raced, torn>>

\* A deleteMany sees the rows that are there when it starts, ...
Look(r) ==
    LET u == work[r].user IN
    /\ pc[r] \in {"roles", "rights", "stores"}
    /\ Goto(r, "take",
            [work[r] EXCEPT !.snap = CASE pc[r] = "roles" -> RolesOf(u)
                                       [] pc[r] = "rights" -> RightsOf(u)
                                       [] OTHER -> {p \in members : p[1] = u}])
    /\ UNCHANGED <<db, call, raced, torn>>

\* ... and deletes those that are left when no other transaction holds them.
Take(r) ==
    LET w == work[r]
        left == w.snap \cap (DOMAIN roles \cup DOMAIN rights \cup members)
    IN
    /\ pc[r] = "take" /\ Is(r, "edit") /\ Free(r, w.snap)
    /\ Advance(r, [w EXCEPT !.held = @ \cup left, !.snap = {}])
    /\ UNCHANGED <<db, call, raced, torn>>

CommitEdit(r) ==
    LET w == work[r]  c == call[r]  u == w.user
        given == Everywhere(w.grants) \cup IF c.explicit = None THEN {} ELSE c.explicit
    IN
    /\ pc[r] = "commit" /\ Is(r, "edit")
    /\ roles' = IF c.changes
                THEN Put(Drop(roles, w.held), <<r, u>>,
                         [user |-> u, template |-> Chosen(r), store |-> None])
                ELSE roles
    /\ rights' = Grant(Drop(rights, w.held), r, u, given)
    /\ members' = IF c.stores = None THEN members
                  ELSE (members \ w.held) \cup ({u} \X c.stores)
    /\ Goto(r, "ok", w)
    /\ UNCHANGED <<templates, users, call, raced, torn>>

ClearStores(r) ==
    LET w == work[r] IN
    /\ pc[r] = "take" /\ Is(r, "setStores") /\ Free(r, w.snap)
    /\ members' = members \ w.snap
    /\ Goto(r, IF call[r].stores = {} THEN "ok" ELSE "add", [w EXCEPT !.todo = call[r].stores])
    /\ UNCHANGED <<templates, users, roles, rights, call, raced, torn>>

AfterStore(r, s) ==
    Goto(r, IF work[r].todo = {s} THEN "ok" ELSE "add", [work[r] EXCEPT !.todo = @ \ {s}])

\* A row that is there already throws, which is swallowed.
AddStore(r) ==
    /\ pc[r] = "add"
    /\ \E s \in work[r].todo :
         LET pair == <<work[r].user, s>> IN
         /\ Free(r, {pair})
         /\ members' = members \cup {pair}
         /\ AfterStore(r, s)
    /\ UNCHANGED <<templates, users, roles, rights, call, raced, torn>>

----------------------------------------------------------------------------
(* Role templates *)

\* One transaction for all users; a role without a store is always made anew.
AssignTemplate(r) ==
    LET s == call[r].store
        same(u) == {i \in RolesOf(u) : /\ roles[i].template \in call[r].templates
                                       /\ s # None /\ roles[i].store = s}
        new == {<<r, u>> : u \in {x \in call[r].users : same(x) = {}}}
    IN
    /\ pc[r] = "assign" /\ Free(r, UNION {same(u) : u \in call[r].users})
    /\ roles' = [i \in DOMAIN roles \cup new |->
                   IF i \in new THEN [user |-> i[2], template |-> Chosen(r), store |-> s]
                   ELSE roles[i]]
    /\ Goto(r, "ok", work[r])
    /\ UNCHANGED <<templates, users, rights, members, call, raced, torn>>

\* The name of a template stays taken when it is deleted.
WriteTemplate(r) ==
    /\ pc[r] = "template"
    /\ IF Is(r, "createTemplate") /\ Chosen(r) \in DOMAIN templates
       THEN Goto(r, "failed", Rest) /\ UNCHANGED templates
       ELSE templates' = Put(templates, Chosen(r), call[r].row) /\ Goto(r, "ok", work[r])
    /\ UNCHANGED <<users, roles, rights, members, call, raced, torn>>

\* Mutant: a template in use is deleted.
CountNothing(r) ==
    /\ pc[r] = "count"
    /\ Goto(r, "retire", work[r])
    /\ UNCHANGED <<db, call, raced, torn>>

CountRoles(r) ==
    /\ pc[r] = "count"
    /\ Goto(r, IF \E i \in DOMAIN roles : roles[i].template \in call[r].templates
               THEN "refused" ELSE "retire", work[r])
    /\ UNCHANGED <<db, call, raced, torn>>

RetireTemplate(r) ==
    /\ pc[r] = "retire"
    /\ templates' = [t \in DOMAIN templates |->
                       [templates[t] EXCEPT !.active = @ /\ t \notin call[r].templates]]
    /\ Goto(r, "ok", work[r])
    /\ UNCHANGED <<users, roles, rights, members, call, raced, torn>>

----------------------------------------------------------------------------
(* What the guard and the lists of permissions answer *)

May(u, s, a) ==
    \E i \in RightsAt(u, s) : a \in rights[i].actions /\ rights[i].grant \in {"lasting", "timed"}

\* What roles grant, for a store or everywhere, whether their templates are deleted
\* or not.
RoleGrants(u, S) ==
    UNION {templates[roles[i].template].grants : i \in {x \in RolesOf(u) : roles[x].store \in S}}

Allowed(u, s, a) == May(u, s, a) \/ May(u, None, a) \/ a \in RoleGrants(u, {s, None})

\* The guard lets pass who has the action in a store of its own; without a store, in
\* any of them or everywhere.  The stores of the user are read with each request.
Passes(u, s, a) ==
    IF s = None THEN Allowed(u, None, a) \/ \E p \in members : p[1] = u /\ Allowed(u, p[2], a)
    ELSE <<u, s>> \in members /\ Allowed(u, s, a)

\* Mutant: the roles that are for no store are not read.
ListingOfStore(u, s) ==
    LET rows == {i \in RightsOf(u) : /\ rights[i].grant # "denied"
                                     /\ \/ rights[i].store \in {s, None}
                                        \/ rights[i].grant # "expired"}
        L == (UNION {{rights[i].store} \X rights[i].actions : i \in rows})
             \cup Everywhere(RoleGrants(u, {s}))
    IN {x \in L : x[1] = None => \A q \in Stores : <<q, x[2]>> \notin L}

\* The places and actions that are listed, when a store is asked for or none is.  A
\* right that expired is left out only when it is of another store, and an action
\* listed for a store is not listed for everywhere.
Listing(u, s) ==
    LET rows == {i \in RightsOf(u) : /\ rights[i].grant # "denied"
                                     /\ \/ rights[i].store \in {s, None}
                                        \/ rights[i].grant # "expired"}
        L == (UNION {{rights[i].store} \X rights[i].actions : i \in rows})
             \cup Everywhere(RoleGrants(u, {s, None}))
    IN {x \in L : x[1] = None => \A q \in Stores : <<q, x[2]>> \notin L}

----------------------------------------------------------------------------
(* The specification *)

\* No connection for a statement, or an end of the transaction that rolls it
\* back.  Two errors are swallowed: an invitation then gives no rights, a store
\* is not assigned.
Swallows(r) == (pc[r] = "draw" /\ Is(r, "invite")) \/ pc[r] = "add"

NoConnection(r) ==
    /\ InFlight(r) /\ pc[r] # "mail"
    /\ IF pc[r] = "add" THEN \E s \in work[r].todo : AfterStore(r, s)
       ELSE IF Swallows(r) THEN Goto(r, "mail", work[r])
       ELSE Goto(r, "failed", Rest)
    /\ torn' = IF Swallows(r) THEN torn \cup {r} ELSE torn
    /\ UNCHANGED <<db, call, raced>>

Crash ==
    /\ \E r \in Requests : InFlight(r)
    /\ pc' = [r \in Requests |-> IF InFlight(r) THEN "failed" ELSE pc[r]]
    /\ work' = [r \in Requests |-> Rest]
    /\ UNCHANGED <<db, call, raced, torn>>

Expire ==
    /\ \E i \in DOMAIN rights :
         rights[i].grant = "timed" /\ rights' = [rights EXCEPT ![i].grant = "expired"]
    /\ UNCHANGED <<templates, users, roles, members, pc, call, work, raced, torn>>

Step(r) ==
    \/ NextUser(r) \/ Join(r) \/ JoinThrows(r) \/ FindRight(r) \/ WriteRight(r)
    \/ RevokeRight(r) \/ RightIsGone(r)
    \/ Draw(r) \/ CommitHire(r) \/ EmailIsTaken(r) \/ InsertRights(r) \/ Mail(r) \/ MailFails(r)
    \/ LockUser(r) \/ Look(r) \/ Take(r) \/ CommitEdit(r) \/ ClearStores(r) \/ AddStore(r)
    \/ AssignTemplate(r) \/ WriteTemplate(r) \/ CountRoles(r) \/ RetireTemplate(r)
    \/ NoConnection(r)

Choices(S) == (SUBSET S) \ {{}}

Receive(r) ==
    /\ pc[r] = "idle"
    /\ \/ \E s \in Places, A \in Choices(Actions) :
            \/ \E U \in Choices(users), g \in {"lasting", "timed", "denied"} :
                 BeginAssign(r, U, s, A, g)
            \/ \E u \in users : BeginRevoke(r, u, s, A)
       \/ \E S \in SUBSET Stores :
            \/ \E e \in Emails, t \in DOMAIN templates, X \in Wishes \cup {{}} :
                 BeginHire(r, e, t, X, S)
            \/ \E e \in Emails, t \in DOMAIN templates \cup {None} : BeginInvite(r, e, t, S)
            \/ \E u \in users : BeginSetStores(r, u, S)
       \/ \E u \in users, t \in DOMAIN templates \cup {None},
             X \in Wishes \cup {None}, S \in (SUBSET Stores) \cup {None},
             data \in BOOLEAN : BeginEdit(r, u, t, X, S, data)
       \/ \E u \in users : BeginSetRights(r, u)
       \/ \E U \in Choices(users), t \in DOMAIN templates, s \in Places :
            BeginAssignTemplate(r, U, t, s)
       \/ \E t \in Templates, G \in GrantSets, d \in BOOLEAN :
            BeginTemplate(r, "createTemplate", t, [active |-> TRUE, default |-> d, grants |-> G])
       \/ \E t \in DOMAIN templates, G \in GrantSets, active \in BOOLEAN :
            BeginTemplate(r, "updateTemplate", t,
                          [active |-> active, default |-> templates[t].default, grants |-> G])
       \/ \E t \in DOMAIN templates : BeginTemplate(r, "deleteTemplate", t, None)

Next ==
    \/ \E r \in Requests : Receive(r) \/ Step(r)
    \/ Crash
    \/ Expire

Spec == Init /\ [][Next]_vars

----------------------------------------------------------------------------
(* Properties *)

Pcs == Ended \cup {"idle", "next", "join", "find", "write", "draw", "commit", "insert", "mail",
                  "user", "roles", "rights", "stores", "take", "add", "assign", "template",
                  "count", "retire"}

\* Rows have their types, no row refers to one that is gone, and none of Permission
\* is without actions.
TypeOK ==
    /\ DOMAIN templates \subseteq Templates
    /\ \A t \in DOMAIN templates : templates[t] \in Template
    /\ users \subseteq Emails
    /\ \A i \in DOMAIN roles : /\ i[1] \in Makers /\ roles[i] \in Role
                              /\ roles[i].user \in users
                              /\ roles[i].template \in DOMAIN templates
    /\ \A i \in DOMAIN rights : /\ i[1] \in Makers /\ rights[i] \in Right
                               /\ rights[i].user \in users
    /\ members \subseteq users \X Stores
    /\ pc \in [Requests -> Pcs]
    /\ \A r \in Requests : work[r].held # {} => Is(r, "edit") /\ InFlight(r)
    /\ torn \subseteq Requests

\* The roles of the user, beside those that were assigned to it as templates.
OwnRoles(u) == {i \in RolesOf(u) : i[1] = Seed \/ ~ Is(i[1], "assignTemplate")}

\* However edits overlap, an employee has one role of its own.
OneRole == \A u \in users : Cardinality(OwnRoles(u)) = 1

Together(q, r) == {q, r} \in raced

\* The request may take an action in a place from the user.
TakesAway(r, s, a) ==
    \/ Is(r, "edit")
    \/ Is(r, "revoke") /\ call[r].store = s /\ a \in call[r].actions
    \/ Is(r, "assign") /\ call[r].store = s /\ call[r].grant = "denied"

\* A right goes only when it was given for a time, or at a request to take it, or
\* when two assignments or revocations of the user in that place overlap.
RightsLostOnlyWhenAsked ==
    [][rights' # rights => \A u \in users, s \in Places, a \in Actions :
         (May(u, s, a) /\ ~ May(u, s, a)') =>
            \/ \E i \in RightsAt(u, s) : i \in DOMAIN rights' /\ rights'[i].grant = "expired"
            \/ \E r \in Requests :
                  /\ pc'[r] # pc[r] /\ u \in call[r].users
                  /\ \/ TakesAway(r, s, a)
                     \/ \E q \in Requests :
                          /\ Together(q, r) /\ u \in call[q].users
                          /\ call[q].op \in {"assign", "revoke"} /\ call[q].store = s]_vars

\* The guard and the list shown to the user agree.  An action listed for a store or
\* for everywhere passes there, unless the user is not of the store or the right
\* expired; one that passes is listed, be it for another store only, unless the user
\* has it by a role in a store and asked for the list of none.
AnswersAgree ==
    \A u \in users, s \in Places :
        LET list == Listing(u, s) IN
        \A a \in Actions :
            /\ {<<s, a>>, <<None, a>>} \cap list # {} =>
                  \/ Passes(u, s, a)
                  \/ s # None /\ <<u, s>> \notin members
                  \/ \E i \in RightsAt(u, s) \cup RightsAt(u, None) :
                        rights[i].grant = "expired" /\ a \in rights[i].actions
            /\ Passes(u, s, a) =>
                  \/ \E p \in Places : <<p, a>> \in list
                  \/ s = None /\ a \in RoleGrants(u, Stores)

HasExactly(u, X) == {x \in Places \X Actions : May(u, x[1], x[2])} = X
StoresAre(u, S) == {p \in members : p[1] = u} = {u} \X S

\* Another request, on the same user or template, at the same time.
Conflicts(r) ==
    {q \in Requests : /\ Together(q, r)
                      /\ \/ call[q].users \cap call[r].users # {}
                         \/ call[q].templates \cap call[r].templates # {}}

Achieved(r) ==
    LET c == call[r] IN
    CASE Is(r, "assign") ->
           c.grant # "denied" => \A u \in c.users, a \in c.actions : Passes(u, c.store, a)
      [] Is(r, "revoke") ->
           c.single => \A u \in c.users, a \in c.actions : ~ May(u, c.store, a)
      [] Is(r, "hire") \/ Is(r, "invite") ->
           \A u \in c.users, t \in c.templates :
               /\ TemplatesOf(u) = {t}
               /\ HasExactly(u, c.explicit \cup Everywhere(Granted(t)))
               /\ StoresAre(u, c.stores)
      [] Is(r, "edit") ->
           \A u \in c.users :
               /\ c.changes => TemplatesOf(u) = c.templates
                               /\ \A t \in c.templates : templates[t].active
               /\ (c.changes \/ c.explicit # None) => \E t \in c.templates :
                     HasExactly(u, Everywhere(Granted(t))
                                     \cup IF c.explicit = None THEN {} ELSE c.explicit)
               /\ c.stores # None => StoresAre(u, c.stores)
      [] Is(r, "setStores") -> \A u \in c.users : StoresAre(u, c.stores)
      [] Is(r, "assignTemplate") -> \A u \in c.users : c.templates \subseteq TemplatesOf(u)
      [] Is(r, "deleteTemplate") ->
           \A t \in c.templates : /\ ~ templates[t].active
                                  /\ \A u \in users : t \notin TemplatesOf(u)
      [] OTHER -> TRUE

\* A request that answers with success has done what it was asked, unless it
\* swallowed an error or another one worked on the same user or template meanwhile:
\* who was given a right passes the guard, who was hired has the rights of the
\* template, and a template that was deleted has no users.
SuccessIsComplete ==
    [][\A r \in Requests :
         (pc[r] # "ok" /\ pc'[r] = "ok") =>
             (Achieved(r) \/ r \in torn \/ Conflicts(r) # {})']_vars

----------------------------------------------------------------------------
(* The inductive invariants that the proofs use *)

Stages == {"user", "roles", "rights", "draw", "stores", "commit"}

RightIds == Makers \X Emails \X Places \X SUBSET Actions
RoleIds == Makers \X Emails

\* Roles, rights, stores and the lock of a user.
RowsOf(u) ==
    (Makers \X {u}) \cup (Makers \X {u} \X Places \X SUBSET Actions) \cup ({u} \X Stores)
    \cup {<<u>>}

\* What a request asks for, when U are the users and T the templates.
Asks(c, U, T) ==
    /\ c.users \subseteq Emails
    /\ c.op \notin {"hire", "invite"} => c.users \subseteq U
    /\ c.op \in {"assign", "revoke"} => c.actions \in (SUBSET Actions) \ {{}}
    /\ c.op \in {"assign", "revoke", "assignTemplate"} => c.store \in Places
    /\ c.op = "assign" => c.grant \in {"lasting", "timed", "denied"}
    /\ c.op \in {"hire", "invite", "setStores"} => c.stores \subseteq Stores
    /\ c.op = "hire" => c.explicit \subseteq Places \X Actions
    /\ c.op = "edit" => /\ c.changes \in BOOLEAN
                        /\ c.explicit # None => c.explicit \subseteq Places \X Actions
                        /\ c.stores # None => c.stores \subseteq Stores
    /\ (\/ c.op \in {"hire", "invite", "assignTemplate", "updateTemplate", "deleteTemplate"}
        \/ c.op = "edit" /\ c.changes) =>
          c.templates # {} /\ c.templates \subseteq T
    /\ c.op = "createTemplate" => c.templates # {} /\ c.templates \subseteq Templates
    /\ c.op \in {"createTemplate", "updateTemplate"} => c.row \in Template

\* Which kinds of requests come to which statement.
Runs(p, op) ==
    /\ p = "idle" => op = "none"
    /\ p \in {"next", "join"} => op = "assign"
    /\ p \in {"find", "write"} => op \in {"assign", "revoke"}
    /\ p \in {"draw", "commit"} => op \in {"hire", "invite", "edit"}
    /\ p = "insert" => op = "invite"
    /\ p = "mail" => op \in {"hire", "invite"}
    /\ p \in {"user", "roles", "rights"} => op = "edit"
    /\ p \in {"stores", "take"} => op \in {"edit", "setStores"}
    /\ p = "add" => op = "setStores"
    /\ p = "assign" => op = "assignTemplate"
    /\ p = "template" => op \in {"createTemplate", "updateTemplate"}
    /\ p \in {"count", "retire"} => op = "deleteTemplate"

Found == [id : RightIds, actions : SUBSET Actions]

Work == [user : Emails \cup {None}, todo : SUBSET (Emails \cup Stores), found : Found \cup {None},
         snap : SUBSET UNION {RowsOf(u) : u \in Emails},
         held : SUBSET UNION {RowsOf(u) : u \in Emails},
         grants : SUBSET Actions, plan : SUBSET Stages]

\* The local state w of a request at p fits what it asks for.
Fits(c, p, w, U) ==
    /\ w \in Work
    /\ Runs(p, c.op)
    /\ p \notin Ended \cup {"idle"} =>
          /\ c.op \in {"revoke", "hire", "invite", "edit", "setStores"} => c.users = {w.user}
          /\ c.op = "assign" => w.todo \subseteq c.users
          /\ c.op = "setStores" => w.todo \subseteq c.stores
          /\ c.op \in {"edit", "setStores"} => w.snap \cup w.held \subseteq RowsOf(w.user)
    /\ p \in {"join", "find", "write"} /\ c.op = "assign" => w.user \in w.todo
    /\ p = "join" => c.store \in Stores
    /\ p = "insert" \/ (c.op = "invite" /\ p = "draw") => w.user \in U
    /\ p = "write" /\ (c.op = "revoke" \/ w.found # None) =>
          w.found \in Found /\ w.found.id[2] = w.user /\ w.found.id[3] = c.store
    /\ w.held # {} => c.op = "edit" /\ p \notin Ended \cup {"idle"}

\* The id of a row says whose it is and where.
RowsFit ==
    /\ DOMAIN templates \subseteq Templates
    /\ \A t \in DOMAIN templates : templates[t] \in Template
    /\ users \subseteq Emails
    /\ \A i \in DOMAIN roles : /\ roles[i] \in Role /\ i \in RoleIds /\ roles[i].user = i[2]
                              /\ roles[i].user \in users
                              /\ roles[i].template \in DOMAIN templates
    /\ \A i \in DOMAIN rights : /\ rights[i] \in Right /\ i \in RightIds
                               /\ rights[i].user = i[2] /\ rights[i].store = i[3]
                               /\ rights[i].user \in users
    /\ members \subseteq users \X Stores

RequestsFit ==
    /\ pc \in [Requests -> Pcs]
    /\ DOMAIN call = Requests /\ DOMAIN work = Requests
    /\ \A q \in Requests : /\ Asks(call[q], users, DOMAIN templates)
                          /\ Fits(call[q], pc[q], work[q], users)

TypeInv == RowsFit /\ RequestsFit /\ torn \subseteq Requests

\* A request at p may yet insert rights of the user.
MayInsert(c, p, w, u) ==
    \/ p = "idle"
    \/ c.op = "assign" /\ p \in {"next", "join", "find", "write"} /\ u \in w.todo
    \/ c.op = "hire" /\ p \in {"draw", "commit"}
    \/ c.op = "invite" /\ p \in {"draw", "commit", "insert"}
    \/ c.op = "edit" /\ p \notin Ended

Inserts(r, u) == MayInsert(call[r], pc[r], work[r], u)

\* An id is used once: whoever made the row makes no other one for the user.
Spent(i) == i[1] \in Requests => ~ Inserts(i[1], i[2])

\* Another assignment or revocation was at work on the rights of the user in the place.
Raced(r, u, s) ==
    \E q \in Requests : /\ Together(q, r) /\ u \in call[q].users
                        /\ call[q].op \in {"assign", "revoke"} /\ call[q].store = s

\* The row a request found is what it read, or was raced for.
FindHolds(r) ==
    LET found == work[r].found IN
    pc[r] = "write" /\ (Is(r, "revoke") \/ found # None) =>
        /\ Spent(found.id)
        /\ found.id \in DOMAIN rights /\ rights[found.id].actions # found.actions =>
              Raced(r, work[r].user, call[r].store)

RaceInv ==
    /\ \A i \in DOMAIN rights : Spent(i)
    /\ \A r \in Requests : FindHolds(r)
    /\ \A q, r \in Requests : q # r /\ InFlight(q) /\ InFlight(r) => Together(q, r)

\* An edit that changes the role, at p with local state w: it holds the row of the user
\* once that is updated, and the roles of its own once they are deleted.
Holds(c, p, w, own) ==
    (c.op = "edit" /\ p \notin Ended) =>
        /\ p \in Stages => p = First(w.plan)
        /\ p = "take" => First(w.plan) \in {"roles", "rights", "stores"}
        /\ c.changes =>
              /\ "user" \notin w.plan => <<w.user>> \in w.held
              /\ p = "take" /\ "roles" \in w.plan => own \subseteq w.snap
              /\ "roles" \notin w.plan => "user" \notin w.plan /\ own \subseteq w.held

LockInv ==
    /\ \A i \in DOMAIN roles : i[1] \in Requests => pc[i[1]] # "idle"
    /\ \A u \in users : \E i \in DOMAIN roles : OwnRoles(u) = {i}
    /\ \A r \in Requests : Holds(call[r], pc[r], work[r], OwnRoles(work[r].user))
    /\ \A q, r \in Requests, u \in Emails :
          <<u>> \in work[q].held \cap work[r].held => q = r

MembersOf(u) == {p \in members : p[1] = u}

\* The user has what r assigns.
Given(r, u) ==
    LET c == call[r] IN
    /\ c.store # None => <<u, c.store>> \in members
    /\ \E i \in RightsAt(u, c.store) :
          rights[i].grant = c.grant /\ c.actions \subseteq rights[i].actions

AssignDone(r) ==
    LET c == call[r]  w == work[r] IN
    /\ c.grant # "denied" => \A u \in c.users \ w.todo : Given(r, u)
    /\ pc[r] \in {"find", "write"} /\ c.store # None => <<w.user, c.store>> \in members

RevokeDone(r) ==
    LET rows == RightsAt(work[r].user, call[r].store)  found == work[r].found IN
    call[r].single =>
        /\ pc[r] = "find" => \A i, j \in rows : i = j
        /\ pc[r] = "write" => rows \subseteq {found.id}
                              /\ \A i \in rows : rights[i].actions = found.actions

HireDone(r) ==
    LET c == call[r] IN
    /\ (Is(r, "hire") /\ pc[r] = "commit") \/ pc[r] = "insert" =>
          \A t \in c.templates : work[r].grants = Granted(t)
    /\ (Is(r, "invite") /\ pc[r] = "draw") \/ pc[r] = "insert" =>
          \A u \in c.users : /\ \A t \in c.templates : TemplatesOf(u) = {t}
                             /\ StoresAre(u, c.stores) /\ RightsOf(u) = {}
    /\ pc[r] = "mail" =>
          /\ Achieved(r)
          /\ \A u \in c.users : \A i \in RightsOf(u) : rights[i].grant = "lasting"

\* The rows that an edit deletes at stage s.
Cleared(r, s, rows) ==
    LET w == work[r] IN
    /\ s \notin w.plan => rows \subseteq w.held
    /\ pc[r] = "take" /\ First(w.plan) = s => rows \subseteq w.snap

EditDone(r) ==
    LET c == call[r]  w == work[r]  u == w.user IN
    /\ c.changes => /\ \A t \in c.templates : templates[t].active
                    /\ Cleared(r, "roles", RolesOf(u))
    /\ ~ c.changes => TemplatesOf(u) \subseteq c.templates
    /\ c.changes \/ c.explicit # None =>
          /\ Cleared(r, "rights", RightsOf(u))
          /\ "draw" \notin w.plan => \E t \in c.templates : w.grants = Granted(t)
    /\ c.stores # None => Cleared(r, "stores", MembersOf(u))

StoresDone(r) ==
    LET c == call[r]  w == work[r]  u == w.user IN
    /\ pc[r] = "take" => MembersOf(u) \subseteq w.snap
    /\ pc[r] = "add" => MembersOf(u) = {u} \X (c.stores \ w.todo)

\* What a request has done where it is.
Done(r) ==
    /\ pc[r] = "ok" => Achieved(r)
    /\ InFlight(r) =>
         /\ Is(r, "assign") => AssignDone(r)
         /\ Is(r, "revoke") => RevokeDone(r)
         /\ Is(r, "hire") \/ Is(r, "invite") => HireDone(r)
         /\ Is(r, "edit") => EditDone(r)
         /\ Is(r, "setStores") => StoresDone(r)
         /\ pc[r] = "retire" =>
              \A i \in DOMAIN roles : roles[i].template \notin call[r].templates

\* Several users are given lasting rights only, and a request gives one template.
CallFits(r) ==
    LET c == call[r] IN
    /\ pc[r] = "idle" => c.users = {} /\ c.templates = {}
    /\ (c.op \in {"hire", "invite", "assignTemplate"} \/ (c.op = "edit" /\ c.changes)) =>
          \E t \in Templates : c.templates = {t}
    /\ Is(r, "assign") => /\ c.grant # "lasting" => \E u \in Emails : c.users = {u}
                          /\ pc[r] = "next" => work[r].todo # {}
    /\ Is(r, "invite") => c.explicit = {}

DoneInv ==
    /\ \A r \in Requests : CallFits(r)
    /\ \A r \in Requests : InFlight(r) => Done(r) \/ r \in torn \/ Conflicts(r) # {}
===============================================================================
