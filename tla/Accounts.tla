------------------------------ MODULE Accounts ------------------------------
(***************************************************************************)
(* Accounts, their audit log and their payments: the requests of           *)
(* app/api/auth.py and app/api/payments.py, each reading the user's row    *)
(* first and committing later, with bcrypt, JWT, the mail service and the  *)
(* payment gateway in between.  toggle_rule is here as the request that    *)
(* writes back the opposite of what it read.                               *)
(*                                                                         *)
(* Clients send tokens they were given, and the gateway alone can sign a   *)
(* payment; which plan, which user and how often a signature is presented  *)
(* for is the client's choice, as nothing in verify_payment ties them.  A  *)
(* token is its type and subject, and any token may be found expired.      *)
(* PUT /profile changes nothing a property is about; GET /me, /audit-log   *)
(* and /payments/status only read.  The gateway is configured: without its *)
(* keys, orders are mock ones and verification is skipped.                 *)
(***************************************************************************)
EXTENDS Naturals, FiniteSets

CONSTANTS
    Requests,     \* each is made at most once
    First,        \* id of an account registered before
    Emails,       \* normalized addresses
    Passwords,    \* acceptable ones
    Databases,    \* "postgres", "sqlite"
    None

ASSUME FirstAssumption     == First \notin Requests
ASSUME DatabasesAssumption == Databases \subseteq {"postgres", "sqlite"}

Ids       == Requests \cup {First}      \* an account is named by its registration
PaidPlans == {"pro", "prop_trader"}
Plans     == PaidPlans \cup {"free"}
User      == [email : Emails, password : Passwords, plan : Plans, ruleActive : BOOLEAN]
Token     == [type : {"access", "refresh", "reset"}, sub : Ids]
Read      == [id : Ids, row : User]

ASSUME NoneAssumption == None \notin Ids \cup User \cup Read

VARIABLES
    database,
    users,        \* rows of users, with the switch of a trading rule
    audit,        \* rows of audit_logs, by the request that wrote them
    issued,       \* tokens handed out
    orders,       \* orders of the gateway, by the request
    paid,         \* orders that were paid, and signed for
    req, pc,      \* each request and where it is
    got,          \* the user's id and row its SELECT returned
    toggled,      \* ghost: times a user's rule was toggled
    crossed       \* ghost: users who had two toggles in flight at once

rows  == <<users, audit>>
vars  == <<database, rows, issued, orders, paid, req, pc, got, toggled, crossed>>

Exists(u)   == users[u] # None
Holders(e)  == {u \in Ids : Exists(u) /\ users[u].email = e}
Tokens(u) == {[type |-> type, sub |-> u] : type \in {"access", "refresh"}}

Ask ==
    [op : {"register", "login"}, email : Emails, password : Passwords]
    \cup [op : {"refresh", "delete", "toggle"}, token : Token]
    \cup [op : {"change"}, token : Token, current : Passwords, password : Passwords]
    \cup [op : {"forgot"}, email : Emails]
    \cup [op : {"reset"}, token : Token, password : Passwords]
    \cup [op : {"order"}, token : Token, plan : PaidPlans]
    \cup [op : {"verify"}, token : Token, order : Requests \cup {None}, plan : PaidPlans]

NoAsk == [op |-> "none"]

Fresh(e, p) == [email |-> e, password |-> p, plan |-> "free", ruleActive |-> TRUE]

Init ==
    /\ database \in Databases
    /\ \E e \in Emails, p \in Passwords :
        users = [u \in Ids |-> IF u = First THEN Fresh(e, p) ELSE None]
    /\ audit = {}
    /\ issued = Tokens(First)
    /\ orders = {} /\ paid = {}
    /\ req = [r \in Requests |-> NoAsk]
    /\ pc = [r \in Requests |-> "idle"]
    /\ got = [r \in Requests |-> None]
    /\ toggled = [u \in Ids |-> 0] /\ crossed = {}

-----------------------------------------------------------------------------
(* Arrival and the SELECT.                                                 *)

ByToken == {"refresh", "delete", "toggle", "change", "reset", "order", "verify"}

\* decode_refresh_token and reset_password's test; get_current_user takes the token of
\* a reset mail as well.
TokenTypes(op) ==
    CASE op = "refresh" -> {"refresh"} [] op = "reset" -> {"reset"}
      [] OTHER -> {"access", "reset"}

\* A verification presents the signature of some paid order, or one that is not valid
\* (None), with any plan.
Arrive(r, ask) ==
    /\ pc[r] = "idle"
    /\ ask.op \in ByToken => ask.token \in issued /\ ask.token.type \in TokenTypes(ask.op)
    /\ ask.op = "verify" => ask.order \in paid \cup {None}
    /\ req' = [req EXCEPT ![r] = ask]
    /\ pc' = [pc EXCEPT ![r] = "open"]
    /\ UNCHANGED <<database, rows, issued, orders, paid, got, toggled, crossed>>

\* The user a request is about: its token's subject or the holder of its address.
Subject(r) ==
    IF req[r].op \in ByToken THEN {u \in {req[r].token.sub} : Exists(u)}
                             ELSE Holders(req[r].email)

\* What the handlers ask of the request and of the row they have read.
Accepts(r, u) ==
    CASE req[r].op = "login"  -> users[u].password = req[r].password
      [] req[r].op = "change" -> users[u].password = req[r].current
      [] req[r].op = "order"  -> users[u].plan # req[r].plan
      [] req[r].op = "verify" -> req[r].order # None
      [] OTHER                -> TRUE

Toggling(u) == {q \in Requests : pc[q] = "read" /\ req[q].op = "toggle" /\ got[q].id = u}

\* The row is read; the request goes on to hash, to await the mail service or the
\* gateway, and to write.
Select(r) ==
    /\ pc[r] = "open" /\ req[r].op # "register"
    /\ \E u \in Subject(r) :
        /\ Accepts(r, u)
        /\ got' = [got EXCEPT ![r] = [id |-> u, row |-> users[u]]]
        /\ crossed' = IF req[r].op = "toggle" /\ Toggling(u) # {} THEN crossed \cup {u}
                                                                  ELSE crossed
    /\ pc' = [pc EXCEPT ![r] = "read"]
    /\ UNCHANGED <<database, rows, issued, orders, paid, req, toggled>>

SelectNobody(r) ==
    /\ pc[r] = "open" /\ req[r].op = "register" /\ Subject(r) = {}
    /\ pc' = [pc EXCEPT ![r] = "read"]
    /\ UNCHANGED <<database, rows, issued, orders, paid, req, got, toggled, crossed>>

Fail(r) ==
    /\ pc' = [pc EXCEPT ![r] = "failed"]
    /\ UNCHANGED <<database, rows, issued, orders, paid, req, got, toggled, crossed>>

\* 400, 401, 404 or 409; forgot_password answers the same for unknown addresses.
Refuse(r) ==
    /\ pc[r] = "open"
    /\ \/ req[r].op \in ByToken
       \/ req[r].op = "register" /\ Subject(r) # {}
       \/ req[r].op # "register" /\ \A u \in Subject(r) : ~Accepts(r, u)
    /\ Fail(r)

-----------------------------------------------------------------------------
(* The writes.                                                             *)

Is(r, ops) == pc[r] = "read" /\ req[r].op \in ops
Gone(r)    == ~Exists(got[r].id)

Log(r, u)  == audit \cup {[by |-> r, user |-> u, action |-> req[r].op]}

\* The transaction of r commits with these rows and hands out these tokens.
Commit(r, newUsers, newAudit, tokens) ==
    /\ users' = newUsers /\ audit' = newAudit
    /\ issued' = issued \cup tokens
    /\ pc' = [pc EXCEPT ![r] = "done"]
    /\ UNCHANGED <<database, orders, paid, req, got, crossed>>

\* (mutant of Register) nothing keeps two rows with one address out.
RegisterTwice(r) ==
    /\ Is(r, {"register"})
    /\ Commit(r, [users EXCEPT ![r] = Fresh(req[r].email, req[r].password)],
              Log(r, r), Tokens(r))
    /\ UNCHANGED toggled

\* The unique index on users.email decides between two registrations.
Register(r) ==
    /\ Is(r, {"register"}) /\ Holders(req[r].email) = {}
    /\ Commit(r, [users EXCEPT ![r] = Fresh(req[r].email, req[r].password)],
              Log(r, r), Tokens(r))
    /\ UNCHANGED toggled

Login(r) ==
    /\ Is(r, {"login"})
    /\ Gone(r) => database = "sqlite"        \* audit_logs.user_id is not enforced
    /\ Commit(r, users, Log(r, got[r].id), Tokens(got[r].id))
    /\ UNCHANGED toggled

Refresh(r) ==
    /\ Is(r, {"refresh"})
    /\ Commit(r, users, audit, Tokens(got[r].id))
    /\ UNCHANGED toggled

\* The mail is sent, or not: the answer is the same.
Forgot(r) ==
    /\ Is(r, {"forgot"})
    /\ \E sent \in SUBSET {[type |-> "reset", sub |-> got[r].id]} :
        Commit(r, users, audit, sent)
    /\ UNCHANGED toggled

\* (mutant of SetPassword) the row read is written back whole.
SetPasswordMerge(r) ==
    /\ Is(r, {"change", "reset"})
    /\ Commit(r, [users EXCEPT ![got[r].id] = [got[r].row EXCEPT !.password = req[r].password]],
              IF req[r].op = "change" THEN Log(r, got[r].id) ELSE audit, {})
    /\ UNCHANGED toggled

\* (mutant of SetPassword) a reset is logged as well.
SetPasswordLogged(r) ==
    /\ Is(r, {"change", "reset"}) /\ ~Gone(r)
    /\ Commit(r, [users EXCEPT ![got[r].id].password = req[r].password], Log(r, got[r].id), {})
    /\ UNCHANGED toggled

\* (mutant of SetPassword) the reset is logged, the change is not.
SetPasswordUnlogged(r) ==
    /\ Is(r, {"change", "reset"}) /\ ~Gone(r)
    /\ Commit(r, [users EXCEPT ![got[r].id].password = req[r].password],
              IF req[r].op = "reset" THEN Log(r, got[r].id) ELSE audit, {})
    /\ UNCHANGED toggled

SetPassword(r) ==
    /\ Is(r, {"change", "reset"}) /\ ~Gone(r)
    /\ Commit(r, [users EXCEPT ![got[r].id].password = req[r].password],
              IF req[r].op = "change" THEN Log(r, got[r].id) ELSE audit, {})
    /\ UNCHANGED toggled

\* (mutant of Toggle) the switch is set from what was read to off.
ToggleOff(r) ==
    /\ Is(r, {"toggle"}) /\ ~Gone(r)
    /\ Commit(r, [users EXCEPT ![got[r].id].ruleActive = FALSE], audit, {})
    /\ toggled' = [toggled EXCEPT ![got[r].id] = @ + 1]

Toggle(r) ==
    /\ Is(r, {"toggle"}) /\ ~Gone(r)
    /\ Commit(r, [users EXCEPT ![got[r].id].ruleActive = ~got[r].row.ruleActive], audit, {})
    /\ toggled' = [toggled EXCEPT ![got[r].id] = @ + 1]

\* (mutant of Delete) the audit log is kept.
DeleteUserOnly(r) ==
    /\ Is(r, {"delete"})
    /\ Commit(r, [users EXCEPT ![got[r].id] = None], audit, {})
    /\ UNCHANGED toggled

\* The audit log and the user; a second DELETE of the row only warns.
Delete(r) ==
    /\ Is(r, {"delete"})
    /\ Commit(r, [users EXCEPT ![got[r].id] = None],
              {a \in audit : a.user # got[r].id}, {})
    /\ UNCHANGED toggled

\* IntegrityError on a taken address or a user who is gone, StaleDataError on an
\* UPDATE of a row that is gone, or the gateway fails or cannot be reached.
WriteFails(r) ==
    /\ pc[r] = "read"
    /\ \/ req[r].op = "register" /\ Holders(req[r].email) # {}
       \/ req[r].op = "login" /\ Gone(r) /\ database = "postgres"
       \/ req[r].op \in {"change", "reset", "toggle", "verify"} /\ Gone(r)
       \/ req[r].op = "order"
    /\ Fail(r)

-----------------------------------------------------------------------------
(* Payments.                                                               *)

CreateOrder(r) ==
    /\ Is(r, {"order"})
    /\ orders' = orders \cup {r}
    /\ pc' = [pc EXCEPT ![r] = "done"]
    /\ UNCHANGED <<database, rows, issued, paid, req, got, toggled, crossed>>

\* At the gateway.
Pay(o) ==
    /\ o \in orders \ paid
    /\ paid' = paid \cup {o}
    /\ UNCHANGED <<database, rows, issued, orders, req, pc, got, toggled, crossed>>

\* verify_payment's first commit.  A plan equal to the one read is not written.
Upgrade(r) ==
    /\ Is(r, {"verify"}) /\ ~Gone(r)
    /\ users' = IF got[r].row.plan = req[r].plan THEN users
                ELSE [users EXCEPT ![got[r].id].plan = req[r].plan]
    /\ pc' = [pc EXCEPT ![r] = "upgraded"]
    /\ UNCHANGED <<database, audit, issued, orders, paid, req, got, toggled, crossed>>

\* refresh and the audit entry, in a second transaction; the process may end in
\* between or the account be deleted.
LogUpgrade(r) ==
    /\ pc[r] = "upgraded" /\ ~Gone(r)
    /\ audit' = Log(r, got[r].id)
    /\ pc' = [pc EXCEPT ![r] = "done"]
    /\ UNCHANGED <<database, users, issued, orders, paid, req, got, toggled, crossed>>

Interrupted(r) ==
    /\ pc[r] = "upgraded"
    /\ pc' = [pc EXCEPT ![r] = "unlogged"]
    /\ UNCHANGED <<database, rows, issued, orders, paid, req, got, toggled, crossed>>

-----------------------------------------------------------------------------
Next ==
    \/ \E r \in Requests :
        \/ \E ask \in Ask : Arrive(r, ask)
        \/ Select(r) \/ SelectNobody(r) \/ Refuse(r)
        \/ Register(r) \/ Login(r) \/ Refresh(r) \/ Forgot(r) \/ SetPassword(r)
        \/ Toggle(r) \/ Delete(r) \/ WriteFails(r)
        \/ CreateOrder(r) \/ Upgrade(r) \/ LogUpgrade(r) \/ Interrupted(r)
        \/ Pay(r)

Spec == Init /\ [][Next]_vars

-----------------------------------------------------------------------------
(* Properties.                                                             *)

TypeOK ==
    /\ database \in Databases
    /\ users \in [Ids -> User \cup {None}]
    /\ audit \subseteq [by : Requests, user : Ids,
                        action : {"register", "login", "change", "verify"}]
    /\ issued \subseteq Token
    /\ orders \subseteq Requests /\ paid \subseteq orders
    /\ req \in [Requests -> Ask \cup {NoAsk}]
    /\ pc \in [Requests -> {"idle", "open", "read", "upgraded", "unlogged", "done", "failed"}]
    /\ got \in [Requests -> Read \cup {None}]
    /\ toggled \in [Ids -> Nat] /\ crossed \subseteq Ids

\* An address has one account, however many registrations overlap (user.py:28).
OneAccountPerAddress == \A e \in Emails : Cardinality(Holders(e)) <= 1

\* The audit log of an existing account is exactly its finished registration,
\* logins, password changes and upgrades; on PostgreSQL no entry outlives its
\* account, also when a login overlaps the deletion.
Logged == {"register", "login", "change", "verify"}
AuditComplete ==
    \A r \in Requests, u \in Ids : Exists(u) =>
        ((\E a \in audit : a.by = r /\ a.user = u) <=>
            /\ pc[r] = "done" /\ req[r].op \in Logged
            /\ u = IF req[r].op = "register" THEN r ELSE got[r].id)
AuditLinked == database = "postgres" => \A a \in audit : Exists(a.user)

\* A user's plan is free until one of the user's verifications has committed, and one of
\* the plans these named from then on, whether or not they were logged: no request that
\* had read the row before takes an upgrade back.
Upgraders(u) ==
    {r \in Requests : /\ req[r].op = "verify" /\ got[r] # None /\ got[r].id = u
                      /\ pc[r] \in {"upgraded", "unlogged", "done"}}
PlanIsVerified ==
    \A u \in Ids : Exists(u) =>
        IF Upgraders(u) = {} THEN users[u].plan = "free"
                             ELSE \E r \in Upgraders(u) : users[u].plan = req[r].plan

\* A rule is on after an even number of toggles, unless two of them overlapped.
TogglesCount ==
    \A u \in Ids \ crossed : Exists(u) =>
        (users[u].ruleActive <=> toggled[u] % 2 = 0)

\* A deleted account stays deleted: only its registration brings an account about,
\* and no request that had read the row writes it back.
DeletedStaysDeleted ==
    [][\A u \in Ids : ~Exists(u) /\ Exists(u)' => u # First /\ pc[u] = "read"]_vars
=============================================================================
